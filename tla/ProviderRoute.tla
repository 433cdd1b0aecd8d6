--------------------------- MODULE ProviderRoute ---------------------------
(***************************************************************************)
(* provider() of create_app: one request reads the records of its route's  *)
(* sources, starts refreshes for those that are due or missing, waits for  *)
(* the missing ones if it must, reads again, answers and leaves an audit   *)
(* record.  An action is what the handler does between two awaits.         *)
(*                                                                         *)
(* A definition that says "Variant" is a fault put into the one after it;  *)
(* no other definition uses it.                                            *)
(***************************************************************************)
EXTENDS RefreshCalls

VARIABLES
    pc,          \* where each request awaits
    next,        \* place of the source it reads next
    records,     \* places of the sources whose records it has collected
    due,         \* places of sources it found due
    missing,     \* places of sources it found without a valid record
    status,      \* its answer
    always,      \* (history) sources valid ever since the reading began
    ever,        \* (history) sources valid at some time since then
    background   \* background_tasks: calls that shutdown will cancel

routeVars == <<pc, next, records, due, missing, status, always, ever, background>>

PCs == {"idle", "read", "yield", "wait", "reread", "audit", "done"}
Statuses == {"none", "refused", "ok", "unrendered", "unavailable"}

Route == config.route
RequireAll == config.requireAll

RouteSources(r) == ToSet(Route[r])
CallOf(r, i) == <<r, Route[r][i], i>>
CallsOf(r, P) == {CallOf(r, i) : i \in P}
Collected(r) == {Route[r][i] : i \in ToSet(records[r])}
AllValid == {s \in Sources : Valid(s)}

Goto(r, p) == pc' = [pc EXCEPT ![r] = p]

Create(C) == call' = [t \in Calls |-> IF t \in C THEN "created" ELSE call[t]]

(* The history of a reading of the route's records.                        *)
ReadingBegins(r) ==
    /\ always' = [always EXCEPT ![r] = AllValid]
    /\ ever' = [ever EXCEPT ![r] = AllValid]

Reply(r, answer) ==
    /\ status' = [status EXCEPT ![r] = answer]
    /\ Goto(r, "audit")

----------------------------------------------------------------------------
Arrive(r) ==
    /\ pc[r] = "idle" /\ r \in config.come
    /\ Goto(r, IF Route[r] = <<>> THEN "yield" ELSE "read")
    /\ next' = [next EXCEPT ![r] = 1]
    /\ ReadingBegins(r)
    /\ UNCHANGED <<records, due, missing, status, background, callVars>>

(* User-Agent not allowed, or a target the route does not support.         *)
Refuse(r) ==
    /\ pc[r] = "idle" /\ r \in config.come
    /\ Reply(r, "refused")
    /\ UNCHANGED <<next, records, due, missing, always, ever, background, callVars>>

(* To the next source of the route.                                        *)
Advance(r) == next' = [next EXCEPT ![r] = next[r] + 1]

AtLast(r) == next[r] = Len(Route[r])

(* Render what was collected; the renderer may have no use for any of it.  *)
Answer(r, collected) ==
    \E answer \in IF collected = <<>> THEN {"unavailable"} ELSE {"ok", "unrendered"} :
        Reply(r, answer)

\* Variant: only the first of the due sources is refreshed.
SpawnFirst(r, places) ==
    LET first == {i \in places : \A j \in places : i <= j} IN
    /\ Create(CallsOf(r, first))
    /\ background' = background \cup CallsOf(r, first)

(* _spawn_background_refresh for each source that is due.                  *)
Spawn(r, places) ==
    /\ Create(CallsOf(r, places))
    /\ background' = background \cup CallsOf(r, places)

(* The handler's first turn with a record: it is collected, and the source *)
(* may be due; or the source is missing.  After the last source the due    *)
(* ones are refreshed.                                                     *)
Read(r) ==
    /\ pc[r] = "read"
    /\ LET i == next[r]
           s == Route[r][i]
       IN
       /\ records' = [records EXCEPT ![r] = IF Valid(s) THEN Append(@, i) ELSE @]
       /\ due' = [due EXCEPT ![r] = IF Valid(s) /\ Due(s) THEN @ \cup {i} ELSE @]
       /\ missing' = [missing EXCEPT ![r] = IF Valid(s) THEN @ ELSE @ \cup {i}]
    /\ Advance(r)
    /\ \/ ~AtLast(r) /\ UNCHANGED <<pc, call, background>>
       \/ AtLast(r) /\ Spawn(r, due'[r]) /\ Goto(r, "yield")
    /\ UNCHANGED <<status, always, ever, cache, job>>

(* Tasks that were created take a turn before the handler does, be it      *)
(* after sleep(0) or after a wait.                                         *)
HaveBegun(r, places) == \A t \in CallsOf(r, places) : call[t] # "created"

\* Variant: refreshes that nobody waits for are not kept track of.
StartMissingUntracked(r) ==
    LET mine == CallsOf(r, missing[r]) IN
    /\ pc[r] = "yield" /\ HaveBegun(r, due[r])
    /\ Create(mine)
    /\ IF mine # {} /\ (r \in RequireAll \/ records[r] = <<>>)
       THEN Goto(r, "wait") /\ UNCHANGED status
       ELSE Answer(r, records[r])
    /\ UNCHANGED <<next, records, due, missing, always, ever, background, cache, job>>

(* A refresh for each missing source.  The handler waits for them if the   *)
(* route requires all its sources or it has nothing to serve; else they go *)
(* on in the background, and it answers.                                   *)
StartMissing(r) ==
    LET mine == CallsOf(r, missing[r])
        waits == mine # {} /\ (r \in RequireAll \/ records[r] = <<>>)
    IN /\ pc[r] = "yield" /\ HaveBegun(r, due[r])
       /\ Create(mine)
       /\ \/ waits /\ Goto(r, "wait") /\ UNCHANGED <<status, background>>
          \/ ~waits /\ Answer(r, records[r]) /\ background' = background \cup mine
       /\ UNCHANGED <<next, records, due, missing, always, ever, cache, job>>

(* task_by_source: of two places of one source it keeps the last.          *)
TaskBySource(r) ==
    CallsOf(r, {i \in missing[r] : \A j \in missing[r] : Route[r][j] = Route[r][i] => j <= i})

\* Variant: the records of the first reading are kept.
CollectKeeps(r) ==
    /\ pc[r] = "wait" /\ HaveBegun(r, missing[r])
    /\ background' = background \cup {t \in TaskBySource(r) : call[t] \in Live}
    /\ next' = [next EXCEPT ![r] = 1]
    /\ ReadingBegins(r)
    /\ Goto(r, "reread")
    /\ UNCHANGED <<records, due, missing, status, callVars>>

\* Variant: wait without a timeout.
CollectAll(r) ==
    /\ pc[r] = "wait"
    /\ \A t \in CallsOf(r, missing[r]) : call[t] \notin Live
    /\ records' = [records EXCEPT ![r] = <<>>]
    /\ next' = [next EXCEPT ![r] = 1]
    /\ ReadingBegins(r)
    /\ Goto(r, "reread")
    /\ UNCHANGED <<due, missing, status, background, callVars>>

(* All refreshes are done or route_refresh_wait is over: those pending go  *)
(* on in the background, and the first reading is forgotten.               *)
Collect(r) ==
    /\ pc[r] = "wait" /\ HaveBegun(r, missing[r])
    /\ background' = background \cup {t \in TaskBySource(r) : call[t] \in Live}
    /\ records' = [records EXCEPT ![r] = <<>>]
    /\ next' = [next EXCEPT ![r] = 1]
    /\ ReadingBegins(r)
    /\ Goto(r, "reread")
    /\ UNCHANGED <<due, missing, status, callVars>>

\* Variant: the second reading takes whatever record there is.
RereadAny(r) ==
    LET s == Route[r][next[r]]
        taken == IF cache[s] # "none" THEN Append(records[r], next[r]) ELSE records[r]
    IN /\ pc[r] = "reread"
       /\ records' = [records EXCEPT ![r] = taken]
       /\ IF AtLast(r) THEN Answer(r, taken) ELSE UNCHANGED <<pc, status>>
       /\ Advance(r)
       /\ UNCHANGED <<due, missing, always, ever, background, callVars>>

\* Variant: the second reading goes to the missing sources only.
RereadMissing(r) ==
    LET s == Route[r][next[r]]
        taken == IF Valid(s) /\ next[r] \in missing[r] THEN Append(records[r], next[r]) ELSE records[r]
    IN /\ pc[r] = "reread"
       /\ \/ /\ taken # records[r] \/ r \notin RequireAll
             /\ IF AtLast(r) THEN Answer(r, taken) ELSE UNCHANGED <<pc, status>>
          \/ /\ taken = records[r] /\ r \in RequireAll
             /\ Reply(r, "unavailable")
       /\ records' = [records EXCEPT ![r] = taken]
       /\ Advance(r)
       /\ UNCHANGED <<due, missing, always, ever, background, callVars>>

(* The second reading; a route that requires all its sources gives up at   *)
(* the first that is still not valid.                                      *)
Reread(r) ==
    LET s == Route[r][next[r]]
        taken == IF Valid(s) THEN Append(records[r], next[r]) ELSE records[r]
    IN /\ pc[r] = "reread"
       /\ \/ /\ Valid(s) \/ r \notin RequireAll
             /\ \/ AtLast(r) /\ Answer(r, taken)
                \/ ~AtLast(r) /\ UNCHANGED <<pc, status>>
          \/ /\ ~Valid(s) /\ r \in RequireAll
             /\ Reply(r, "unavailable")
       /\ records' = [records EXCEPT ![r] = taken]
       /\ Advance(r)
       /\ UNCHANGED <<due, missing, always, ever, background, callVars>>

(* The audit record is written, or the failure to do so is logged, before  *)
(* the answer leaves.                                                      *)
Audit(r) ==
    /\ pc[r] = "audit"
    /\ Goto(r, "done")
    /\ next' = [next EXCEPT ![r] = 0]
    /\ records' = [records EXCEPT ![r] = <<>>]
    /\ due' = [due EXCEPT ![r] = {}]
    /\ missing' = [missing EXCEPT ![r] = {}]
    /\ always' = [always EXCEPT ![r] = {}]
    /\ ever' = [ever EXCEPT ![r] = {}]
    /\ status' = [status EXCEPT ![r] = "none"]
    /\ UNCHANGED <<background, callVars>>

Handle(r) ==
    \/ Read(r) \/ StartMissing(r) \/ Collect(r) \/ Reread(r) \/ Audit(r)

(* What happens to a record while a request is under way.                  *)
Observe ==
    LET here(r) == pc[r] \notin {"idle", "done"} IN
    /\ always' = [r \in Requests |-> {s \in always[r] : Valid(s)' }]
    /\ ever' = [r \in Requests |-> IF here(r) THEN ever[r] \cup {s \in Sources : Valid(s)' } ELSE ever[r]]

(* A task that ends leaves background_tasks.                               *)
Discard == background' = {t \in background : call'[t] \in Live}

RouteInit ==
    /\ pc = [r \in Requests |-> "idle"]
    /\ next = [r \in Requests |-> 0]
    /\ records = [r \in Requests |-> <<>>]
    /\ due = [r \in Requests |-> {}]
    /\ missing = [r \in Requests |-> {}]
    /\ status = [r \in Requests |-> "none"]
    /\ always = [r \in Requests |-> {}]
    /\ ever = [r \in Requests |-> {}]
    /\ background = {}

RouteTypeOK ==
    /\ pc \in [Requests -> PCs]
    /\ next \in [Requests -> Nat]
    /\ DOMAIN records = Requests
    /\ \A r \in Requests : records[r] \in Seq(DOMAIN Route[r])
    /\ due \in [Requests -> SUBSET Places]
    /\ missing \in [Requests -> SUBSET Places]
    /\ status \in [Requests -> Statuses]
    /\ always \in [Requests -> SUBSET Sources]
    /\ ever \in [Requests -> SUBSET Sources]
    /\ background \subseteq Calls
=============================================================================
