----------------------------- MODULE Refresher -----------------------------
(***************************************************************************)
(* SourceRefresher for one subscription source: the coroutines that call   *)
(* refresh(), the job the first of them starts, the callers that wait on   *)
(* it, and the cache record all of them read and write.                    *)
(*                                                                         *)
(* One action is what a coroutine does between two awaits.  The record     *)
(* store is reached through its asyncio.Lock, which serves its waiters in  *)
(* arrival order: a client that asked is in storeQ, and the head is the    *)
(* next one served.  Everything the class keys by the source's name is     *)
(* independent of the other sources, so one source is enough.              *)
(*                                                                         *)
(* A definition that says "Variant" is a fault put into the one after it;  *)
(* no other definition uses it.                                            *)
(***************************************************************************)
EXTENDS Naturals, Sequences, SequencesExt

CONSTANTS
    Callers,        \* coroutines that call refresh(source)
    NoCaller,       \* "no entry" for the in-flight table and the lock
    Versions,       \* contents the subscription URL may serve
    EmptyVersions,  \* those of which no node is left after parse and transform
    NoVersion,      \* no content, no validator
    DnsEnabled,     \* source.dns.enabled
    MayTimeOut,     \* refresh_lock_timeout may expire before the job is done
    StoreMayFail,   \* cache_store.get and .set may raise
    MayLoseFile,    \* the cache file may be removed or found corrupt
    MaxCalls        \* bound: calls of refresh() in a behaviour

ASSUME CallerAssumption == NoCaller \notin Callers
ASSUME VersionAssumption == NoVersion \notin Versions /\ EmptyVersions \subseteq Versions
ASSUME SwitchAssumption == {DnsEnabled, MayTimeOut, StoreMayFail, MayLoseFile} \subseteq BOOLEAN
ASSUME BoundAssumption == MaxCalls \in Nat

VARIABLES
    stored,      \* the SourceCache record the store holds
    storeQ,      \* clients of the store's lock, in arrival order
    inflight,    \* SourceRefresher._inflight: the caller that owns the job
    lock,        \* SourceRefresher._locks: the holder
    refreshing,  \* membership in JsonSourceCacheStore._refreshing
    pc,          \* where each coroutine (a caller, or the job it owns) awaits
    target,      \* the owner of the job a waiting caller is shielded on
    now,         \* the timestamp each job or failure record captured
    old,         \* old_cache of each job
    draft,       \* the record each client is building or writing
    result,      \* the RefreshResult, exception or cancellation of each
    clock,       \* timestamps given out so far
    calls,       \* calls made so far
    stopping     \* the lifespan is shutting down: tasks may be cancelled

shared == <<stored, storeQ, inflight, lock, refreshing>>
local == <<pc, target, now, old, draft, result>>
vars == <<shared, local, clock, calls, stopping>>

----------------------------------------------------------------------------
(* Program counters.  A caller and the job it owns are never both able to  *)
(* move: the owner awaits its job, so one counter serves both.             *)

Fetching == {"plugins", "fetch", "dns"}
JobStore == {"get", "counts", "set", "fcounts", "fset", "rget", "rset"}
Locked == Fetching \cup JobStore
InJob == Locked \cup {"acquire", "done"}
WaiterStore == {"wget", "wset"}
InStore == JobStore \cup WaiterStore
Writing == {"set", "fset", "rset", "wset"}
PCs == {"idle", "wait", "reply"} \cup InJob \cup WaiterStore

Results == {"none", "ok", "failed", "raised", "cancelled"}
Contents == Versions \cup {NoVersion}

(* SourceCache.  nodes stands for proxies, node_count and warnings; etag   *)
(* for both validators; att and suc are last_attempt_at, last_success_at   *)
(* (0 is None); err is last_error # None.                                  *)
Records ==
    [present: BOOLEAN, nodes: Contents, etag: Contents, err: BOOLEAN,
     att: Nat, suc: Nat, tries: Nat, oks: Nat, fails: Nat]

(* get() returned None: every "x if cache else default" reads a default.   *)
NoCache ==
    [present |-> FALSE, nodes |-> NoVersion, etag |-> NoVersion, err |-> FALSE,
     att |-> 0, suc |-> 0, tries |-> 0, oks |-> 0, fails |-> 0]

(* What a body becomes after parse_subscription and apply_transform.       *)
NodesOf(v) == IF v \in EmptyVersions THEN NoVersion ELSE v

Fetched(v, tag) ==
    [present |-> FALSE, nodes |-> NodesOf(v), etag |-> tag, err |-> FALSE,
     att |-> 0, suc |-> 0, tries |-> 0, oks |-> 0, fails |-> 0]

----------------------------------------------------------------------------
(* The records the refresher writes.                                       *)

\* Variant: the counts of old_cache, however stale.
LatestIsOld(c) == old[c]

Latest(c) == IF stored.present THEN stored ELSE old[c]

\* Variant: keep the last validator when the answer carries none.
SucceededOldTag(content, base, t) ==
    [present |-> TRUE, nodes |-> content.nodes, err |-> FALSE,
     etag |-> IF content.etag = NoVersion THEN base.etag ELSE content.etag,
     att |-> t, suc |-> t,
     tries |-> base.tries + 1, oks |-> base.oks + 1, fails |-> base.fails]

\* Variant: successes from the content, attempts from the latest.
SucceededMixedCounts(content, base, t) ==
    [present |-> TRUE, nodes |-> content.nodes, etag |-> content.etag, err |-> FALSE,
     att |-> t, suc |-> t,
     tries |-> base.tries + 1, oks |-> content.oks + 1, fails |-> base.fails]

\* Variant: a success leaves last_attempt_at alone.
SucceededNoAttempt(content, base, t) ==
    [present |-> TRUE, nodes |-> content.nodes, etag |-> content.etag, err |-> FALSE,
     att |-> content.att, suc |-> t,
     tries |-> base.tries + 1, oks |-> base.oks + 1, fails |-> base.fails]

Succeeded(content, base, t) ==
    [present |-> TRUE, nodes |-> content.nodes, etag |-> content.etag, err |-> FALSE,
     att |-> t, suc |-> t,
     tries |-> base.tries + 1, oks |-> base.oks + 1, fails |-> base.fails]

\* Variant: a failure takes a success back.
FailedTakesBack(content, base, t) ==
    [present |-> TRUE, nodes |-> content.nodes, etag |-> content.etag, err |-> TRUE,
     att |-> t, suc |-> content.suc,
     tries |-> base.tries + 1, oks |-> base.oks - 1, fails |-> base.fails + 1]

\* Variant: a failure drops the validator.
FailedDropsTag(content, base, t) ==
    [present |-> TRUE, nodes |-> content.nodes, etag |-> NoVersion, err |-> TRUE,
     att |-> t, suc |-> content.suc,
     tries |-> base.tries + 1, oks |-> base.oks, fails |-> base.fails + 1]

Failed(content, base, t) ==
    [present |-> TRUE, nodes |-> content.nodes, etag |-> content.etag, err |-> TRUE,
     att |-> t, suc |-> content.suc,
     tries |-> base.tries + 1, oks |-> base.oks, fails |-> base.fails + 1]

(* Parts of the steps.                                                     *)

Goto(c, p) == pc' = [pc EXCEPT ![c] = p]
Served(c) == storeQ # <<>> /\ Head(storeQ) = c
Ask(c) == storeQ' = Append(storeQ, c)
AskAgain(c) == storeQ' = Append(Tail(storeQ), c)
LeaveStore == storeQ' = Tail(storeQ)

Stamp(c) ==
    /\ clock' = clock + 1
    /\ now' = [now EXCEPT ![c] = clock + 1]

\* Variant: set_refreshing(False) is not in the finally clause.
FinishKeepsFlag(c, r) ==
    /\ Goto(c, "done")
    /\ result' = [result EXCEPT ![c] = r]
    /\ lock' = NoCaller
    /\ UNCHANGED refreshing

(* The job's task ends: the two finally clauses, then the task is done.    *)
Finish(c, r) ==
    /\ Goto(c, "done")
    /\ result' = [result EXCEPT ![c] = r]
    /\ refreshing' = FALSE
    /\ lock' = NoCaller

(* except Exception: write a failure next to the content of old_cache, or  *)
(* record a failed attempt when the job has read none.                     *)
Except(c) ==
    IF old[c].present
    THEN Goto(c, "fcounts") /\ UNCHANGED <<now, clock>>
    ELSE Goto(c, "rget") /\ Stamp(c)

----------------------------------------------------------------------------
(* refresh()                                                               *)

\* Variant: start a job without a look at the in-flight table.
StartUnchecked(c) ==
    /\ pc[c] = "idle" /\ ~stopping /\ calls < MaxCalls
    /\ inflight' = c
    /\ Goto(c, "acquire")
    /\ calls' = calls + 1
    /\ UNCHANGED <<stored, storeQ, lock, refreshing, target, now, old, draft,
                   result, clock, stopping>>

Start(c) ==
    /\ pc[c] = "idle" /\ ~stopping /\ calls < MaxCalls
    /\ inflight = NoCaller
    /\ inflight' = c
    /\ Goto(c, "acquire")
    /\ calls' = calls + 1
    /\ UNCHANGED <<stored, storeQ, lock, refreshing, target, now, old, draft,
                   result, clock, stopping>>

Join(c) ==
    /\ pc[c] = "idle" /\ ~stopping /\ calls < MaxCalls
    /\ inflight # NoCaller /\ pc[inflight] # "done"
    /\ target' = [target EXCEPT ![c] = inflight]
    /\ Goto(c, "wait")
    /\ calls' = calls + 1
    /\ UNCHANGED <<shared, now, old, draft, result, clock, stopping>>

(* existing.done(): the callback that removes the entry has yet to run.    *)
JoinDone(c) ==
    /\ pc[c] = "idle" /\ ~stopping /\ calls < MaxCalls
    /\ inflight # NoCaller /\ pc[inflight] = "done"
    /\ result' = [result EXCEPT ![c] = result[inflight]]
    /\ Goto(c, "reply")
    /\ calls' = calls + 1
    /\ UNCHANGED <<shared, target, now, old, draft, clock, stopping>>

\* Variant: a waiter that gives up removes the entry.
TimeOutPops(c) ==
    /\ MayTimeOut
    /\ pc[c] = "wait" \/ (pc[c] = "reply" /\ target[c] # NoCaller)
    /\ inflight' = NoCaller
    /\ target' = [target EXCEPT ![c] = NoCaller]
    /\ result' = [result EXCEPT ![c] = "none"]
    /\ Stamp(c)
    /\ Goto(c, "wget")
    /\ Ask(c)
    /\ UNCHANGED <<stored, lock, refreshing, old, draft, calls, stopping>>

\* Variant: the wait has no timeout.
TimeOutLate(c) ==
    /\ MayTimeOut
    /\ pc[c] = "reply" /\ target[c] # NoCaller
    /\ target' = [target EXCEPT ![c] = NoCaller]
    /\ result' = [result EXCEPT ![c] = "none"]
    /\ Stamp(c)
    /\ Goto(c, "wget")
    /\ Ask(c)
    /\ UNCHANGED <<stored, inflight, lock, refreshing, old, draft, calls, stopping>>

(* wait_for gives up, possibly after the job has answered but before the   *)
(* waiter has run.                                                         *)
TimeOut(c) ==
    /\ MayTimeOut
    /\ pc[c] = "wait" \/ (pc[c] = "reply" /\ target[c] # NoCaller)
    /\ target' = [target EXCEPT ![c] = NoCaller]
    /\ result' = [result EXCEPT ![c] = "none"]
    /\ Stamp(c)
    /\ Goto(c, "wget")
    /\ Ask(c)
    /\ UNCHANGED <<stored, inflight, lock, refreshing, old, draft, calls, stopping>>

\* Variant: waiters are not woken.
PopOwnerOnly(c) ==
    /\ pc[c] = "done"
    /\ inflight' = NoCaller
    /\ Goto(c, "reply")
    /\ now' = [now EXCEPT ![c] = 0]
    /\ old' = [old EXCEPT ![c] = NoCache]
    /\ draft' = [draft EXCEPT ![c] = NoCache]
    /\ UNCHANGED <<stored, storeQ, lock, refreshing, target, result, clock, calls,
                   stopping>>

(* The job's done callbacks, in the order they were added: the entry is    *)
(* popped by name, then the owner and the shielded waiters are woken.      *)
Pop(c) ==
    LET woken == {c} \cup {d \in Callers : pc[d] = "wait" /\ target[d] = c} IN
    /\ pc[c] = "done"
    /\ inflight' = NoCaller
    /\ pc' = [d \in Callers |-> IF d \in woken THEN "reply" ELSE pc[d]]
    /\ result' = [d \in Callers |-> IF d \in woken THEN result[c] ELSE result[d]]
    /\ now' = [now EXCEPT ![c] = 0]
    /\ old' = [old EXCEPT ![c] = NoCache]
    /\ draft' = [draft EXCEPT ![c] = NoCache]
    /\ UNCHANGED <<stored, storeQ, lock, refreshing, target, clock, calls, stopping>>

Return(c) ==
    /\ pc[c] = "reply"
    /\ Goto(c, "idle")
    /\ result' = [result EXCEPT ![c] = "none"]
    /\ target' = [target EXCEPT ![c] = NoCaller]
    /\ UNCHANGED <<shared, now, old, draft, clock, calls, stopping>>

----------------------------------------------------------------------------
(* _refresh_with_lock() and _refresh_locked()                              *)

(* Its TimeoutError branch is left out: LockNeverContended shows the lock  *)
(* is free whenever a job gets here.                                       *)
Acquire(c) ==
    /\ pc[c] = "acquire" /\ lock = NoCaller
    /\ lock' = c
    /\ refreshing' = TRUE
    /\ Stamp(c)
    /\ Goto(c, "get")
    /\ Ask(c)
    /\ UNCHANGED <<stored, inflight, target, old, draft, result, calls, stopping>>

Get(c) ==
    /\ pc[c] = "get" /\ Served(c)
    /\ \/ /\ old' = [old EXCEPT ![c] = stored]
          /\ Goto(c, "plugins")
          /\ LeaveStore
          /\ UNCHANGED <<now, clock>>
       \/ /\ StoreMayFail
          /\ Except(c)
          /\ AskAgain(c)
          /\ UNCHANGED old
    /\ UNCHANGED <<stored, inflight, lock, refreshing, target, draft, result,
                   calls, stopping>>

(* The before_fetch plugins ran, or one whose on_failure is abort failed.  *)
Plugins(c) ==
    /\ pc[c] = "plugins"
    /\ \/ Goto(c, "fetch") /\ UNCHANGED <<storeQ, now, clock>>
       \/ Except(c) /\ Ask(c)
    /\ UNCHANGED <<stored, inflight, lock, refreshing, target, old, draft, result,
                   calls, stopping>>

SentValidator(c) == IF DnsEnabled THEN NoVersion ELSE old[c].etag

FetchBody(c) ==
    /\ pc[c] = "fetch"
    /\ \E v \in Versions : \E tag \in {v, NoVersion} :
          \/ /\ DnsEnabled
             /\ draft' = [draft EXCEPT ![c] = Fetched(v, tag)]
             /\ Goto(c, "dns")
             /\ UNCHANGED <<storeQ, now, clock>>
          \/ /\ ~DnsEnabled /\ NodesOf(v) # NoVersion
             /\ draft' = [draft EXCEPT ![c] = Fetched(v, tag)]
             /\ Goto(c, "counts")
             /\ Ask(c)
             /\ UNCHANGED <<now, clock>>
          \/ /\ ~DnsEnabled /\ NodesOf(v) = NoVersion
             /\ Except(c)
             /\ Ask(c)
             /\ UNCHANGED draft
    /\ UNCHANGED <<stored, inflight, lock, refreshing, target, old, result,
                   calls, stopping>>

(* 304: the server still has the content whose validator was sent.         *)
FetchNotModified(c) ==
    /\ pc[c] = "fetch" /\ old[c].present /\ SentValidator(c) # NoVersion
    /\ draft' = [draft EXCEPT ![c] = old[c]]
    /\ Goto(c, "counts")
    /\ Ask(c)
    /\ UNCHANGED <<stored, inflight, lock, refreshing, target, now, old, result,
                   clock, calls, stopping>>

(* The request fails, or its body cannot be parsed.                        *)
FetchError(c) ==
    /\ pc[c] = "fetch"
    /\ Except(c)
    /\ Ask(c)
    /\ UNCHANGED <<stored, inflight, lock, refreshing, target, old, draft, result,
                   calls, stopping>>

\* Variant: no check that nodes are left.
DnsKeepsEmpty(c) ==
    /\ pc[c] = "dns"
    /\ \/ Goto(c, "counts") /\ UNCHANGED <<now, clock>>
       \/ Except(c)
    /\ Ask(c)
    /\ UNCHANGED <<stored, inflight, lock, refreshing, target, old, draft, result,
                   calls, stopping>>

(* resolve_records returns with nodes left, or raises or drops them all.   *)
Dns(c) ==
    /\ pc[c] = "dns"
    /\ \/ /\ draft[c].nodes # NoVersion
          /\ Goto(c, "counts")
          /\ UNCHANGED <<now, clock>>
       \/ Except(c)
    /\ Ask(c)
    /\ UNCHANGED <<stored, inflight, lock, refreshing, target, old, draft, result,
                   calls, stopping>>

(* _next_counts_from_latest(success=True)                                  *)
Counts(c) ==
    /\ pc[c] = "counts" /\ Served(c)
    /\ \/ /\ draft' = [draft EXCEPT ![c] = Succeeded(draft[c], Latest(c), now[c])]
          /\ Goto(c, "set")
          /\ UNCHANGED <<now, clock>>
       \/ /\ StoreMayFail
          /\ Except(c)
          /\ UNCHANGED draft
    /\ AskAgain(c)
    /\ UNCHANGED <<stored, inflight, lock, refreshing, target, old, result,
                   calls, stopping>>

Set(c) ==
    /\ pc[c] = "set" /\ Served(c)
    /\ \/ /\ stored' = draft[c]
          /\ Finish(c, "ok")
          /\ LeaveStore
          /\ UNCHANGED <<now, clock>>
       \/ /\ StoreMayFail
          /\ Except(c)
          /\ AskAgain(c)
          /\ UNCHANGED <<stored, lock, refreshing, result>>
    /\ UNCHANGED <<inflight, target, old, draft, calls, stopping>>

(* _next_counts_from_latest(success=False), inside the except clause: an   *)
(* exception here leaves refresh().                                        *)
FailCounts(c) ==
    /\ pc[c] = "fcounts" /\ Served(c)
    /\ \/ /\ draft' = [draft EXCEPT ![c] = Failed(old[c], Latest(c), now[c])]
          /\ Goto(c, "fset")
          /\ AskAgain(c)
          /\ UNCHANGED <<lock, refreshing, result>>
       \/ /\ StoreMayFail
          /\ Finish(c, "raised")
          /\ LeaveStore
          /\ UNCHANGED draft
    /\ UNCHANGED <<stored, inflight, target, now, old, clock, calls, stopping>>

FailSet(c) ==
    /\ pc[c] = "fset" /\ Served(c)
    /\ \/ stored' = draft[c] /\ Finish(c, "failed")
       \/ StoreMayFail /\ Finish(c, "raised") /\ UNCHANGED stored
    /\ LeaveStore
    /\ UNCHANGED <<inflight, target, now, old, draft, clock, calls, stopping>>

----------------------------------------------------------------------------
(* _record_failed_attempt(), from a job that has read no record and from a *)
(* waiter whose wait timed out.  It swallows the store's exceptions.       *)

RecordGet(c) ==
    /\ pc[c] \in {"rget", "wget"} /\ Served(c)
    /\ draft' = [draft EXCEPT ![c] = Failed(stored, stored, now[c])]
    /\ Goto(c, IF pc[c] = "rget" THEN "rset" ELSE "wset")
    /\ AskAgain(c)
    /\ UNCHANGED <<stored, inflight, lock, refreshing, target, now, old, result,
                   clock, calls, stopping>>

JobRecorded(c) ==
    /\ Finish(c, "failed")
    /\ UNCHANGED <<now, draft>>

WaiterRecorded(c) ==
    /\ Goto(c, "reply")
    /\ result' = [result EXCEPT ![c] = "failed"]
    /\ now' = [now EXCEPT ![c] = 0]
    /\ draft' = [draft EXCEPT ![c] = NoCache]
    /\ UNCHANGED <<lock, refreshing>>

RecordSkip(c) ==
    /\ StoreMayFail
    /\ pc[c] \in {"rget", "wget", "rset", "wset"} /\ Served(c)
    /\ IF pc[c] \in InJob THEN JobRecorded(c) ELSE WaiterRecorded(c)
    /\ LeaveStore
    /\ UNCHANGED <<stored, inflight, target, old, clock, calls, stopping>>

RecordSet(c) ==
    /\ pc[c] \in {"rset", "wset"} /\ Served(c)
    /\ stored' = draft[c]
    /\ IF pc[c] \in InJob THEN JobRecorded(c) ELSE WaiterRecorded(c)
    /\ LeaveStore
    /\ UNCHANGED <<inflight, target, old, clock, calls, stopping>>

----------------------------------------------------------------------------
(* Shutdown, restart and the cache file's environment.                     *)

Stop ==
    /\ ~stopping
    /\ stopping' = TRUE
    /\ UNCHANGED <<shared, local, clock, calls>>

(* What a write in progress may leave when its coroutine or process dies.  *)
TornWrite ==
    stored' \in {stored} \cup
        {draft[c] : c \in {d \in Callers : pc[d] \in Writing /\ Served(d)}}

LeaveAnyQueue(c) ==
    IF pc[c] \in InStore
    THEN \E i \in 1 .. Len(storeQ) : storeQ[i] = c /\ storeQ' = RemoveAt(storeQ, i)
    ELSE UNCHANGED storeQ

(* task.cancel(): an owner cancels the job it awaits, a waiter is shielded *)
(* and cancels only itself.                                                *)
CancelJob(c) ==
    /\ stopping /\ pc[c] \in InJob \ {"done"}
    /\ IF pc[c] \in Writing /\ Served(c) THEN TornWrite ELSE UNCHANGED stored
    /\ LeaveAnyQueue(c)
    /\ IF pc[c] \in Locked
       THEN Finish(c, "cancelled")
       ELSE /\ Goto(c, "done")
            /\ result' = [result EXCEPT ![c] = "cancelled"]
            /\ UNCHANGED <<lock, refreshing>>
    /\ UNCHANGED <<inflight, target, now, old, draft, clock, calls, stopping>>

CancelWaiter(c) ==
    /\ stopping /\ pc[c] \in WaiterStore \cup {"wait"}
    /\ IF pc[c] \in Writing /\ Served(c) THEN TornWrite ELSE UNCHANGED stored
    /\ LeaveAnyQueue(c)
    /\ target' = [target EXCEPT ![c] = NoCaller]
    /\ Goto(c, "reply")
    /\ result' = [result EXCEPT ![c] = "cancelled"]
    /\ now' = [now EXCEPT ![c] = 0]
    /\ draft' = [draft EXCEPT ![c] = NoCache]
    /\ UNCHANGED <<inflight, lock, refreshing, old, clock, calls, stopping>>

Each(x) == [c \in Callers |-> x]

(* The process is killed, or has shut down, and runs again: only the cache *)
(* file survives, and os.replace leaves the old record or the new one.     *)
Restart ==
    /\ stopping \/ \E c \in Callers : pc[c] # "idle"
    /\ TornWrite
    /\ storeQ' = <<>> /\ inflight' = NoCaller /\ lock' = NoCaller
    /\ refreshing' = FALSE /\ stopping' = FALSE
    /\ pc' = Each("idle") /\ target' = Each(NoCaller) /\ now' = Each(0)
    /\ old' = Each(NoCache) /\ draft' = Each(NoCache) /\ result' = Each("none")
    /\ UNCHANGED <<clock, calls>>

LoseFile ==
    /\ MayLoseFile /\ stored.present
    /\ stored' = NoCache
    /\ UNCHANGED <<storeQ, inflight, lock, refreshing, local, clock, calls, stopping>>

(* No call is left to make.                                                *)
Terminated ==
    /\ calls = MaxCalls /\ \A c \in Callers : pc[c] = "idle"
    /\ UNCHANGED vars

----------------------------------------------------------------------------
Init ==
    /\ stored = NoCache
    /\ storeQ = <<>> /\ inflight = NoCaller /\ lock = NoCaller
    /\ refreshing = FALSE /\ stopping = FALSE
    /\ pc = Each("idle") /\ target = Each(NoCaller) /\ now = Each(0)
    /\ old = Each(NoCache) /\ draft = Each(NoCache) /\ result = Each("none")
    /\ clock = 0
    /\ calls = 0

Upstream(c) ==
    Plugins(c) \/ FetchBody(c) \/ FetchNotModified(c) \/ FetchError(c) \/ Dns(c)

StoreStep(c) ==
    \/ Get(c) \/ Counts(c) \/ Set(c) \/ FailCounts(c) \/ FailSet(c)
    \/ RecordGet(c) \/ RecordSkip(c) \/ RecordSet(c)

Step(c) == Acquire(c) \/ StoreStep(c) \/ Pop(c) \/ Return(c)

Call(c) == Start(c) \/ Join(c) \/ JoinDone(c)

Next ==
    \/ \E c \in Callers :
          \/ Call(c) \/ TimeOut(c) \/ Step(c) \/ Upstream(c)
          \/ CancelJob(c) \/ CancelWaiter(c)
    \/ Stop \/ Restart \/ LoseFile \/ Terminated

Spec == Init /\ [][Next]_vars

(* The event loop runs every ready coroutine and the store answers.        *)
LoopFairness == \A c \in Callers : WF_vars(Step(c))

FairSpec == Spec /\ LoopFairness

(* The HTTP client, the plugins and the resolver have timeouts of their    *)
(* own; the timer of a wait fires.                                         *)
UpstreamFairness == \A c \in Callers : WF_vars(Upstream(c))
TimerFairness == \A c \in Callers : WF_vars(TimeOut(c))

----------------------------------------------------------------------------
TypeOK ==
    /\ stored \in Records
    /\ storeQ \in Seq(Callers)
    /\ inflight \in Callers \cup {NoCaller}
    /\ lock \in Callers \cup {NoCaller}
    /\ refreshing \in BOOLEAN
    /\ pc \in [Callers -> PCs]
    /\ target \in [Callers -> Callers \cup {NoCaller}]
    /\ now \in [Callers -> Nat]
    /\ old \in [Callers -> Records]
    /\ draft \in [Callers -> Records]
    /\ result \in [Callers -> Results]
    /\ clock \in Nat
    /\ calls \in Nat
    /\ stopping \in BOOLEAN

(* At most one job refreshes the source, and it is the one the in-flight   *)
(* table names: a later call can neither start a second job nor wait on a  *)
(* job that is gone, whatever the order of done callbacks, time-outs and   *)
(* cancellations (refresher.py:104-136).                                   *)
SingleFlight == \A c \in Callers : pc[c] \in InJob <=> inflight = c

(* A job always finds the source's lock free, so its refresh_lock_timeout  *)
(* never expires on the lock: overlapping calls have met at the in-flight  *)
(* table before (refresher.py:149-163).                                    *)
LockNeverContended == \A c \in Callers : pc[c] = "acquire" => lock = NoCaller

(* The lock is held and the status page shows "refreshing" exactly while a *)
(* job is inside _refresh_locked, through every exception and              *)
(* cancellation (refresher.py:164-167, 418-419).                           *)
RefreshingWhileLocked ==
    /\ \A c \in Callers : pc[c] \in Locked <=> lock = c
    /\ refreshing <=> lock # NoCaller

(* A waiter is shielded on the job that is in flight: no waiter is left    *)
(* behind by a popped entry (refresher.py:111-118, 131-135).               *)
WaitersHaveAJob ==
    \A c \in Callers : pc[c] = "wait" => target[c] = inflight /\ inflight # NoCaller

(* A validator is only ever stored next to the nodes it validates, a       *)
(* record that claims success has nodes, and there are nodes exactly if    *)
(* there was a success: otherwise a 304 would keep stale or empty content  *)
(* alive for good (refresher.py:273-309, 349-369).                         *)
CoherentRecord(r) ==
    /\ r.etag # NoVersion => r.nodes = r.etag
    /\ r.nodes \notin EmptyVersions
    /\ r.present /\ ~r.err => r.nodes # NoVersion
    /\ r.nodes # NoVersion <=> r.suc > 0

CoherentCache == CoherentRecord(stored)

(* The counters of a record add up (refresher.py:169-175).                 *)
CountersBalance == stored.tries = stored.oks + stored.fails

(* No record says that the last success came after the last attempt: the   *)
(* due checks of the routes and of the scheduler compare both with the     *)
(* clock.  It rests on the store's lock serving in arrival order           *)
(* (refresher.py:187-205, 234).                                            *)
SuccessNotAfterAttempt == stored.suc <= stored.att

(* The attempt counter never goes back although three code paths read it,  *)
(* await, and write it: each asks to write as soon as it has read, so no   *)
(* other client can both read and write in between                         *)
(* (refresher.py:177-181, 197-214).                                        *)
AttemptsNeverDecrease ==
    [][stored.present /\ stored'.present => stored'.tries >= stored.tries]_stored

(* A recorded failure keeps the cached content and the time of the last    *)
(* success ("Source refresh failures do not delete old cache").            *)
FailureKeepsCache ==
    [][stored'.present /\ stored'.err =>
         /\ stored'.nodes = stored.nodes
         /\ stored'.etag = stored.etag
         /\ stored'.suc = stored.suc]_stored

(* As long as no wait times out, the refresher keeps its contract: each    *)
(* record written is one success or one failure after the record before    *)
(* (refresher.py:285-419).                                                 *)
Contract == INSTANCE RefreshContract WITH cache <- stored
KeepsContract == Contract!Spec

(* Every call of refresh() returns, for an owner, for a waiter and for one *)
(* that timed out, if each attempt to reach the upstream ends              *)
(* (refresher.py:93-136).                                                  *)
EveryCallReturns ==
    UpstreamFairness => \A c \in Callers : pc[c] # "idle" ~> pc[c] = "idle"

(* A caller that found a refresh in flight returns although the upstream   *)
(* of that refresh hangs: that is what refresh_lock_timeout is for         *)
(* (refresher.py:114-130).                                                 *)
WaiterReturns ==
    TimerFairness => \A c \in Callers : pc[c] = "wait" ~> pc[c] = "idle"
=============================================================================
