-------------------------- MODULE RefreshContract --------------------------
(***************************************************************************)
(* What the refresher promises about one source's cache record, whoever    *)
(* asks for refreshes: a success replaces content and validator together   *)
(* and leaves nodes to serve, a failure is noted beside the content of the *)
(* last success, and each adds exactly one to its counter and to the       *)
(* attempts.                                                               *)
(***************************************************************************)
EXTENDS Naturals

CONSTANTS Versions, EmptyVersions, NoVersion

VARIABLE cache

(* s is the next record after r.                                           *)
Follows(r, s) == s.present /\ s.att > r.att /\ s.tries = r.tries + 1

SuccessAfter(r, s) ==
    /\ Follows(r, s)
    /\ s.nodes \in Versions \ EmptyVersions
    /\ s.etag \in {s.nodes, NoVersion}
    /\ ~s.err /\ s.suc = s.att
    /\ s.oks = r.oks + 1 /\ s.fails = r.fails

FailureAfter(r, s) ==
    /\ Follows(r, s)
    /\ s.nodes = r.nodes /\ s.etag = r.etag
    /\ s.err /\ s.suc = r.suc
    /\ s.oks = r.oks /\ s.fails = r.fails + 1

Init == ~cache.present /\ cache.tries = 0 /\ cache.att = 0

Succeed == SuccessAfter(cache, cache')

Fail == FailureAfter(cache, cache')

Next == Succeed \/ Fail

Spec == Init /\ [][Next]_cache
=============================================================================
