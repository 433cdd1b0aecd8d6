---------------------------- MODULE MCService ----------------------------
EXTENDS Service, TLC
CONSTANTS r1, r2, s1, s2

Config(route, requireAll, loops, startup, come) ==
    [route |-> route, requireAll |-> requireAll, loops |-> loops, startup |-> startup, come |-> come]

Opposite == (r1 :> <<s1, s2>>) @@ (r2 :> <<s2, s1>>)
OneSource == [r \in Requests |-> <<s1>>]
OneTwice == [r \in Requests |-> <<s1, s1>>]

(* Two requests to routes with the same sources.                           *)
TwoRoutes == Config(Opposite, {r2}, {}, "skip", {r1, r2})
(* A request while the server starts and stops and a loop refreshes.       *)
Loops(mode) == Config(OneSource, {}, {s1}, mode, {r1})

SafetyConfigs == {TwoRoutes, Loops("background")}
AnswerConfigs == {Config(Opposite, {}, {}, "blocking", {r1})}
TwiceConfigs == {Config(OneTwice, {}, {}, "skip", {r1})}
==========================================================================
