------------------------------ MODULE Routes ------------------------------
(***************************************************************************)
(* The routes of a configuration: what validate() accepts, the paths the   *)
(* application serves, the format of an answer and the URLs put into it.   *)
(*                                                                         *)
(* A path is a sequence: <<"p">> is a route's path, <<"p", "nodes">> that  *)
(* path with "-nodes" appended, <<"s", "/api">> with "/api".  A server is  *)
(* [base, healthPath, statusPath], base saying whether public_base_url is  *)
(* set, statusPath <<>> if there is none.  A route is [name, path, format, *)
(* default, importLink, plainImport, template, agents, filter, rename],    *)
(* agents the clients its allowlist lets pass.                             *)
(*                                                                         *)
(* A definition that says "Variant" is a fault put into the one after it;  *)
(* no other definition uses it.                                            *)
(***************************************************************************)
EXTENDS Rendering

Companion(route, suffix) == Append(route.path, suffix)

(* status_path may be unset.                                               *)
SystemPaths(server) ==
    <<server.healthPath>> \o
    (IF server.statusPath = <<>> THEN <<>>
     ELSE <<server.statusPath, Append(server.statusPath, "/api")>>)

----------------------------------------------------------------------------
(* validate()                                                              *)

\* Variant: an auto route is taken for one without companions.
CheckedCompanionsFixed(route) ==
    CASE route.format = "surfboard" -> <<"nodes">>
      [] route.format = "quantumult-x" /\ route.importLink -> <<"import">>
      [] OTHER -> <<>>

(* _companion_paths                                                        *)
CheckedCompanions(route) ==
    CASE route.format = "surfboard" -> <<"nodes">>
      [] route.format = "quantumult-x" /\ route.importLink -> <<"import">>
      [] route.format = "auto" ->
            <<"nodes">> \o (IF route.importLink THEN <<"import">> ELSE <<>>)
      [] OTHER -> <<>>

RoutePaths(route) ==
    <<route.path>> \o [i \in DOMAIN CheckedCompanions(route) |->
                          Companion(route, CheckedCompanions(route)[i])]

(* No path is claimed twice, by the system (0) or a route.                 *)
PathsApart(server, routes) ==
    LET claims(i) == IF i = 0 THEN SystemPaths(server) ELSE RoutePaths(routes[i])
    IN \A i, j \in 0..Len(routes) : \A a \in DOMAIN claims(i), b \in DOMAIN claims(j) :
            claims(i)[a] = claims(j)[b] => i = j /\ a = b

(* _validate_clash_template                                                *)
TemplateOk(route) == route.template \in {"none", "good"}

(* The links of these routes are put into answers.                         *)
NeedsBase(route) ==
    \/ route.format \in {"auto", "surfboard"}
    \/ route.format = "quantumult-x" /\ route.importLink

OutputOk(server, route) ==
    /\ NeedsBase(route) => server.base
    /\ CASE route.format = "auto" ->
                /\ TemplateOk(route)
                /\ route.default = "clash-config" => route.template # "none"
         [] route.format = "clash-config" -> TemplateOk(route) /\ route.template # "none"
         [] OTHER -> route.template = "none"

Valid(server, routes) ==
    /\ PathsApart(server, routes)
    /\ \A i \in DOMAIN routes : OutputOk(server, routes[i])

----------------------------------------------------------------------------
(* route_by_path                                                           *)

(* Of an auto route, or companion_paths() of the renderer.                 *)
Companions(route) ==
    CASE route.format = "auto" -> {"nodes"} \cup (IF route.importLink THEN {"import"} ELSE {})
      [] route.format = "surfboard" -> {"nodes"}
      [] route.format = "quantumult-x" /\ route.importLink -> {"import"}
      [] OTHER -> {}

CompanionAt(route, path) ==
    IF path = route.path THEN {"none"}
    ELSE {c \in Companions(route) : path = Companion(route, c)}

(* The number of the route a path leads to, 0 if there is none: the last   *)
(* one that registered it.                                                 *)
RouteAt(routes, path) ==
    LET found == {i \in DOMAIN routes : CompanionAt(routes[i], path) # {}}
    IN IF found = {} THEN 0 ELSE Max(found)

----------------------------------------------------------------------------
(* Targets                                                                 *)

(* One alias stands for all of its target.                                 *)
TargetAliases ==
    [clash |-> "provider", surfboard |-> "surfboard", quanx |-> "quantumult-x",
     v2rayn |-> "xray-uri", full |-> "clash-config", singbox |-> "sing-box", loon |-> "loon"]

CanonicalTarget(format) ==
    CASE format = "provider" -> "clash" [] format = "quantumult-x" -> "quanx"
      [] format = "xray-uri" -> "v2rayn" [] OTHER -> format

SelectorKeys == <<"target", "format", "flag", "client">>

CompanionFormat(companion) ==
    IF companion = "nodes" THEN "surfboard" ELSE "quantumult-x"

(* UA_SIGNALS; the other clients have no signal or a future one.           *)
AgentFormats ==
    [quantumult |-> "quantumult-x", surfboard |-> "surfboard", loon |-> "provider",
     v2rayn |-> "xray-uri", clash |-> "provider"]

(* resolve_query_selection: the first key with a value decides; "auto" and *)
(* "blank" are no explicit target, an unknown alias is unsupported.        *)
QuerySelection(query) ==
    LET given == {i \in DOMAIN SelectorKeys : SelectorKeys[i] \in DOMAIN query}
        alias == IF given = {} THEN "auto" ELSE query[SelectorKeys[Min(given)]]
    IN CASE alias \in {"auto", "blank"} -> "none"
         [] alias \in DOMAIN TargetAliases -> TargetAliases[alias]
         [] alias = "clash-config" -> alias
         [] OTHER -> "unsupported"

\* Variant: a target that is only planned is taken as well.
EffectiveFormatPlanned(route, companion, query, agent) ==
    LET selected == QuerySelection(query)
        suits == /\ selected # "unsupported"
                 /\ companion # "none" => CompanionFormat(companion) = selected
    IN IF route.format # "auto" THEN route.format
       ELSE IF selected # "none" THEN IF suits THEN selected ELSE "unsupported"
       ELSE IF companion # "none" THEN CompanionFormat(companion)
       ELSE IF agent \in DOMAIN AgentFormats THEN AgentFormats[agent]
       ELSE route.default

(* _effective_output_format                                                *)
EffectiveFormat(route, companion, query, agent) ==
    LET selected == QuerySelection(query)
        suits == /\ selected \in ImplementedFormats
                 /\ companion # "none" => CompanionFormat(companion) = selected
    IN IF route.format # "auto" THEN route.format
       ELSE IF selected # "none" THEN IF suits THEN selected ELSE "unsupported"
       ELSE IF companion # "none" THEN CompanionFormat(companion)
       ELSE IF agent \in DOMAIN AgentFormats THEN AgentFormats[agent]
       ELSE route.default

(* user_agent_allowed                                                      *)
AgentAllowed(route, agent) == route.agents = {} \/ agent \in route.agents

----------------------------------------------------------------------------
(* URLs in an answer                                                       *)

PublicUrl(server, route, path, format) ==
    [path |-> path, absolute |-> server.base,
     target |-> IF route.format = "auto" THEN CanonicalTarget(format) ELSE "none"]

(* _main_public_url                                                        *)
MainUrl(server, route, format) == PublicUrl(server, route, route.path, format)

(* _companion_public_urls()["nodes"]                                       *)
NodesUrl(server, route) ==
    PublicUrl(server, route, Companion(route, "nodes"), "surfboard")
=============================================================================
