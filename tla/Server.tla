------------------------------- MODULE Server -------------------------------
(***************************************************************************)
(* What a client gets: requests are led to a route, answered in a format   *)
(* and recorded in the audit store, while the clock runs and the loops of  *)
(* the scheduler keep to it.  How a route collects its records is the      *)
(* subject of ProviderRoute; here they are the records of the setup or,    *)
(* for one request or the other, none.                                     *)
(*                                                                         *)
(* A definition that says "Variant" is a fault put into the one after it;  *)
(* no other definition uses it.                                            *)
(***************************************************************************)
EXTENDS Routes, AuditStore, LoopClock, FiniteSets

CONSTANTS
    Setups,        \* [server, routes, log, records, loops, sends, until]: a
                   \* configuration (log is access_log.enabled), what is cached, the
                   \* loops that run, and the bounds on the requests that follow no
                   \* link and on the time
    Inputs(_)      \* the requests sent under a setup

(* The server's paths and a route as load_config() makes them.             *)
ServerOk(server) ==
    /\ server.base \in BOOLEAN
    /\ server.healthPath \in Seq(STRING) /\ server.statusPath \in Seq(STRING)

RouteOk(route) ==
    /\ route.path \in Seq(STRING)
    /\ route.format \in ImplementedFormats \cup {"auto"} /\ route.default \in ImplementedFormats
    /\ route.importLink \in BOOLEAN /\ route.plainImport \in BOOLEAN
    /\ route.rename.prefix \in Seq(STRING) /\ route.rename.suffix \in Seq(STRING)

ASSUME SetupAssumption ==
    \A s \in Setups :
        /\ ServerOk(s.server)
        /\ Len(s.routes) \in Nat /\ DOMAIN s.routes = 1..Len(s.routes)
        /\ \A i \in DOMAIN s.routes : RouteOk(s.routes[i])
        /\ RecordsOk(s.records)
        /\ \A sent \in Inputs(s) :
              sent = [path |-> sent.path, query |-> sent.query, agent |-> sent.agent,
                      from |-> sent.from]

(* An event of the audit store is the request it is about.                 *)
Requests == Events

VARIABLES
    setup,
    request,       \* per request, what was sent: [path, query, agent, from]
    answer         \* per request, what came back

serverVars == <<setup, request, answer>>
vars == <<now, serverVars, auditVars, clockVars>>

Nothing == [path |-> <<>>, query |-> <<>>, agent |-> "none", from |-> NoEvent]
Unanswered == [status |-> 0, route |-> 0, companion |-> "none", format |-> "none",
               lines |-> <<>>, link |-> NoLink]

Sent(r) == request[r] # Nothing
Answered(r) == answer[r].status # 0

----------------------------------------------------------------------------
(* provider()                                                              *)

(* start_ms is taken as the request arrives.                               *)
Arrives(r, sent) ==
    /\ ~Sent(r)
    /\ request' = [request EXCEPT ![r] = sent]
    /\ visited' = [visited EXCEPT ![r] = now]
    /\ UNCHANGED <<now, setup, answer, writer, asked, events, lost, lastCleanup, cleaner>>
    /\ UNCHANGED clockVars

Request(r) ==
    /\ Cardinality({s \in Requests : Sent(s) /\ request[s].from = NoEvent}) < setup.sends
    /\ \E sent \in Inputs(setup) : Arrives(r, [sent EXCEPT !.from = NoEvent])

(* A client requests the link it was given: the import link is opened by   *)
(* Quantumult X, a policy-path by the client that holds the profile.       *)
Follow(r, first) ==
    LET link == answer[first].link IN
    /\ writer[first] = "end" /\ link # NoLink
    /\ Arrives(r, [path |-> link.path,
                   query |-> IF link.target = "none" THEN <<>> ELSE [target |-> link.target],
                   agent |-> IF answer[first].companion = "import" THEN "quantumult"
                             ELSE request[first].agent,
                   from |-> first])

(* The answer of a path of route n under setup s.                          *)
RouteAnswer(s, n, sent, records) ==
    LET route == s.routes[n]
        companion == CHOOSE c \in CompanionAt(route, sent.path) : TRUE
        format == EffectiveFormat(route, companion, sent.query, sent.agent)
        given(f, response) ==
            [status |-> response.status, route |-> n, companion |-> companion, format |-> f,
             lines |-> response.lines, link |-> response.link]
    IN IF ~AgentAllowed(route, sent.agent) THEN given("none", Refusal(403))
       ELSE IF format = "unsupported" THEN given("none", Refusal(400))
       ELSE IF records = <<>> THEN given(format, Refusal(503))
       ELSE given(format,
                Render(format, [route |-> route, records |-> records, companion |-> companion,
                                mainUrl |-> MainUrl(s.server, route, format),
                                nodesUrl |-> NodesUrl(s.server, route)]))

SystemPath(server, path) == \E i \in DOMAIN SystemPaths(server) : SystemPaths(server)[i] = path

(* A path of no route is answered 404 and one of the system is not         *)
(* handled by provider(); neither is recorded.                             *)
AnswerElse(r) ==
    LET path == request[r].path IN
    /\ Sent(r) /\ ~Answered(r)
    /\ SystemPath(setup.server, path) \/ RouteAt(setup.routes, path) = 0
    /\ answer' = [answer EXCEPT ![r] =
            [Unanswered EXCEPT !.status = IF SystemPath(setup.server, path) THEN 200 ELSE 404]]
    /\ writer' = [writer EXCEPT ![r] = "end"]
    /\ UNCHANGED <<now, setup, request, visited, asked, events, lost, lastCleanup, cleaner>>
    /\ UNCHANGED clockVars

(* _record_access_event: the event is given to a thread, if there is a store. *)
RecordEvent(r) ==
    \/ setup.log /\ Record(r, visited[r])
    \/ /\ ~setup.log
       /\ Goes(r, "end")
       /\ UNCHANGED <<visited, asked, events, lost, lastCleanup, cleaner>>

(* The answer is made, and sent once the thread is done with its event.    *)
AnswerRoute(r) ==
    LET path == request[r].path
        n == RouteAt(setup.routes, path)
    IN /\ Sent(r) /\ ~Answered(r)
       /\ ~SystemPath(setup.server, path) /\ n # 0
       /\ \E records \in {setup.records, <<>>} :
            answer' = [answer EXCEPT ![r] = RouteAnswer(setup, n, request[r], records)]
       /\ RecordEvent(r)
       /\ UNCHANGED <<now, setup, request>> /\ UNCHANGED clockVars

----------------------------------------------------------------------------
Time == now < setup.until /\ Tick /\ UNCHANGED <<serverVars, auditVars, clockVars>>
Audit == AuditStep /\ UNCHANGED <<now, serverVars, clockVars>>
Loop == LoopStep /\ UNCHANGED <<now, serverVars, auditVars>>

Init ==
    /\ now = Start
    /\ setup \in {s \in Setups : Valid(s.server, s.routes)}
    /\ request = [r \in Requests |-> Nothing]
    /\ answer = [r \in Requests |-> Unanswered]
    /\ AuditInit
    /\ setup.log \/ lastCleanup = 0
    /\ ClockInit(setup.loops)

Next ==
    \/ Time \/ Audit \/ Loop
    \/ \E r \in Requests :
        \/ Request(r) \/ AnswerElse(r) \/ AnswerRoute(r)
        \/ \E first \in Requests : Follow(r, first)

Spec == Init /\ [][Next]_vars
----------------------------------------------------------------------------
TypeOK ==
    /\ now \in Nat
    /\ AuditTypeOK /\ ClockTypeOK
    /\ \A r \in Requests :
        /\ request[r].from \in Requests \cup {NoEvent}
        /\ answer[r].status \in {0, 200, 302, 400, 403, 404, 422, 500, 503}
        /\ answer[r].format \in ImplementedFormats \cup {"none"}
        /\ Answered(r) <=> writer[r] # "none"

(* The fields a node's protection rests on.  The first are what            *)
(* docs/route-formats.md:792 wants no renderer to drop silently (TLS,      *)
(* Reality, certificate verification, flow, obfs, plugin), by the names    *)
(* PROXY_SCHEMAS gives them; added are the transport of a node and the     *)
(* second encryption of VLESS and Trojan.  Two are left out: UDP behaviour,*)
(* and skip-cert-verify, without which a client only checks more.          *)
ByType == [None EXCEPT
    !.ss = {"plugin", "pluginOpts"}, !.snell = {"obfsOpts"}, !.hysteria2 = {"obfs"},
    !.http = {"tls"}, !.socks5 = {"tls"}, !.vmess = {"tls", "network"},
    !.vless = {"tls", "network", "encryption"}, !.trojan = {"network", "ssOpts"}]

Protecting(n) ==
    SetOf(n, {"realityOpts", "echOpts", "fingerprint", "certificate", "flow"} \cup ByType[n.type])

(* What lines do lose, without a warning, though the document says not to: *)
(* the second encryption (VLESS is printed with none, render.py:1218), the *)
(* transports a URI has no word for (175), the obfs gecko in Surfboard     *)
(* (557), TLS under gRPC in Quantumult X (795).                            *)
KnownLosses(format, n) ==
    LET proxied == n.type \in {"vless", "trojan"} IN
    CASE format \in {"provider", "clash-config"} -> {}
      [] format = "xray-uri" ->
            {"encryption", "ssOpts"}
            \cup IF proxied /\ Network(n) \notin {"tcp", "ws", "grpc", "http", "h2"}
                 THEN {"network"} ELSE {}
      [] format = "surfboard" ->
            {"ssOpts"} \cup IF At(n, "obfs") = "gecko" THEN {"obfs"} ELSE {}
      [] format = "quantumult-x" ->
            {"encryption", "ssOpts"}
            \cup IF n.type \in {"vmess", "vless"} /\ Network(n) = "grpc" THEN {"tls"} ELSE {}

NodeWithId(id) == (CHOOSE i \in DOMAIN setup.records : setup.records[i].id = id)

(* Each renderer leaves out a node with a field it cannot express, by      *)
(* lists of its own (_has_security_critical_field, _qx_security_issue,     *)
(* _has_unsupported_*_ss_plugin, the transports its lines know).  Whatever *)
(* protects a node, and however its fields are combined, is in the line it *)
(* gets, but for the known losses above.                                   *)
LossesAreKnown ==
    \A r \in Requests : \A i \in DOMAIN answer[r].lines :
        LET line == answer[r].lines[i]
            n == setup.records[NodeWithId(line.id)].node
        IN Protecting(n) \ line.keeps \subseteq KnownLosses(answer[r].format, n)

(* docs/route-formats.md:783 wants the names of every output other than    *)
(* the YAML ones to be unique.  They are not: Surfboard's names and        *)
(* Quantumult X's tags are cleaned after they were repaired                *)
(* (render.py:286, 682, 1387).                                             *)
NamesAreUnique ==
    \A r \in Requests : \A i, j \in DOMAIN answer[r].lines :
        /\ answer[r].format \in {"xray-uri", "surfboard", "quantumult-x"}
        /\ answer[r].lines[i].label = answer[r].lines[j].label
        => i = j

(* What holds of them: the names of an output differ, whatever renaming    *)
(* and the cleaning of labels made of them, except that the tags of        *)
(* Quantumult X, never repaired after their cleaning, may be equal, and    *)
(* that two Surfboard names may be the same bare number: a label of which  *)
(* cleaning left nothing is repaired to " #2", and the second cleaning     *)
(* takes the blank (repair_duplicate_names, _sb_base_segments).            *)
NamesStayApart ==
    \A r \in Requests : \A i, j \in DOMAIN answer[r].lines :
        LET label == answer[r].lines[i].label IN
        label = answer[r].lines[j].label =>
            \/ i = j
            \/ answer[r].format = "quantumult-x"
            \/ answer[r].format = "surfboard" /\ label = Number(Len(label))

(* A link that was put into an answer (_main_public_url and                *)
(* _companion_public_urls, app.py) leads back: in a configuration that     *)
(* validate() accepts it is absolute, and requesting it gives the same     *)
(* route in the same format, with the same nodes for a policy-path, unless *)
(* the client is not allowed or the cache is empty.                        *)
LinksLeadBack ==
    \A r \in Requests : Answered(r) /\ request[r].from # NoEvent =>
        LET first == answer[request[r].from]
            imports == first.companion = "import"
        IN /\ first.link.absolute
           /\ answer[r].route = first.route
           /\ answer[r].companion = IF imports THEN "none" ELSE "nodes"
           /\ answer[r].status # 403 => answer[r].format = first.format
           /\ answer[r].status = 403 => imports
           /\ answer[r].status \in {200, 403, 503} \cup (IF imports THEN {422} ELSE {})
           /\ answer[r].status = 200 /\ ~imports => answer[r].lines = first.lines

(* Every request a route answered is on record until it is past retention, *)
(* whichever threads cleaned up meanwhile with a time taken before         *)
(* (record() and _cleanup_locked, access_audit.py), unless there is no     *)
(* store or its insert failed.                                             *)
EventsAreKept ==
    \A r \in Requests :
        setup.log /\ Answered(r) /\ answer[r].route # 0 /\ writer[r] # "insert" =>
            \/ r \in events \cup lost
            \/ visited[r] + Retention < now

(* Two clean-ups that succeed are an hour apart, although the threads look *)
(* at _last_cleanup_ms without the lock (access_audit.py:291-294).         *)
CleanupsApart ==
    [][lastCleanup' # lastCleanup => lastCleanup' >= lastCleanup + Hour]_vars

(* Loops neither drift off their grid nor refresh twice for an occurrence  *)
(* or skip one that is to come, however long refreshes and jitters are     *)
(* (_interval_loop and _cron_loop, scheduler.py:141-226).                  *)
LoopsKeepGrid == \A l \in Loops : KeepsGrid(l)
=============================================================================
