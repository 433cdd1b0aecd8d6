---------------------------- MODULE Subscription ----------------------------
(***************************************************************************)
(* One refresh of a source from its plugins to its new record: the part of *)
(* _refresh_locked that Refresher leaves abstract.  The plugins run one    *)
(* after the other, the subscription is fetched, its body is parsed and    *)
(* transformed, and its host names are resolved.                           *)
(*                                                                         *)
(* A definition that says "Variant" is a fault put into the one after it;  *)
(* no other definition uses it.                                            *)
(***************************************************************************)
EXTENDS Parsing, Transform, SafeHttp, Resolver

CONSTANTS
    Setups,    \* configurations of the source
    Bodies(_), \* per setup, the bodies its server may answer with
    Home       \* origin of the URLs of the source and its plugins

ASSUME HomeAssumption == Home \in Origins
ASSUME NameAssumption == "literal" \notin Hosts

(* A node has a type; the obfs of hysteria2 is in its table or "bad", no   *)
(* text of another class.                                                  *)
NodeOk(n) ==
    /\ "type" \in DOMAIN n
    /\ n.type = "hysteria2" =>
          At(n, "obfs") \in {"absent", "null", "empty", "good", "gecko", "one", "zero", "huge",
                            "true", "false", "list"} \cup Odd \cup Maps

(* A body is a list of entries, each with a name.                          *)
BodyOk(b) ==
    /\ b.kind \in Kinds
    /\ Len(b.entries) \in Nat /\ DOMAIN b.entries = 1..Len(b.entries)
    /\ \A i \in DOMAIN b.entries : b.entries[i].label \in Seq(STRING)
    /\ b.kind = "yaml" => \A i \in DOMAIN b.entries : NodeOk(b.entries[i].node)

ASSUME SetupAssumption ==
    /\ SourceName \in STRING
    /\ \A s \in Setups :
          /\ s.rename.prefix \in Seq(STRING) /\ s.rename.suffix \in Seq(STRING)
          /\ \A b \in Bodies(s) : BodyOk(b)

VARIABLES
    setup,      \* the configuration
    old,        \* there is a record, with validators
    stage,      \* what _refresh_locked is doing
    plugin,     \* number of the plugin it has come to
    body,       \* what was fetched
    records,    \* the nodes it has
    warned      \* entries that have a warning

pipelineVars == <<setup, old, stage, plugin, body, records, warned>>
vars == <<pipelineVars, req, resolverVars>>

----------------------------------------------------------------------------
Ends == {"stored", "unchanged", "failed", "cancelled"}
Stages == {"plugins", "fetch", "parse", "resolve", "cancelling"} \cup Ends

NoBody == [kind |-> "none", entries |-> <<>>]

To(s) == stage' = s

(* HttpActionPlugin.run: the request of the next plugin.                   *)
PluginSends ==
    /\ stage = "plugins" /\ req.phase = "idle" /\ plugin <= Len(setup.plugins)
    /\ req' = Request(Home, "POST", TRUE, {"custom", "content"})
    /\ UNCHANGED <<pipelineVars, resolverVars>>

(* Its result: only a failure under on_failure = "abort" ends the refresh. *)
PluginEnds ==
    LET ok == req.phase = "answered" /\ req.status = 200 IN
    /\ stage = "plugins" /\ Ended
    /\ To(IF ~ok /\ setup.plugins[plugin] = "abort" THEN "failed" ELSE "plugins")
    /\ plugin' = plugin + 1
    /\ req' = Idle
    /\ UNCHANGED <<setup, old, body, records, warned, resolverVars>>

(* SubscriptionFetcher.fetch: conditional unless DNS resolution is on.     *)
FetchSends ==
    /\ stage = "plugins" /\ req.phase = "idle" /\ plugin > Len(setup.plugins)
    /\ req' = Request(Home, "GET", FALSE,
                      {"custom"} \cup IF old /\ ~setup.dns THEN {"validator"} ELSE {})
    /\ To("fetch")
    /\ UNCHANGED <<setup, old, plugin, body, records, warned, resolverVars>>

FetchFails ==
    /\ stage = "fetch" /\ Ended
    /\ req.phase = "raised" \/ req.status = 404
    /\ req' = Idle
    /\ To("failed")
    /\ UNCHANGED <<setup, old, plugin, body, records, warned, resolverVars>>

NotModified ==
    /\ stage = "fetch" /\ req.phase = "answered" /\ req.status = 304
    /\ req' = Idle
    /\ To("unchanged")
    /\ UNCHANGED <<setup, old, plugin, body, records, warned, resolverVars>>

Fetched ==
    /\ stage = "fetch" /\ req.phase = "answered" /\ req.status = 200
    /\ body' \in Bodies(setup)
    /\ req' = Idle
    /\ To("parse")
    /\ UNCHANGED <<setup, old, plugin, records, warned, resolverVars>>

----------------------------------------------------------------------------
(* _is_ip_literal is false and there is a name to resolve.                 *)
UniqueServers(rs) == {rs[i].node.server : i \in {i \in DOMAIN rs : "server" \in DOMAIN rs[i].node}}
                     \cap Hosts

(* What the refresh has got is stored, unless no node is left.             *)
Store(rs) == To(IF rs = <<>> THEN "failed" ELSE "stored")

(* The body is parsed and transformed; then the hosts are resolved, or the *)
(* record is written.                                                      *)
Parses ==
    LET parsed == Parse(body, setup.format, setup.parseError)
        nodes == ApplyTransform(parsed.records, setup.filter, setup.rename)
    IN /\ stage = "parse"
       /\ records' = nodes
       /\ warned' = parsed.warned
       /\ \/ parsed.raised /\ To("failed") /\ UNCHANGED resolverVars
          \/ ~parsed.raised /\ ~setup.dns /\ Store(nodes) /\ UNCHANGED resolverVars
          \/ /\ ~parsed.raised /\ setup.dns
             /\ To("resolve")
             /\ ResolveHosts(UniqueServers(nodes))
       /\ UNCHANGED <<setup, old, plugin, body, req>>

----------------------------------------------------------------------------
(* _preserve_host_metadata                                                 *)
PreserveHost(n) ==
    LET tls == At(n, "tls") = "true" /\ At(n, "servername") = "absent" /\ At(n, "sni") = "absent"
        ws == At(n, "network") = "ws"
        new == (IF tls THEN {"servername"} ELSE {}) \cup (IF ws THEN {"wsOpts"} ELSE {})
    IN [f \in DOMAIN n \cup new |->
            CASE f = "servername" /\ tls -> "good"
              [] f = "wsOpts" /\ ws -> "map"
              [] OTHER -> n[f]]

Unresolved(r) == "server" \in DOMAIN r.node /\ r.node.server \in {h \in Hosts : host[h] = "unresolved"}

(* The node with its address instead of the host name.                     *)
Rewritten(r) ==
    IF "server" \in DOMAIN r.node /\ r.node.server \in {h \in Hosts : host[h] = "found"}
    THEN [r EXCEPT !.node = [PreserveHost(@) EXCEPT !.server = "literal"]]
    ELSE r

\* Variant: nodes are dropped without a warning.
DropsInSilence ==
    LET left == Passing(records, LAMBDA r : setup.failure = "keep" \/ ~Unresolved(r))
    IN /\ records' = [i \in DOMAIN left |-> Rewritten(left[i])]
       /\ UNCHANGED warned

(* _apply_resolution, record by record.                                    *)
ApplyResolution ==
    LET left == Passing(records, LAMBDA r : setup.failure = "keep" \/ ~Unresolved(r))
    IN /\ records' = [i \in DOMAIN left |-> Rewritten(left[i])]
       /\ warned' = warned \cup {r.id : r \in {r \in ToSet(records) : Unresolved(r)}}

(* All hosts are done: with failure = "fail" one without an address fails  *)
(* the refresh.                                                            *)
Resolved ==
    /\ stage = "resolve"
    /\ \A h \in Hosts : host[h] \in {"idle", "found", "unresolved"}
    /\ ResolveHosts({})
    /\ \/ /\ setup.failure = "fail" /\ \E r \in ToSet(records) : Unresolved(r)
          /\ To("failed")
          /\ UNCHANGED <<records, warned>>
       \/ /\ setup.failure # "fail" \/ \A r \in ToSet(records) : ~Unresolved(r)
          /\ ApplyResolution
          /\ Store(records')
    /\ UNCHANGED <<setup, old, plugin, body, req>>

Resolving ==
    /\ stage \in {"resolve", "cancelling"}
    /\ \/ \E h \in Hosts : AskEndpoint(h, setup.ipv6) \/ HostStep(h)
       \/ \E t \in Tasks : TaskStep(t)
    /\ UNCHANGED <<pipelineVars, req>>

(* The job is cancelled while it waits for the resolver.                   *)
CancelJob ==
    /\ stage = "resolve"
    /\ CancelHosts
    /\ To("cancelling")
    /\ UNCHANGED <<setup, old, plugin, body, records, warned, req>>

CancelDone ==
    /\ stage = "cancelling"
    /\ \A h \in Hosts : host[h] # "cancelling"
    /\ To("cancelled")
    /\ UNCHANGED <<setup, old, plugin, body, records, warned, req, resolverVars>>

----------------------------------------------------------------------------
Sending == HttpStep /\ UNCHANGED <<pipelineVars, resolverVars>>

Init ==
    /\ setup \in Setups /\ old \in BOOLEAN
    /\ stage = "plugins" /\ plugin = 1
    /\ body = NoBody /\ records = <<>> /\ warned = {}
    /\ req = Idle
    /\ ResolverInit

Step ==
    \/ PluginSends \/ PluginEnds \/ FetchSends \/ FetchFails \/ NotModified \/ Fetched
    \/ Parses \/ Sending \/ Resolving \/ Resolved \/ CancelJob \/ CancelDone

Terminated == stage \in Ends /\ UNCHANGED vars

Next == Step \/ Terminated

Spec == Init /\ [][Next]_vars

(* Every request, query and task goes on, because each network operation   *)
(* of either client has a time-out; and parsing, which waits for nothing,  *)
(* comes to its end.                                                       *)
Parsed == stage = "parse" /\ stage' \in {"failed", "stored", "resolve"}
FairSpec == Spec /\ WF_vars(stage # "parse" /\ Step) /\ WF_stage(Parsed)

----------------------------------------------------------------------------
TypeOK ==
    /\ setup \in Setups /\ old \in BOOLEAN /\ stage \in Stages
    /\ plugin \in Nat \ {0}
    /\ body.kind \in Kinds \cup {NoBody.kind}
    /\ \A r \in ToSet(records) : r.id \in DOMAIN body.entries
    /\ warned \subseteq DOMAIN body.entries
    /\ HttpTypeOK /\ ResolverTypeOK

(* What a source's configuration sends along in headers (tokens, and its    *)
(* validators) goes to the origin the user gave and, over any chain of      *)
(* redirects, to no other; no request goes to an origin that was not        *)
(* checked.  The body of a plugin is not kept at home: a chain of 307 and   *)
(* 308 takes it, with its POST, to any origin that passes the check.  It is *)
(* sent under no other method, after a 301, 302 or 303 at any hop it is     *)
(* gone for good, and none describes a body it does not have                *)
(* (fetcher.py:189-268, security.py:227-281, tests/test_fetcher.py:189).    *)
HeadersStayHome ==
    req.phase = "sent" =>
        /\ req.at \in SafeOrigins
        /\ req.headers \ {"allowed"} # {} => req.at = Home
        /\ "content" \in req.headers => req.body
        /\ req.body <=> req.method = "POST"
        /\ req.body => 303 \notin req.kinds

(* A node that a refresh counts stays acceptable: no route drops it when   *)
(* it normalizes it again (render.py:85-97), although it was renamed and   *)
(* its host was replaced since (mihomo_schema.py:737-770, dns.py:454-468). *)
AcceptedStays ==
    \A r \in ToSet(records) : Accepted(r.node) /\ Coerced(r.node) = r.node

(* An entry as the filters would see it.                                   *)
Entry(e) ==
    [label |-> e.label, node |-> IF body.kind = "yaml" THEN e.node ELSE [type |-> e.link.scheme]]

(* A record that is stored has a node, keeps the order of the subscription, *)
(* and every entry that is not in it has been filtered out or has a        *)
(* warning; with parse_error = "fail" none was rejected, with dns.failure  *)
(* = "fail" each node is reachable without the resolver                    *)
(* (refresher.py:317-350, dns.py:502-531).                                 *)
NoSilentLoss ==
    stage = "stored" =>
        /\ records # <<>>
        /\ \A i, j \in DOMAIN records : i < j => records[i].id < records[j].id
        /\ \A i \in DOMAIN body.entries :
              \/ i \in warned \cup {r.id : r \in ToSet(records)}
              \/ ~Kept(Entry(body.entries[i]), setup.filter)
        /\ setup.parseError = "fail" /\ setup.failure = "fail" => warned = {}
        /\ setup.dns /\ setup.failure # "keep" => UniqueServers(records) = {}

(* However its waiters are served, cancelled in the queue or cancelled     *)
(* while they run, the semaphore has as many permits as queries are not in *)
(* flight: the bound holds and no permit is lost (dns.py:615-646).         *)
PermitsBalance == permits + Cardinality(Running) = Concurrency

(* No query outlives the endpoint it was for, be the host resolved, given  *)
(* up or cancelled (dns.py:656-660).                                       *)
NothingOutlives ==
    /\ \A h \in Hosts : host[h] \in {"next", "found", "unresolved", "cancelled"} => Finished(h)
    /\ stage \in Ends => Running = {} /\ queue = <<>>

(* The address of a host comes from the first endpoint that gave one, and  *)
(* is its A address if there was one when the host was done, whatever the  *)
(* order in which the answers came (dns.py:566-590, 640-655).              *)
FirstAnswerWins ==
    \A h \in Hosts :
        host[h] = "found" =>
            /\ \A e \in 1..(at[h] - 1), f \in Families : <<h, e, f>> \notin told
            /\ <<h, at[h], ip[h]>> \in told
            /\ <<h, at[h], "A">> \in told => ip[h] = "A"

(* A refresh ends, though its requests are redirected and its queries wait *)
(* for one another, and also when it is cancelled (fetcher.py:189-268,     *)
(* dns.py:536-660).                                                        *)
RefreshEnds == <>(stage \in Ends)
=============================================================================
