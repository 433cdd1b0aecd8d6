------------------------------ MODULE Parsing ------------------------------
(***************************************************************************)
(* parse_subscription: what a body yields under a source's format and its  *)
(* parse_error.                                                            *)
(*                                                                         *)
(* A body is a kind and its entries.  "yaml" is a mapping with a list of   *)
(* proxies, each a node of ProxySchema; "links" has a share link per line, *)
(* "base64" is such a text encoded; "other" is text that is none of them   *)
(* (a mapping without proxies among it), "binary" is not UTF-8.  A name is *)
(* a sequence of tokens.  A record is what becomes of the entry `id`.      *)
(*                                                                         *)
(* A definition that says "Variant" is a fault put into the one after it;  *)
(* no other definition uses it.                                            *)
(***************************************************************************)
EXTENDS ProxySchema, Selection, Sequences, SequencesExt

CONSTANT SourceName    \* the source whose subscription is parsed

Kinds == {"yaml", "links", "base64", "other", "binary"}
Formats == {"auto", "yaml", "share-links"}

Present(n) == [f \in {f \in DOMAIN n : n[f] # "absent"} |-> n[f]]
When(condition, v) == IF condition THEN v ELSE "absent"
Or(v, default) == IF v \in {"absent", "empty"} THEN default ELSE v

----------------------------------------------------------------------------
(* Share links.  A link is a record with the parts of its URL, "absent" if *)
(* it has none, or "bad" where reading the part raises.                    *)

(* _parse_vmess: the JSON document in the link.                            *)
VmessNode(l) ==
    [type |-> "vmess", name |-> "good", server |-> Or(l.host, "null"),
     port |-> IF l.port = "absent" THEN "zero" ELSE l.port,
     uuid |-> Or(l.user, "null"), cipher |-> Or(l.cipher, "good"),
     tls |-> CASE l.security = "absent" -> "absent"
               [] l.security = "tls" -> "true" [] OTHER -> "false",
     network |-> l.network,
     wsOpts |-> When(l.path # "absent", "map")]

(* _parse_ss, in both its forms, and _add_ss_plugin.                       *)
SsNode(l) ==
    [type |-> "ss", name |-> "good", server |-> l.host, port |-> Or(l.port, "null"),
     cipher |-> l.cipher, password |-> Or(l.user, "empty"),
     plugin |-> l.plugin, pluginOpts |-> When(l.plugin # "absent", l.path)]

(* _apply_transport_options                                                *)
UrlNode(l) ==
    [type |-> l.scheme, name |-> "good",
     server |-> Or(l.host, "null"), port |-> Or(l.port, "null"),
     uuid |-> When(l.scheme = "vless", Or(l.user, "empty")),
     encryption |-> When(l.scheme = "vless", Or(l.cipher, "good")),
     password |-> When(l.scheme # "vless", Or(l.user, "empty")),
     network |-> l.network,
     servername |-> When(l.scheme = "vless", l.sni),
     sni |-> When(l.scheme # "vless", l.sni),
     tls |-> When(l.security \in {"tls", "reality"}, "true"),
     flow |-> l.flow,
     realityOpts |-> l.reality,
     wsOpts |-> When(l.network = "ws" /\ l.path # "absent", "map"),
     grpcOpts |-> When(l.network = "grpc" /\ l.path # "absent", "map")]

LinkSchemes == {"vmess", "ss", "vless", "trojan", "hysteria2"}

(* Reading the link raises; the line becomes a warning.                    *)
Unreadable(l) ==
    \/ l.scheme \notin LinkSchemes
    \/ l.port = "bad"
    \/ l.scheme = "ss" /\ (l.host = "absent" \/ l.user = "bad")

NodeOf(l) ==
    Present(CASE l.scheme = "vmess" -> VmessNode(l)
              [] l.scheme = "ss" -> SsNode(l)
              [] OTHER -> UrlNode(l))

----------------------------------------------------------------------------
Record(e, i, node) ==
    [id |-> i, source |-> SourceName, label |-> e.label, node |-> Coerced(node)]

(* The records of the entries that pass, in order.                         *)
Take(entries, passes(_), node(_)) ==
    LET kept == {i \in DOMAIN entries : passes(entries[i])}
        record(i) == Record(entries[i], i, node(entries[i]))
    IN [k \in 1..Cardinality(kept) |-> record(NthPlace(kept, k))]

NoResult == [raised |-> TRUE, records |-> <<>>, warned |-> {}]

Result(entries, passes(_), node(_)) ==
    [raised |-> FALSE, records |-> Take(entries, passes, node),
     warned |-> {i \in DOMAIN entries : ~passes(entries[i])}]

(* parse_yaml_subscription: an entry is a node or not a mapping; what      *)
(* raises in normalize_proxy is not caught entry by entry.                 *)
FromYaml(body) ==
    IF \E i \in DOMAIN body.entries : Raises(body.entries[i].node) THEN NoResult
    ELSE Result(body.entries, LAMBDA e : Accepted(e.node), LAMBDA e : e.node)

(* parse_share_links_text                                                  *)
FromLinks(entries) ==
    Result(entries,
           LAMBDA e : ~Unreadable(e.link) /\ Accepted(NodeOf(e.link)),
           LAMBDA e : NodeOf(e.link))

(* The lines of another text are no share links.                           *)
NoLinks(body) == [raised |-> FALSE, records |-> <<>>, warned |-> DOMAIN body.entries]

\* Variant: with parse_error "fail" the warnings are only kept.
FinalizeLenient(result, parseError) ==
    IF result.records = <<>> THEN NoResult ELSE result

(* _finalize                                                               *)
Finalize(result, parseError) ==
    IF result.records = <<>> \/ (parseError = "fail" /\ result.warned # {})
    THEN NoResult ELSE result

(* A body that is structurally YAML is final; otherwise, in format "auto", *)
(* share links are tried as plain text and, if that yields no record, as   *)
(* base64.                                                                 *)
Parse(body, format, parseError) ==
    LET plain == IF body.kind = "links" THEN FromLinks(body.entries) ELSE NoLinks(body)
        asYaml == format # "share-links" /\ body.kind = "yaml"
        asText == format # "yaml" /\ body.kind # "binary"
        asPlain == asText /\ (format = "share-links" \/ plain.records # <<>>)
    IN IF asYaml THEN Finalize(FromYaml(body), parseError)
       ELSE IF asPlain THEN Finalize(plain, parseError)
       ELSE IF asText /\ body.kind = "base64" THEN Finalize(FromLinks(body.entries), parseError)
       ELSE NoResult
=============================================================================
