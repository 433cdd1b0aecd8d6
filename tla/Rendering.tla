----------------------------- MODULE Rendering -----------------------------
(***************************************************************************)
(* The renderers: what a route's records become in each output format.     *)
(*                                                                         *)
(* A record is [id, source, label, node], its label a sequence of tokens   *)
(* of which "blank" is one and "," and ":" stand for the characters a      *)
(* format cannot print in a name ("," for commas and control characters,   *)
(* ":" for the others that Surfboard folds), its node one of ProxySchema;  *)
(* the flow "vision" is xtls-rprx-vision, "good" another the schema        *)
(* accepts; the obfs "good" of hysteria2 is salamander, "gecko" the other  *)
(* one.  A line of an output is [id, label, keeps]: the name printed and   *)
(* the fields of the node that the line holds in one form or another.      *)
(*                                                                         *)
(* A definition that says "Variant" is a fault put into the one after it;  *)
(* no other definition uses it.                                            *)
(***************************************************************************)
EXTENDS ProxySchema, Transform

ImplementedFormats == {"provider", "surfboard", "quantumult-x", "xray-uri", "clash-config"}

(* The names of _has_security_critical_field.                              *)
Critical == {"realityOpts", "echOpts", "flow", "fingerprint", "certificate"}
PluginFields == {"plugin", "pluginOpts"}

(* _string() of the field is not empty.                                    *)
HasText(n, f) == At(n, f) \notin {"absent", "null", "empty"}
Network(n) == IF HasText(n, "network") THEN n.network ELSE "tcp"
SetOf(n, fields) == {f \in fields : IsSet(n, f)}
Complete(n, needs) == n.type \in DOMAIN needs /\ \A f \in needs[n.type] : HasText(n, f)

(* Records as a refresh stores them: normalized nodes, each from another   *)
(* entry.  The schema leaves a node of hysteria2 salamander or gecko, or   *)
(* no obfs.                                                                *)
RecordOk(r) ==
    /\ r = [id |-> r.id, source |-> r.source, label |-> r.label, node |-> r.node]
    /\ r.source \in STRING /\ r.label \in Seq(STRING)
    /\ Coerced(r.node) = r.node
    /\ r.node.type = "hysteria2" => At(r.node, "obfs") \in {"absent", "empty", "good", "gecko"}

RecordsOk(records) ==
    /\ Cardinality(DOMAIN records) \in Nat
    /\ DOMAIN records = 1..Cardinality(DOMAIN records)
    /\ \A i \in DOMAIN records : RecordOk(records[i])
    /\ \A i, j \in DOMAIN records : records[i].id = records[j].id => i = j

(* Runs of blanks and folded characters become one blank, and those at the *)
(* ends go: re.sub(), then " ".join(split()).                              *)
Blank(token, folded) == token \in folded \cup {"blank"}

Words(label, folded) ==
    {i \in DOMAIN label :
        \/ ~Blank(label[i], folded)
        \/ /\ i - 1 \in DOMAIN label /\ ~Blank(label[i - 1], folded)
           /\ \E j \in DOMAIN label : i < j /\ ~Blank(label[j], folded)}

Cleaned(label, folded) ==
    LET words == Selected(label, Words(label, folded))
    IN [k \in DOMAIN words |-> IF Blank(words[k], folded) THEN "blank" ELSE words[k]]

(* _sb_label and _qx_clean_label                                           *)
SurfboardLabel(label) == Cleaned(label, {",", ":"})
QxLabel(label) == Cleaned(label, {","})

----------------------------------------------------------------------------
(* prepare_render_records: transform, normalize, repair names.             *)

Repaired(records) ==
    LET labels == RepairNames([i \in DOMAIN records |-> records[i].label])
    IN [i \in DOMAIN records |-> [records[i] EXCEPT !.label = labels[i]]]

(* _normalize_render_records                                               *)
Normalized(records) ==
    LET kept == Passing(records, LAMBDA r : Accepted(r.node))
    IN [i \in DOMAIN kept |-> [kept[i] EXCEPT !.node = Coerced(@)]]

Prepared(records, route) ==
    Repaired(Normalized(ApplyTransform(records, route.filter, route.rename)))

----------------------------------------------------------------------------
(* xray-uri                                                                *)

XrayNeeds ==
    [hysteria2 |-> {"server", "password"},
     ss |-> {"server", "port", "cipher", "password"},
     trojan |-> {"server", "port", "password"},
     vless |-> {"server", "port", "uuid"},
     vmess |-> {"server", "port", "uuid"}]

\* Variant: the fields of Reality are taken for transport options.
XrayTakesReality(n) ==
    /\ SetOf(n, Critical \ {"realityOpts"}) = {}
    /\ n.type = "ss" => SetOf(n, PluginFields) = {}
    /\ Complete(n, XrayNeeds)

XrayTakes(n) ==
    /\ SetOf(n, Critical) = {}
    /\ n.type = "ss" => SetOf(n, PluginFields) = {}
    /\ Complete(n, XrayNeeds)

(* _network_params; a URI of VMess holds any network.                      *)
NetworkParams(n) ==
    IF Network(n) \in {"tcp", "ws", "grpc", "http", "h2"} THEN {"network"} ELSE {}

XrayKeeps(n) ==
    CASE n.type = "vmess" -> {"network", "tls"}
      [] n.type = "vless" -> {"tls"} \cup NetworkParams(n)
      [] n.type = "trojan" -> {"tls"} \cup NetworkParams(n)
      [] n.type = "hysteria2" -> {"obfs", "tls"}
      [] OTHER -> {}

----------------------------------------------------------------------------
(* surfboard                                                               *)

SurfboardNeeds ==
    [ss |-> {"server", "port", "cipher", "password"},
     trojan |-> {"server", "port", "password"}, vmess |-> {"server", "port", "uuid"},
     hysteria2 |-> {"server", "port", "password"}, snell |-> {"server", "port", "psk"},
     anytls |-> {"server", "port", "password"},
     http |-> {"server", "port"}, socks5 |-> {"server", "port"}]

SurfboardScalars == {"server", "port", "cipher", "password", "uuid", "username", "psk",
                     "version", "sni", "servername", "obfs", "obfsPassword", "hopInterval"}

(* _has_unrepresentable_sb_scalar                                          *)
SurfboardSpells(n) ==
    /\ \A f \in SurfboardScalars : At(n, f) # "comma"
    /\ \A f \in {"obfsOpts", "wsOpts"} : At(n, f) # "commaMap"

(* The checks of _prepare_surfboard_records before the node is normalized. *)
SurfboardTakes(n) ==
    /\ SetOf(n, Critical) = {}
    /\ n.type \in DOMAIN SurfboardNeeds
    /\ n.type = "ss" => SetOf(n, PluginFields) = {}
    /\ SurfboardSpells(n)

\* Variant: the labels are cleaned when the lines are printed.
SurfboardRecordsLate(records, route) ==
    LET kept == Passing(ApplyTransform(records, route.filter, route.rename),
                          LAMBDA r : SurfboardTakes(r.node))
        repaired == Repaired(Normalized(kept))
    IN [i \in DOMAIN repaired |->
            [repaired[i] EXCEPT !.label = SurfboardLabel(@)]]

(* _prepare_surfboard_records: labels are cleaned, then repaired.          *)
SurfboardRecords(records, route) ==
    LET kept == Passing(ApplyTransform(records, route.filter, route.rename),
                          LAMBDA r : SurfboardTakes(r.node))
        normalized == Normalized(kept)
    IN Repaired([i \in DOMAIN normalized |->
            [normalized[i] EXCEPT !.label = SurfboardLabel(@)]])

(* _render_sb_vmess and so on return a line.                               *)
SurfboardPrints(r) ==
    /\ SurfboardLabel(r.label) # <<>>
    /\ Complete(r.node, SurfboardNeeds)
    /\ r.node.type \in {"vmess", "trojan"} => Network(r.node) \in {"tcp", "ws"}

SurfboardKeeps(n) ==
    CASE n.type \in {"vmess", "trojan"} -> {"network", "tls"}
      [] n.type = "snell" -> {"obfsOpts"}
      [] n.type = "ss" -> {"obfs"}
      [] n.type = "hysteria2" -> {"tls"} \cup {f \in {"obfs"} : At(n, f) = "good"}
      [] OTHER -> {"tls"}

----------------------------------------------------------------------------
(* quantumult-x                                                            *)

QxNeeds ==
    [ss |-> {"server", "port", "cipher", "password"},
     trojan |-> {"server", "port", "password"}, vless |-> {"server", "port", "uuid"},
     vmess |-> {"server", "port", "uuid"}, anytls |-> {"server", "port", "password"},
     http |-> {"server", "port"}, socks5 |-> {"server", "port"}]

ExplicitObfs(n) == n.type = "ss" /\ HasText(n, "obfs")

(* _qx_security_issue finds none: Reality with its public key over a       *)
(* transport that has TLS, and the flow of vision for VLESS.               *)
QxSafe(n) ==
    /\ SetOf(n, Critical \ {"realityOpts", "flow"}) = {}
    /\ IsSet(n, "realityOpts") =>
            /\ n.realityOpts # "bareMap"
            /\ ExplicitObfs(n) => n.obfs \in {"over-tls", "wss"}
            /\ Network(n) # "grpc"
    /\ HasText(n, "flow") => n.type = "vless" /\ n.flow = "vision"

QxScalars == {"server", "port", "cipher", "password", "uuid", "sni", "servername", "obfs",
              "flow", "username"}

(* _has_unrepresentable_qx_scalar; "v6" is an address with colons.         *)
QxSpells(n) ==
    /\ At(n, "server") # "v6"
    /\ \A f \in QxScalars : At(n, f) # "comma"
    /\ \A f \in {"wsOpts", "grpcOpts"} : At(n, f) # "commaMap"

(* The obfs or transport segments are not None.                            *)
QxTransport(n) ==
    CASE n.type = "ss" -> ExplicitObfs(n) \/ Network(n) \in {"tcp", "ws"}
      [] n.type \in {"vmess", "vless", "trojan"} -> Network(n) \in {"tcp", "ws", "grpc"}
      [] OTHER -> TRUE

QxTakes(n) ==
    /\ QxSafe(n)
    /\ n.type = "ss" => SetOf(n, PluginFields \cup {"obfsOpts"}) = {}
    /\ QxSpells(n)
    /\ Complete(n, QxNeeds)
    /\ QxTransport(n)

(* No other transport beside an explicit obfs; VMess and VLESS over gRPC   *)
(* are printed without TLS.                                                *)
QxKeeps(n) ==
    LET bare == n.type \in {"vmess", "vless"} /\ Network(n) = "grpc" IN
    {"realityOpts"}
    \cup (IF ExplicitObfs(n) THEN {"obfs"} ELSE {"network"})
    \cup (IF ExplicitObfs(n) \/ bare THEN {} ELSE {"tls"})
    \cup (IF n.type = "vless" THEN {"flow"} ELSE {})

----------------------------------------------------------------------------
(* The fields of its node that a line of the format holds.                 *)
Keeps(format, n) ==
    SetOf(n, CASE format = "xray-uri" -> XrayKeeps(n)
               [] format = "surfboard" -> SurfboardKeeps(n)
               [] format = "quantumult-x" -> QxKeeps(n)
               [] OTHER -> DOMAIN n)

(* The label printed.  It is cleaned once more after the repair, a tag of  *)
(* Quantumult X for the first time.                                        *)
LabelOf(format, label) ==
    CASE format = "surfboard" -> SurfboardLabel(label)
      [] format = "quantumult-x" -> QxLabel(label)
      [] OTHER -> label

(* The records that get a line.                                            *)
Taken(format, records, route) ==
    CASE format = "xray-uri" ->
            Passing(Prepared(records, route), LAMBDA r : XrayTakes(r.node))
      [] format = "surfboard" -> Passing(SurfboardRecords(records, route), SurfboardPrints)
      [] format = "quantumult-x" ->
            Passing(Prepared(records, route), LAMBDA r : QxTakes(r.node))
      [] OTHER -> Prepared(records, route)

LineOf(format, r) ==
    [id |-> r.id, label |-> LabelOf(format, r.label), keeps |-> Keeps(format, r.node)]

Lines(format, records, route) ==
    LET taken == Taken(format, records, route)
    IN [i \in DOMAIN taken |-> LineOf(format, taken[i])]

----------------------------------------------------------------------------
(* render(): a status, the lines and a link to another path.  A request is *)
(* [route, records, companion, mainUrl, nodesUrl]; the route's template is *)
(* "none", "unread" (no template_body), "bare" (no {{proxies}}) or "good". *)

NoLink == [path |-> <<>>, target |-> "none", absolute |-> FALSE]
Refusal(status) == [status |-> status, lines |-> <<>>, link |-> NoLink]

(* QuantumultXRenderer._render_import                                      *)
RenderImport(request) ==
    [status |-> IF request.route.plainImport THEN 200 ELSE 302,
     lines |-> <<>>, link |-> request.mainUrl]

(* Only a provider is rendered without nodes.                              *)
RenderLines(format, request) ==
    LET lines == Lines(format, request.records, request.route)
        profile == format = "surfboard" /\ request.companion # "nodes"
    IN IF lines = <<>> /\ format # "provider" THEN Refusal(422)
       ELSE [status |-> 200, lines |-> lines,
             link |-> IF profile THEN request.nodesUrl ELSE NoLink]

(* ClashConfigRenderer                                                     *)
RenderConfig(request) ==
    LET config == RenderLines("clash-config", request) IN
    CASE request.route.template = "none" -> Refusal(400)
      [] request.route.template = "unread" -> Refusal(500)
      [] request.route.template = "bare" /\ config.status = 200 -> Refusal(500)
      [] OTHER -> config

Render(format, request) ==
    CASE format = "clash-config" -> RenderConfig(request)
      [] format = "quantumult-x" /\ request.companion = "import" -> RenderImport(request)
      [] OTHER -> RenderLines(format, request)
=============================================================================
