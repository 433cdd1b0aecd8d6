-------------------------- MODULE MCSubscription --------------------------
EXTENDS Subscription, TLC

CONSTANTS o1, o2, o3

----------------------------------------------------------------------------
(* Nodes: one of each type that passes, with one field or the fields that  *)
(* are checked together changed.                                           *)

Base(t) ==
    [f \in {"name", "type"} \cup Required[t] |->
        CASE f = "type" -> t [] f = "server" -> "h1" [] f = "port" -> "one" [] OTHER -> "good"]

Extra == [None EXCEPT
    !.ss = {"plugin", "uotVersion"}, !.vless = {"flow", "encryption", "xhttpOpts", "realityOpts"},
    !.snell = {"obfsOpts"}, !.trojan = {"ssOpts"}, !.hysteria = {"auth"},
    !.hysteria2 = {"hopInterval"}, !.wireguard = {"ipv6", "reserved", "preSharedKey"},
    !.tuic = {"uotVersion"}, !.ssh = {"privateKey", "hostKey"},
    !.mieru = {"multiplexing"}, !.sudoku = {"tableType", "httpMask", "pathRoot", "customTables"},
    !.openvpn = {"proto", "ping"}, !.http = {"tls"}, !.direct = {"other"}]

Together == [None EXCEPT
    !.ss = {"plugin", "pluginOpts"}, !.snell = {"version", "udp"},
    !.hysteria2 = {"ports", "port", "obfs", "obfsPassword"},
    !.wireguard = {"peers", "publicKey"}, !.mieru = {"port", "portRange"},
    !.sudoku = {"paddingMin", "paddingMax"}, !.masque = {"ip", "ipv6"},
    !.openvpn = {"cert", "key", "username"}]

Alternatives(f) ==
    CASE f = "server" -> {"absent", "null", "empty", "literal"}
      [] f = "type" -> {"unknown", "null"}
      [] f = "ping" -> {"absent", "null", "zero", "one", "minus"}
      [] f \in NumberFields -> {"absent", "null", "zero", "one", "huge", "digits", "good"}
      [] f \in BoolFields -> {"absent", "true", "digits", "nought", "bad"}
      [] f = "pluginOpts" -> {"absent", "map", "oddmap", "listMap", "good"}
      [] f \in MapFields -> {"absent", "map", "oddmap", "good"}
      [] f \in ListFields \cup {"reserved"} -> {"absent", "list", "oddlist", "one", "bad"}
      [] OTHER -> {"absent", "null", "empty", "one", "zero", "bad", "good"}

Changed(n, fs) ==
    LET some == UNION {Alternatives(f) : f \in fs}
    IN {Present([f \in DOMAIN n \cup fs |-> IF f \in fs THEN g[f] ELSE n[f]]) :
            g \in {g \in [fs -> some] : \A f \in fs : g[f] \in Alternatives(f)}}

Nodes ==
    UNION {UNION {Changed(Base(t), {f}) : f \in DOMAIN Base(t) \cup Extra[t]}
           \cup Changed(Base(t), Together[t]) : t \in DOMAIN Required}

(* Share links, likewise.                                                  *)
BaseLink(s) ==
    [scheme |-> s, host |-> "h1", port |-> "one", user |-> "good",
     cipher |-> IF s = "ss" THEN "good" ELSE "absent", security |-> "absent",
     network |-> "absent", path |-> "absent", sni |-> "absent", flow |-> "absent",
     reality |-> "absent", plugin |-> "absent"]

PartValues ==
    [scheme |-> {"other"}, host |-> {"absent", "literal"}, port |-> {"absent", "bad"},
     user |-> {"absent", "bad"}, cipher |-> {"good", "bad", "absent"},
     security |-> {"tls", "reality"}, network |-> {"ws", "grpc"},
     path |-> {"map"}, sni |-> {"good"}, flow |-> {"good", "bad"},
     reality |-> {"map", "oddmap"}, plugin |-> {"good", "bad"}]

Edited(l) == UNION {{[l EXCEPT ![p] = v] : v \in PartValues[p]} : p \in DOMAIN PartValues}
Links == UNION {Edited(l) : l \in UNION {Edited(BaseLink(s)) : s \in LinkSchemes}}

----------------------------------------------------------------------------
Item(label, n) == [label |-> label, node |-> n]
Line(label, l) == [label |-> label, link |-> l]
Yaml(items) == [kind |-> "yaml", entries |-> items]

GoodItem == Item(<<"JP">>, Base("ss"))
BadItem == Item(<<"HK">>, [Base("vmess") EXCEPT !.uuid = "bad"])
NoMapping == Item(<<>>, [type |-> "scalar"])

YamlNodes == {Yaml(<<Item(<<"HK">>, n), GoodItem>>) : n \in Nodes}
LinkLists(kind, ls) == {[kind |-> kind, entries |-> <<Line(<<"HK">>, l)>>] : l \in ls}

(* Bodies whose entries pass and fail side by side, and bodies that are no *)
(* subscription.                                                           *)
Mixed ==
    {Yaml(items) : items \in
        {<<>>, <<BadItem>>, <<NoMapping>>, <<GoodItem, BadItem>>,
         <<BadItem, Item(<<"HK">>, Base("trojan")), NoMapping, GoodItem>>}}
    \cup LinkLists("base64", {BaseLink("vless"), [BaseLink("ss") EXCEPT !.port = "bad"]})
    \cup LinkLists("links", {BaseLink("vmess"), [BaseLink("other") EXCEPT !.scheme = "other"]})
    \cup {[kind |-> k, entries |-> <<>>] : k \in {"other", "binary", "links", "base64"}}

Tls == Base("trojan") @@ [tls |-> "true", network |-> "ws"]
AtHost(n, h) == [n EXCEPT !.server = h]

(* Two hosts, one of them twice, and a literal address.                    *)
Resolvable ==
    {Yaml(<<Item(<<"HK">>, AtHost(Tls, "h1")), Item(<<"JP">>, AtHost(Base("ss"), "h2")),
            Item(<<"US">>, AtHost(Base("vless"), "h1"))>>),
     Yaml(<<Item(<<"HK">>, AtHost(Base("ss"), "literal")), Item(<<"JP">>, AtHost(Tls, "h2"))>>)}

----------------------------------------------------------------------------
Simple ==
    [plugins |-> <<>>, dns |-> FALSE, ipv6 |-> FALSE, failure |-> "fail", format |-> "auto",
     parseError |-> "skip", filter |-> NoFilter, rename |-> NoRename]

Strict == {[Simple EXCEPT !.format = f, !.parseError = e] :
              f \in Formats, e \in {"skip", "fail"}} \ {Simple}
Hooked == {[Simple EXCEPT !.plugins = p] : p \in {<<"continue">>, <<"continue", "abort">>}}
Renamed ==
    {[Simple EXCEPT !.filter = f, !.rename = [prefix |-> <<"{source}">>, suffix |-> <<"US">>]] :
        f \in {[NoFilter EXCEPT !.include = "HK"], [NoFilter EXCEPT !.exclude = "US"],
               [NoFilter EXCEPT !.excludeTypes = {"ss"}], [NoFilter EXCEPT !.includeTypes = {"ss"}]}}
Dns == {[Simple EXCEPT !.dns = TRUE, !.ipv6 = v, !.failure = f] :
           v \in BOOLEAN, f \in {"fail", "drop", "keep"}}

SomeSetups == {Simple} \cup Strict \cup Hooked \cup Renamed \cup Dns

Single == YamlNodes \cup LinkLists("links", Links)

SomeBodies(s) ==
    IF s = Simple THEN Single ELSE IF s.dns THEN Resolvable ELSE Mixed

(* The definition of Passing is the loop that SelectSeq stands for.        *)
Lists == UNION {[1..n -> {1, 2, 3}] : n \in 0..4}
ASSUME PassingSelects ==
    \A s \in Lists : Passing(s, LAMBDA x : x > 1) = SelectSeq(s, LAMBDA x : x > 1)
===========================================================================
