----------------------------- MODULE MCServer -----------------------------
EXTENDS Server, TLC

CONSTANTS r1, r2, r3

Sym == Permutations(Events)

----------------------------------------------------------------------------
(* Nodes of every type some format prints and of one that none does, with  *)
(* two fields that matter to a renderer changed.                           *)

Base(t) ==
    [f \in {"name", "type"} \cup Required[t] |->
        CASE f = "type" -> t [] f = "server" -> "h1" [] f = "port" -> "one" [] OTHER -> "good"]

Common == {"echOpts", "certificate", "server", "sni"}

OptionsOf ==
    [ss |-> Common \cup {"realityOpts", "plugin", "pluginOpts", "obfs", "obfsOpts"},
     vmess |-> Common \cup {"realityOpts", "tls", "network", "wsOpts", "grpcOpts"},
     vless |-> Common \cup {"realityOpts", "flow", "tls", "network", "wsOpts", "grpcOpts",
                            "encryption"},
     trojan |-> Common \cup {"realityOpts", "flow", "tls", "network", "password", "ssOpts"},
     hysteria2 |-> {"obfs", "obfsPassword", "server", "certificate", "sni"},
     snell |-> {"obfsOpts", "server"},
     anytls |-> Common \cup {"tls", "password", "realityOpts"},
     http |-> Common \cup {"tls", "realityOpts", "username"},
     socks5 |-> Common \cup {"tls"},
     wireguard |-> {}]

ValuesOf(t, f) ==
    CASE t = "hysteria2" /\ f = "obfs" -> {"good", "gecko"}
      [] f \in {"realityOpts"} -> {"map", "bareMap"}
      [] f \in {"obfsOpts", "wsOpts", "grpcOpts"} -> {"map", "commaMap"}
      [] f \in {"echOpts", "pluginOpts", "ssOpts"} -> {"map"}
      [] f = "flow" -> {"vision", "good"}
      [] f = "network" -> {"ws", "grpc", "h2", "good"}
      [] f = "tls" -> {"true", "false"}
      [] f = "obfs" -> {"http", "over-tls", "good"}
      [] f = "server" -> {"v6", "literal"}
      [] f \in {"sni", "password", "username"} -> {"comma"}
      [] OTHER -> {"good"}

With(n, f, v, g, w) == (f :> v) @@ (g :> w) @@ n

Nodes(t) ==
    {Base(t)} \cup UNION {UNION {{With(Base(t), f, v, g, w) : v \in ValuesOf(t, f), w \in ValuesOf(t, g)}
                                    : g \in OptionsOf[t]} : f \in OptionsOf[t]}

Rec(i, label, n) == [id |-> i, source |-> "s1", label |-> label, node |-> n]
Plain(labels) == [i \in DOMAIN labels |-> Rec(i, labels[i], Base("trojan"))]

NodeLists ==
    UNION {{<<Rec(1, <<"HK">>, n), Rec(2, <<"JP">>, Base("http"))>> :
                n \in {n \in Nodes(t) : Accepted(n)}} : t \in DOMAIN OptionsOf}

Labels == {<<"HK">>, <<"HK", ",">>, <<":", "HK">>, Candidate(<<"HK">>, 2),
           <<"HK", ",">> \o Number(2), <<"JP", "blank", "HK">>, <<":">>, Number(2)}
LabelLists == {Plain(<<a, b, c>>) : a, b, c \in Labels}

----------------------------------------------------------------------------
TheServer == [base |-> TRUE, healthPath |-> <<"healthz">>, statusPath |-> <<"s">>]

Route(f) ==
    [path |-> <<"p">>, format |-> f, default |-> "provider", importLink |-> FALSE,
     plainImport |-> FALSE, template |-> IF f = "clash-config" THEN "good" ELSE "none",
     agents |-> {}, filter |-> NoFilter, rename |-> NoRename]

Simple ==
    [server |-> TheServer, routes |-> <<Route("provider")>>, log |-> FALSE, records |-> Plain(<<<<"HK">>>>),
     loops |-> {}, sends |-> 1, until |-> Start]

(* What is printed.                                                        *)
Tables ==
    {[Simple EXCEPT !.routes = <<Route(f)>>, !.records = l] :
        f \in ImplementedFormats, l \in NodeLists \cup LabelLists}
    \cup {[Simple EXCEPT !.routes = <<[Route("provider") EXCEPT !.filter = f, !.rename = n]>>,
                         !.records = l] :
            f \in {[NoFilter EXCEPT !.exclude = "JP"]},
            n \in {NoRename, [prefix |-> <<"{source}">>, suffix |-> Candidate(<<>>, 2)]},
            l \in LabelLists}

(* Who is led where.                                                       *)
OneRoute ==
    {[Route(f) EXCEPT !.importLink = i, !.plainImport = p, !.template = t, !.agents = a] :
        f \in ImplementedFormats, i, p \in BOOLEAN, t \in {"none", "good"},
        a \in {{}, {"surfboard"}}}
    \cup {[Route("auto") EXCEPT !.default = d, !.importLink = i, !.template = t, !.agents = a] :
            d \in {"provider", "surfboard", "clash-config"}, i \in BOOLEAN,
            t \in {"none", "good"}, a \in {{}, {"clash", "surfboard"}}}

Other(path) == [Route("provider") EXCEPT !.path = path]
Neighbours ==
    UNION {{<<r, Other(p)>>, <<Other(p), r>>} :
        r \in {Route("auto"), Route("surfboard"), [Route("auto") EXCEPT !.importLink = TRUE]},
        p \in {<<"q">>, <<"p", "nodes">>, <<"p", "import">>}}

Mixed == <<Rec(1, <<"HK">>, Base("trojan")), Rec(2, <<"JP">>, Base("vless"))>>
Unprintable == <<Rec(1, <<"HK">>, Base("wireguard"))>>

Led ==
    {[Simple EXCEPT !.routes = rs, !.records = Mixed] :
        rs \in {<<r>> : r \in OneRoute} \cup Neighbours}
    \cup {[Simple EXCEPT !.routes = <<r>>, !.records = Unprintable] : r \in OneRoute}
    \cup {[Simple EXCEPT !.routes = <<r>>, !.server = s] :
            r \in OneRoute, s \in {[TheServer EXCEPT !.base = FALSE],
                                   [TheServer EXCEPT !.statusPath = <<"p", "nodes">>]}}

\* What is answered makes no difference to the store.
Timed == [Simple EXCEPT !.log = TRUE, !.records = <<>>, !.sends = 3, !.until = Start + 3]
Looped == {[Simple EXCEPT !.sends = 0, !.until = MaxTime, !.loops = {l}] : l \in Loops}

\* Names a route prints twice: the first three in Surfboard, the others in Quantumult X.
Repeating ==
    {[Simple EXCEPT !.routes = <<Route(f)>>, !.records = Plain(l)] :
        f \in {"surfboard", "quantumult-x"},
        l \in {<<<<":">>, <<":">>, Number(2)>>, <<<<"HK", "blank", "JP">>, <<"HK", ",", "JP">>>>}}

SomeSetups == Tables \cup Led \cup {Timed} \cup Looped

----------------------------------------------------------------------------
Get(path, query, agent) == [path |-> path, query |-> query, agent |-> agent, from |-> NoEvent]
Home == Get(<<"p">>, <<>>, "clash")

Queries ==
    {[target |-> v] : v \in {"surfboard", "quanx", "full", "singbox", "odd", "auto"}}
    \cup {[target |-> "blank", format |-> "surfboard"], [flag |-> "v2rayn"],
          [client |-> "quanx", format |-> "surfboard"]}

Paths == {<<"p">>, <<"p", "nodes">>, <<"p", "import">>}

SomeInputs(s) ==
    IF s \notin Led THEN {Home}
    ELSE {Get(p, q, "clash") : p \in Paths, q \in Queries}
         \cup {Get(p, <<>>, a) : p \in Paths, a \in {"quantumult", "surfboard", "clash", "singbox", "none"}}
         \cup {Get(<<"x">>, <<>>, "clash"), Get(<<"healthz">>, <<>>, "none")}
===========================================================================
