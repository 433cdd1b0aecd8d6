---------------------------- MODULE ProxySchema ----------------------------
(***************************************************************************)
(* normalize_proxy: the values of a node are coerced to the kinds of its   *)
(* fields, its required fields must be there, and its content must pass    *)
(* the checks of its type.  A node that gets any warning is rejected.      *)
(*                                                                         *)
(* A node is a function from its fields to value classes:                  *)
(*   "good"/"bad"      text that the checks of the field accept or not,    *)
(*   "digits"/"nought" text that reads as the numbers 1 and 0,             *)
(*   "one"/"zero"/"huge"  the integers 1, 0 and one beyond every range,    *)
(*   "minus" the integer -1, of a keepalive only,                          *)
(*   "map"/"oddmap", "list"/"oddlist"  likewise accepted or not,           *)
(*   "bareMap" an accepted map without its main key, "listMap" one whose   *)
(*   main value is a list, "comma"/"commaMap" text or a map accepted       *)
(*   although it holds a comma,                                            *)
(*   "true", "false", "null" (None), "empty" (the empty string);           *)
(* its type is a type, its server a host name or "literal", an address.    *)
(* Fields and types are written in camel case.                             *)
(*                                                                         *)
(* A definition that says "Variant" is a fault put into the one after it;  *)
(* no other definition uses it.                                            *)
(***************************************************************************)
EXTENDS Naturals

(* REQUIRED_FIELDS beyond "name" and "type".                               *)
Required == [
    ss |-> {"server", "port", "cipher", "password"},
    ssr |-> {"server", "port", "cipher", "password", "obfs", "protocol"},
    socks5 |-> {"server", "port"}, http |-> {"server", "port"},
    vmess |-> {"server", "port", "uuid", "cipher"},
    vless |-> {"server", "port", "uuid"},
    snell |-> {"server", "port", "psk"},
    trojan |-> {"server", "port", "password"},
    hysteria |-> {"server", "up", "down"},
    hysteria2 |-> {"server", "port", "password"},
    wireguard |-> {"ip", "privateKey"}, tuic |-> {"server", "port"},
    gostRelay |-> {"server", "port"},
    direct |-> {}, dns |-> {}, reject |-> {}, tailscale |-> {},
    ssh |-> {"server", "port", "username"},
    mieru |-> {"server", "transport", "username", "password"},
    anytls |-> {"server", "port", "password"},
    sudoku |-> {"server", "port", "key"},
    masque |-> {"server", "port", "privateKey", "publicKey"},
    trusttunnel |-> {"server", "port", "username", "password"},
    openvpn |-> {"server", "port", "ca"}]

(* PROXY_SCHEMAS: the fields that are not text.                            *)
NumberFields == {"port", "version", "uotVersion", "paddingMin", "paddingMax",
                 "ping", "pingRestart"}
BoolFields == {"tls", "udp", "tfo", "skipCertVerify"}
MapFields == {"pluginOpts", "obfsOpts", "ssOpts", "wsOpts", "grpcOpts",
              "xhttpOpts", "realityOpts", "echOpts", "httpMask"}
ListFields == {"hostKey", "peers", "alpn", "customTables"}

(* Not in the schema of their type, so kept as they are; "reserved" is in  *)
(* the schema of a WireGuard peer but not in that of the node.             *)
Foreign == {"type", "other", "reserved"}

Maps == {"map", "oddmap", "bareMap", "listMap", "commaMap"}

At(n, f) == IF f \in DOMAIN n THEN n[f] ELSE "absent"
IsSet(n, f) == At(n, f) \notin {"absent", "null", "empty", "zero", "false"}

----------------------------------------------------------------------------
(* _normalize_value()                                                      *)

ToText(v) ==
    CASE v = "null" -> "empty"
      [] v \in {"one", "huge"} -> "digits"
      [] v = "zero" -> "nought"
      [] v \in Maps \cup {"true", "false", "list", "oddlist", "minus"} -> "bad"
      [] OTHER -> v

ToNumber(v) ==
    CASE v \in {"one", "zero", "huge", "minus"} -> v
      [] v = "digits" -> "one"
      [] v = "nought" -> "zero"
      [] OTHER -> "error"

ToBool(v) ==
    CASE v \in {"true", "one", "digits"} -> "true"
      [] v \in {"false", "zero", "nought"} -> "false"
      [] OTHER -> "error"

(* A text is split at its commas, so any text makes a list.                *)
ToList(v) ==
    CASE v \in {"list", "oddlist"} -> v
      [] v = "good" -> "list"
      [] v \in {"bad", "digits", "nought", "empty"} -> "oddlist"
      [] OTHER -> "error"

Coerce(f, v) ==
    CASE f \in Foreign -> v
      [] f \in NumberFields -> ToNumber(v)
      [] f \in BoolFields -> ToBool(v)
      [] f \in MapFields -> IF v \in Maps THEN v ELSE "error"
      [] f = "peers" -> IF v \in {"list", "oddlist"} THEN v ELSE "error"
      [] f \in ListFields \ {"peers"} -> ToList(v)
      [] OTHER -> ToText(v)

----------------------------------------------------------------------------
(* _validate_known_content()                                               *)

None == [t \in DOMAIN Required |-> {}]

(* Text that must be there and in its table, or decode.                    *)
MustFit == [None EXCEPT
    !.ss = {"cipher"}, !.ssr = {"cipher", "obfs", "protocol"},
    !.vmess = {"cipher", "uuid"}, !.vless = {"uuid"},
    !.wireguard = {"privateKey"}, !.mieru = {"transport"},
    !.masque = {"privateKey", "publicKey"}, !.openvpn = {"ca"}]

(* Checked only if it is set.                                              *)
MayFit == [None EXCEPT
    !.vless = {"encryption", "xhttpOpts"}, !.snell = {"obfsOpts"},
    !.trojan = {"ssOpts"}, !.hysteria = {"auth"}, !.hysteria2 = {"obfs"},
    !.wireguard = {"ip", "ipv6", "reserved", "peers"},
    !.ssh = {"hostKey"}, !.mieru = {"multiplexing", "handshakeMode"},
    !.masque = {"ip", "ipv6"},
    !.sudoku = {"aeadMethod", "tableType", "httpMaskMode", "httpMaskMultiplex",
                "httpMask", "customTable", "customTables"},
    !.openvpn = {"proto", "dev", "cipher", "auth", "ping", "pingRestart"}]

Odd == {"bad", "digits", "nought", "minus", "oddmap", "oddlist"}
Fits(n, f) == IsSet(n, f) => n[f] \notin Odd

(* int(proxy.get(field) or default); huge is any number beyond the ranges. *)
IntOf(n, f, default) ==
    CASE At(n, f) = "zero" -> 0 [] At(n, f) = "one" -> 1
      [] At(n, f) = "huge" -> 70000 [] OTHER -> default

ValidPort(n) == At(n, "port") = "one"

SsOk(n) ==
    /\ At(n, "uotVersion") # "huge"
    /\ At(n, "plugin") = "good" => At(n, "pluginOpts") = "map"

(* Version 0 and 5 stand for 4; 1 and 2 have no UDP.                       *)
SnellOk(n) ==
    /\ At(n, "version") # "huge"
    /\ At(n, "version") = "one" => ~IsSet(n, "udp")

SpeedOk(v) == v \in {"good", "digits"}

Hysteria2Ok(n) ==
    /\ IsSet(n, "obfs") => IsSet(n, "obfsPassword")
    /\ IF IsSet(n, "ports")
       THEN /\ At(n, "ports") # "bad"
            /\ At(n, "hopInterval") # "bad"
       ELSE ValidPort(n)

LocalAddress(n) == IsSet(n, "ip") \/ IsSet(n, "ipv6")

(* The keys of the only peer are its own unless there is a list of peers.  *)
WireguardOk(n) ==
    /\ LocalAddress(n)
    /\ ~IsSet(n, "peers") => Fits(n, "publicKey") /\ Fits(n, "preSharedKey")

(* A port or a range of ports, not both.                                   *)
MieruOk(n) ==
    /\ IsSet(n, "port") # IsSet(n, "portRange")
    /\ IsSet(n, "port") => ValidPort(n)
    /\ Fits(n, "portRange")

(* A bound that is not given follows the other one across its default.     *)
SudokuOk(n) ==
    LET low == IntOf(n, "paddingMin", 10)
        high == IntOf(n, "paddingMax", 30)
        given(f) == At(n, f) # "absent"
        follows == given("paddingMin") # given("paddingMax") /\ high < low
        from == IF follows /\ given("paddingMax") THEN high ELSE low
        to == IF follows /\ given("paddingMin") THEN low ELSE high
    IN ValidPort(n) /\ At(n, "pathRoot") # "bad" /\ 0 <= from /\ from <= to /\ to <= 100

(* A client certificate with its key, or a user name.                      *)
OpenvpnOk(n) ==
    IF IsSet(n, "cert") \/ IsSet(n, "key")
    THEN At(n, "cert") = "good" /\ At(n, "key") = "good"
    ELSE IsSet(n, "username")

ContentOk(n) ==
    LET is(t) == n.type = t IN
    /\ \A f \in {"realityOpts", "echOpts"} : At(n, f) # "oddmap"
    /\ \A f \in MustFit[n.type] : At(n, f) = "good"
    /\ \A f \in MayFit[n.type] : Fits(n, f)
    /\ is("ss") => SsOk(n)
    /\ is("snell") => SnellOk(n)
    /\ is("vless") => At(n, "flow") # "bad"
    /\ is("hysteria") => SpeedOk(At(n, "up")) /\ SpeedOk(At(n, "down"))
    /\ is("hysteria2") => Hysteria2Ok(n)
    /\ is("wireguard") => WireguardOk(n)
    /\ is("tuic") => At(n, "uotVersion") # "huge"
    /\ is("gostRelay") => IsSet(n, "server") /\ ValidPort(n)
    /\ is("ssh") => At(n, "privateKey") # "bad"
    /\ is("mieru") => MieruOk(n)
    /\ is("masque") => LocalAddress(n)
    /\ is("sudoku") => SudokuOk(n)
    /\ is("openvpn") => OpenvpnOk(n)

----------------------------------------------------------------------------
Coerced(n) == [f \in DOMAIN n |-> Coerce(f, n[f])]

\* Variant: required fields are looked for before the values are coerced.
AcceptedEarly(n) ==
    LET c == Coerced(n) IN
    /\ n.type \in DOMAIN Required
    /\ \A f \in DOMAIN n : c[f] # "error"
    /\ \A f \in Required[n.type] \cup {"name"} : At(n, f) \notin {"absent", "null", "empty"}
    /\ ContentOk(n)

(* Exceptions, not warnings: _validate_wireguard takes the length of       *)
(* whatever "reserved" holds, _validate_ss looks for the mode of the       *)
(* plugin obfs in a set.                                                   *)
Raises(n) ==
    \/ n.type = "wireguard" /\ At(n, "reserved") \in {"true", "one", "huge"}
    \/ n.type = "ss" /\ At(n, "plugin") = "good" /\ At(n, "pluginOpts") = "listMap"

(* No warning: every value can be coerced, no required field is missing or *)
(* empty, and the content passes.                                          *)
Accepted(n) ==
    LET c == Coerced(n) IN
    /\ n.type \in DOMAIN Required
    /\ \A f \in DOMAIN n : c[f] # "error"
    /\ \A f \in Required[n.type] \cup {"name"} : At(c, f) \notin {"absent", "null", "empty"}
    /\ ContentOk(c)
=============================================================================
