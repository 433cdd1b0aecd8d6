------------------------------ MODULE SafeHttp ------------------------------
(***************************************************************************)
(* SafeHttpClient.request: one request at a time, followed through its     *)
(* redirects hop by hop.  A URL is its origin, the triple of _origin(); a  *)
(* header is its class.                                                    *)
(*                                                                         *)
(* A definition that says "Variant" is a fault put into the one after it;  *)
(* no other definition uses it.                                            *)
(***************************************************************************)
EXTENDS Naturals

CONSTANTS
    Origins,       \* origins a redirect may lead to
    SafeOrigins,   \* those assert_safe_url_async() lets pass
    MaxRedirects   \* http.max_redirects

ASSUME OriginAssumption == SafeOrigins \subseteq Origins
ASSUME RedirectAssumption == MaxRedirects \in Nat

VARIABLE req    \* the request under way, or the last one

----------------------------------------------------------------------------
(* "allowed" is _SAFE_CROSS_ORIGIN_HEADERS, "content" what describes a     *)
(* body, "validator" If-None-Match and If-Modified-Since, "custom" any     *)
(* other header of the source or plugin.                                   *)
Headers == {"allowed", "content", "validator", "custom"}

Methods == {"GET", "POST"}

(* phase "check" is before the URL check of a hop, "sent" waits for the    *)
(* response; "answered" and "raised" are the ends.                         *)
HttpPhases == {"idle", "check", "sent", "answered", "raised"}

(* Nothing is under way; the status is what is left of the last request.   *)
(* kinds, for the properties only: the statuses of the redirects followed. *)
Rest(phase, status) ==
    [phase |-> phase, at |-> CHOOSE o \in Origins : TRUE, method |-> "GET",
     body |-> FALSE, headers |-> {}, hops |-> 0, status |-> status, kinds |-> {}]

Idle == Rest("idle", 0)

(* Accept-Encoding is added if it is missing.                              *)
Request(origin, method, body, headers) ==
    [phase |-> "check", at |-> origin, method |-> method, body |-> body,
     headers |-> headers \cup {"allowed"}, hops |-> 0, status |-> 0, kinds |-> {}]

Ended == req.phase \in {"answered", "raised"}

----------------------------------------------------------------------------
(* assert_safe_url_async, whose resolution of the host may fail, before    *)
(* each hop, then client.stream().                                         *)
CheckHop ==
    /\ req.phase = "check"
    /\ \/ /\ req.at \in SafeOrigins
          /\ req' = [req EXCEPT !.phase = "sent"]
       \/ req' = [req EXCEPT !.phase = "raised"]

\* Variant: a redirect goes on without another check.
RedirectUnchecked(status, to) ==
    LET same == status = 307
        kept == IF to = req.at THEN req.headers ELSE req.headers \cap {"allowed"}
    IN /\ req.phase = "sent"
       /\ req' = IF req.hops = MaxRedirects THEN [req EXCEPT !.phase = "raised"]
                 ELSE [req EXCEPT !.at = to, !.hops = @ + 1, !.kinds = @ \cup {status},
                          !.method = IF same THEN @ ELSE "GET",
                          !.body = same /\ @,
                          !.headers = IF same THEN kept ELSE kept \ {"content"}]

\* Variant: a redirect of any kind keeps the method and the body.
RedirectKeepsBody(status, to) ==
    LET kept == IF to = req.at THEN req.headers ELSE req.headers \cap {"allowed"}
    IN /\ req.phase = "sent"
       /\ req' = IF req.hops = MaxRedirects THEN [req EXCEPT !.phase = "raised"]
                 ELSE [req EXCEPT !.phase = "check", !.at = to, !.hops = @ + 1,
                          !.kinds = @ \cup {status}, !.headers = kept]

\* Variant: the hops are not counted.
RedirectUncounted(status, to) ==
    /\ req.phase = "sent"
    /\ req' = [req EXCEPT !.phase = "check", !.at = to, !.method = "GET", !.body = FALSE,
                  !.kinds = @ \cup {status}, !.headers = @ \cap {"allowed"}]

(* A response with status 303 (301 and 302 are the same) or 307 (308 is)   *)
(* and a Location, which may lead anywhere; the hop after the last raises. *)
(* Another origin gets the allowed headers only, but a 307 keeps the method*)
(* and the body, to another origin too.                                    *)
Redirect(status, to) ==
    LET same == status = 307
        kept == IF to = req.at THEN req.headers ELSE req.headers \cap {"allowed"}
    IN /\ req.phase = "sent"
       /\ req' = IF req.hops = MaxRedirects THEN [req EXCEPT !.phase = "raised"]
                 ELSE [req EXCEPT !.phase = "check", !.at = to, !.hops = @ + 1,
                          !.kinds = @ \cup {status},
                          !.method = IF same THEN @ ELSE "GET",
                          !.body = same /\ @,
                          !.headers = IF same THEN kept ELSE kept \ {"content"}]

(* Any other response, read to its end: what is left of the request is its *)
(* status.  A server answers 304 only to a request with a validator.       *)
Answer(status) ==
    /\ req.phase = "sent"
    /\ status = 304 => "validator" \in req.headers
    /\ req' = Rest("answered", status)

(* No response, a redirect without Location, or a body that exceeds        *)
(* max_response_size.                                                      *)
Breaks ==
    /\ req.phase = "sent"
    /\ req' = Rest("raised", 0)

HttpStep ==
    \/ CheckHop
    \/ \E status \in {303, 307}, to \in Origins : Redirect(status, to)
    \/ \E status \in {200, 304, 404} : Answer(status)
    \/ Breaks

HttpTypeOK ==
    req \in [phase : HttpPhases, at : Origins, method : Methods, body : BOOLEAN,
             headers : SUBSET Headers, hops : 0..MaxRedirects, status : {0, 200, 304, 404},
             kinds : SUBSET {303, 307}]
=============================================================================
