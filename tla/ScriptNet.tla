----------------------------- MODULE ScriptNet -----------------------------
(* The HTTP client of scripts (libs/execution/netclient.go and               *)
(* platform_http.go): redirects are followed by hand, so that every hop      *)
(* passes the rules in force at that moment, the identity of the device goes *)
(* only where it belongs, and the method and body change as HTTP says.       *)
EXTENDS Naturals, Sequences

CONSTANTS Urls,          \* targets, all absolute
          Platform,      \* those of the platform's origin
          WithIdentity,  \* those of them under a prefix that is given the identity
          Requests,      \* requests of scripts
          First,         \* First[r]: the URL; "relative" when it names no host
          Method,        \* Method[r]: "GET" or "POST", the latter with a body
          Follow,        \* Follow[r]: whether redirects are followed
          MaxRedirects,  \* cfg.MaxRedirects
          MaxBody,       \* cfg.MaxResponseBytes, 0 for no limit
          Sizes,         \* sizes of a response body
          MaxEdits       \* bound: changes of the rules

Parameters ==
    /\ First \in [Requests -> Urls \cup {"relative"}]
    /\ Method \in [Requests -> {"GET", "POST"}] /\ Follow \in [Requests -> BOOLEAN]
    /\ Platform \subseteq Urls /\ WithIdentity \subseteq Platform /\ Sizes \subseteq Nat
    /\ MaxRedirects \in Nat /\ MaxBody \in Nat /\ MaxEdits \in Nat

VARIABLES denied,    \* URLs the rules deny; grants and their ends change them
          phase,     \* phase[r]: "new" | "hop" | "passed" | "answered" | "done" | "failed"
          url, hop, method, hasBody,   \* of the hop under way
          response,  \* [status, size, location] of the answered hop
          gated,     \* gated[r]: what the gate let through last
          timer,     \* timer[r]: "armed" while the hop's context lives, "over" after
          sent,      \* history: the exchanges of a request
          received,  \* received[r]: bytes handed to the script
          edits      \* counted

netVars == <<denied, phase, url, hop, method, hasBody, response, gated, timer, sent, received, edits>>
hopVars == <<url, hop, method, hasBody>>

NoResponse == [status |-> 0, size |-> 0, location |-> "none"]

Init == /\ denied \in SUBSET Urls /\ edits = 0
        /\ phase = [r \in Requests |-> "new"] /\ url = First /\ hop = [r \in Requests |-> 0]
        /\ method = Method /\ hasBody = [r \in Requests |-> Method[r] = "POST"]
        /\ response = [r \in Requests |-> NoResponse] /\ gated = [r \in Requests |-> "none"]
        /\ timer = [r \in Requests |-> "over"] /\ sent = [r \in Requests |-> <<>>]
        /\ received = [r \in Requests |-> 0]

Phase(r, p) == phase' = [phase EXCEPT ![r] = p]

-----------------------------------------------------------------------------
(* Do.                                                                       *)

\* A path of the platform is completed by its address, when there is one.
Begin(r) ==
    /\ phase[r] = "new"
    /\ IF First[r] # "relative" THEN Phase(r, "hop") /\ UNCHANGED url
       ELSE \/ \E u \in Platform : url' = [url EXCEPT ![r] = u] /\ Phase(r, "hop")
            \/ Platform = {} /\ Phase(r, "failed") /\ UNCHANGED url
    /\ UNCHANGED <<denied, hop, method, hasBody, response, gated, timer, sent, received, edits>>

\* checkTarget, by the rules as they are now.  The device answers no target itself
\* (engine_vsh.go sets no Handler), so none is exempt.
\* (An operator whose name ends in Bug is a faulty variant of the one after it.)
Gate_FirstHopBug(r) ==
    /\ phase[r] = "hop" /\ gated' = [gated EXCEPT ![r] = url[r]]
    /\ Phase(r, IF url[r] \in denied /\ hop[r] = 0 THEN "failed" ELSE "passed")
    /\ UNCHANGED <<denied, hopVars, response, timer, sent, received, edits>>
Gate(r) ==
    /\ phase[r] = "hop"
    /\ IF url[r] \in denied THEN Phase(r, "failed") /\ UNCHANGED gated
       ELSE Phase(r, "passed") /\ gated' = [gated EXCEPT ![r] = url[r]]
    /\ UNCHANGED <<denied, hopVars, response, timer, sent, received, edits>>

\* round: the identity is added to the request of this hop alone.
Exchange(r) == [url |-> url[r], method |-> method[r], body |-> hasBody[r],
                identity |-> url[r] \in WithIdentity, gate |-> gated[r]]

Round(r) ==
    /\ phase[r] = "passed"
    /\ sent' = [sent EXCEPT ![r] = Append(@, Exchange(r))]
    /\ \/ \E size \in Sizes : /\ Phase(r, "answered") /\ timer' = [timer EXCEPT ![r] = "armed"]
                              /\ response' = [response EXCEPT ![r] = [status |-> 200, size |-> size, location |-> "none"]]
       \/ \E s \in {302, 303, 307}, u \in Urls \cup {"none"} :
            /\ Phase(r, "answered") /\ timer' = [timer EXCEPT ![r] = "armed"]
            /\ response' = [response EXCEPT ![r] = [status |-> s, size |-> 0, location |-> u]]
       \/ Phase(r, "failed") /\ UNCHANGED <<response, timer>>
    /\ UNCHANGED <<denied, hopVars, gated, received, edits>>

Redirects(r) == response[r].status # 200 /\ Follow[r]

\* 303, and 301 or 302 of anything but GET and HEAD, go on as GET.
BecomesGet(r) == \/ response[r].status = 303
                 \/ response[r].status = 302 /\ method[r] # "GET"

Redirect(r) ==
    /\ phase[r] = "answered" /\ Redirects(r) /\ timer' = [timer EXCEPT ![r] = "over"]
    /\ IF response[r].location = "none" \/ hop[r] >= MaxRedirects
       THEN Phase(r, "failed") /\ UNCHANGED hopVars
       ELSE /\ Phase(r, "hop") /\ hop' = [hop EXCEPT ![r] = @ + 1]
            /\ url' = [url EXCEPT ![r] = response[r].location]
            /\ method' = IF BecomesGet(r) THEN [method EXCEPT ![r] = "GET"] ELSE method
            /\ hasBody' = IF BecomesGet(r) THEN [hasBody EXCEPT ![r] = FALSE] ELSE hasBody
    /\ UNCHANGED <<denied, response, gated, sent, received, edits>>

\* deliverBody, while the context of the hop lives; its end, by the timeout or
\* by the caller, breaks the body off.  What came before the limit was met, or
\* the body broke off, has been written when the body is streamed.
Deliver(r) ==
    /\ phase[r] = "answered" /\ ~Redirects(r)
    /\ LET size == response[r].size
           fits == MaxBody = 0 \/ size <= MaxBody
       IN \/ /\ timer[r] = "armed" /\ fits
             /\ Phase(r, "done") /\ received' = [received EXCEPT ![r] = size]
          \/ /\ ~fits \/ timer[r] = "over" \/ size > 0
             /\ Phase(r, "failed")
             /\ \E n \in 0..(IF fits THEN size ELSE MaxBody) : received' = [received EXCEPT ![r] = n]
    /\ timer' = [timer EXCEPT ![r] = "over"]
    /\ UNCHANGED <<denied, hopVars, response, gated, sent, edits>>

\* The timeout of the hop.
Expire(r) ==
    /\ timer[r] = "armed" /\ timer' = [timer EXCEPT ![r] = "over"]
    /\ UNCHANGED <<denied, phase, hopVars, response, gated, sent, received, edits>>

\* A grant, or the end of one.
EditRules(u) ==
    /\ edits < MaxEdits /\ edits' = edits + 1
    /\ denied' = IF u \in denied THEN denied \ {u} ELSE denied \cup {u}
    /\ UNCHANGED <<phase, hopVars, response, gated, timer, sent, received>>

Next == \/ \E r \in Requests : \/ Begin(r) \/ Gate(r) \/ Round(r) \/ Redirect(r)
                               \/ Deliver(r) \/ Expire(r)
        \/ \E u \in Urls : EditRules(u)

Spec == Init /\ [][Next]_netVars

-----------------------------------------------------------------------------
\* Whatever redirects a request is led through and however the rules change
\* meanwhile, each exchange is with the target the gate was asked about, and a
\* target the rules have denied all along is never reached.
EveryHopGated ==
    /\ \A r \in Requests : \A i \in DOMAIN sent[r] : sent[r][i].gate = sent[r][i].url
    /\ edits = 0 => \A r \in Requests : \A i \in DOMAIN sent[r] : sent[r][i].url \notin denied
=============================================================================
