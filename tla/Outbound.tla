------------------------------- MODULE Outbound -------------------------------
(***************************************************************************)
(* One outbound call under the policy of outbound.go: the siteverify POST   *)
(* (verifyCapToken) or the GET of a list or of the country database         *)
(* (fetchURLBytesLimited).  The call may be redirected, every host name is  *)
(* resolved anew for each connection, and the answer is read up to a limit. *)
(*                                                                          *)
(* A URL is its origin, scheme and host with port: what the policy compares. *)
(* What the servers and the resolver answer is chosen by the environment.    *)
(***************************************************************************)
EXTENDS Naturals, Sequences, FiniteSets

CONSTANTS
    Names,        \* host names that have to be resolved
    LocalNames,   \* localhost, with different ports
    Addresses,    \* addresses, which may also stand as the host of a URL
    Public,       \* ... those that are public
    Loopback,     \* ... those of the loopback interface
    NoHost,       \* the host of a URL without one
    Answers,      \* bound: answers of the resolver, <<>> for none or an error
    MaxBytes,     \* the size limit of a list or database
    MaxVerdict,   \* how much of a siteverify answer is looked at (4096 bytes)
    MaxSize       \* bound: sizes of answers

ASSUME OutboundAssumption ==
    /\ Public \subseteq Addresses /\ Loopback \subseteq Addresses
    /\ Public \cap Loopback = {}
    /\ LocalNames \cap Addresses = {} /\ Names \cap (LocalNames \cup Addresses) = {}
    /\ NoHost \notin Names \cup LocalNames \cup Addresses
    /\ Answers \subseteq Seq(Addresses)
    /\ MaxBytes \in Nat /\ MaxVerdict \in Nat /\ MaxSize \in Nat

maxOutboundRedirects == 3

Kinds == {"siteverify", "list"}
Hosts == Names \cup LocalNames \cup Addresses
URLs  == [scheme : {"http", "https", "other"}, host : Hosts \cup {NoHost}]

\* The body of an answer: its size, how much of it arrives, how its end is marked
\* (Content-Length, chunks, or only the end of the connection), and for siteverify
\* the verdict, whose JSON value it holds.
Replies == {r \in [size : 0 .. MaxSize, sent : 0 .. MaxSize,
                   framing : {"length", "chunked", "close"}, success : BOOLEAN] :
                r.sent <= r.size}
NoReply == [size |-> 0, sent |-> 0, framing |-> "close", success |-> FALSE]

VARIABLES
    call,       \* the call: [kind, url]
    pc,         \* "new", "request", "dial", "sent", "body" or "done"
    target,     \* the URL of the current request
    withBody,   \* the current request carries the POST's body: secret and token
    made,       \* requests sent so far: len(via)
    address,    \* the address that is dialled for, or connected to, the target
    conns,      \* idle connections of this call's transport: [url, address]
    reply,      \* the final answer
    read,       \* bytes of it that were read
    result      \* "none", "failed", "redirects", "list", "accepted", "rejected"

vars == <<call, pc, target, withBody, made, address, conns, reply, read, result>>

request    == <<call, target, withBody>>
connection == <<address, conns>>
answer     == <<reply, read>>

\* Every call makes a client with a transport of its own.
Init ==
    /\ call \in [kind : Kinds, url : URLs]
    /\ pc = "new"
    /\ target = call.url
    /\ withBody = (call.kind = "siteverify")
    /\ made = 0
    /\ address = NoHost
    /\ conns = {}
    /\ reply = NoReply
    /\ read = 0
    /\ result = "none"

-----------------------------------------------------------------------------
(* The policy.                                                              *)

isLoopbackHost(h)  == h \in LocalNames \cup Loopback
isPublicAddress(a) == a \in Public
sameOrigin(u, v)   == u = v

\* A development setup: the configured URL is plain HTTP on this machine.
LocalOrigin == call.url.scheme = "http" /\ isLoopbackHost(call.url.host)

validateLiteralPublicAddress(h) == h \in Addresses => isPublicAddress(h)

\* Mutation: plain HTTP to any loopback host.
lenientURL(u) ==
    /\ u.host # NoHost
    /\ \/ u.scheme = "https" /\ validateLiteralPublicAddress(u.host)
       \/ u.scheme = "http" /\ isLoopbackHost(u.host)

validateURL(u) ==
    /\ u.host # NoHost
    /\ \/ u.scheme = "https" /\ validateLiteralPublicAddress(u.host)
       \/ u.scheme = "http" /\ LocalOrigin /\ sameOrigin(call.url, u)

\* Mutation: siteverify may be redirected to wherever lists may.
uniformRedirectURL(u) == validateURL(u)

validateRedirectURL(u) ==
    /\ call.kind = "siteverify" =>
           /\ ~(call.url.scheme = "https" /\ u.scheme # "https")
           /\ sameOrigin(call.url, u)
    /\ validateURL(u)

MayDial(a) == (LocalOrigin /\ a \in Loopback) \/ isPublicAddress(a)

-----------------------------------------------------------------------------
(* The steps of a call.                                                     *)

\* Mutation: an error is swallowed on the way to the caller.
EndsWithoutError(r) ==
    /\ pc' = "done"
    /\ UNCHANGED <<request, made, connection, answer, result>>

\* The caller gets an error, or the reason a redirect was refused.
End(r) ==
    /\ pc' = "done" /\ result' = r
    /\ UNCHANGED <<request, made, connection, answer>>

\* newOutboundHTTPClient refuses the URL, or client.Do begins.
Refused == pc = "new" /\ ~validateURL(call.url) /\ End("failed")

Starts ==
    /\ pc = "new" /\ validateURL(call.url)
    /\ pc' = "request"
    /\ UNCHANGED <<request, made, connection, answer, result>>

\* The transport has an idle connection to the target's scheme and host ...
Reuses(c) ==
    /\ pc = "request" /\ c \in conns /\ c.url = target
    /\ address' = c.address
    /\ conns' = conns \ {c}
    /\ made' = made + 1
    /\ pc' = "sent"
    /\ UNCHANGED <<request, answer, result>>

\* ... or calls dialContext.  An address resolves to itself, a name to anything.
LookupNetIP(h) == IF h \in Addresses THEN {<<h>>} ELSE Answers

DialRefused(ips) ==
    /\ pc = "request" /\ ips \in LookupNetIP(target.host)
    /\ ips = <<>> \/ \E i \in DOMAIN ips : ~MayDial(ips[i])
    /\ End("failed")

Checks(ips) ==
    /\ pc = "request" /\ ips \in LookupNetIP(target.host)
    /\ ips # <<>> /\ \A i \in DOMAIN ips : MayDial(ips[i])
    /\ address' = ips[1]
    /\ pc' = "dial"
    /\ UNCHANGED <<request, made, conns, answer, result>>

\* Mutation: the name is dialled, and so resolved a second time.
ConnectsToName ==
    /\ pc = "dial"
    /\ \E ips \in LookupNetIP(target.host) \ {<<>>} : address' = ips[1]
    /\ made' = made + 1
    /\ pc' = "sent"
    /\ UNCHANGED <<request, conns, answer, result>>

\* The address that was checked is dialled, and the request is sent.
Connects ==
    /\ pc = "dial"
    /\ made' = made + 1
    /\ pc' = "sent"
    /\ UNCHANGED <<request, connection, answer, result>>

\* Mutation: a fourth redirect is followed.
LimitOffByOne == made > maxOutboundRedirects + 1

\* CheckRedirect counts the requests made so far, len(via).
LimitReached == made > maxOutboundRedirects

\* The server redirects, with 307 or 308 (keep) or with 301, 302 or 303.
RedirectRefused(u) ==
    /\ pc = "sent"
    /\ LimitReached \/ ~validateRedirectURL(u)
    /\ End(IF LimitReached THEN "redirects" ELSE "failed")

\* net/http drops the body for good at a 301, 302 or 303, or, in some versions,
\* takes the first request's body again at a later 307 or 308.
Redirected(u, keep) ==
    /\ pc = "sent"
    /\ ~LimitReached /\ validateRedirectURL(u)
    /\ target' = u
    /\ withBody' \in IF keep THEN {withBody, call.kind = "siteverify"} ELSE {FALSE}
    /\ conns' = conns \cup {[url |-> target, address |-> address]}
    /\ pc' = "request"
    /\ UNCHANGED <<call, made, address, answer, result>>

\* The server answers with a status of 200 to 299.
Responds(r) ==
    /\ pc = "sent"
    /\ reply' = r
    /\ pc' = "body"
    /\ UNCHANGED <<request, made, connection, read, result>>

\* The connection cannot be made or breaks, the status is another one, or the context
\* is over: the client's timeout covers the whole call, its body included.
Fails == pc \in {"request", "dial", "sent", "body"} /\ End("failed")

\* Mutation: reading stops at the limit itself.
ReadLimitExact == MaxBytes

\* The reader stops one byte above the limit, so that a longer body shows.
ReadLimit == MaxBytes + 1

Received  == IF reply.sent < ReadLimit THEN reply.sent ELSE ReadLimit

\* A body that ends early is an error if its end is marked and was not read past.
Broken == reply.sent < reply.size /\ reply.framing # "close" /\ reply.sent < ReadLimit

ReadsList ==
    /\ pc = "body" /\ call.kind = "list"
    /\ MaxBytes > 0 /\ ~(reply.framing = "length" /\ reply.size > MaxBytes)
    /\ ~Broken /\ Received <= MaxBytes
    /\ read' = Received
    /\ pc' = "done" /\ result' = "list"
    /\ UNCHANGED <<request, made, connection, reply>>

\* The decoder needs a complete JSON value within the first MaxVerdict bytes.
DecodesVerdict ==
    /\ pc = "body" /\ call.kind = "siteverify"
    /\ 0 < reply.size /\ reply.size <= MaxVerdict /\ reply.sent = reply.size
    /\ read' = reply.size
    /\ pc' = "done" /\ result' = IF reply.success THEN "accepted" ELSE "rejected"
    /\ UNCHANGED <<request, made, connection, reply>>

Next ==
    \/ Refused \/ Starts
    \/ \E c \in conns : Reuses(c)
    \/ \E ips \in LookupNetIP(target.host) : DialRefused(ips) \/ Checks(ips)
    \/ Connects
    \/ \E u \in URLs : RedirectRefused(u) \/ \E keep \in BOOLEAN : Redirected(u, keep)
    \/ \E r \in Replies : Responds(r)
    \/ Fails
    \/ ReadsList \/ DecodesVerdict

Spec == Init /\ [][Next]_vars

-----------------------------------------------------------------------------
(* Properties.                                                              *)

\* The variables have their types.
TypeOK ==
    /\ call \in [kind : Kinds, url : URLs]
    /\ pc \in {"new", "request", "dial", "sent", "body", "done"}
    /\ target \in URLs
    /\ withBody \in BOOLEAN /\ (withBody => call.kind = "siteverify")
    /\ made \in Nat
    /\ address \in Addresses \cup {NoHost}
    /\ pc \in {"dial", "sent", "body"} => address # NoHost
    /\ conns \subseteq [url : URLs, address : Addresses]
    /\ reply \in Replies
    /\ read \in Nat
    /\ result \in {"none", "failed", "redirects", "list", "accepted", "rejected"}
    /\ pc = "done" <=> result # "none"

\* Exactly three redirects are followed: no fifth request is ever sent, and the limit
\* ends only a call that has made four (outbound.go:60).
RedirectLimitIsExact ==
    /\ made <= maxOutboundRedirects + 1
    /\ result = "redirects" => made = maxOutboundRedirects + 1

\* However a siteverify call is redirected, the secret and the visitor's token are sent
\* to the configured origin only, and only that origin's verdict counts
\* (outbound.go:73-80).
SiteverifyStaysAtOrigin ==
    \/ withBody /\ pc = "sent"
    \/ result \in {"accepted", "rejected"}
    => sameOrigin(target, call.url)

\* The address a request goes to was checked: it is public, or it is a loopback address
\* and the configured URL is the development setup.  This holds for every hop,
\* although names resolve differently each time and connections are reused
\* (outbound.go:117-134).
OnlyCheckedAddresses ==
    pc = "sent" => \/ address \in Public
                   \/ address \in Loopback /\ LocalOrigin

\* No hop of any chain is plain HTTP, except to the configured development origin itself
\* (outbound.go:92-105).
PlaintextOnlyToOrigin ==
    pc = "sent" /\ target.scheme # "https" => target = call.url /\ LocalOrigin

\* A list or database that is accepted is within the limit, and the whole of what the
\* server had to send: neither the size limit nor a broken connection cuts it.  Where
\* only the end of the connection marks the end, nothing can tell (refresh.go:354-365).
ListIsWhole ==
    result = "list" =>
        /\ read <= MaxBytes
        /\ read = reply.size \/ (reply.framing = "close" /\ read = reply.sent)

=============================================================================
