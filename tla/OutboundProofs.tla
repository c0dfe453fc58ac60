---------------------------- MODULE OutboundProofs ----------------------------
(***************************************************************************)
(* The outbound policy holds for every set of hosts and addresses, every     *)
(* size limit and every behaviour of servers and resolver.                  *)
(***************************************************************************)
EXTENDS Outbound, TLAPS

\* What a call has passed at each of its steps.  The policy's properties speak of the
\* request that is under way; this also says what was checked before it is sent, and
\* of connections that may be used again.
PolicyInv ==
    /\ pc \notin {"new", "done"} => validateURL(target)
    /\ pc = "new" \/ call.kind = "siteverify" => target = call.url
    /\ pc \in {"dial", "sent", "body"} => MayDial(address)
    /\ \A c \in conns : MayDial(c.address)
    /\ pc \in {"new", "request", "dial"} => made <= maxOutboundRedirects
    /\ made <= maxOutboundRedirects + 1
    /\ result = "redirects" => made = maxOutboundRedirects + 1
    /\ result \in {"accepted", "rejected"} => call.kind = "siteverify"
    /\ ListIsWhole

\* The empty answer is the only one without a first address.
LEMMA FirstAddress ==
    ASSUME NEW h \in Hosts \cup {NoHost}, NEW ips \in LookupNetIP(h), ips # <<>>
    PROVE  1 \in DOMAIN ips /\ ips[1] \in Addresses
<1>1. CASE h \in Addresses
  <2>1. ips = <<h>>
    BY <1>1 DEF LookupNetIP
  <2>2. QED
    BY <1>1, <2>1
<1>2. CASE h \notin Addresses
  <2>1. ips \in Answers
    BY <1>2 DEF LookupNetIP
  <2>2. ips \in Seq(Addresses)
    BY <2>1, OutboundAssumption
  <2>3. QED
    BY <2>2
<1>3. QED
  BY <1>1, <1>2

\* Ending a call keeps its types.
LEMMA EndTypes ==
    ASSUME TypeOK, NEW r \in {"failed", "redirects"}, End(r)
    PROVE  TypeOK'
BY DEF TypeOK, End, request, connection, answer

\* TypeOK: the types of a call's variables are kept by every step of it.
THEOREM TypeCorrect == Spec => []TypeOK
<1>1. Init => TypeOK
  <2> SUFFICES ASSUME Init PROVE TypeOK
    OBVIOUS
  <2>1. call.url \in URLs
    BY DEF Init
  <2>2. NoReply \in Replies
    BY OutboundAssumption DEF NoReply, Replies
  <2>3. QED
    BY <2>1, <2>2 DEF Init, TypeOK
<1>2. TypeOK /\ [Next]_vars => TypeOK'
  <2> SUFFICES ASSUME TypeOK, [Next]_vars PROVE TypeOK'
    OBVIOUS
  <2>1. CASE Refused
    BY <2>1, EndTypes DEF Refused
  <2>2. CASE Starts
    BY <2>2 DEF TypeOK, Starts, request, connection, answer
  <2>3. ASSUME NEW c \in conns, Reuses(c) PROVE TypeOK'
    <3>1. c.address \in Addresses /\ c.address # NoHost
      BY OutboundAssumption DEF TypeOK
    <3>2. QED
      BY <2>3, <3>1 DEF TypeOK, Reuses, request, answer
  <2>4. ASSUME NEW ips \in LookupNetIP(target.host), DialRefused(ips) PROVE TypeOK'
    BY <2>4, EndTypes DEF DialRefused
  <2>5. ASSUME NEW ips \in LookupNetIP(target.host), Checks(ips) PROVE TypeOK'
    <3>1. target.host \in Hosts \cup {NoHost}
      BY DEF TypeOK, URLs
    <3>2. ips[1] \in Addresses
      BY <2>5, <3>1, FirstAddress DEF Checks
    <3>3. ips[1] # NoHost
      BY <3>2, OutboundAssumption
    <3>4. QED
      BY <2>5, <3>2, <3>3 DEF TypeOK, Checks, request, answer
  <2>6. CASE Connects
    BY <2>6 DEF TypeOK, Connects, request, connection, answer
  <2>7. ASSUME NEW u \in URLs, RedirectRefused(u) PROVE TypeOK'
    BY <2>7, EndTypes DEF RedirectRefused
  <2>8. ASSUME NEW u \in URLs, NEW keep \in BOOLEAN, Redirected(u, keep) PROVE TypeOK'
    <3>1. [url |-> target, address |-> address] \in [url : URLs, address : Addresses]
      BY <2>8 DEF TypeOK, Redirected
    <3>2. conns' \subseteq [url : URLs, address : Addresses]
      BY <2>8, <3>1 DEF TypeOK, Redirected
    <3>3. withBody' \in BOOLEAN /\ (withBody' => call.kind = "siteverify")
      BY <2>8 DEF TypeOK, Redirected
    <3>4. QED
      BY <2>8, <3>2, <3>3 DEF TypeOK, Redirected, answer
  <2>9. ASSUME NEW r \in Replies, Responds(r) PROVE TypeOK'
    BY <2>9 DEF TypeOK, Responds, request, connection
  <2>10. CASE Fails
    BY <2>10, EndTypes DEF Fails
  <2>11. CASE ReadsList
    BY <2>11, OutboundAssumption
    DEF TypeOK, ReadsList, Received, ReadLimit, Replies, request, connection
  <2>12. CASE DecodesVerdict
    BY <2>12 DEF TypeOK, DecodesVerdict, Replies, request, connection
  <2>13. CASE UNCHANGED vars
    BY <2>13 DEF TypeOK, vars
  <2>14. QED
    BY <2>1, <2>2, <2>3, <2>4, <2>5, <2>6, <2>7, <2>8, <2>9, <2>10, <2>11, <2>12, <2>13
    DEF Next
<1>3. QED
  BY <1>1, <1>2, PTL DEF Spec

-----------------------------------------------------------------------------
(* The policy. *)

\* Ending a call keeps what it has passed.
LEMMA EndKeepsPolicy ==
    ASSUME PolicyInv, NEW r \in {"failed", "redirects"}, End(r),
           r = "redirects" => made = maxOutboundRedirects + 1
    PROVE  PolicyInv'
<1>1. pc' = "done" /\ result' = r
  BY DEF End
<1>2. UNCHANGED <<call, target, made, address, conns, reply, read>>
  BY DEF End, request, connection, answer
<1>3. \A c \in conns' : MayDial(c.address)'
  BY <1>2 DEF PolicyInv, MayDial, LocalOrigin
<1>4. QED
  BY <1>1, <1>2, <1>3 DEF PolicyInv, ListIsWhole

LEMMA PolicyInductive == PolicyInv /\ TypeOK /\ [Next]_vars => PolicyInv'
<1> SUFFICES ASSUME PolicyInv, TypeOK, [Next]_vars PROVE PolicyInv'
  OBVIOUS
<1> USE DEF MayDial, LocalOrigin, validateURL, sameOrigin, maxOutboundRedirects
<1>1. CASE Refused
  BY <1>1, EndKeepsPolicy DEF Refused
<1>2. CASE Starts
  BY <1>2 DEF PolicyInv, TypeOK, Starts, request, connection, answer, ListIsWhole
<1>3. ASSUME NEW c \in conns, Reuses(c) PROVE PolicyInv'
  BY <1>3 DEF PolicyInv, TypeOK, Reuses, request, answer, ListIsWhole
<1>4. ASSUME NEW ips \in LookupNetIP(target.host), DialRefused(ips) PROVE PolicyInv'
  BY <1>4, EndKeepsPolicy DEF DialRefused
<1>5. ASSUME NEW ips \in LookupNetIP(target.host), Checks(ips) PROVE PolicyInv'
  <2>1. target.host \in Hosts \cup {NoHost}
    BY DEF TypeOK, URLs
  <2>2. MayDial(ips[1])
    BY <1>5, <2>1, FirstAddress DEF Checks
  <2>3. QED
    BY <1>5, <2>2 DEF PolicyInv, TypeOK, Checks, request, answer, ListIsWhole
<1>6. CASE Connects
  BY <1>6 DEF PolicyInv, TypeOK, Connects, request, connection, answer, ListIsWhole
<1>7. ASSUME NEW u \in URLs, RedirectRefused(u) PROVE PolicyInv'
  <2>1. LimitReached => made = maxOutboundRedirects + 1
    BY DEF LimitReached, PolicyInv, TypeOK
  <2>2. QED
    BY <1>7, <2>1, EndKeepsPolicy DEF RedirectRefused
<1>8. ASSUME NEW u \in URLs, NEW keep \in BOOLEAN, Redirected(u, keep) PROVE PolicyInv'
  <2>1. validateURL(u) /\ (call.kind = "siteverify" => u = call.url)
    BY <1>8 DEF Redirected, validateRedirectURL
  <2>2. made' <= maxOutboundRedirects
    BY <1>8 DEF Redirected, LimitReached, TypeOK
  <2>3. \A c \in conns' : MayDial(c.address)
    BY <1>8 DEF Redirected, PolicyInv
  <2>4. QED
    BY <1>8, <2>1, <2>2, <2>3 DEF Redirected, PolicyInv, TypeOK, answer, ListIsWhole
<1>9. ASSUME NEW r \in Replies, Responds(r) PROVE PolicyInv'
  BY <1>9 DEF PolicyInv, TypeOK, Responds, request, connection, ListIsWhole
<1>10. CASE Fails
  BY <1>10, EndKeepsPolicy DEF Fails
<1>11. CASE ReadsList
  <2>1. ListIsWhole'
    BY <1>11, OutboundAssumption
    DEF ReadsList, ListIsWhole, Broken, Received, ReadLimit, TypeOK, Replies
  <2>2. QED
    BY <1>11, <2>1 DEF ReadsList, PolicyInv, TypeOK, request, connection
<1>12. CASE DecodesVerdict
  BY <1>12 DEF DecodesVerdict, PolicyInv, TypeOK, request, connection, ListIsWhole
<1>13. CASE UNCHANGED vars
  BY <1>13 DEF vars, PolicyInv, ListIsWhole
<1>14. QED
  BY <1>1, <1>2, <1>3, <1>4, <1>5, <1>6, <1>7, <1>8, <1>9, <1>10, <1>11, <1>12, <1>13 DEF Next

LEMMA PolicyAlways == Spec => [](TypeOK /\ PolicyInv)
<1>1. Init => PolicyInv
  BY DEF Init, PolicyInv, ListIsWhole, maxOutboundRedirects
<1>2. QED
  BY <1>1, PolicyInductive, TypeCorrect, PTL DEF Spec

\* RedirectLimitIsExact: no fifth request, and no call with fewer than four is ended by
\* the limit.
THEOREM RedirectLimit == Spec => []RedirectLimitIsExact
<1>1. PolicyInv => RedirectLimitIsExact
  BY DEF PolicyInv, RedirectLimitIsExact
<1>2. QED
  BY <1>1, PolicyAlways, PTL

\* SiteverifyStaysAtOrigin: secret, token and verdict stay with the configured origin,
\* whatever redirects the servers send.
THEOREM SecretStaysAtOrigin == Spec => []SiteverifyStaysAtOrigin
<1>1. TypeOK /\ PolicyInv => SiteverifyStaysAtOrigin
  BY DEF TypeOK, PolicyInv, SiteverifyStaysAtOrigin, sameOrigin
<1>2. QED
  BY <1>1, PolicyAlways, PTL

\* OnlyCheckedAddresses: every request goes to an address that was checked, whatever the
\* resolver answers from one moment to the next.
THEOREM CheckedIsDialled == Spec => []OnlyCheckedAddresses
<1>1. PolicyInv => OnlyCheckedAddresses
  BY DEF PolicyInv, OnlyCheckedAddresses, MayDial, isPublicAddress
<1>2. QED
  BY <1>1, PolicyAlways, PTL

\* PlaintextOnlyToOrigin: plain HTTP is spoken with the development origin only.
THEOREM PlaintextStaysLocal == Spec => []PlaintextOnlyToOrigin
<1>1. PolicyInv => PlaintextOnlyToOrigin
  BY DEF PolicyInv, PlaintextOnlyToOrigin, validateURL, sameOrigin
<1>2. QED
  BY <1>1, PolicyAlways, PTL

\* ListIsWhole: for every size limit and every answer, an accepted list is the whole one.
THEOREM ListsAreWhole == Spec => []ListIsWhole
<1>1. PolicyInv => ListIsWhole
  BY DEF PolicyInv
<1>2. QED
  BY <1>1, PolicyAlways, PTL
=============================================================================
