-------------------------- MODULE RequestGateProofs --------------------------
(***************************************************************************)
(* The gate's properties, for every number of requests, clients, lists and  *)
(* databases, and for any number of changes while a request runs.           *)
(*                                                                          *)
(* Explained is the inductive part: a request that has passed a barrier     *)
(* remembers a moment at which it passed it, and these moments are in the   *)
(* order of the barriers.  What was published stays in history, so a        *)
(* moment once found stays good whatever is published later.                *)
(***************************************************************************)
EXTENDS RequestGate, TLAPS

(* The moments a request has seen so far. *)
SoFar(r) == request[r].from .. Len(history)

PassedCountry(k, i)   == ~countryDenies(history[i].db, k.client)
PassedBlacklist(k, j) == ~isListed(history[j].blacklist, k.client)
PassedAllowlist(k, l) == ~isListed(history[l].allowlist, k.client)

Unruled(k) == Protected(k) /\ ~k.rule

Explained(r) ==
    LET k == request[r].kind
    IN  /\ At(r, "country") => Unruled(k)
        /\ At(r, "blacklist") => Unruled(k) /\ \E i \in SoFar(r) : PassedCountry(k, i)
        /\ At(r, "allowlist") =>
              /\ Unruled(k)
              /\ \E i, j \in SoFar(r) : i <= j /\ PassedCountry(k, i) /\ PassedBlacklist(k, j)
        /\ At(r, "cookie") =>
              /\ Unruled(k)
              /\ \E i, j, l \in SoFar(r) :
                    /\ i <= j /\ j <= l
                    /\ PassedCountry(k, i) /\ PassedBlacklist(k, j) /\ PassedAllowlist(k, l)

GateInv == OutcomeExplained /\ \A r \in Requests : Explained(r)

-----------------------------------------------------------------------------
(* What has been published stays in history; published is its last entry.   *)
LEMMA PublishKeeps ==
    ASSUME TypeOK, NEW p \in Publication, Publish(p)
    PROVE  /\ history' \in Seq(Publication)
           /\ Len(history') = Len(history) + 1
           /\ \A i \in 1 .. Len(history) : history'[i] = history[i]
           /\ request' = request
BY DEF TypeOK, Publish

(* The last entry of history is a moment of every request in progress. *)
LEMMA PublishedIsMoment ==
    ASSUME TypeOK
    PROVE  /\ Len(history) \in 1 .. Len(history) /\ published = history[Len(history)]
           /\ published \in Publication
BY DEF TypeOK, published

LEMMA ListsChangeTyped ==
    ASSUME TypeOK
    PROVE  /\ \A b \in SUBSET Clients : [published EXCEPT !.blacklist = b] \in Publication
           /\ \A a \in SUBSET Clients : [published EXCEPT !.allowlist = a] \in Publication
           /\ \A d \in Databases \cup {NoDB} : [published EXCEPT !.db = d] \in Publication
BY PublishedIsMoment DEF Publication

(* Each change of the data is the publication of well-typed data. *)
Changes == \E p \in Publication : Publish(p)

LEMMA NextSteps ==
    ASSUME TypeOK, [Next]_vars
    PROVE  \/ Changes
           \/ \E r \in Requests, k \in Kinds : Arrive(r, k)
           \/ \E r \in Requests : ServeHTTP(r)
           \/ \E r \in Requests : Leave(r)
           \/ UNCHANGED vars
BY ListsChangeTyped
DEF Next, Changes, RefreshBlacklist, RefreshAllowlist, SetCountryDB

-----------------------------------------------------------------------------
(* Type correctness.                                                        *)

LEMMA HistoryStays ==
    ASSUME NEW r \in Requests, ServeHTTP(r) \/ Leave(r)
    PROVE  history' = history
BY DEF ServeHTTP, Leave, AnswerVerifyPath, Bypass, MatchRule, PassRules, CheckCountry,
       CheckBlacklist, CheckAllowlist, CheckCookie, Reply, Goto

(* What a step of ServeHTTP does: the request goes to another place or is answered. *)
LEMMA StepOfRequest ==
    ASSUME NEW r \in Requests, ServeHTTP(r)
    PROVE  /\ request[r].pc \in Places
           /\ \/ \E pc \in {"country", "blacklist", "allowlist", "cookie"} : Goto(r, pc)
              \/ \E outcome \in Outcomes : Reply(r, outcome)
<1>1. CASE AnswerVerifyPath(r)
  BY <1>1 DEF AnswerVerifyPath, At, Places, Outcomes
<1>2. CASE Bypass(r) \/ MatchRule(r)
  BY <1>2 DEF Bypass, MatchRule, At, Places, Outcomes
<1>3. CASE PassRules(r)
  BY <1>3 DEF PassRules, At, Places
<1>4. CASE CheckCountry(r)
  BY <1>4 DEF CheckCountry, At, Places, Outcomes
<1>5. CASE CheckBlacklist(r)
  BY <1>5 DEF CheckBlacklist, At, Places, Outcomes
<1>6. CASE CheckAllowlist(r)
  BY <1>6 DEF CheckAllowlist, At, Places, Outcomes
<1>7. CASE CheckCookie(r)
  BY <1>7 DEF CheckCookie, At, Places, Outcomes
<1> QED
  BY <1>1, <1>2, <1>3, <1>4, <1>5, <1>6, <1>7 DEF ServeHTTP

LEMMA TypeStep == TypeOK /\ [Next]_vars => TypeOK'
<1> SUFFICES ASSUME TypeOK, [Next]_vars PROVE TypeOK'
  OBVIOUS
<1> USE DEF Idle, At
<1>1. CASE Changes
  <2>1. PICK p \in Publication : Publish(p)
    BY <1>1 DEF Changes
  <2>2. Len(history') \in 1 .. MaxChanges + 1
    BY <2>1, PublishKeeps, GateAssumption DEF Publish, TypeOK
  <2> QED
    BY <2>1, <2>2, PublishKeeps DEF TypeOK
<1>2. ASSUME NEW r \in Requests, NEW k \in Kinds, Arrive(r, k) PROVE TypeOK'
  BY <1>2 DEF Arrive, TypeOK, Request, Places
<1>3. ASSUME NEW r \in Requests, ServeHTTP(r) PROVE TypeOK'
  <2>1. request[r] \in [pc : Places, kind : Kinds, from : Nat] /\ history' = history
    BY <1>3, StepOfRequest, HistoryStays DEF TypeOK, Request, Places
  <2>2. ASSUME NEW pc \in {"country", "blacklist", "allowlist", "cookie"}, Goto(r, pc)
        PROVE  TypeOK'
    BY <2>1, <2>2 DEF Goto, TypeOK, Request, Places
  <2>3. ASSUME NEW outcome \in Outcomes, Reply(r, outcome) PROVE TypeOK'
    BY <2>1, <2>3 DEF Reply, TypeOK, Request, Places
  <2> QED
    BY <1>3, <2>2, <2>3, StepOfRequest
<1>4. ASSUME NEW r \in Requests, Leave(r) PROVE TypeOK'
  BY <1>4 DEF Leave, TypeOK, Request
<1>5. CASE UNCHANGED vars
  BY <1>5 DEF vars, TypeOK
<1> QED
  BY <1>1, <1>2, <1>3, <1>4, <1>5, NextSteps

(* History and requests keep their types; a request only looks back on moments that
   have been. *)
THEOREM TypeCorrect == Spec => []TypeOK
<1>1. Init => TypeOK
  BY GateAssumption DEF Init, TypeOK, Request, Idle, Publication, At
<1> QED
  BY <1>1, TypeStep, PTL DEF Spec

-----------------------------------------------------------------------------
(* Outcomes are explained.                                                  *)

(* A step that leaves the request alone and the moments it has seen. *)
LEMMA OthersStay ==
    ASSUME TypeOK, NEW r \in Requests, request'[r] = request[r],
           Len(history) <= Len(history)', Len(history)' \in Nat,
           \A i \in 1 .. Len(history) : history'[i] = history[i],
           Explained(r), At(r, "replied") => HasExplanation(r)
    PROVE  Explained(r)' /\ (At(r, "replied") => HasExplanation(r))'
<1> USE DEF At
<1>1. CASE request[r] = Idle
  BY <1>1 DEF Explained, Idle
<1>2. CASE request[r] # Idle
  <2>1. /\ request[r].from \in Nat /\ request[r].from >= 1 /\ Len(history) \in Nat
        /\ At(r, "replied") => /\ request[r].upto \in Nat
                                /\ request[r].upto <= Len(history)
    BY <1>2 DEF TypeOK
  <2>2. \A i \in SoFar(r) : i \in SoFar(r)' /\ history'[i] = history[i]
    BY <2>1 DEF SoFar
  <2>3. At(r, "replied") => \A i \in Moments(r) : i \in Moments(r)' /\ history'[i] = history[i]
    BY <2>1 DEF Moments
  <2>4. Explained(r)'
    BY <2>2 DEF Explained, PassedCountry, PassedBlacklist, PassedAllowlist
  <2>5. (At(r, "replied") => HasExplanation(r))'
    BY <2>3 DEF HasExplanation
  <2> QED
    BY <2>4, <2>5
<1> QED
  BY <1>1, <1>2

(* A request that goes on to the next barrier has passed this one just now. *)
LEMMA GoesOn ==
    ASSUME TypeOK, NEW r \in Requests, ServeHTTP(r), Explained(r),
           NEW pc \in Places, Goto(r, pc)
    PROVE  Explained(r)'
<1> DEFINE k == request[r].kind
           n == Len(history)
<1>1. /\ history' = history /\ request'[r].pc = pc
      /\ request'[r].kind = k /\ request'[r].from = request[r].from
  BY StepOfRequest DEF Goto, TypeOK, Request, Places, Idle
<1>2. /\ SoFar(r)' = SoFar(r) /\ n \in SoFar(r) /\ published = history[n]
      /\ \A i \in SoFar(r) : i <= n
  BY <1>1, StepOfRequest DEF SoFar, TypeOK, Request, Places, Idle, published
<1>8. ASSUME NEW outcome, Reply(r, outcome) PROVE FALSE
  <2>1. request'[r].pc = "replied"
    BY <1>8 DEF Reply, TypeOK
  <2> QED
    BY <1>1, <2>1 DEF Places
<1>9. ASSUME NEW q, Goto(r, q) PROVE q = pc
  <2>1. request'[r].pc = q
    BY <1>9, StepOfRequest DEF Goto, TypeOK, Request, Places, Idle
  <2> QED
    BY <1>1, <2>1
<1>3. CASE PassRules(r)
  <2>1. Unruled(k) /\ pc = IF hasCountryRules THEN "country" ELSE "blacklist"
    BY <1>1, <1>3 DEF PassRules, Goto, Unruled, Protected, TypeOK, Request, Places, Idle
  <2>2. ~hasCountryRules => PassedCountry(k, n)
    BY DEF hasCountryRules, hasCountryWhitelist, PassedCountry, countryDenies
  <2> HIDE DEF k, n
  <2> QED
    BY <1>1, <1>2, <2>1, <2>2 DEF Explained, At, PassedCountry
<1>4. CASE CheckCountry(r)
  <2>1. ~countryDenies(published.db, k.client) /\ Goto(r, "blacklist")
    BY <1>4, <1>8 DEF CheckCountry
  <2>2. pc = "blacklist" /\ PassedCountry(k, n)
    BY <1>2, <1>9, <2>1 DEF PassedCountry
  <2>3. Unruled(k)
    BY <1>4 DEF CheckCountry, Explained
  <2> HIDE DEF k, n
  <2> QED
    BY <1>1, <1>2, <2>2, <2>3 DEF Explained, At, PassedCountry
<1>5. CASE CheckBlacklist(r)
  <2>1. ~isListed(published.blacklist, k.client) /\ Goto(r, "allowlist")
    BY <1>5, <1>8 DEF CheckBlacklist
  <2>2. pc = "allowlist" /\ PassedBlacklist(k, n)
    BY <1>2, <1>9, <2>1 DEF PassedBlacklist
  <2>3. Unruled(k) /\ \E i \in SoFar(r) : PassedCountry(k, i)
    BY <1>5 DEF CheckBlacklist, Explained
  <2> HIDE DEF k, n
  <2> QED
    BY <1>1, <1>2, <2>2, <2>3 DEF Explained, At, PassedCountry, PassedBlacklist
<1>6. CASE CheckAllowlist(r)
  <2>1. ~isListed(published.allowlist, k.client) /\ Goto(r, "cookie")
    BY <1>6, <1>8 DEF CheckAllowlist
  <2>2. pc = "cookie" /\ PassedAllowlist(k, n)
    BY <1>2, <1>9, <2>1 DEF PassedAllowlist
  <2>3. /\ Unruled(k)
        /\ \E i, j \in SoFar(r) : i <= j /\ PassedCountry(k, i) /\ PassedBlacklist(k, j)
    BY <1>6 DEF CheckAllowlist, Explained
  <2> HIDE DEF k, n
  <2> QED
    BY <1>1, <1>2, <2>2, <2>3
    DEF Explained, At, PassedCountry, PassedBlacklist, PassedAllowlist
<1> QED
  BY <1>3, <1>4, <1>5, <1>6, <1>8, Zenon
  DEF ServeHTTP, AnswerVerifyPath, Bypass, MatchRule, CheckCookie

(* Decide, barrier by barrier. *)
LEMMA DecideFacts ==
    ASSUME NEW k \in Kinds, NEW p \in Publication, NEW q \in Publication,
           NEW s \in Publication
    PROVE  LET d == Decide(k, p.db, q.blacklist, s.allowlist)
           IN  /\ k.verifyPath => d = IF k.post THEN "verify" ELSE "method not allowed"
               /\ ~k.verifyPath /\ Bypasses(k) => d = "forwarded"
               /\ Protected(k) /\ k.rule => d = "dropped"
               /\ Unruled(k) /\ countryDenies(p.db, k.client) => d = "dropped"
               /\ Unruled(k) /\ isListed(q.blacklist, k.client) => d = "dropped"
               /\ /\ Unruled(k) /\ ~countryDenies(p.db, k.client)
                  /\ ~isListed(q.blacklist, k.client)
                  => d = IF isListed(s.allowlist, k.client) \/ k.cookie
                         THEN "forwarded" ELSE "challenged"
<1>1. k.client \in Clients \cup {NoAddr} /\ k.verifyPath \in BOOLEAN
  BY DEF Kinds
<1>2. /\ isListed(q.blacklist, k.client) <=> k.client \in q.blacklist
      /\ isListed(s.allowlist, k.client) <=> k.client \in s.allowlist
  BY <1>1, GateAssumption DEF isListed, Publication
<1>3. CASE k.verifyPath
  BY <1>3 DEF Decide, Protected, Unruled
<1>4. CASE ~k.verifyPath /\ Bypasses(k)
  BY <1>4 DEF Decide, Protected, Unruled
<1>5. CASE ~k.verifyPath /\ ~Bypasses(k)
  <2> DEFINE code == lookupCountryCode(p.db, k.client)
  <2>1. countryDenies(p.db, k.client)
          <=> \/ code \in BlacklistCountries
              \/ WhitelistCountries # {} /\ code \notin WhitelistCountries
    BY DEF countryDenies, hasCountryWhitelist
  <2>2. Decide(k, p.db, q.blacklist, s.allowlist)
          = IF \/ k.rule
               \/ code \in BlacklistCountries
               \/ WhitelistCountries # {} /\ code \notin WhitelistCountries
               \/ k.client \in q.blacklist
            THEN "dropped"
            ELSE IF k.client \in s.allowlist \/ k.cookie THEN "forwarded" ELSE "challenged"
    BY <1>5 DEF Decide
  <2> HIDE DEF code
  <2> QED
    BY <1>2, <1>5, <2>1, <2>2 DEF Unruled, Protected
<1> QED
  BY <1>1, <1>3, <1>4, <1>5

(* An answer follows from the barriers passed so far and the data of this moment. *)
LEMMA Answers ==
    ASSUME TypeOK, NEW r \in Requests, ServeHTTP(r), Explained(r),
           NEW outcome \in Outcomes, Reply(r, outcome)
    PROVE  HasExplanation(r)'
<1> DEFINE k == request[r].kind
           n == Len(history)
           Outcome(i, j, l) ==
               Decide(k, history[i].db, history[j].blacklist, history[l].allowlist)
<1>1. /\ history' = history /\ request'[r].kind = k /\ request'[r].outcome = outcome
      /\ Moments(r)' = SoFar(r)
  BY DEF Reply, TypeOK, Moments, SoFar
<1>2. /\ k \in Kinds /\ n \in SoFar(r) /\ published = history[n]
      /\ \A i \in SoFar(r) : i <= n /\ history[i] \in Publication
  BY StepOfRequest DEF SoFar, TypeOK, Request, Places, Idle, published
<1>3. SUFFICES \E i, j, l \in SoFar(r) : i <= j /\ j <= l /\ outcome = Outcome(i, j, l)
  BY <1>1 DEF HasExplanation
<1>4. ASSUME NEW o, Reply(r, o) PROVE o = outcome
  BY <1>4 DEF Reply, TypeOK
<1>5. ASSUME NEW pc, Goto(r, pc), request[r].pc \in Places, pc # "replied" PROVE FALSE
  <2>1. request'[r].pc = pc
    BY <1>5, StepOfRequest DEF Goto, TypeOK, Request, Places, Idle
  <2>2. request'[r].pc = "replied"
    BY DEF Reply, TypeOK
  <2> QED
    BY <1>5, <2>1, <2>2
<1>6. request[r].pc \in Places
  BY StepOfRequest
<1>7. n <= n
  BY <1>2 DEF SoFar
<1>8. CASE AnswerVerifyPath(r)
  <2>1. k.verifyPath /\ outcome = IF k.post THEN "verify" ELSE "method not allowed"
    BY <1>4, <1>8 DEF AnswerVerifyPath
  <2> HIDE DEF k, n
  <2> QED
    BY <1>2, <1>7, <2>1, DecideFacts
<1>9. CASE Bypass(r)
  <2>1. ~k.verifyPath /\ Bypasses(k) /\ outcome = "forwarded"
    BY <1>4, <1>9 DEF Bypass
  <2> HIDE DEF k, n
  <2> QED
    BY <1>2, <1>7, <2>1, DecideFacts
<1>10. CASE MatchRule(r)
  <2>1. Protected(k) /\ k.rule /\ outcome = "dropped"
    BY <1>4, <1>10 DEF MatchRule, Protected
  <2> HIDE DEF k, n
  <2> QED
    BY <1>2, <1>7, <2>1, DecideFacts
<1>11. CASE CheckCountry(r)
  <2>1. Unruled(k) /\ countryDenies(published.db, k.client) /\ outcome = "dropped"
    BY <1>4, <1>5, <1>6, <1>11 DEF CheckCountry, Explained
  <2> HIDE DEF k, n
  <2> QED
    BY <1>2, <1>7, <2>1, DecideFacts
<1>12. CASE CheckBlacklist(r)
  <2>1. Unruled(k) /\ isListed(published.blacklist, k.client) /\ outcome = "dropped"
    BY <1>4, <1>5, <1>6, <1>12 DEF CheckBlacklist, Explained
  <2> HIDE DEF k, n
  <2> QED
    BY <1>2, <1>7, <2>1, DecideFacts
<1>13. CASE CheckAllowlist(r)
  <2>1. Unruled(k) /\ isListed(published.allowlist, k.client) /\ outcome = "forwarded"
    BY <1>4, <1>5, <1>6, <1>13 DEF CheckAllowlist, Explained
  <2>2. PICK i, j \in SoFar(r) : i <= j /\ PassedCountry(k, i) /\ PassedBlacklist(k, j)
    BY <1>13 DEF CheckAllowlist, Explained
  <2> HIDE DEF k, n
  <2>3. outcome = Decide(k, history[i].db, history[j].blacklist, history[n].allowlist)
    BY <1>2, <2>1, <2>2, DecideFacts DEF PassedCountry, PassedBlacklist
  <2> QED
    BY <1>2, <2>2, <2>3
<1>14. CASE CheckCookie(r)
  <2>1. Unruled(k) /\ outcome = IF k.cookie THEN "forwarded" ELSE "challenged"
    BY <1>4, <1>14 DEF CheckCookie, Explained
  <2>2. PICK i, j, l \in SoFar(r) :
            /\ i <= j /\ j <= l
            /\ PassedCountry(k, i) /\ PassedBlacklist(k, j) /\ PassedAllowlist(k, l)
    BY <1>14 DEF CheckCookie, Explained
  <2> HIDE DEF k, n
  <2>3. outcome = Decide(k, history[i].db, history[j].blacklist, history[l].allowlist)
    BY <1>2, <2>1, <2>2, DecideFacts DEF PassedCountry, PassedBlacklist, PassedAllowlist
  <2> QED
    BY <2>2, <2>3
<1>15. ~PassRules(r)
  BY <1>5, <1>6, Zenon DEF PassRules
<1> QED
  BY <1>8, <1>9, <1>10, <1>11, <1>12, <1>13, <1>14, <1>15 DEF ServeHTTP

LEMMA GateStep == TypeOK /\ GateInv /\ [Next]_vars => GateInv'
<1> SUFFICES ASSUME TypeOK, GateInv, [Next]_vars, NEW r \in Requests
             PROVE  Explained(r)' /\ (At(r, "replied") => HasExplanation(r))'
  BY Zenon DEF GateInv, OutcomeExplained
<1>1. Explained(r) /\ (At(r, "replied") => HasExplanation(r))
  BY DEF GateInv, OutcomeExplained
<1>2. Len(history) \in Nat
  BY DEF TypeOK
<1>3. ASSUME request'[r] = request[r], history' = history
      PROVE  Explained(r)' /\ (At(r, "replied") => HasExplanation(r))'
  BY <1>1, <1>2, <1>3, OthersStay
<1>4. CASE Changes
  <2>1. PICK p \in Publication : Publish(p)
    BY <1>4 DEF Changes
  <2>2. /\ Len(history') = Len(history) + 1 /\ request' = request
        /\ \A i \in 1 .. Len(history) : history'[i] = history[i]
    BY <2>1, PublishKeeps
  <2> QED
    BY <1>1, <1>2, <2>2, OthersStay
<1>5. ASSUME NEW s \in Requests, s # r,
             ServeHTTP(s) \/ Leave(s) \/ \E k \in Kinds : Arrive(s, k)
      PROVE  request'[r] = request[r] /\ history' = history
  <2>1. CASE ServeHTTP(s)
    BY <1>5, <2>1, StepOfRequest DEF Goto, Reply, TypeOK
  <2>2. CASE Leave(s) \/ \E k \in Kinds : Arrive(s, k)
    BY <1>5, <2>2 DEF Leave, Arrive, TypeOK
  <2> QED
    BY <1>5, <2>1, <2>2
<1>6. CASE ServeHTTP(r)
  <2>1. ASSUME NEW pc \in {"country", "blacklist", "allowlist", "cookie"}, Goto(r, pc)
        PROVE  Explained(r)' /\ (At(r, "replied") => HasExplanation(r))'
    <3>1. request'[r].pc = pc
      BY <1>6, <2>1, StepOfRequest DEF Goto, TypeOK, Request, Places, Idle
    <3> QED
      BY <1>1, <1>6, <2>1, <3>1, GoesOn DEF Places, At
  <2>2. ASSUME NEW outcome \in Outcomes, Reply(r, outcome)
        PROVE  Explained(r)' /\ (At(r, "replied") => HasExplanation(r))'
    <3>1. request'[r].pc = "replied"
      BY <2>2 DEF Reply, TypeOK
    <3> QED
      BY <1>1, <1>6, <2>2, <3>1, Answers DEF Explained, At
  <2> QED
    BY <1>6, <2>1, <2>2, StepOfRequest
<1>7. ASSUME Leave(r) \/ \E k \in Kinds : Arrive(r, k)
      PROVE  Explained(r)' /\ (At(r, "replied") => HasExplanation(r))'
  <2>1. request'[r].pc \in {"idle", "routing"}
    BY <1>7 DEF Leave, Arrive, TypeOK, Idle
  <2> QED
    BY <2>1 DEF Explained, At
<1> QED
  BY <1>3, <1>4, <1>5, <1>6, <1>7, NextSteps DEF vars

(* Every outcome is the documented one for data that was published, in the order of
   the barriers, while the request ran. *)
THEOREM OutcomesAreExplained == Spec => []OutcomeExplained
<1>1. Init => GateInv
  BY DEF Init, GateInv, OutcomeExplained, Explained, At, Idle
<1>2. GateInv => OutcomeExplained
  BY DEF GateInv
<1> QED
  BY <1>1, <1>2, TypeCorrect, GateStep, PTL DEF Spec

-----------------------------------------------------------------------------
(* What follows for the barriers that must not leak.                        *)

LEMMA MomentsTyped ==
    ASSUME TypeOK, NEW r \in Requests, At(r, "replied")
    PROVE  request[r].kind \in Kinds /\ \A i \in Moments(r) : history[i] \in Publication
BY DEF TypeOK, Request, Places, Idle, At, Moments

LEMMA RuleDrops ==
    ASSUME NEW k \in Kinds, Protected(k), k.rule, NEW db, NEW blacklist, NEW allowlist
    PROVE  Decide(k, db, blacklist, allowlist) = "dropped"
BY DEF Decide, Protected

LEMMA BlacklistDrops ==
    ASSUME NEW k \in Kinds, Protected(k), NEW db, NEW blacklist, NEW allowlist,
           k.client \in blacklist
    PROVE  Decide(k, db, blacklist, allowlist) = "dropped"
BY DEF Decide, Protected

LEMMA BlacklistHolds == TypeOK /\ OutcomeExplained => BlacklistedThroughoutIsDropped
<1> SUFFICES ASSUME TypeOK, OutcomeExplained, NEW r \in Requests,
                    At(r, "replied"), Protected(request[r].kind),
                    \A i \in Moments(r) : request[r].kind.client \in history[i].blacklist
             PROVE  request[r].outcome = "dropped"
  BY DEF BlacklistedThroughoutIsDropped
<1> DEFINE k == request[r].kind
<1>1. PICK i, j, l \in Moments(r) :
          request[r].outcome = Decide(k, history[i].db, history[j].blacklist,
                                      history[l].allowlist)
  BY DEF OutcomeExplained, HasExplanation
<1>2. /\ k \in Kinds /\ history[i] \in Publication /\ history[j] \in Publication
      /\ history[l] \in Publication /\ Protected(k) /\ k.client \in history[j].blacklist
  BY MomentsTyped
<1>3. Decide(k, history[i].db, history[j].blacklist, history[l].allowlist) = "dropped"
  BY <1>2, BlacklistDrops
<1> QED
  BY <1>1, <1>3

LEMMA CountryHolds == TypeOK /\ OutcomeExplained => CountryWhitelistFailsClosed
<1> SUFFICES ASSUME TypeOK, OutcomeExplained, NEW r \in Requests,
                    At(r, "replied"), Protected(request[r].kind), hasCountryWhitelist,
                    request[r].outcome # "dropped"
             PROVE  \E i \in Moments(r) :
                       /\ history[i].db # NoDB /\ request[r].kind.client # NoAddr
                       /\ history[i].db[request[r].kind.client] \in WhitelistCountries
  BY DEF CountryWhitelistFailsClosed
<1> DEFINE k == request[r].kind
<1>1. PICK i, j, l \in Moments(r) :
          request[r].outcome = Decide(k, history[i].db, history[j].blacklist,
                                      history[l].allowlist)
  BY DEF OutcomeExplained, HasExplanation
<1>2. /\ k \in Kinds /\ history[i] \in Publication /\ history[j] \in Publication
      /\ history[l] \in Publication /\ Protected(k)
  BY MomentsTyped
<1>3. ~countryDenies(history[i].db, k.client)
  <2> DEFINE d == Decide(k, history[i].db, history[j].blacklist, history[l].allowlist)
  <2>1. d # "dropped"
    BY <1>1
  <2> HIDE DEF k
  <2>2. ~k.rule
    BY <1>2, <2>1, RuleDrops
  <2> QED
    BY <1>2, <2>1, <2>2, DecideFacts DEF Unruled
<1>4. lookupCountryCode(history[i].db, k.client) \in WhitelistCountries
  BY <1>3 DEF countryDenies
<1> QED
  BY <1>4, GateAssumption DEF lookupCountryCode

(* A blacklisted client is dropped, whatever changes meanwhile. *)
THEOREM BlacklistIsTight == Spec => []BlacklistedThroughoutIsDropped
BY TypeCorrect, OutcomesAreExplained, BlacklistHolds, PTL

(* whitelist_country fails closed. *)
THEOREM CountryWhitelistIsTight == Spec => []CountryWhitelistFailsClosed
BY TypeCorrect, OutcomesAreExplained, CountryHolds, PTL

=============================================================================
