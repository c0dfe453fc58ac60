----------------------------- MODULE RequestGate -----------------------------
(***************************************************************************)
(* ServeHTTP (handler.go): how a request is classified while background    *)
(* loops and Cleanup replace the data it is classified by.                  *)
(*                                                                          *)
(* A request reads the country database, the blacklist and the allowlist    *)
(* one after the other, each as it is published at that moment, so its      *)
(* outcome need not be the one of any single moment.  history records what  *)
(* was published when; the properties say which outcomes remain possible.   *)
(* How the data is published is Lifecycle's subject, how a cookie becomes   *)
(* valid is Verification's.                                                 *)
(***************************************************************************)
EXTENDS Naturals, Sequences

CONSTANTS
    Requests,            \* requests in progress at once
    Clients,             \* client addresses that parse
    NoAddr,              \* a client_ip that does not parse
    WhitelistCountries,  \* configuration: whitelist_country
    BlacklistCountries,  \* configuration: blacklist_country
    Databases,           \* country databases: functions from Clients to countries
    NoDB,                \* no database is published
    NoCode,              \* the database has no valid code for an address
    BypassAPIKey,        \* configuration: bypass_api_key, or NoKey
    NoKey,
    ApiKeys,             \* values of the X-API-Key header: sequences
    MaxChanges           \* bound: how often something is published

ASSUME GateAssumption ==
    /\ NoAddr \notin Clients /\ NoCode \notin WhitelistCountries \cup BlacklistCountries
    /\ NoDB \notin Databases /\ MaxChanges \in Nat

VARIABLES
    history,   \* what was published, in order: [db, blacklist, allowlist]
    request    \* per request: what it is and where it stands in ServeHTTP

vars == <<history, request>>

\* What the pointers lead to now.
published == history[Len(history)]

hasCountryWhitelist == WhitelistCountries # {}
hasCountryRules == hasCountryWhitelist \/ BlacklistCountries # {}

Idle == [pc |-> "idle"]

\* A request as the handler gets it: whether its path is verify_path and its method
\* POST, whether a deny rule matches, and whether its cookie passes the check.
Kinds == [verifyPath : BOOLEAN, post : BOOLEAN, apiKeys : ApiKeys, rule : BOOLEAN,
          client : Clients \cup {NoAddr}, cookie : BOOLEAN]

Init ==
    /\ \E p \in [db : IF hasCountryRules THEN Databases ELSE {NoDB},
               blacklist : SUBSET Clients, allowlist : SUBSET Clients] : history = <<p>>
    /\ request = [r \in Requests |-> Idle]

-----------------------------------------------------------------------------
(* The data changes.                                                        *)

\* Cleanup withdraws the database after it has ended the loops: nothing follows.
Publish(p) ==
    /\ Len(history) <= MaxChanges
    /\ hasCountryRules => published.db # NoDB
    /\ history' = Append(history, p)
    /\ UNCHANGED request

\* Mutation: an entry that does not parse stays in the list as the zero address.
RefreshWithUnparsed(b) == Publish([published EXCEPT !.blacklist = b \cup {NoAddr}])

RefreshBlacklist(b) == Publish([published EXCEPT !.blacklist = b])
RefreshAllowlist(a) == Publish([published EXCEPT !.allowlist = a])

\* setCountryDB: a refresh, or Cleanup while the request is still running.
SetCountryDB(d) == hasCountryRules /\ Publish([published EXCEPT !.db = d])

-----------------------------------------------------------------------------
(* One request.                                                             *)

At(r, pc) == request[r].pc = pc
Goto(r, pc) == request' = [request EXCEPT ![r].pc = pc] /\ UNCHANGED history

\* The reply, and how much had been published by then.
Reply(r, outcome) ==
    /\ request' = [request EXCEPT ![r] =
           [pc |-> "replied", kind |-> request[r].kind, from |-> request[r].from,
            outcome |-> outcome, upto |-> Len(history)]]
    /\ UNCHANGED history

Arrive(r, k) ==
    /\ At(r, "idle")
    /\ request' = [request EXCEPT ![r] = [pc |-> "routing", kind |-> k, from |-> Len(history)]]
    /\ UNCHANGED history

Leave(r) ==
    /\ At(r, "replied")
    /\ request' = [request EXCEPT ![r] = Idle]
    /\ UNCHANGED history

\* A header that is missing, repeated or different does not bypass.
Bypasses(k) == BypassAPIKey # NoKey /\ Len(k.apiKeys) = 1 /\ k.apiKeys[1] = BypassAPIKey

\* verify_path is answered here, whatever else holds of the request.
AnswerVerifyPath(r) ==
    LET k == request[r].kind
    IN  /\ At(r, "routing")
        /\ k.verifyPath
        /\ Reply(r, IF k.post THEN "verify" ELSE "method not allowed")

Bypass(r) ==
    LET k == request[r].kind
    IN  /\ At(r, "routing")
        /\ ~k.verifyPath
        /\ Bypasses(k)
        /\ Reply(r, "forwarded")

MatchRule(r) ==
    LET k == request[r].kind
    IN  /\ At(r, "routing")
        /\ ~k.verifyPath /\ ~Bypasses(k)
        /\ k.rule
        /\ Reply(r, "dropped")

PassRules(r) ==
    LET k == request[r].kind
    IN  /\ At(r, "routing")
        /\ ~k.verifyPath /\ ~Bypasses(k)
        /\ ~k.rule
        /\ Goto(r, IF hasCountryRules THEN "country" ELSE "blacklist")

lookupCountryCode(db, client) ==
    IF client = NoAddr \/ db = NoDB THEN NoCode ELSE db[client]

\* Mutation: an unknown country passes the whitelist.
lenientCountryDenies(db, client) ==
    LET code == lookupCountryCode(db, client)
    IN  \/ code \in BlacklistCountries
        \/ hasCountryWhitelist /\ code # NoCode /\ code \notin WhitelistCountries

countryDenies(db, client) ==
    LET code == lookupCountryCode(db, client)
    IN  \/ code \in BlacklistCountries
        \/ hasCountryWhitelist /\ code \notin WhitelistCountries

CheckCountry(r) ==
    /\ At(r, "country")
    /\ IF countryDenies(published.db, request[r].kind.client)
       THEN Reply(r, "dropped")
       ELSE Goto(r, "blacklist")

isListed(list, client) == client # NoAddr /\ client \in list

\* Mutation: the allowlist is asked before the blacklist.
CheckAllowlistFirst(r) ==
    /\ At(r, "blacklist")
    /\ IF isListed(published.allowlist, request[r].kind.client)
       THEN Reply(r, "forwarded")
       ELSE IF isListed(published.blacklist, request[r].kind.client)
            THEN Reply(r, "dropped")
            ELSE Goto(r, "allowlist")

CheckBlacklist(r) ==
    /\ At(r, "blacklist")
    /\ IF isListed(published.blacklist, request[r].kind.client)
       THEN Reply(r, "dropped")
       ELSE Goto(r, "allowlist")

\* Mutation: the allowlist that Provision loaded is used for good.
CheckStaleAllowlist(r) ==
    /\ At(r, "allowlist")
    /\ IF isListed(history[1].allowlist, request[r].kind.client)
       THEN Reply(r, "forwarded")
       ELSE Goto(r, "cookie")

CheckAllowlist(r) ==
    /\ At(r, "allowlist")
    /\ IF isListed(published.allowlist, request[r].kind.client)
       THEN Reply(r, "forwarded")
       ELSE Goto(r, "cookie")

CheckCookie(r) ==
    /\ At(r, "cookie")
    /\ Reply(r, IF request[r].kind.cookie THEN "forwarded" ELSE "challenged")

ServeHTTP(r) ==
    \/ AnswerVerifyPath(r) \/ Bypass(r) \/ MatchRule(r) \/ PassRules(r)
    \/ CheckCountry(r) \/ CheckBlacklist(r) \/ CheckAllowlist(r) \/ CheckCookie(r)

Next ==
    \/ \E b \in SUBSET Clients : RefreshBlacklist(b) \/ RefreshAllowlist(b)
    \/ \E d \in Databases \cup {NoDB} : SetCountryDB(d)
    \/ \E r \in Requests, k \in Kinds : Arrive(r, k)
    \/ \E r \in Requests : ServeHTTP(r) \/ Leave(r)

Spec == Init /\ [][Next]_vars

-----------------------------------------------------------------------------
(* Properties.                                                              *)

Outcomes == {"verify", "method not allowed", "forwarded", "dropped", "challenged"}
Places   == {"routing", "country", "blacklist", "allowlist", "cookie"}

Request == {Idle}
    \cup [pc : Places, kind : Kinds, from : Nat]
    \cup [pc : {"replied"}, kind : Kinds, from : Nat, outcome : Outcomes, upto : Nat]

Publication == [db : Databases \cup {NoDB},
                blacklist : SUBSET Clients, allowlist : SUBSET Clients]

\* The variables have their types; the lists hold addresses that parse only.
TypeOK ==
    /\ history \in Seq(Publication) /\ Len(history) \in 1 .. MaxChanges + 1
    /\ request \in [Requests -> Request]
    /\ \A r \in Requests :
          /\ request[r] # Idle => request[r].from \in 1 .. Len(history)
          /\ At(r, "replied") => request[r].upto \in request[r].from .. Len(history)

\* The outcome the documentation promises for data that does not change: who is
\* dropped, forwarded or challenged, and which barrier has precedence.
Decide(k, db, blacklist, allowlist) ==
    CASE k.verifyPath ->
             IF k.post THEN "verify" ELSE "method not allowed"
      [] ~k.verifyPath /\ Bypasses(k) -> "forwarded"
      [] ~k.verifyPath /\ ~Bypasses(k) ->
             IF \/ k.rule
                \/ lookupCountryCode(db, k.client) \in BlacklistCountries
                \/ WhitelistCountries # {}
                     /\ lookupCountryCode(db, k.client) \notin WhitelistCountries
                \/ k.client \in blacklist
             THEN "dropped"
             ELSE IF k.client \in allowlist \/ k.cookie THEN "forwarded" ELSE "challenged"

Moments(r) == request[r].from .. request[r].upto

HasExplanation(r) ==
    \E i, j, l \in Moments(r) :
        /\ i <= j /\ j <= l
        /\ request[r].outcome = Decide(request[r].kind, history[i].db,
                                       history[j].blacklist, history[l].allowlist)

\* Every outcome is the documented one for data that was published while the request
\* ran: the database of one moment, the blacklist of a moment no earlier and the
\* allowlist of a moment no earlier than that.  (One moment for all three would be
\* too much to ask: the data may change in between.)
OutcomeExplained == \A r \in Requests : At(r, "replied") => HasExplanation(r)

Protected(k) == ~k.verifyPath /\ ~Bypasses(k)

\* A client that is on the blacklist as long as its request runs is dropped, even if
\* it gets on the allowlist meanwhile or holds a valid cookie.
BlacklistedThroughoutIsDropped ==
    \A r \in Requests :
        /\ At(r, "replied") /\ Protected(request[r].kind)
        /\ \A i \in Moments(r) : request[r].kind.client \in history[i].blacklist
        => request[r].outcome = "dropped"

\* With whitelist_country nobody gets past the barrier whose country was not
\* whitelisted by some database published meanwhile: an address that does not parse,
\* a database without an entry or a database that Cleanup has taken away fail closed.
CountryWhitelistFailsClosed ==
    \A r \in Requests :
        /\ At(r, "replied") /\ Protected(request[r].kind) /\ hasCountryWhitelist
        /\ request[r].outcome # "dropped"
        => \E i \in Moments(r) :
              /\ history[i].db # NoDB /\ request[r].kind.client # NoAddr
              /\ history[i].db[request[r].kind.client] \in WhitelistCountries

=============================================================================
