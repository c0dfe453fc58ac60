---------------------------- MODULE Configuration ----------------------------
(***************************************************************************)
(* From a Caddyfile to a running instance: the directives are read one by   *)
(* one (caddyfile.go), Provision fills in defaults, validates, loads and    *)
(* starts the refresh loops (config.go), and Caddy calls Validate again.    *)
(*                                                                          *)
(* Durations are machine words: a number of minutes is multiplied by Minute *)
(* and wraps around.  A text is reduced to what the code asks of it: "unset",*)
(* "blank" (white space only), "bad" (it breaks its field's rule), "padded"  *)
(* (it obeys it once trimmed) or "ok".                                      *)
(***************************************************************************)
EXTENDS Integers, Sequences, SequencesExt

CONSTANTS
    Names, LocalNames, Addresses, Public, Loopback, NoHost,  \* as in Outbound
    Half,            \* a word is -Half .. Half - 1 (2^63 in the program)
    Minute,          \* time.Minute, in units of a word (6 * 10^10)
    DefaultAllowFor, \* minutes (1800)
    Malformed,       \* the argument of a duration that is not a whole number
    Canonical,       \* strings.ToUpper(strings.TrimSpace(code))
    CountryCodes,    \* codes of two letters
    MinutesArgs, URLArgs, TextArgs, ListArgs,   \* bound: directives: <<field, argument>>
    MaxDirectives    \* bound: directives in a file

Word == -Half .. Half - 1

ASSUME ConfigurationAssumption ==
    /\ Half \in Nat /\ Minute \in 1 .. Half - 1 /\ DefaultAllowFor \in Nat \ {0}
    /\ DefaultAllowFor * Minute \in Word
    /\ \A code \in DOMAIN Canonical :
           Canonical[code] \in DOMAIN Canonical /\ Canonical[Canonical[code]] = Canonical[code]

IPLists == {"whitelist", "blacklist"}
Lists   == IPLists \cup {"country"}
RefreshOf == [l \in Lists |-> CASE l = "whitelist" -> "whitelist_refresh"
                                [] l = "blacklist" -> "blacklist_refresh"
                                [] l = "country"   -> "country_url_refresh"]
URLOf     == [l \in Lists |-> CASE l = "whitelist" -> "whitelist_url"
                                [] l = "blacklist" -> "blacklist_url"
                                [] l = "country"   -> "country_url"]
FileOf    == [l \in IPLists |-> IF l = "whitelist" THEN "whitelist_file" ELSE "blacklist_file"]

MinutesFields == {"allow_for"} \cup {RefreshOf[l] : l \in Lists}
URLFields     == {"cap_api_url"} \cup {URLOf[l] : l \in Lists}
BoolFields    == {"cookie_secure", "cookie_http_only"}
TextFields    == BoolFields \cup {FileOf[l] : l \in IPLists} \cup
    {"cap_site_key", "cap_secret_key", "bypass_api_key", "cookie_name", "cookie_path",
     "cookie_domain", "cookie_same_site", "verify_path", "template", "disable_csp_header"}
CountryFields == {"whitelist_country", "blacklist_country"}
IPFields      == {"whitelist_ip", "blacklist_ip"}
RuleFields    == {"deny_path_prefix", "deny_query_substring", "deny_header_substring"}
ListFields    == CountryFields \cup IPFields \cup RuleFields

\* A URL's text may be padded with white space, so that it only parses when trimmed.
URLs  == [scheme : {"http", "https", "other"},
          host : Names \cup LocalNames \cup Addresses \cup {NoHost}, padded : BOOLEAN]
NoURL == [scheme |-> "unset", host |-> NoHost, padded |-> FALSE]

\* What a directive may carry.
ASSUME DirectivesAssumption ==
    /\ MinutesArgs \subseteq MinutesFields \X ({Malformed} \cup Int)
    /\ URLArgs \subseteq URLFields \X URLs
    /\ TextArgs \subseteq TextFields \X {"unset", "blank", "bad", "ok"}
    /\ \A d \in ListArgs : /\ d[1] \in ListFields
                           /\ d[1] \in CountryFields => d[2] \in DOMAIN Canonical
    /\ MaxDirectives \in Nat

VARIABLES
    pc,       \* "reading", "rejected", "provisioned", "running" or "failed"
    minutes, url, text, list,   \* the configured fields
    loops,    \* the refresh loops that were started: list and interval
    asked,    \* history: the minutes each duration was last given, 0 for none
    count     \* directives read

fields == <<minutes, url, text, list>>
vars == <<pc, fields, loops, asked, count>>

Init ==
    /\ pc = "reading"
    /\ minutes = [f \in MinutesFields |-> 0]
    /\ url = [f \in URLFields |-> NoURL]
    /\ text = [f \in TextFields |-> "unset"]
    /\ list = [f \in ListFields |-> <<>>]
    /\ loops = {}
    /\ asked = [f \in MinutesFields |-> 0]
    /\ count = 0

-----------------------------------------------------------------------------
(* The Caddyfile.                                                           *)

Wrap(n) == ((n + Half) % (2 * Half)) - Half

\* strconv.Atoi takes what fits into an int, which is a word.
ParsesMinutes(n) == n # Malformed /\ n > 0 /\ n < Half

Reads == pc = "reading" /\ count < MaxDirectives
Read  == pc' = "reading" /\ count' = count + 1 /\ UNCHANGED loops

\* Mutation: of a directive that is repeated the first counts.
KeepsFirstMinutes(f, n) ==
    /\ Reads /\ ParsesMinutes(n)
    /\ minutes' = IF minutes[f] = 0 THEN [minutes EXCEPT ![f] = Wrap(n * Minute)] ELSE minutes
    /\ asked' = [asked EXCEPT ![f] = n]
    /\ Read /\ UNCHANGED <<url, text, list>>

\* A field is overwritten by a later directive, a list is continued by it.
SetMinutes(f, n) ==
    /\ Reads /\ ParsesMinutes(n)
    /\ minutes' = [minutes EXCEPT ![f] = Wrap(n * Minute)]
    /\ asked' = [asked EXCEPT ![f] = n]
    /\ Read /\ UNCHANGED <<url, text, list>>

SetURL(f, u) ==
    /\ Reads
    /\ url' = [url EXCEPT ![f] = u]
    /\ Read /\ UNCHANGED <<minutes, text, list, asked>>

SetText(f, t) ==
    /\ Reads /\ (f \in BoolFields \cup {"disable_csp_header"} => t = "ok")
    /\ text' = [text EXCEPT ![f] = t]
    /\ Read /\ UNCHANGED <<minutes, url, list, asked>>

AppendList(f, v) ==
    /\ Reads
    /\ list' = [list EXCEPT ![f] = Append(@, v)]
    /\ Read /\ UNCHANGED <<minutes, url, text, asked>>

\* A directive that does not parse, is unknown or has a wrong number of arguments.
Rejects ==
    /\ Reads
    /\ pc' = "rejected"
    /\ UNCHANGED <<fields, loops, asked, count>>

-----------------------------------------------------------------------------
(* Validate.                                                                *)

\* The outbound policy, as a call of the URL finds it.
Policy(origin) == INSTANCE Outbound WITH
    call <- [kind |-> "list", url |-> origin], pc <- "new",
    target <- origin, withBody <- FALSE, made <- 0, address <- NoHost, conns <- {},
    reply <- <<>>, read <- 0, result <- "none",
    Answers <- {}, MaxBytes <- 0, MaxVerdict <- 0, MaxSize <- 0

isLoopbackHost(h) == h \in LocalNames \cup Loopback

\* Mutation: plain HTTP is accepted for any host.
lenientRemoteURL(u) == u.host # NoHost /\ u.scheme \in {"http", "https"}

validateRemoteURL(u) ==
    /\ u.host # NoHost
    /\ u.scheme = "https" \/ (u.scheme = "http" /\ isLoopbackHost(u.host))

\* Mutation: the normalised codes are appended to the configured ones.
appendCountryCodes(codes) == codes \o [i \in DOMAIN codes |-> Canonical[codes[i]]]

\* Canonical codes, each where it occurs first.
normalizeCountryCodes(codes) ==
    FoldLeft(LAMBDA seen, code : IF Contains(seen, Canonical[code]) THEN seen
                                 ELSE Append(seen, Canonical[code]), <<>>, codes)

CountriesValid(f) == \A i \in DOMAIN list[f] : Canonical[list[f][i]] \in CountryCodes
HasCountryRules   == \E f \in CountryFields : list[f] # <<>>

EntriesParse == \A f \in IPFields : \A i \in DOMAIN list[f] : list[f][i] = "ok"
RulesCompile == \A f \in RuleFields : \A i \in DOMAIN list[f] : list[f][i] \in {"ok", "padded"}

URLValid(f) == url[f] # NoURL => validateRemoteURL(url[f])

\* Mutation: a refresh may be negative.
ListValidBelowZero(m, l) == URLValid(URLOf[l])

\* The source of a list and how often it is refreshed.
ListValid(m, l) == URLValid(URLOf[l]) /\ m[RefreshOf[l]] >= 0

\* config.go:25-45: a field that is not set gets its default.
DefaultTexts == BoolFields \cup {"verify_path", "cookie_name", "cookie_path", "cookie_same_site"}
withDefaults ==
    [minutes |-> [minutes EXCEPT !["allow_for"] =
                     IF @ = 0 THEN Wrap(DefaultAllowFor * Minute) ELSE @],
     text |-> [f \in TextFields |-> IF f \in DefaultTexts /\ text[f] = "unset"
                                    THEN "ok" ELSE text[f]]]

\* The checks on durations and texts, after the defaults m and t.
Valid(m, t) ==
    /\ \A f \in CountryFields : CountriesValid(f)
    /\ \A l \in Lists : ListValid(m, l)
    /\ EntriesParse
    /\ HasCountryRules => url["country_url"] # NoURL
    /\ m["allow_for"] > 0
    /\ \A f \in {"cap_site_key", "cap_secret_key"} : t[f] \notin {"unset", "blank"}
    /\ t["bypass_api_key"] \in {"unset", "ok"}
    /\ validateRemoteURL(url["cap_api_url"])
    /\ \A f \in {"verify_path", "cookie_path", "cookie_same_site"} : t[f] = "ok"
    /\ RulesCompile

\* Validate rewrites country codes and trims header rules, in this order.
NormalizedFields == CountryFields \cup {"deny_header_substring"}
Normalized(normalize) ==
    [f \in ListFields |->
        IF f \notin normalize     THEN list[f]
        ELSE IF f \in CountryFields THEN normalizeCountryCodes(list[f])
        ELSE [i \in DOMAIN list[f] |-> "ok"]]

-----------------------------------------------------------------------------
(* Provision.                                                               *)

\* A URL is called as it was written, under the outbound policy.
Callable(u) ==
    LET origin == [scheme |-> u.scheme, host |-> u.host]
    IN  ~u.padded /\ Policy(origin)!validateURL(origin)

\* The lists whose URL is loaded before the instance runs.
Loaded == {l \in Lists : url[URLOf[l]] # NoURL /\ (l = "country" => HasCountryRules)}

Loadable(t) ==
    /\ \A l \in Loaded : Callable(url[URLOf[l]])
    /\ \A f \in {FileOf[l] : l \in IPLists} \cup {"template"} : t[f] \in {"unset", "ok"}

\* Mutation: the file of an IP list is not refreshed.
RefreshesURLs(m, t, l) == m[RefreshOf[l]] > 0 /\ l \in Loaded

Refreshes(m, t, l) ==
    /\ m[RefreshOf[l]] > 0
    /\ l \in Loaded \/ (l \in IPLists /\ t[FileOf[l]] # "unset")

Provision ==
    LET m == withDefaults.minutes
        t == withDefaults.text
    IN  /\ pc = "reading" /\ Valid(m, t) /\ Loadable(t)
        /\ minutes' = m /\ text' = t
        /\ list' = Normalized(NormalizedFields)
        /\ loops' = {[list |-> l, interval |-> m[RefreshOf[l]]] :
                        l \in {k \in Lists : Refreshes(m, t, k)}}
        /\ pc' = "provisioned"
        /\ UNCHANGED <<url, asked, count>>

\* The configuration is refused, or something cannot be loaded; also a server may fail.
\* How far Validate came is left open: the instance is discarded.
ProvisionFails ==
    LET m == withDefaults.minutes
        t == withDefaults.text
    IN  /\ pc = "reading"
        /\ ~Valid(m, t) \/ ~Loadable(t) \/ Loaded # {}
        /\ minutes' = m /\ text' = t
        /\ list' \in {Normalized(done) : done \in {{}, CountryFields, NormalizedFields}}
        /\ pc' = "failed"
        /\ UNCHANGED <<url, loops, asked, count>>

\* Caddy validates a provisioned module, and Validate runs a second time.
ValidateAgain ==
    /\ pc = "provisioned"
    /\ pc' = IF Valid(minutes, text) THEN "running" ELSE "failed"
    /\ list' = Normalized(NormalizedFields)
    /\ UNCHANGED <<minutes, url, text, loops, asked, count>>

Next ==
    \/ \E d \in MinutesArgs : SetMinutes(d[1], d[2])
    \/ \E d \in URLArgs : SetURL(d[1], d[2])
    \/ \E d \in TextArgs : SetText(d[1], d[2])
    \/ \E d \in ListArgs : AppendList(d[1], d[2])
    \/ Rejects
    \/ Provision \/ ProvisionFails \/ ValidateAgain

Spec == Init /\ [][Next]_vars

-----------------------------------------------------------------------------
(* Properties.                                                              *)

\* The fields have their types.  A number of minutes may wrap to any word, but an
\* instance that was accepted has a positive allow_for and no negative refresh: a list
\* whose refresh wrapped below zero is refused, not silently left without a loop
\* (caddyfile.go:171-179, config.go:80-94, 149, refresh.go:27, 44).
TypeOK ==
    /\ pc \in {"reading", "rejected", "provisioned", "running", "failed"}
    /\ minutes \in [MinutesFields -> Word]
    /\ pc \in {"provisioned", "running"} =>
          minutes["allow_for"] > 0 /\ \A l \in Lists : minutes[RefreshOf[l]] >= 0
    /\ url \in [URLFields -> URLs \cup {NoURL}]
    /\ text \in [TextFields -> {"unset", "blank", "bad", "ok"}]
    /\ DOMAIN list = ListFields
    /\ \A r \in loops : r.list \in Lists /\ r.interval \in 1 .. Half - 1
    /\ asked \in [MinutesFields -> Nat]
    /\ count \in 0 .. MaxDirectives

\* The second Validate, on fields that Provision and the first one have rewritten,
\* accepts what the first accepted and changes nothing under the loops that run by
\* then (config.go:46, 124-183).
ValidateIsStable ==
    [][pc = "provisioned" => pc' = "running" /\ UNCHANGED fields]_vars

\* Directives take effect: where a number of minutes fits into a duration, the instance
\* runs with the minutes that were asked for last, with the default if none were, and
\* exactly the lists with a source and a refresh are refreshed, at their own interval
\* (caddyfile.go:79-180, config.go:25-27, 80-94).
DirectivesTakeEffect ==
    pc = "running" /\ (\A f \in MinutesFields : asked[f] * Minute < Half) =>
        /\ minutes["allow_for"] = Minute * (IF asked["allow_for"] = 0 THEN DefaultAllowFor
                                            ELSE asked["allow_for"])
        /\ loops = {[list |-> l, interval |-> Minute * asked[RefreshOf[l]]] :
                       l \in {k \in Lists :
                                 /\ asked[RefreshOf[k]] # 0
                                 /\ \/ k \in Loaded
                                    \/ k \in IPLists /\ text[FileOf[k]] # "unset"}}

\* What Validate accepts can be called: the policy refuses no URL of a running instance,
\* save a cap_api_url that is padded or has a literal address that is not public
\* (refresh.go:56-73 against outbound.go:87-110).
URLsAreCallable ==
    pc = "running" =>
        /\ \A l \in Loaded : Callable(url[URLOf[l]])
        /\ LET u == url["cap_api_url"]
           IN  Callable(u) \/ u.padded \/ u.host \in Addresses \ Public

\* What README.md:106 says of durations: an accepted number of minutes is that many
\* minutes.
MinutesAreMinutes ==
    pc = "running" =>
        \A f \in MinutesFields : asked[f] # 0 => minutes[f] = Minute * asked[f]

=============================================================================
