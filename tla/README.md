# caddy_protector: specifications, checks and proofs

caddy_protector is a Caddy middleware that lets a visitor through to the upstream
only after a Cap challenge was solved, unless a list or a key says otherwise. This
directory holds TLA+ modules that model its core, TLC configurations that check them
on small instances, and proofs that TLAPS checks for every value of the constants.

- [The system](#the-system): components, state, operations, interactions, hazards
- [The modules](#the-modules): what models what
- [The runs](#the-runs): what TLC checks, with which bounds and fairness
- [The proofs](#the-proofs): what TLAPS proves, and how
- [Limits](#limits): what is only model-checked, and what is not modelled
- [The plan](#the-plan): what comes next

## The system

### Components

| component | code | state it keeps | operations |
|---|---|---|---|
| Request gate | `handler.go` | none of its own; reads lists, country database, keys | `ServeHTTP` |
| Verify endpoint | `verification_handler.go`, `challenge.go` | per request only | `serveChallenge`, `handleVerify`, `verifyCapToken` |
| Signed values | `verification.go` | none on the server: return states and allow cookies travel through the client | `createReturnState`, `verifyReturnState`, `writeAllowCookie`, `hasValidAllowCookie` |
| Rate limiter | `verification_handler.go:126-172` | `verifyRateLimits` under `verifyRateLimitMu` | `allowVerifyAttempt`, `resetVerifyRateLimits` |
| Lifecycle and refresh | `config.go`, `lifecycle.go`, `refresh.go` | list pointers (`atomic.Value`), `countryDB` under `countryDBMu`, a stop and a done channel per loop | `Provision`, `Cleanup`, three refresh loops, `setCountryDB`, `lookupCountryCode` |
| IP lists | `refresh.go:181-313` | immutable snapshots | parsing, `ipListContains` |
| Outbound policy | `outbound.go` | per call | URL and redirect checks, `dialContext` |
| Configuration | `caddyfile.go`, `config.go:22-183`, `filters.go:19-55` | the configured fields | directive parsing, `Provision`, `Validate`, rule compilation |
| Return paths | `handler.go:102-143` | none | `safeReturnPathFrom`, `getOriginalPath` |
| Deny rules | `filters.go:57-96` | none | `matchRequestRules` |
| Challenge page | `challenge.go:71-166`, `challenge_template.html` | the parsed template | rendering, CSP |
| Logging | `handler.go:145-`, `outbound.go:156` | none | redaction |

### How they interact

Caddy calls `Provision` on a new instance, sends it requests, and calls `Cleanup` when
the instance is replaced or `Provision` failed; requests that are still running stay
with their instance, also beyond `Cleanup` when Caddy's grace period runs out. Each
request is a goroutine that runs `ServeHTTP`. It reads the country database, the
blacklist and the allowlist, each as published at that moment by the refresh loops,
then the visitor's cookie, and forwards, drops or challenges. A POST to `verify_path`
goes to `handleVerify`: body, clock, return state, address, limiter, Cap, cookie, in
that order. The instances before and after a reload share nothing except the signed
values that visitors bring back and that the derived keys accept or refuse.
The siteverify POST and every list or database GET get an HTTP client of their own, whose
outbound policy judges the URL, each redirect, and each address before it is dialled.

### What is hard

- `handleVerify` reads the clock **before** it waits for the limiter's mutex. Attempts
  reach the map in another order than their instants, and each sweeps away other
  clients' buckets by its own instant.
- The cookie is dated by that same instant, read before a siteverify call of up to
  15 s; both ends of its life are cut to whole seconds.
- The three sets of data a request consults may change between its three reads.
- The country database is a resource that must be closed, but not under a lookup.
- A load reads several sources, any of which may fail; `Cleanup` may come in the middle
  of it, and `select` may prefer a tick to the stop.
- Return states are handed to everybody; cookies must be earned. Both have the same
  format and come from the same secret.
- An outbound call goes through redirects, new name resolutions and connections that are
  reused; its answer may be larger than allowed or end early.
- Two places judge a URL by different rules, `Validate` and the outbound policy.
- `Validate` rewrites what it checks, and runs twice, the second time beside running loops.
- A path is made safe four times on its way through a state and back.

`PROJECT.json` lists these hazards at their lines, with the properties that cover them.

### What makes each component correct

- *Gate*: every outcome is the documented one for data published while the request ran;
  a client on the blacklist throughout is dropped; a country whitelist fails closed.
- *Endpoint and signed values*: only a cookie that Cap's acceptance earned opens the
  gate, for the promised time; prompt solvers are accepted; every POST is answered; the
  limiter is charged for genuine states only and stands before every siteverify call.
- *Limiter*: a bound on the admissions in any window, clients do not disturb each
  other, the table is bounded and a full table strikes new addresses only, Retry-After
  is honest.
- *Lifecycle*: no lookup in a closed reader, none leaked or closed twice, whole lists
  that never get older, nothing published after `Cleanup`, `Cleanup` and lookups
  terminate, changes arrive.
- *Outbound policy*: the secret stays at its origin, exactly three redirects, only
  checked addresses are dialled, plain HTTP to the development origin only, lists arrive whole.
- *Configuration*: directives take effect, what `Validate` accepts can be called, a second
  `Validate` changes nothing.
- *Return paths*: a genuine state verifies, and leads to the path that was asked for.

## The modules

| module | models | kind |
|---|---|---|
| `TokenBuckets` | arithmetic of `allowVerifyAttempt` and `retryAfterSeconds` | operators |
| `VerifyRateLimit` | the limiter, its callers' clock and mutex, `Cleanup` | state machine |
| `VerifyRateLimitWindow` | the limiter, observed over a window and per Retry-After | auxiliary variables |
| `Verification` | challenges, POSTs, siteverify calls, cookies, reloads | state machine over `TokenBuckets`; implements `VerifyRateLimit` per instance |
| `Snapshots` | what requests may rely on about refreshed data | abstract specification |
| `Lifecycle` | `Provision`, `Cleanup`, refresh loops, readers, lookups | state machine; implements `Snapshots` |
| `RequestGate` | `ServeHTTP` against changing data | state machine |
| `Outbound` | one outbound call under `outbound.go`'s policy | state machine |
| `Configuration` | directives, defaults, `Validate` and `Provision` | state machine over `Outbound`'s policy |
| `ReturnPath` | a path on its way through a state and back | state machine over `safeReturnPathFrom` |
| `VerifyRateLimitProofs`, `VerificationProofs`, `LifecycleProofs`, `RequestGateProofs`, `OutboundProofs`, `ConfigurationProofs`, `ReturnPathProofs` | | proofs about the module of that name |
| `TokenBucketsProofs` | | lemmas on the buckets, for both modules that use them |
| `MC*` | small instances | for TLC |

Definitions marked "Mutation" are altered forms of the definition that follows them. They
are used by nothing; put in its place they make the property fail that `PROJECT.json`
names, which shows that the property depends on that piece of the code.

### VerifyRateLimit and TokenBuckets

`verifyRateLimits` is a function whose domain is the set of addresses in the map.
`Capture(r, c)` is `bb.now()` in `handleVerify` for a request whose state and address
turned out valid. The three outcomes of `allowVerifyAttempt` run under the mutex and are one
step each: `RefuseTableFull`, `RefuseEmpty`, `Admit`; all of them sweep first, with the
request's own instant. `Refilled` keeps the code's quirk that an instant *before*
`lastRefill` credits nothing and takes nothing away. Time is in ticks, `Second` of them
to a second, so that the rounding in Retry-After is visible. The limiter compares
monotonic readings, so `clock` never goes back.

`VerifyRateLimitWindow` adds variables no action reads. A window starts at an
arbitrary `winStart`; it counts a client's admissions decided in it, and its buckets
created anew in it. The bound of `WindowBounded` contains a `MaxDelay` for each of the
latter. That term is not slack: a client's bucket that another request swept away, and that
an older attempt of the client then re-creates with the older instant, gains tokens; without the
term TLC finds a run that exceeds the bound. In the program the gain is at most the
time a request waits for the mutex.

### Verification

A visit is `ServeHTTP` from the cookie check on. A POST is `VerifyReceived` (the body is
decoded), then `StateRefused`, `ClientRefused` or `StateAccepted` at the instant the clock is
read, then the limiter under the mutex, then the answer of Cap. The
siteverify call may take up to `CapTimeout`; it accepts, rejects or fails (timeout, refused
by the outbound policy, client gone, bad answer). A signed value is a record of its key
and its claims; visitors can present any value anyone was ever given, in either place, or a
forgery. A claim that a type lacks decodes to its zero value, as encoding/json does it:
a return state has `iat` 0 and a cookie has no return path. `Reload` puts the next
configuration in charge, `Cleanup(g)` may follow while requests of `g` still run.
`writeAllowCookie` cannot fail for a configuration that `Validate` accepted, so that
error path (`verification_handler.go:101-105`) has no action.

For every instance `g`, `Limiter(g)` maps the endpoint's state to `VerifyRateLimit`;
`EachInstanceImplementsLimiter` says that every step of the system is a step of each
instance's limiter or leaves it alone. So what is proved of the limiter holds of the
endpoint, and a request reaches the siteverify call only through `Admit`.

### Lifecycle and Snapshots

One instance. Caddy's thread (`main`) goes through `Provision` and `Cleanup`; each loop is a
thread (`loop[l]`); `setCountryDB` is a procedure with the program counters `lock`, `swap` and
`close` that both call. The `RWMutex` is modelled as Go's is: a writer that has announced itself
holds off new readers and waits for those inside. A load reads its parts one after the
other, each at the version its source has at that moment, and drops everything
when one fails. `ticker[l]` is the one tick that `ticker.C` holds. `close(done)` is
deferred and belongs to the loop's return. `Snapshots` says what requests may rely on, and
`Lifecycle` implements it with `Published`, the versions visible to requests.

### RequestGate

`ServeHTTP` in steps, one per read of shared data: `CheckCountry`, `CheckBlacklist`,
`CheckAllowlist`, then the cookie. `history` is the sequence of publications; a request
remembers how long it was when it arrived and when it was answered. `Decide` is the
documented decision (`README.md:24-37`) for data that does not change, and
`OutcomeExplained` relates the two. That a deny rule matches, and that a cookie is valid,
are attributes of the request: the first is string matching on the request alone, the
second is the subject of `Verification`. `SetCountryDB` with `NoDB` is `Cleanup` while the
request is still running; by then the loops have ended, so nothing is published after it.

### Outbound

One call, of `kind` siteverify or list (the country database is a list here), from
`newOutboundHTTPClient` to the last byte that is read. `pc` follows `client.Do`: each hop takes an
idle connection to the same scheme and host (`Reuses`), or resolves the host anew and has
`dialContext` judge all the addresses before it dials the first one (`DialRefused`,
`Checks`, `Connects`). The server then answers, redirects, or the call fails. A URL is its scheme
and its host with port, since that is what `sameOrigin` and the checks compare; hosts are
names, `localhost`, or literal addresses, and addresses are public, loopback or other.
`withBody` says whether a request carries the POST's body, which net/http drops at a
301, 302 or 303 and keeps at a 307 or 308. A body has a size, the part that arrives, and a way in
which its end is marked, because that decides whether a broken transfer can be noticed.
The environment (`Redirected`, `Responds`, `Fails`, the resolver's `Answers`) may do
whatever the types allow.

### Configuration

A Caddyfile is a sequence of directives, each a step: `SetMinutes`, `SetURL` and `SetText` overwrite a
field, `AppendList` continues one, `Rejects` is every directive that stops the parsing. `Provision` fills
in defaults, runs `Validate`, loads and starts the loops; `ValidateAgain` is Caddy's own
call afterwards. `asked` is a history variable no action reads. `Callable` judges a URL
by `Outbound`'s own `validateURL`, through a parametrised INSTANCE, so that
`URLsAreCallable` compares the two policies as they are and not a copy.

Durations are words of `2 * Half` values and a minute is `Minute` of their units, as
`time.Duration(minutes) * time.Minute` is a product modulo 2^64. TLC's integers have 32 bits,
hence the small words: with `Half` 32 and `Minute` 12, three minutes become negative,
six become short, and sixteen become zero, as 153722868, 307445735 and 2^53 do in the
program (a minute is 6 * 10^10 nanoseconds, a multiple of 2^11, so that 2^53 minutes
vanish modulo 2^64). `TypeOK` says what `Validate` makes of such words: `ListValid` refuses a
negative refresh and `Valid` an `allow_for` that is not positive, so that neither runs. A
refresh that wrapped below zero would otherwise leave its list without a loop, unnoticed.
Durations that JSON configures directly are not modelled.

`URLsAreCallable` makes two exceptions, both for `cap_api_url`: text with white space
around it, which `validateRemoteURL` trims and the call does not, and a literal
address that is not public, which only the outbound policy refuses. Such a
configuration loads, and every verification fails. For lists the same URLs make `Provision` fail,
which is why they need no exception.

### ReturnPath

A path is the sequence of segments between its slashes, with a query that is opaque.
`route` says whether `handle_path` took the first segment away, and whether Caddy's
replacer knows the original URI. `Clean` is `path.Clean` as a fold with a stack;
`Resolved`, in the properties, says the same without an order of evaluation, by
counting. `ServeChallenge` applies `safeReturnPathFrom` twice, as `getOriginalPath` and
`createReturnState` do, `VerifyReturnState` and `HandleVerify` once each. `AskAgain` sends the
visitor's browser round once more.

## The runs

| run | configuration | distinct states | shows |
|---|---|---|---|
| limiter | `MCVerifyRateLimit.cfg` | 149 k | `TypeOK`, `TableBounded`, `ClientsIndependent`, `TablePressureSparesKnownClients` |
| window | `MCWindow.cfg` | 1.4 M | `WindowBounded`, `RetryAfterHonest` |
| tokens | `MCVerificationTokens.cfg` | 670 k | `TypeOK`, `OnlyEarnedCookiesOpen`, `CookieLifetime`, `GrantOpens`, `PromptSolverAccepted` |
| charging | `MCVerificationLimiter.cfg` | 142 k | `ChargedForGenuineStates`, `EachInstanceImplementsLimiter` |
| answers | `MCVerificationLive.cfg` | 26 k | `PostsAnswered` |
| lifecycle | `MCLifecycle.cfg` | 325 k | `TypeOK`, `NoLookupOnClosedReader`, `ReadersAccounted`, `CleanupReleasesAll`, `RunningInstanceIsComplete`, `ImplementsSnapshots` |
| progress | `MCLifecycleProgress.cfg` | 26 k | `CleanupTerminates`, `LookupTerminates`, `ChangesArrive` |
| gate | `MCRequestGate.cfg` | 925 k | `TypeOK`, `OutcomeExplained`, `BlacklistedThroughoutIsDropped`, `CountryWhitelistFailsClosed` |
| outbound | `MCOutbound.cfg` | 330 k | `TypeOK`, `RedirectLimitIsExact`, `SiteverifyStaysAtOrigin`, `OnlyCheckedAddresses`, `PlaintextOnlyToOrigin`, `ListIsWhole` |
| configuration | `MCConfiguration.cfg` | 665 k | `TypeOK`, `DirectivesTakeEffect`, `URLsAreCallable`, `ValidateIsStable` |
| durations | `MCDurations.cfg` | violated | `MinutesAreMinutes` |
| return_paths | `MCReturnPath.cfg` | 262 k | `GenuineStatesReturn`, `ReturnsWhereAsked` |

`durations` is expected to fail: `README.md:106` of the middleware says that times are
given as whole minutes ("Zeitwerte werden als positive ganze Minuten angegeben"),
`parseMinutesDuration` accepts every number that fits into an `int`, and
`caddyfile.go:179` multiplies it without a check. So `allow_for 307445735` is accepted and
means 26 seconds, and a refresh of 9007199254740992 minutes is accepted and means
none. `DirectivesTakeEffect` states what holds of numbers that fit.

### Bounds, and why they are enough

- *Limiter.* Three addresses for two places make the table full with and without a bucket
  of one's own; two requests overtake each other; `Burst` 2 and `Refill` 2 distinguish an
  empty, a partly and a completely filled bucket; `Horizon` 6 exceeds the lifetime of 4, so
  buckets expire. `MaxDelay` 1 lets a request be overtaken; one `Cleanup` is allowed. In the
  window run `Burst` 2, `Refill` 2 and `Horizon` 6 leave room for a bucket that is refilled, and for
  one that expires, is swept and is created anew inside the window; without its term for
  delays, for new buckets or for `Cleanup` the bound fails there. `Second` 2 and odd waits
  make the header round. The theorems remove these bounds, except for `MaxDelay` as a parameter.
- *Verification.* In `tokens` a second has two ticks, so that cutting to seconds matters;
  `AllowFor` 4 is `Second + MaxDelay + CapTimeout`, the smallest value for which
  `GrantOpens` claims anything; the horizon of 6 lets states (3) and cookies expire;
  two states and two cookies, and a reload to a second secret. No property there relates
  two requests in progress, so one is enough. `charging` has two requests and two
  clients across a reload, with a horizon of one tick, because it is about the order of
  steps and not about expiry. `answers` has two requests that compete for a bucket.
- *Lifecycle.* Two readers are enough: a load starts only when no call of `setCountryDB` is
  under way in its thread, so next to the published reader there is at most the new one.
  Two requests, so that one may hold the lock while another waits.
  Source versions up to 2, with a blacklist of two parts, give mixed and stale loads. In
  `progress` one request holds the lock against `setCountryDB` of either caller, and a
  country loop and a list loop refresh; loops share nothing with each other but `Cleanup`,
  which waits for them one after the other. A second request adds readers, who do not
  exclude each other: what could lock a lookup out is the two writers, who are both there.
- *Gate.* Requests share only data they read, so one request is general. Two changes make
  the three reads fall at three different moments. One client (and an address that does
  not parse) in four kinds of database entry, headers with no, the right, a wrong and two keys.
- *Outbound.* Two names and two `localhost` hosts, for an origin and another one of each
  kind, and one public, one loopback and one other address; answers of up to two addresses,
  so that a bad address can stand behind a good one. Redirects are bounded by the
  code itself. Limits of 2 bytes and sizes up to 4: below, at, one above and beyond.
- *Configuration.* Six directives: three are required, two make a list that is loaded and
  refreshed, one repeats or spoils something. Every field of a kind is treated alike, so
  one or two per kind are given values.
- *Return paths.* Five segments over two names, `.`, `..` and the empty one reach
  every order of two names, two dots and a trailing slash; deeper paths repeat them.

`CHECK_DEADLOCK FALSE` stands where the system really comes to an end: an instance after
`Cleanup` with all sources at their last version (`lifecycle`, `progress`), a call that
has its result (`outbound`), a configuration that runs or was refused (`configuration`, `durations`).

### Fairness

- `Verification`: weak fairness of each request's handler. Go schedules every runnable
  goroutine; the mutex is held for a bounded piece of code without calls that block; the
  siteverify client has a timeout of 15 s that covers the body. Visits, reloads and Cap's
  choice are not fair.
- `Lifecycle`: weak fairness of `Provision`, `Cleanup`, `setCountryDB` and each loop's own
  steps; URL loads in loops end within 30 s by their context. (`os.ReadFile` has no timeout; the
  model assumes that the local file can be read in finite time. The initial loads have a
  timeout of 30 s in the HTTP client.) `TakesStop` is strongly fair: `select` chooses at
  random among ready channels, and a closed `stop` stays ready, so it is not passed over for
  ever. `LookupStarts` is strongly fair because Go's `RWMutex` lets waiting readers in when a writer
  unlocks, before the next writer. Ticks are not fair in `Spec`; `ChangesArrive` has
  `RefreshFairness` as its premise: tickers tick, and a source that can be read again and again is
  read successfully in the end.
- The other modules claim no liveness. That an outbound call ends, because its client has a
  timeout, is an assumption of the two modules above.

## The proofs

TLAPS checks them from nothing; they hold for every value of the constants that the
named assumptions allow, which TLC evaluates in every run. `BucketAssumption`,
`TableAssumption`, `SecondAssumption`, `TimeAssumption`, `GateAssumption`,
`OutboundAssumption`, `VerificationAssumption` and `LifecycleAssumption` say of which kind
the numbers are and that values which stand for different things are different.
`ConfigurationAssumption` says besides that the default of 1800 minutes fits into a
duration and that writing a country code in upper case twice is writing it once;
`DirectivesAssumption` what a directive may carry.

Every safety invariant and every action property that a passing run checks is stated by a
theorem, and so are the two refinements. Most of these are not inductive by themselves;
each `...Proofs` module names the invariant that is (`IInv`), proves that every action keeps it,
and derives the properties from it.

**Limiter** (`VerifyRateLimitProofs`). `RefilledFacts` is the arithmetic of a refill.
`TypeOK` is inductive; it carries the fact the rest needs, that a stored bucket holds less than `Burst`
tokens and was refilled in the past. `MapIsBounded` follows from the guard of a new entry
and the sweep, which only shrinks the map. `Independence` rests on `ExpiredIsFull`:
what the sweep deletes would be full again at every instant from then on, *because* the
lifetime is `Burst * Refill`. `TablePressure` says a live bucket is refused only when empty.

**Window** (also `VerifyRateLimitProofs`). `ObservedLimiter` shows that the auxiliary
variables only observe, so the limiter's theorems carry over. `RetryAfterIsHonest` uses the
invariant `Promised`: for each instant a refused client was told, its bucket will have a
token then, or will have been deleted, which is as good. `RateIsBounded` uses `WindowInv`,
an account in units of time: what a client has been admitted for, plus the tokens still in its
bucket, minus the progress of the current refill, never exceeds what burst, elapsed time,
`Cleanup`s and re-created buckets paid in. `WindowBounded` itself is not inductive, as it does
not see the tokens left in the bucket. `SweepSettles` shows that a swept
bucket can be written off, `AdmissionIsPaid` that each admission is covered.

**Verification** (`VerificationProofs`). `IInv` has three parts. `Types`; `Signed`: every
value that was handed out is what its signer makes, and is not of the future; and `Checked(r)` for
each request: what the handler has found out about it so far, which stays true while the
request waits for the mutex or for Cap and other requests, reloads and `Cleanup` go on.
The properties do not contain the second and third part and would be lost at the first
step without them: a grant is earned because *earlier* the state was found valid.
`AcceptedState` and its counterpart for cookies reduce what a visitor can present to what was
handed out under the same key. `UnixFacts` is the loss of less than a second in `iat` and
`exp`. `GenuineStatesCharged` combines the invariant with `TokenBucketsProofs`: a sweep and a
refusal change no client's tokens, so the charge is that of the request which goes on to Cap. `InstancesImplementLimiter` is the refinement: for each
configuration, the initial state maps to an initial state of `VerifyRateLimit`, and each
step to a step of it or to a stutter, the steps of other instances and `Reload` to the latter.
What is proved of the limiter therefore holds of every instance.

**Lifecycle** (`LifecycleProofs`). `IInv` is the conjunction of `Types`, `Control` (which loops
can exist at each step of Caddy's thread), `Calling` (who is in `setCountryDB`, with which
readers in its hands), `ReadersAccounted`, `Locked` (a lookup inside the read lock holds the
published reader), `Versions` (what is loaded is no older than what is published) and
`Progress`. `NoLookupOnClosedReader` needs most of it: a reader is closed by the
caller that has swapped it out, it could swap only without readers in the lock, and since then no
lookup can have obtained it. `InstanceImplementsSnapshots` is the second refinement; its step
needs `Versions`, or a loop could publish an older list, and `Control`, or it could
publish after `Cleanup`.

**Configuration** (`ConfigurationProofs`). `IInv` says that each duration is the wrapped
product of the minutes asked for last (`Durations`), and that what `Provision` has let pass is
valid, loadable and *normalised* as it stands, with the loops it asks for (`Accepted`).
`SecondValidateIsStable` rests on `NormalIsFixed`: `normalizeCountryCodes` leaves a list alone
that it has made; `NormalizationKeepsVerdict` is that rewriting loses no code, so that a
configuration with country rules keeps them. `DirectivesAreObeyed` uses `MinutesFit`: a product
that fits is not wrapped. `AcceptedURLsAreCallable` compares `validateRemoteURL` with the
policy's `validateURL` itself, through the INSTANCE.

**Return paths** (`ReturnPathProofs`). `IInv` says that a signed path is the original one and
`Safe`: rooted, of names only, with at most one empty segment, at the end. `MadeSafe`
shows that `safeReturnPathFrom` makes such paths and `SafeIsFixed` that it leaves them alone,
which is `SignedPathsReturn`. `VisitorsReturn` needs what `path.Clean` computes: `Stack` is the
invariant of its loop. It says at which places the names on the stack stood, that these are
the segments that `Stays` keeps, and that the number of names on top of one equals its
`Balance`, the names less the ".." after it. `KeptIsResolved` concludes that the loop and
the declarative `Resolved` agree on paths of every length.

**Induction over data.** `normalizeCountryCodes` and `Clean` are folds, for sequences of any
length. `Induction` states induction for a *set* of numbers, from the library's theorem that `<` is
well-founded, so no operator has to be instantiated. `FoldExists` shows that the function the
fold chooses exists, and `NormalizationRuns` and `WalkRuns` turn the fold into a loop with
a value after each turn. The two modules state these lemmas separately, as each is about
its own turn.

**Gate** (`RequestGateProofs`). The invariant `GateInv` says of a request in progress which barriers it
has passed and at which moments, in order: there is a moment whose database did not deny
it, and a later one whose blacklist did not have it. `Answers` turns this into
`OutcomeExplained` for each reply; `BlacklistIsTight` and `CountryWhitelistIsTight`
are consequences of `OutcomeExplained` alone.

**Outbound** (`OutboundProofs`). The policy's properties speak of a request that was sent, and
what makes them true was decided earlier: when the URL was validated, when a redirect was
accepted, when an address was checked, or when the connection was first made. `PolicyInv`
carries these decisions along: the target of a call under way satisfies `validateURL`;
a siteverify call's target is its origin; the address about to be dialled and those of idle
connections may be dialled; `made` is bounded by the limit at each `pc`. `FirstAddress` is the lemma on the
resolver's answer. The properties follow for all hosts, answers, limits and sizes.

## Limits

Only model-checked: liveness under fairness (`PostsAnswered`, `CleanupTerminates`,
`LookupTerminates`, `ChangesArrive`), which needs ENABLED and is beyond the prover. The
finding of the run `durations` is a counterexample and needs no proof.

Abstracted everywhere: cryptography is perfect (a signed value comes from its signer);
the wall clock and the monotonic clock are the same and do not jump; addresses and countries
are opaque, so the `Unmap` of 4-in-6 addresses before the limiter is part of the
choice of client.

Abstracted in single modules: a proxy from the environment, TLS and certificates, and
net/http's repetition of a request on an idle connection that turned out dead are no part of
`Outbound`; the characters inside a path's segments are no part of `ReturnPath`.

Partly modelled: IP lists. Where a part of a list fails to parse, the load fails
(`Lifecycle`, `Configuration`); which addresses a prefix covers is decided by net/netip on a value
without state. The gate compares addresses as they are written, so a 4-in-6
address is another one than its IPv4 form (`handler.go:58`), while the limiter unmaps
it (`verification_handler.go:81`). Deny rules: they compile or not
(`Configuration`), a request matches one or not (`RequestGate`); the comparison of strings is not modelled.

Not modelled: rendering of the challenge page, CSP and headers; the
browser's script, whose posts are among those any visitor can make; log entries and
redaction; build, release and CI checks. They keep no state that other parts depend on.

Two hazards have no property: a wall clock that is set back under a fresh cookie
(the models have one clock that does not jump), and idle connections that
outlive the client of a call.

## The plan

In order of importance, 1-8 done:

1. the limiter (`TokenBuckets`, `VerifyRateLimit`, `VerifyRateLimitWindow`) and its theorems;
2. the challenge, its signed values and reloads (`Verification`), implementing the limiter;
3. lifecycle and refresh loops (`Lifecycle`), implementing `Snapshots`;
4. the gate against changing data (`RequestGate`) and its theorems;
5. outbound calls (`Outbound`) and their theorems;
6. the configuration (`Configuration`), with durations as machine words;
7. return paths (`ReturnPath`);
8. proofs: safety of `Lifecycle` (readers, lock and channels) and its refinement of
   `Snapshots`; safety of `Verification` and its refinement of `VerifyRateLimit`;
   `Configuration` and `ReturnPath`, with induction over their lists and paths;
9. the step from `Snapshots` to the gate: that what `RequestGate` assumes of its data is what
   `Snapshots` promises, as a refinement or a shared abstract module;
10. the safety core of the liveness properties, for instance that `Cleanup` can never wait for
    a loop that waits for it.
