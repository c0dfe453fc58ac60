------------------------------ MODULE Lifecycle ------------------------------
(***************************************************************************)
(* The life of one instance of the middleware: Provision (config.go),      *)
(* the refresh loops of the allowlist, the blacklist and the country       *)
(* database (refresh.go), Cleanup (lifecycle.go), and the requests that     *)
(* look up a country meanwhile.                                             *)
(*                                                                          *)
(* The threads are Caddy's (Provision, Cleanup), one goroutine per loop and *)
(* one per request.  They share the list pointers (atomic.Value), the       *)
(* country database pointer under a sync.RWMutex, and a stop and a done     *)
(* channel per loop.                                                        *)
(***************************************************************************)
EXTENDS Naturals, FiniteSets

CONSTANTS
    Requests,    \* requests that look up a country
    Readers,     \* bound: MMDB readers that may be open at once (recycled)
    Nil,         \* no reader, no thread
    SourcesOf,   \* configuration: the parts of each list that may change
    Refreshing,  \* configuration: the lists whose refresh interval is set
    MaxVersion   \* bound: versions of a source

Allowlist == 1
Blacklist == 2
Country   == 3
Lists == {Allowlist, Blacklist, Country}   \* in the order Provision and Cleanup go
File  == 1
URL   == 2
Parts == {File, URL}                       \* in the order loadIPList reads them

Setters == {"main", "loop"}                \* the callers of setCountryDB

ASSUME LifecycleAssumption ==
    /\ MaxVersion \in Nat \ {0}
    /\ Nil \notin Readers \cup Setters
    /\ {"none", "arrived"} \cap (Readers \cup {Nil}) = {}
    /\ SourcesOf \in [Lists -> SUBSET Parts] /\ SourcesOf[Country] \subseteq {URL}
    /\ Refreshing \subseteq {l \in Lists : SourcesOf[l] # {}}

HasCountryRules == SourcesOf[Country] # {}

VARIABLES
    main,       \* Caddy's thread: [pc, list]: the list it is working on
    loop,       \* per list: the loop's place
    ticker,     \* per list: a tick waits in ticker.C
    stop, done, \* per list: the channels: "nil", "open" or "closed"
    source,     \* per list and part: the version the file or the server has now
    loaded,     \* per list: the parts read so far by the load in progress
    list,       \* per IP list: the published versions (atomic.Value)
    countryDB,  \* the published reader, or Nil
    mu,         \* countryDBMu: [writer, readers]
    setter,     \* per caller of setCountryDB: [pc, next, prev]
    reader,     \* per reader: "closed" or the version it serves
    lookup      \* per request: "none", "arrived", or the reader it uses

vars == <<main, loop, ticker, stop, done, source, loaded, list, countryDB, mu, setter,
          reader, lookup>>

channels == <<ticker, stop, done>>
database == <<countryDB, mu, setter, reader>>

Nothing == [p \in Parts |-> 0]
NoCall  == [pc |-> "none", next |-> Nil, prev |-> Nil]

Init ==
    /\ main = [pc |-> "new", list |-> 1]
    /\ loop = [l \in Lists |-> "off"]
    /\ ticker = [l \in Lists |-> FALSE]
    /\ stop = [l \in Lists |-> "nil"]
    /\ done = [l \in Lists |-> "nil"]
    /\ source = [l \in Lists |-> [p \in Parts |-> IF p \in SourcesOf[l] THEN 1 ELSE 0]]
    /\ loaded = [l \in Lists |-> Nothing]
    /\ list = [l \in Lists |-> Nothing]
    /\ countryDB = Nil
    /\ mu = [writer |-> Nil, readers |-> {}]
    /\ setter = [t \in Setters |-> NoCall]
    /\ reader = [i \in Readers |-> 0]
    /\ lookup = [r \in Requests |-> "none"]

At(pc) == main.pc = pc
Goto(pc, l) == main' = [pc |-> pc, list |-> l]

\* The owner of a source changes it.
SourceChanges(l, p) ==
    /\ p \in SourcesOf[l] /\ source[l][p] < MaxVersion
    /\ source' = [source EXCEPT ![l][p] = @ + 1]
    /\ UNCHANGED <<main, loop, loaded, list, lookup, channels, database>>

-----------------------------------------------------------------------------
(* loadIPList and loadCountryDB, run by Provision or by the list's own loop. *)

Loads(l) == loop[l] = "loading" \/ (At("loading") /\ main.list = l)
Ready(l) == \A p \in SourcesOf[l] : loaded[l][p] # 0

\* One source is read and parsed; the file comes before the URL.
ReadPart(l, p) ==
    /\ Loads(l)
    /\ p \in SourcesOf[l] /\ loaded[l][p] = 0
    /\ \A q \in SourcesOf[l] : q < p => loaded[l][q] # 0
    /\ loaded' = [loaded EXCEPT ![l][p] = source[l][p]]
    /\ UNCHANGED <<main, loop, source, list, lookup, channels, database>>

\* Mutation: a loop whose load has failed returns.
LoadFailsForGood(l) ==
    /\ Loads(l)
    /\ ~Ready(l) \/ SourcesOf[l] = {}
    /\ loaded' = [loaded EXCEPT ![l] = Nothing]
    /\ IF loop[l] = "loading"
       THEN loop' = [loop EXCEPT ![l] = "exited"] /\ UNCHANGED main
       ELSE Goto("failed", 1) /\ UNCHANGED loop
    /\ UNCHANGED <<source, list, lookup, channels, database>>

\* A source cannot be read or parsed, or the 30 s of the load are over.  What was
\* read is dropped: Provision fails, a loop keeps the old snapshot.
LoadFails(l) ==
    /\ Loads(l)
    /\ ~Ready(l) \/ SourcesOf[l] = {}
    /\ loaded' = [loaded EXCEPT ![l] = Nothing]
    /\ IF loop[l] = "loading"
       THEN loop' = [loop EXCEPT ![l] = "select"] /\ UNCHANGED main
       ELSE Goto("failed", 1) /\ UNCHANGED loop
    /\ UNCHANGED <<source, list, lookup, channels, database>>

\* Mutation: a part that failed is published as missing.
StoresPartial(l) ==
    /\ l # Country /\ loop[l] = "loading"
    /\ list' = [list EXCEPT ![l] = loaded[l]]
    /\ loaded' = [loaded EXCEPT ![l] = Nothing]
    /\ loop' = [loop EXCEPT ![l] = "select"]
    /\ UNCHANGED <<main, source, lookup, channels, database>>

\* A complete IP list is stored in one atomic write.
LoopStores(l) ==
    /\ l # Country /\ loop[l] = "loading" /\ Ready(l)
    /\ list' = [list EXCEPT ![l] = loaded[l]]
    /\ loaded' = [loaded EXCEPT ![l] = Nothing]
    /\ loop' = [loop EXCEPT ![l] = "select"]
    /\ UNCHANGED <<main, source, lookup, channels, database>>

MainStores(l) ==
    /\ l # Country /\ At("loading") /\ main.list = l /\ Ready(l)
    /\ list' = [list EXCEPT ![l] = loaded[l]]
    /\ loaded' = [loaded EXCEPT ![l] = Nothing]
    /\ IF l + 1 = Country /\ ~HasCountryRules
       THEN Goto("starting", 1)
       ELSE Goto("loading", l + 1)
    /\ UNCHANGED <<loop, source, lookup, channels, database>>

-----------------------------------------------------------------------------
(* setCountryDB, called by Provision and Cleanup ("main") or by the loop.    *)

InUse == {countryDB} \cup {setter[t].next : t \in Setters} \cup {setter[t].prev : t \in Setters}
Calls(t, next) == setter' = [setter EXCEPT ![t] = [pc |-> "lock", next |-> next, prev |-> Nil]]

\* maxminddb.OpenBytes and the call of setCountryDB with the new reader.
OpensReader(i) ==
    /\ i \notin InUse
    /\ Ready(Country)
    /\ reader' = [reader EXCEPT ![i] = loaded[Country][URL]]
    /\ loaded' = [loaded EXCEPT ![Country] = Nothing]

LoopOpens(i) ==
    /\ loop[Country] = "loading"
    /\ OpensReader(i)
    /\ Calls("loop", i)
    /\ loop' = [loop EXCEPT ![Country] = "setting"]
    /\ UNCHANGED <<main, source, list, countryDB, mu, lookup, channels>>

MainOpens(i) ==
    /\ At("loading") /\ main.list = Country
    /\ OpensReader(i)
    /\ Calls("main", i)
    /\ Goto("setting", Country)
    /\ UNCHANGED <<loop, source, list, countryDB, mu, lookup, channels>>

\* Lock: the writer announces itself, which holds off new readers ...
SetLocks(t) ==
    /\ setter[t].pc = "lock"
    /\ mu.writer = Nil
    /\ mu' = [mu EXCEPT !.writer = t]
    /\ setter' = [setter EXCEPT ![t].pc = "swap"]
    /\ UNCHANGED <<main, loop, source, loaded, list, countryDB, reader, lookup, channels>>

\* Mutation: the writer does not wait for the readers inside.
SwapsUnderReaders(t) ==
    /\ setter[t].pc = "swap"
    /\ countryDB' = setter[t].next
    /\ setter' = [setter EXCEPT ![t].prev = countryDB, ![t].next = Nil, ![t].pc = "close"]
    /\ mu' = [mu EXCEPT !.writer = Nil]
    /\ UNCHANGED <<main, loop, source, loaded, list, reader, lookup, channels>>

\* Mutation: the lock is not given back.
SwapsAndKeepsLock(t) ==
    /\ setter[t].pc = "swap"
    /\ mu.readers = {}
    /\ countryDB' = setter[t].next
    /\ setter' = [setter EXCEPT ![t].prev = countryDB, ![t].next = Nil, ![t].pc = "close"]
    /\ UNCHANGED <<main, loop, source, loaded, list, mu, reader, lookup, channels>>

\* ... waits for those inside, swaps the pointer and unlocks.
SetSwaps(t) ==
    /\ setter[t].pc = "swap"
    /\ mu.readers = {}
    /\ countryDB' = setter[t].next
    /\ setter' = [setter EXCEPT ![t].prev = countryDB, ![t].next = Nil, ![t].pc = "close"]
    /\ mu' = [mu EXCEPT !.writer = Nil]
    /\ UNCHANGED <<main, loop, source, loaded, list, reader, lookup, channels>>

\* Where the caller goes on.  Cleanup also empties the limiter, then returns.
AfterSet(t) ==
    IF t = "loop"
    THEN loop' = [loop EXCEPT ![Country] = "select"] /\ UNCHANGED main
    ELSE /\ IF At("setting") THEN Goto("starting", 1) ELSE Goto("cleaned", 1)
         /\ UNCHANGED loop

\* Mutation: the replaced reader is never closed.
SetForgets(t) ==
    /\ setter[t].pc = "close"
    /\ setter' = [setter EXCEPT ![t] = NoCall]
    /\ AfterSet(t)
    /\ UNCHANGED <<source, loaded, list, countryDB, mu, reader, lookup, channels>>

\* The replaced reader is closed after the lock was given back.
SetCloses(t) ==
    /\ setter[t].pc = "close"
    /\ reader' = [i \in Readers |-> IF i = setter[t].prev THEN 0 ELSE reader[i]]
    /\ setter' = [setter EXCEPT ![t] = NoCall]
    /\ AfterSet(t)
    /\ UNCHANGED <<source, loaded, list, countryDB, mu, lookup, channels>>

-----------------------------------------------------------------------------
(* Provision.                                                               *)

ProvisionStarts ==
    /\ At("new")
    /\ Goto("loading", Allowlist)
    /\ UNCHANGED <<loop, source, loaded, list, lookup, channels, database>>

\* Validate or the challenge template refuses the configuration.
ProvisionRejects ==
    /\ At("new")
    /\ Goto("failed", 1)
    /\ UNCHANGED <<loop, source, loaded, list, lookup, channels, database>>

\* After every load has succeeded, the loops are started one by one.
StartsLoop ==
    LET l == main.list
    IN  /\ At("starting") /\ l \in Lists
        /\ IF l \in Refreshing
           THEN /\ stop' = [stop EXCEPT ![l] = "open"]
                /\ done' = [done EXCEPT ![l] = "open"]
                /\ loop' = [loop EXCEPT ![l] = "select"]
           ELSE UNCHANGED <<stop, done, loop>>
        /\ Goto("starting", l + 1)
        /\ UNCHANGED <<ticker, source, loaded, list, lookup, database>>

ProvisionReturns ==
    /\ At("starting") /\ main.list \notin Lists
    /\ Goto("running", 1)
    /\ UNCHANGED <<loop, source, loaded, list, lookup, channels, database>>

-----------------------------------------------------------------------------
(* The refresh loops.                                                       *)

\* ticker.C holds at most one tick.
Tick(l) ==
    /\ loop[l] \notin {"off", "exited"} /\ ~ticker[l]
    /\ ticker' = [ticker EXCEPT ![l] = TRUE]
    /\ UNCHANGED <<main, loop, stop, done, source, loaded, list, lookup, database>>

\* select, when both channels are ready, takes either.
TakesTick(l) ==
    /\ loop[l] = "select" /\ ticker[l]
    /\ ticker' = [ticker EXCEPT ![l] = FALSE]
    /\ loop' = [loop EXCEPT ![l] = "loading"]
    /\ UNCHANGED <<main, stop, done, source, loaded, list, lookup, database>>

\* Mutation: the loop returns without close(done).
StopsSilently(l) ==
    /\ loop[l] = "select" /\ stop[l] = "closed"
    /\ loop' = [loop EXCEPT ![l] = "exited"]
    /\ ticker' = [ticker EXCEPT ![l] = FALSE]
    /\ UNCHANGED <<main, stop, done, source, loaded, list, lookup, database>>

\* Mutation: done is closed when the stop is seen, before a load has ended.
StopsAnywhere(l) ==
    /\ loop[l] \notin {"off", "exited"} /\ stop[l] = "closed" /\ done[l] = "open"
    /\ done' = [done EXCEPT ![l] = "closed"]
    /\ UNCHANGED <<main, loop, ticker, stop, source, loaded, list, lookup, database>>

\* The deferred close(done) and ticker.Stop are part of the return.
TakesStop(l) ==
    /\ loop[l] = "select" /\ stop[l] = "closed"
    /\ loop' = [loop EXCEPT ![l] = "exited"]
    /\ done' = [done EXCEPT ![l] = "closed"]
    /\ ticker' = [ticker EXCEPT ![l] = FALSE]
    /\ UNCHANGED <<main, stop, source, loaded, list, lookup, database>>

-----------------------------------------------------------------------------
(* Cleanup: called by Caddy, once, when the configuration is replaced or    *)
(* Provision has failed.                                                    *)

CleanupStarts ==
    /\ At("running") \/ At("failed")
    /\ Goto("stopping", 1)
    /\ UNCHANGED <<loop, source, loaded, list, lookup, channels, database>>

SkipsLoop ==
    /\ At("stopping") /\ main.list \in Lists
    /\ stop[main.list] = "nil"
    /\ Goto("stopping", main.list + 1)
    /\ UNCHANGED <<loop, source, loaded, list, lookup, channels, database>>

\* Mutation: Cleanup does not wait for the loop.
StopsWithoutWaiting ==
    /\ At("stopping") /\ main.list \in Lists
    /\ stop[main.list] = "open"
    /\ stop' = [stop EXCEPT ![main.list] = "closed"]
    /\ Goto("stopping", main.list + 1)
    /\ UNCHANGED <<loop, ticker, done, source, loaded, list, lookup, database>>

\* close(stop): a second close would panic.
StopsLoop ==
    /\ At("stopping") /\ main.list \in Lists
    /\ stop[main.list] = "open"
    /\ stop' = [stop EXCEPT ![main.list] = "closed"]
    /\ Goto("waiting", main.list)
    /\ UNCHANGED <<loop, ticker, done, source, loaded, list, lookup, database>>

WaitsForLoop ==
    /\ At("waiting")
    /\ done[main.list] = "closed"
    /\ stop' = [stop EXCEPT ![main.list] = "nil"]
    /\ done' = [done EXCEPT ![main.list] = "nil"]
    /\ Goto("stopping", main.list + 1)
    /\ UNCHANGED <<loop, ticker, source, loaded, list, lookup, database>>

CleanupClears ==
    /\ At("stopping") /\ main.list \notin Lists
    /\ Calls("main", Nil)
    /\ Goto("clearing", 1)
    /\ UNCHANGED <<loop, source, loaded, list, countryDB, mu, reader, lookup, channels>>

-----------------------------------------------------------------------------
(* Requests: lookupCountryCode.                                             *)

\* Caddy hands requests to a provisioned instance; those in flight stay with it.
Arrives(r) ==
    /\ HasCountryRules /\ At("running")
    /\ lookup[r] = "none"
    /\ lookup' = [lookup EXCEPT ![r] = "arrived"]
    /\ UNCHANGED <<main, loop, source, loaded, list, channels, database>>

\* RLock, and the reader that is published then (Nil: nothing to look up).
LookupStarts(r) ==
    /\ lookup[r] = "arrived"
    /\ mu.writer = Nil
    /\ mu' = [mu EXCEPT !.readers = @ \cup {r}]
    /\ lookup' = [lookup EXCEPT ![r] = countryDB]
    /\ UNCHANGED <<main, loop, source, loaded, list, countryDB, setter, reader, channels>>

LookupEnds(r) ==
    /\ r \in mu.readers
    /\ mu' = [mu EXCEPT !.readers = @ \ {r}]
    /\ lookup' = [lookup EXCEPT ![r] = "none"]
    /\ UNCHANGED <<main, loop, source, loaded, list, countryDB, setter, reader, channels>>

-----------------------------------------------------------------------------
Provision ==
    \/ ProvisionStarts \/ ProvisionRejects
    \/ \E l \in Lists : MainStores(l)
    \/ \E i \in Readers : MainOpens(i)
    \/ StartsLoop \/ ProvisionReturns

Cleanup == SkipsLoop \/ StopsLoop \/ WaitsForLoop \/ CleanupClears

SetCountryDB(t) == SetLocks(t) \/ SetSwaps(t) \/ SetCloses(t)

Loop(l) ==
    \/ TakesTick(l) \/ TakesStop(l)
    \/ LoopStores(l) \/ (l = Country /\ \E i \in Readers : LoopOpens(i))

Load(l) == LoadFails(l) \/ \E p \in Parts : ReadPart(l, p)

Lookup(r) == LookupStarts(r) \/ LookupEnds(r)

Next ==
    \/ \E l \in Lists, p \in Parts : SourceChanges(l, p)
    \/ Provision
    \/ CleanupStarts
    \/ Cleanup
    \/ \E l \in Lists : Load(l) \/ Loop(l) \/ Tick(l)
    \/ \E t \in Setters : SetCountryDB(t)
    \/ \E r \in Requests : Arrives(r) \/ Lookup(r)

\* Threads run on: Go schedules every goroutine, a load ends with its 30 s timeout
\* at the latest.  select chooses at random between ready channels, so a stop that
\* stays ready while ticks keep coming is taken in the end: strong fairness.
Fairness ==
    /\ WF_vars(Provision) /\ WF_vars(Cleanup)
    /\ \A t \in Setters : WF_vars(SetCountryDB(t))
    /\ \A l \in Lists : WF_vars(Load(l) \/ Loop(l))
    /\ \A l \in Refreshing : SF_vars(TakesStop(l))
    /\ \A r \in Requests : WF_vars(LookupEnds(r)) /\ SF_vars(LookupStarts(r))

Spec == Init /\ [][Next]_vars /\ Fairness

\* Tickers tick, and a source that can be read again and again although single reads
\* fail is read in the end: what ChangesArrive needs of the world around a loop.
RefreshFairness ==
    \A l \in Refreshing : /\ WF_vars(Tick(l))
                          /\ \A p \in SourcesOf[l] : SF_vars(ReadPart(l, p))

-----------------------------------------------------------------------------
(* Properties.                                                              *)

\* The variables have their types; a pending tick, a stop or a load belongs to a
\* loop that was started, and the write lock to the caller that is swapping.
TypeOK ==
    /\ main.pc \in {"new", "loading", "setting", "starting", "running", "failed",
                   "stopping", "waiting", "clearing", "cleaned"}
    /\ main.list \in 1 .. Cardinality(Lists) + 1
    /\ loop \in [Lists -> {"off", "select", "loading", "setting", "exited"}]
    /\ ticker \in [Lists -> BOOLEAN]
    /\ stop \in [Lists -> {"nil", "open", "closed"}]
    /\ done \in [Lists -> {"nil", "open", "closed"}]
    /\ \A f \in {source, loaded, list} : f \in [Lists -> [Parts -> 0 .. MaxVersion]]
    /\ countryDB \in Readers \cup {Nil}
    /\ mu.readers \subseteq Requests
    /\ mu.writer = Nil \/ setter[mu.writer].pc = "swap"
    /\ reader \in [Readers -> 0 .. MaxVersion]
    /\ lookup \in [Requests -> {"none", "arrived", Nil} \cup Readers]
    /\ \A l \in Lists : ticker[l] \/ loaded[l] # Nothing => loop[l] # "off" \/ At("loading")

\* A lookup never works on a reader that was closed under it: whatever refreshes
\* and Cleanup do while it holds the read lock, the reader it took stays the
\* published one (refresh.go:162, 415-424).
NoLookupOnClosedReader ==
    \A r \in mu.readers :
        /\ lookup[r] = countryDB
        /\ lookup[r] # Nil => reader[lookup[r]] # 0

\* Every open reader is accounted for, by the published pointer or by a call of
\* setCountryDB that will publish or close it, and by one of them only: no refresh
\* loses a reader and none is closed twice (refresh.go:415-424).
ReadersAccounted ==
    /\ \A i \in Readers : reader[i] # 0 <=> i \in InUse
    /\ \A t \in Setters : /\ setter[t].prev # Nil => setter[t].prev # countryDB
                          /\ setter[t].next # Nil => setter[t].next # countryDB

\* When Cleanup returns, no loop of the instance is left, not even one that was in
\* the middle of a load, and the country database is released (lifecycle.go:36-58).
CleanupReleasesAll ==
    At("cleaned") =>
        /\ \A l \in Lists : loop[l] \in {"off", "exited"} /\ stop[l] = "nil"
        /\ countryDB = Nil /\ \A i \in Readers : reader[i] = 0

\* A list as requests see it.
Published(l) ==
    IF l # Country THEN list[l]
    ELSE [p \in Parts |-> IF p = URL /\ countryDB # Nil THEN reader[countryDB] ELSE 0]

\* A running instance always has every list it was configured with, complete,
\* however many refreshes fail half-way (refresh.go:380-385, 437-442).
RunningInstanceIsComplete ==
    At("running") => \A l \in Lists : \A p \in SourcesOf[l] : Published(l)[p] # 0

\* The published lists behave as Snapshots says: replaced as a whole, by a complete
\* list no older in any source, and never again once Cleanup has returned.
Abstract == INSTANCE Snapshots WITH
    Versions <- 0 .. MaxVersion,
    snapshot <- [l \in Lists |-> Published(l)],
    closed <- At("cleaned")

ImplementsSnapshots == Abstract!Spec

\* Cleanup terminates, whatever the loops are doing and although ticks keep coming.
CleanupTerminates == At("stopping") ~> At("cleaned")

\* A lookup is never locked out for good by writers (refresh.go:162).
LookupTerminates == \A r \in Requests : (lookup[r] = "arrived") ~> (lookup[r] = "none")

\* Where sources can be read, a change of a source reaches the requests of a running
\* instance in the end, if the list has a refresh interval: a failed refresh does not
\* end the refreshing (refresh.go:381-384, 438-441).
ChangesArrive ==
    RefreshFairness =>
        \A l \in Refreshing : \A p \in SourcesOf[l] : \A v \in 1 .. MaxVersion :
            (At("running") /\ source[l][p] >= v) ~> (Published(l)[p] >= v \/ ~At("running"))

=============================================================================
