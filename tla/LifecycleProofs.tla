--------------------------- MODULE LifecycleProofs ---------------------------
(***************************************************************************)
(* What holds of an instance for every number of requests, readers and      *)
(* versions of a source and every configuration of lists: no lookup works on *)
(* a closed reader, no reader is lost, Cleanup leaves nothing behind, and    *)
(* the published lists behave as Snapshots says.                            *)
(***************************************************************************)
EXTENDS Lifecycle, FiniteSetTheorems, TLAPS

-----------------------------------------------------------------------------
(* The inductive invariant, in parts.                                       *)

MainStates  == [pc : {"new", "loading", "setting", "starting", "running", "failed",
                 "stopping", "waiting", "clearing", "cleaned"},
           list : 1 .. 4]
CallStates == [pc : {"none", "lock", "swap", "close"},
           next : Readers \cup {Nil}, prev : Readers \cup {Nil}]
PerPart == [Lists -> [Parts -> 0 .. MaxVersion]]

\* The types of the variables.
Types ==
    /\ main \in MainStates
    /\ loop \in [Lists -> {"off", "select", "loading", "setting", "exited"}]
    /\ ticker \in [Lists -> BOOLEAN]
    /\ stop \in [Lists -> {"nil", "open", "closed"}]
    /\ done \in [Lists -> {"nil", "open", "closed"}]
    /\ source \in PerPart /\ loaded \in PerPart /\ list \in PerPart
    /\ countryDB \in Readers \cup {Nil}
    /\ mu \in [writer : Setters \cup {Nil}, readers : SUBSET Requests]
    /\ setter \in [Setters -> CallStates]
    /\ reader \in [Readers -> 0 .. MaxVersion]
    /\ lookup \in [Requests -> {"none", "arrived", Nil} \cup Readers]

Alive(l) == loop[l] \in {"select", "loading", "setting"}

\* Which loops can be there at each step of Caddy's thread: loops start after every
\* load of Provision, a loop without a stop channel is gone, and Cleanup has left
\* none behind it.
Control ==
    /\ \A l \in Lists :
        /\ loop[l] # "off" => l \in Refreshing
        /\ loop[l] = "setting" => l = Country
        /\ stop[l] = "nil" \/ done[l] = "closed" => ~Alive(l)
        /\ stop[l] = "closed" => At("waiting") /\ main.list = l
        /\ ticker[l] => Alive(l)
        /\ main.pc \in {"new", "loading", "setting"} => loop[l] = "off"
        /\ At("starting") /\ l >= main.list => loop[l] = "off"
        /\ main.pc \in {"stopping", "waiting"} /\ l < main.list => stop[l] = "nil"
        /\ main.pc \in {"clearing", "cleaned"} => stop[l] = "nil"
    /\ main.pc \in {"loading", "waiting"} => main.list \in Lists
    /\ At("setting") \/ (At("loading") /\ main.list = Country) => HasCountryRules

\* Who calls setCountryDB, and what a call holds at each of its steps.
Calling ==
    /\ setter["main"].pc # "none" <=> main.pc \in {"setting", "clearing"}
    /\ setter["loop"].pc # "none" <=> loop[Country] = "setting"
    /\ At("clearing") => setter["main"].next = Nil
    /\ \A t \in Setters :
        /\ setter[t].pc = "none" => setter[t] = NoCall
        /\ setter[t].pc # "close" => setter[t].prev = Nil
        /\ setter[t].pc = "close" => setter[t].next = Nil
        /\ setter[t].pc \in {"lock", "swap"} /\ setter[t].next = Nil => t = "main" /\ At("clearing")
    /\ mu.writer # Nil => setter[mu.writer].pc = "swap"

\* A lookup inside the read lock works on the published reader.
Locked == \A r \in mu.readers : lookup[r] = countryDB

\* A load in progress holds parts that exist, none older than the published ones and
\* none newer than the source, and so does the reader that is about to be published.
Versions ==
    /\ \A l \in Lists : \A p \in Parts :
        /\ p \notin SourcesOf[l] => loaded[l][p] = 0 /\ list[l][p] = 0
        /\ loaded[l][p] <= source[l][p] /\ list[l][p] <= source[l][p]
        /\ loaded[l][p] # 0 => Loads(l)
        /\ loaded[l][p] # 0 /\ l # Country => list[l][p] <= loaded[l][p]
    /\ \A i \in Readers : reader[i] <= source[Country][URL]
    /\ countryDB # Nil =>
        /\ loaded[Country][URL] # 0 => reader[countryDB] <= loaded[Country][URL]
        /\ \A t \in Setters :
            setter[t].next # Nil => reader[countryDB] <= reader[setter[t].next]

Stored(l) == \A p \in SourcesOf[l] : list[l][p] # 0

\* What Provision has published so far, and what Cleanup has withdrawn.
Progress ==
    /\ \A l \in {Allowlist, Blacklist} :
        \/ At("loading") /\ l < main.list
        \/ main.pc \in {"setting", "starting", "running"}
        => Stored(l)
    /\ At("setting") /\ setter["main"].pc = "close" => countryDB # Nil
    /\ main.pc \in {"starting", "running"} /\ HasCountryRules => countryDB # Nil
    /\ At("clearing") /\ setter["main"].pc = "close" => countryDB = Nil
    /\ At("cleaned") => countryDB = Nil

IInv == Types /\ Control /\ Calling /\ ReadersAccounted /\ Locked /\ Versions /\ Progress

-----------------------------------------------------------------------------
(* The parts are kept by every step.                                        *)

\* Initially the invariant holds.
LEMMA InitIInv == Init => IInv
<1> SUFFICES ASSUME Init PROVE IInv
  OBVIOUS
<1> USE LifecycleAssumption DEF Init
<1>1. Types
  BY DEF Types, MainStates, CallStates, PerPart, Lists, Allowlist, Blacklist, Country, Nothing,
    NoCall, Parts, File, URL
<1>2. Control
  BY DEF Control, Alive, At
<1>3. Calling
  BY DEF Calling, At, NoCall, Setters, Lists, Allowlist, Blacklist, Country
<1>4. ReadersAccounted
  BY DEF ReadersAccounted, InUse, NoCall
<1>5. Locked
  BY DEF Locked
<1>6. Versions
  BY DEF Versions, Nothing, Parts, Lists, Loads, Country, URL, At
<1>7. Progress
  BY DEF Progress, At
<1>8. QED
  BY <1>1, <1>2, <1>3, <1>4, <1>5, <1>6, <1>7 DEF IInv

\* A call of setCountryDB swaps the pointer: what its record is afterwards.
LEMMA SwapEffect ==
    ASSUME Types, NEW t \in Setters, SetSwaps(t)
    PROVE  /\ setter' \in [Setters -> CallStates]
           /\ setter'[t] = [pc |-> "close", next |-> Nil, prev |-> countryDB]
           /\ \A u \in Setters \ {t} : setter'[u] = setter[u]
           /\ mu' = [writer |-> Nil, readers |-> {}]
           /\ countryDB' = setter[t].next /\ setter[t].next \in Readers \cup {Nil}
BY DEF Types, SetSwaps, CallStates

\* A call of setCountryDB begins.
LEMMA CallsEffect ==
    ASSUME Types, NEW t \in Setters, NEW next \in Readers \cup {Nil}, Calls(t, next)
    PROVE  /\ setter' \in [Setters -> CallStates]
           /\ setter'[t] = [pc |-> "lock", next |-> next, prev |-> Nil]
           /\ \A u \in Setters \ {t} : setter'[u] = setter[u]
BY DEF Types, Calls, CallStates

\* The types are kept.
LEMMA TypesKept == ASSUME Types, Control, Next PROVE Types'
<1>0. MaxVersion \in Nat
  BY LifecycleAssumption
<1> USE <1>0 DEF Types, channels, database
<1>1. ASSUME NEW l \in Lists, NEW p \in Parts, SourceChanges(l, p) PROVE Types'
  BY <1>1 DEF SourceChanges, PerPart
<1>2. CASE Provision
  <2>1. ASSUME NEW l \in Lists, MainStores(l) PROVE Types'
    <3>1. main' \in MainStates
      BY <2>1 DEF MainStores, Goto, MainStates, Lists, Allowlist, Blacklist, Country
    <3>2. list' \in PerPart /\ loaded' \in PerPart
      BY <2>1 DEF MainStores, PerPart, Nothing
    <3>3. QED
      BY <2>1, <3>1, <3>2 DEF MainStores, MainStates, PerPart
  <2>2. ASSUME NEW i \in Readers, MainOpens(i) PROVE Types'
    <3>1. loaded' \in PerPart /\ reader' \in [Readers -> 0 .. MaxVersion]
      BY <2>2 DEF MainOpens, OpensReader, PerPart, Nothing, Lists, Country, Parts, URL
    <3>2. main' \in MainStates
      BY <2>2 DEF MainOpens, Goto, MainStates, Country
    <3>3. setter' \in [Setters -> CallStates]
      BY <2>2, CallsEffect DEF MainOpens, Setters
    <3>4. UNCHANGED <<loop, ticker, stop, done, source, list, countryDB, mu, lookup>>
      BY <2>2 DEF MainOpens
    <3>5. QED
      BY <3>1, <3>2, <3>3, <3>4 DEF PerPart, MainStates, CallStates
  <2>3. CASE StartsLoop
    BY <2>3 DEF StartsLoop, Goto, MainStates, Lists, Allowlist, Blacklist, Country
  <2>4. CASE ProvisionStarts \/ ProvisionRejects \/ ProvisionReturns
    BY <2>4 DEF ProvisionStarts, ProvisionRejects, ProvisionReturns, Goto, MainStates, Allowlist
  <2>5. QED
    BY <1>2, <2>1, <2>2, <2>3, <2>4 DEF Provision
<1>3. CASE CleanupStarts \/ Cleanup
  <2>1. CASE CleanupClears
    BY <2>1, CallsEffect DEF CleanupClears, Calls, Goto, MainStates, CallStates, Setters
  <2>2. CASE WaitsForLoop
    BY <2>2 DEF WaitsForLoop, Control, At, Goto, MainStates, Lists, Allowlist, Blacklist, Country
  <2>3. CASE CleanupStarts \/ SkipsLoop \/ StopsLoop
    BY <2>3 DEF CleanupStarts, SkipsLoop, StopsLoop, Goto, MainStates, Lists, Allowlist,
      Blacklist, Country
  <2>4. QED
    BY <1>3, <2>1, <2>2, <2>3 DEF Cleanup
<1>4. ASSUME NEW l \in Lists, Load(l) \/ Loop(l) \/ Tick(l) PROVE Types'
  <2>1. CASE LoadFails(l)
    BY <2>1 DEF LoadFails, Goto, MainStates, PerPart, Nothing
  <2>2. ASSUME NEW p \in Parts, ReadPart(l, p) PROVE Types'
    BY <2>2 DEF ReadPart, PerPart
  <2>3. CASE TakesTick(l) \/ TakesStop(l) \/ Tick(l)
    BY <2>3 DEF TakesTick, TakesStop, Tick
  <2>4. CASE LoopStores(l)
    BY <2>4 DEF LoopStores, PerPart, Nothing
  <2>5. ASSUME NEW i \in Readers, LoopOpens(i) PROVE Types'
    <3>1. loaded' \in PerPart /\ reader' \in [Readers -> 0 .. MaxVersion]
      BY <2>5 DEF LoopOpens, OpensReader, PerPart, Nothing, Lists, Country, Parts, URL
    <3>2. loop' \in [Lists -> {"off", "select", "loading", "setting", "exited"}]
      BY <2>5 DEF LoopOpens
    <3>3. setter' \in [Setters -> CallStates]
      BY <2>5, CallsEffect DEF LoopOpens, Setters
    <3>4. UNCHANGED <<main, ticker, stop, done, source, list, countryDB, mu, lookup>>
      BY <2>5 DEF LoopOpens
    <3>5. QED
      BY <3>1, <3>2, <3>3, <3>4 DEF PerPart, MainStates, CallStates
  <2>6. QED
    BY <1>4, <2>1, <2>2, <2>3, <2>4, <2>5 DEF Load, Loop
<1>5. ASSUME NEW t \in Setters, SetCountryDB(t) PROVE Types'
  <2>1. CASE SetLocks(t)
    BY <2>1 DEF SetLocks, CallStates
  <2>2. CASE SetSwaps(t)
    BY <2>2, SwapEffect DEF SetSwaps
  <2>3. CASE SetCloses(t)
    BY <2>3 DEF SetCloses, AfterSet, Goto, MainStates, CallStates, NoCall
  <2>4. QED
    BY <1>5, <2>1, <2>2, <2>3 DEF SetCountryDB
<1>6. ASSUME NEW r \in Requests, Arrives(r) \/ Lookup(r) PROVE Types'
  BY <1>6 DEF Arrives, Lookup, LookupStarts, LookupEnds
<1>7. QED
  BY <1>1, <1>2, <1>3, <1>4, <1>5, <1>6 DEF Next

\* Steps that touch neither Caddy's thread nor a loop keep Control.
LEMMA ControlFrame ==
    ASSUME Control, UNCHANGED <<main, loop, ticker, stop, done>>
    PROVE  Control'
BY DEF Control, Alive, At

\* The places of the threads stay consistent.
LEMMA ControlKept == ASSUME Types, Control, Calling, Next PROVE Control'
<1>a. /\ main \in MainStates
      /\ loop \in [Lists -> {"off", "select", "loading", "setting", "exited"}]
      /\ ticker \in [Lists -> BOOLEAN]
      /\ stop \in [Lists -> {"nil", "open", "closed"}]
      /\ done \in [Lists -> {"nil", "open", "closed"}]
  BY DEF Types
<1>b. Lists = 1 .. 3 /\ Country = 3 /\ Allowlist = 1 /\ Blacklist = 2
  BY DEF Lists, Allowlist, Blacklist, Country
<1> USE <1>a, <1>b DEF MainStates
<1>1. ASSUME NEW l \in Lists, NEW p \in Parts, SourceChanges(l, p) PROVE Control'
  BY <1>1, ControlFrame DEF SourceChanges, channels
<1>2. CASE Provision
  <2>1. ASSUME NEW l \in Lists, MainStores(l) PROVE Control'
    BY <2>1 DEF MainStores, Control, Alive, At, Goto, channels
  <2>2. ASSUME NEW i \in Readers, MainOpens(i) PROVE Control'
    BY <2>2 DEF MainOpens, Control, Alive, At, Goto, channels
  <2>3. CASE StartsLoop
    BY <2>3 DEF StartsLoop, Control, Alive, At, Goto
  <2>4. CASE ProvisionStarts
    BY <2>4 DEF ProvisionStarts, Control, Alive, At, Goto, channels
  <2>5. CASE ProvisionRejects \/ ProvisionReturns
    BY <2>5 DEF ProvisionRejects, ProvisionReturns, Control, Alive, At, Goto, channels
  <2>6. QED
    BY <1>2, <2>1, <2>2, <2>3, <2>4, <2>5 DEF Provision
<1>3. CASE CleanupStarts \/ Cleanup
  <2>1. CASE CleanupStarts
    BY <2>1 DEF CleanupStarts, Control, Alive, At, Goto, channels
  <2>2. CASE SkipsLoop
    BY <2>2 DEF SkipsLoop, Control, Alive, At, Goto, channels
  <2>3. CASE StopsLoop
    BY <2>3 DEF StopsLoop, Control, Alive, At, Goto
  <2>4. CASE WaitsForLoop
    BY <2>4 DEF WaitsForLoop, Control, Alive, At, Goto
  <2>5. CASE CleanupClears
    BY <2>5 DEF CleanupClears, Control, Alive, At, Goto, channels
  <2>6. QED
    BY <1>3, <2>1, <2>2, <2>3, <2>4, <2>5 DEF Cleanup
<1>4. ASSUME NEW l \in Lists, Load(l) \/ Loop(l) \/ Tick(l) PROVE Control'
  <2>1. CASE LoadFails(l)
    BY <2>1 DEF LoadFails, Loads, Control, Alive, At, Goto, channels
  <2>2. ASSUME NEW p \in Parts, ReadPart(l, p) PROVE Control'
    BY <2>2, ControlFrame DEF ReadPart, channels
  <2>3. CASE TakesTick(l)
    BY <2>3 DEF TakesTick, Control, Alive, At
  <2>4. CASE TakesStop(l)
    BY <2>4 DEF TakesStop, Control, Alive, At
  <2>5. CASE Tick(l)
    BY <2>5 DEF Tick, Control, Alive, At
  <2>6. CASE LoopStores(l)
    BY <2>6 DEF LoopStores, Control, Alive, At, channels
  <2>7. ASSUME NEW i \in Readers, LoopOpens(i) PROVE Control'
    BY <2>7 DEF LoopOpens, Control, Alive, At, channels
  <2>8. QED
    BY <1>4, <2>1, <2>2, <2>3, <2>4, <2>5, <2>6, <2>7 DEF Load, Loop
<1>5. ASSUME NEW t \in Setters, SetCountryDB(t) PROVE Control'
  <2>1. CASE SetLocks(t) \/ SetSwaps(t)
    BY <2>1, ControlFrame DEF SetLocks, SetSwaps, channels
  <2>2. CASE SetCloses(t)
    BY <2>2 DEF SetCloses, AfterSet, Setters, Calling, Control, Alive, At, Goto, channels
  <2>3. QED
    BY <1>5, <2>1, <2>2 DEF SetCountryDB
<1>6. ASSUME NEW r \in Requests, Arrives(r) \/ Lookup(r) PROVE Control'
  BY <1>6, ControlFrame DEF Arrives, Lookup, LookupStarts, LookupEnds, channels
<1>7. QED
  BY <1>1, <1>2, <1>3, <1>4, <1>5, <1>6 DEF Next

\* Only one call of setCountryDB is under way at a time: Provision is over before a
\* loop starts, and Cleanup calls it when the loops are gone.
LEMMA OneCaller ==
    ASSUME Types, Control, Calling
    PROVE  \A t, u \in Setters : t # u /\ setter[t].pc # "none" => setter[u] = NoCall
BY DEF Types, Control, Calling, Alive, At, Setters, Lists, Country

\* Steps that neither enter nor leave a call of setCountryDB keep Calling.
LEMMA CallingFrame ==
    ASSUME Calling, UNCHANGED <<setter, mu>>,
           main'.pc = main.pc \/ {main.pc, main'.pc} \cap {"setting", "clearing"} = {},
           loop[Country] = "setting" <=> loop'[Country] = "setting"
    PROVE  Calling'
BY DEF Calling, At, NoCall

\* Calls of setCountryDB match the places of the threads that make them.
LEMMA CallingKept == ASSUME Types, Control, Calling, Next PROVE Calling'
<1>a. /\ loop \in [Lists -> {"off", "select", "loading", "setting", "exited"}]
      /\ setter \in [Setters -> CallStates]
      /\ mu \in [writer : Setters \cup {Nil}, readers : SUBSET Requests]
      /\ countryDB \in Readers \cup {Nil}
  BY DEF Types
<1>b. Lists = 1 .. 3 /\ Country = 3 /\ Allowlist = 1
  BY DEF Lists, Allowlist, Blacklist, Country
<1>c. Setters = {"main", "loop"} /\ Nil \notin Setters /\ Nil \notin Readers
  BY LifecycleAssumption DEF Setters
<1> USE <1>a, <1>b
<1>1. ASSUME NEW l \in Lists, NEW p \in Parts, SourceChanges(l, p) PROVE Calling'
  BY <1>1, CallingFrame DEF SourceChanges, database
<1>2. CASE Provision
  <2>1. ASSUME NEW l \in Lists, MainStores(l) PROVE Calling'
    BY <2>1, CallingFrame DEF MainStores, At, Goto, database
  <2>2. ASSUME NEW i \in Readers, MainOpens(i) PROVE Calling'
    <3>1. /\ setter'["main"] = [pc |-> "lock", next |-> i, prev |-> Nil]
          /\ setter'["loop"] = setter["loop"]
      BY <2>2, <1>c, CallsEffect DEF MainOpens
    <3>2. main' = [pc |-> "setting", list |-> Country] /\ At("loading") /\ UNCHANGED <<mu, loop>>
      BY <2>2 DEF MainOpens, Goto
    <3>3. setter["main"].pc = "none"
      BY <3>2 DEF Calling, At
    <3>4. mu.writer # Nil => mu.writer # "main"
      BY <3>3 DEF Calling
    <3>5. QED
      BY <3>1, <3>2, <3>3, <3>4, <1>c DEF Calling, At, NoCall, CallStates
  <2>3. CASE StartsLoop
    BY <2>3, CallingFrame DEF StartsLoop, Control, At, Goto, database
  <2>4. CASE ProvisionStarts \/ ProvisionRejects \/ ProvisionReturns
    BY <2>4, CallingFrame
      DEF ProvisionStarts, ProvisionRejects, ProvisionReturns, At, Goto, database
  <2>5. QED
    BY <1>2, <2>1, <2>2, <2>3, <2>4 DEF Provision
<1>3. CASE CleanupStarts \/ Cleanup
  <2>1. CASE CleanupStarts \/ SkipsLoop \/ StopsLoop \/ WaitsForLoop
    BY <2>1, CallingFrame
      DEF CleanupStarts, SkipsLoop, StopsLoop, WaitsForLoop, At, Goto, database
  <2>2. CASE CleanupClears
    <3>1. /\ setter'["main"] = [pc |-> "lock", next |-> Nil, prev |-> Nil]
          /\ setter'["loop"] = setter["loop"]
      BY <2>2, <1>c, CallsEffect DEF CleanupClears
    <3>2. main' = [pc |-> "clearing", list |-> 1] /\ At("stopping") /\ UNCHANGED <<mu, loop>>
      BY <2>2 DEF CleanupClears, Goto
    <3>3. setter["main"].pc = "none"
      BY <3>2 DEF Calling, At
    <3>4. mu.writer # Nil => mu.writer # "main"
      BY <3>3 DEF Calling
    <3>5. QED
      BY <3>1, <3>2, <3>3, <3>4, <1>c DEF Calling, At, NoCall, CallStates
  <2>3. QED
    BY <1>3, <2>1, <2>2 DEF Cleanup
<1>4. ASSUME NEW l \in Lists, Load(l) \/ Loop(l) \/ Tick(l) PROVE Calling'
  <2>1. CASE LoadFails(l)
    BY <2>1, CallingFrame DEF LoadFails, Loads, At, Goto, database
  <2>2. ASSUME NEW p \in Parts, ReadPart(l, p) PROVE Calling'
    BY <2>2, CallingFrame DEF ReadPart, database
  <2>3. CASE TakesTick(l) \/ TakesStop(l) \/ Tick(l)
    BY <2>3, CallingFrame DEF TakesTick, TakesStop, Tick, database
  <2>4. CASE LoopStores(l)
    BY <2>4, CallingFrame DEF LoopStores, database
  <2>5. ASSUME NEW i \in Readers, LoopOpens(i) PROVE Calling'
    <3>1. /\ setter'["loop"] = [pc |-> "lock", next |-> i, prev |-> Nil]
          /\ setter'["main"] = setter["main"]
      BY <2>5, <1>c, CallsEffect DEF LoopOpens
    <3>2. loop'[Country] = "setting" /\ loop[Country] = "loading" /\ UNCHANGED <<mu, main>>
      BY <2>5 DEF LoopOpens
    <3>3. setter["loop"].pc = "none"
      BY <3>2 DEF Calling
    <3>4. mu.writer # Nil => mu.writer # "loop"
      BY <3>3 DEF Calling
    <3>5. QED
      BY <3>1, <3>2, <3>3, <3>4, <1>c DEF Calling, At, NoCall, CallStates
  <2>6. QED
    BY <1>4, <2>1, <2>2, <2>3, <2>4, <2>5 DEF Load, Loop
<1>5. ASSUME NEW t \in Setters, SetCountryDB(t) PROVE Calling'
  <2>1. CASE SetLocks(t)
    <3>1. /\ setter'[t] = [setter[t] EXCEPT !.pc = "swap"] /\ mu'.writer = t
          /\ \A u \in Setters \ {t} : setter'[u] = setter[u]
          /\ setter[t].pc = "lock" /\ UNCHANGED <<main, loop>>
      BY <2>1 DEF SetLocks
    <3>2. QED
      BY <3>1, <1>c DEF Calling, At, NoCall, CallStates
  <2>2. CASE SetSwaps(t)
    <3>1. setter[t].pc = "swap" /\ UNCHANGED <<main, loop>>
      BY <2>2 DEF SetSwaps
    <3>2. QED
      BY <2>2, <3>1, <1>c, SwapEffect DEF Calling, At, NoCall
  <2>3. CASE SetCloses(t)
    <3>1. /\ setter'[t] = NoCall /\ setter[t].pc = "close" /\ UNCHANGED mu
          /\ \A u \in Setters \ {t} : setter'[u] = setter[u]
      BY <2>3 DEF SetCloses
    <3>2. CASE t = "loop"
      BY <2>3, <3>1, <3>2, <1>c DEF SetCloses, AfterSet, Calling, At, NoCall
    <3>3. CASE t = "main"
      BY <2>3, <3>1, <3>3, <1>c DEF SetCloses, AfterSet, Goto, Calling, At, NoCall
    <3>4. QED
      BY <3>2, <3>3, <1>c
  <2>4. QED
    BY <1>5, <2>1, <2>2, <2>3 DEF SetCountryDB
<1>6. ASSUME NEW r \in Requests, Arrives(r) \/ Lookup(r) PROVE Calling'
  <2>1. UNCHANGED <<main, loop, setter>> /\ mu'.writer = mu.writer
    BY <1>6 DEF Arrives, Lookup, LookupStarts, LookupEnds, database
  <2>2. QED
    BY <2>1 DEF Calling, At, NoCall
<1>7. QED
  BY <1>1, <1>2, <1>3, <1>4, <1>5, <1>6 DEF Next

\* A reader that is opened is one that is not in use.
LEMMA OpenAccounted ==
    ASSUME Types, ReadersAccounted, Versions, HasCountryRules,
           NEW t \in Setters, setter[t] = NoCall,
           NEW i \in Readers, OpensReader(i), Calls(t, i), UNCHANGED countryDB
    PROVE  ReadersAccounted'
<1>1. /\ setter'[t] = [pc |-> "lock", next |-> i, prev |-> Nil]
      /\ \A u \in Setters \ {t} : setter'[u] = setter[u]
  BY CallsEffect
<1>2. loaded[Country][URL] # 0
  BY LifecycleAssumption DEF OpensReader, Ready, HasCountryRules
<1>3. reader'[i] # 0 /\ \A j \in Readers \ {i} : reader'[j] = reader[j]
  BY <1>2 DEF OpensReader, Types
<1>4. InUse' = InUse \cup {i, Nil}
  BY <1>1 DEF InUse, NoCall
<1>5. i # Nil /\ i \notin InUse
  BY LifecycleAssumption DEF OpensReader
<1>6. \A j \in Readers : reader'[j] # 0 <=> j \in InUse'
  BY <1>3, <1>4, LifecycleAssumption DEF ReadersAccounted
<1>7. QED
  BY <1>1, <1>5, <1>6 DEF ReadersAccounted, InUse, NoCall

\* No reader is lost and none is closed twice.
LEMMA AccountedKept ==
    ASSUME Types, Control, Calling, ReadersAccounted, Versions, Next
    PROVE  ReadersAccounted'
<1>a. ASSUME UNCHANGED <<countryDB, setter, reader>> PROVE ReadersAccounted'
  BY <1>a DEF ReadersAccounted, InUse
<1>1. ASSUME NEW i \in Readers, MainOpens(i) PROVE ReadersAccounted'
  <2>1. At("loading") /\ main.list = Country /\ OpensReader(i) /\ Calls("main", i)
        /\ UNCHANGED countryDB
    BY <1>1 DEF MainOpens
  <2>2. setter["main"] = NoCall /\ HasCountryRules
    BY <2>1 DEF Calling, Control, At, Setters
  <2>3. QED
    BY <2>1, <2>2, OpenAccounted DEF Setters
<1>2. ASSUME NEW i \in Readers, LoopOpens(i) PROVE ReadersAccounted'
  <2>1. loop[Country] = "loading" /\ OpensReader(i) /\ Calls("loop", i) /\ UNCHANGED countryDB
    BY <1>2 DEF LoopOpens
  <2>2. setter["loop"] = NoCall
    BY <2>1 DEF Calling, Setters
  <2>3. HasCountryRules
    BY <2>1, LifecycleAssumption DEF Control, HasCountryRules, Lists
  <2>4. QED
    BY <2>1, <2>2, <2>3, OpenAccounted DEF Setters
<1>3. CASE CleanupClears
  <2>1. /\ setter'["main"] = [pc |-> "lock", next |-> Nil, prev |-> Nil]
        /\ \A u \in Setters \ {"main"} : setter'[u] = setter[u]
    BY <1>3, CallsEffect DEF CleanupClears, Setters
  <2>2. setter["main"] = NoCall /\ UNCHANGED <<countryDB, reader>>
    BY <1>3 DEF CleanupClears, Calling, At, Setters
  <2>3. QED
    BY <2>1, <2>2 DEF ReadersAccounted, InUse, NoCall
<1>4. ASSUME NEW t \in Setters, SetLocks(t) PROVE ReadersAccounted'
  <2>1. \A u \in Setters : setter'[u].next = setter[u].next /\ setter'[u].prev = setter[u].prev
    BY <1>4 DEF SetLocks, Types, CallStates
  <2>2. QED
    BY <1>4, <2>1 DEF SetLocks, ReadersAccounted, InUse
<1>5. ASSUME NEW t \in Setters, SetSwaps(t) PROVE ReadersAccounted'
  <2>1. \A u \in Setters \ {t} : setter[u] = NoCall /\ setter'[u] = NoCall
    BY <1>5, OneCaller, SwapEffect DEF SetSwaps
  <2>2. setter[t].prev = Nil /\ setter'[t] = [pc |-> "close", next |-> Nil, prev |-> countryDB]
        /\ countryDB' = setter[t].next /\ UNCHANGED reader
    BY <1>5, SwapEffect DEF SetSwaps, Calling
  <2>3. InUse \cup {Nil} = InUse' \cup {Nil}
    BY <2>1, <2>2 DEF InUse, NoCall
  <2>4. QED
    BY <2>1, <2>2, <2>3, LifecycleAssumption DEF ReadersAccounted, NoCall
<1>6. ASSUME NEW t \in Setters, SetCloses(t) PROVE ReadersAccounted'
  <2>1. \A u \in Setters \ {t} : setter[u] = NoCall /\ setter'[u] = NoCall
    BY <1>6, OneCaller DEF SetCloses, Types
  <2>2. setter[t].next = Nil /\ setter'[t] = NoCall /\ UNCHANGED countryDB
    BY <1>6 DEF SetCloses, Calling, Types
  <2>3. InUse = {countryDB, Nil, setter[t].prev} \cup InUse' /\ InUse' \subseteq {countryDB, Nil}
    BY <2>1, <2>2 DEF InUse, NoCall
  <2>4. \A i \in Readers : reader'[i] = IF i = setter[t].prev THEN 0 ELSE reader[i]
    BY <1>6 DEF SetCloses
  <2>5. countryDB \in InUse'
    BY <2>2 DEF InUse
  <2>6. QED
    BY <2>1, <2>2, <2>3, <2>4, <2>5, LifecycleAssumption DEF ReadersAccounted, NoCall
<1>7. QED
  BY <1>a, <1>1, <1>2, <1>3, <1>4, <1>5, <1>6
    DEF Next, SourceChanges, Provision, MainStores, ProvisionStarts, ProvisionRejects, StartsLoop,
        ProvisionReturns, CleanupStarts, Cleanup, SkipsLoop, StopsLoop, WaitsForLoop, Load,
        LoadFails, ReadPart, Loop, TakesTick, TakesStop, LoopStores, Tick, SetCountryDB, Arrives,
        Lookup, LookupStarts, LookupEnds, database

\* The reader of a lookup stays the published one while the lock is held.
LEMMA LockedKept == ASSUME Types, Locked, Next PROVE Locked'
<1>a. ASSUME UNCHANGED <<countryDB, mu, lookup>> PROVE Locked'
  BY <1>a DEF Locked
<1>1. ASSUME NEW t \in Setters, SetLocks(t) PROVE Locked'
  BY <1>1 DEF SetLocks, Locked, Types
<1>2. ASSUME NEW t \in Setters, SetSwaps(t) PROVE Locked'
  BY <1>2, SwapEffect DEF Locked
<1>3. ASSUME NEW r \in Requests, Arrives(r) PROVE Locked'
  BY <1>3, LifecycleAssumption DEF Arrives, Locked, Types, database
<1>4. ASSUME NEW r \in Requests, LookupStarts(r) PROVE Locked'
  BY <1>4 DEF LookupStarts, Locked, Types
<1>5. ASSUME NEW r \in Requests, LookupEnds(r) PROVE Locked'
  BY <1>5 DEF LookupEnds, Locked, Types
<1>6. QED
  BY <1>a, <1>1, <1>2, <1>3, <1>4, <1>5
    DEF Next, SourceChanges, Provision, MainStores, MainOpens, ProvisionStarts, ProvisionRejects,
        StartsLoop, ProvisionReturns, CleanupStarts, Cleanup, SkipsLoop, StopsLoop, WaitsForLoop,
        CleanupClears, Load, LoadFails, ReadPart, Loop, TakesTick, TakesStop, LoopStores,
        LoopOpens, Tick, SetCountryDB, SetCloses, Lookup, database

\* Steps that neither load nor publish, and end no load, keep Versions.
LEMMA VersionsFrame ==
    ASSUME Versions, UNCHANGED <<source, loaded, list, countryDB, reader>>,
           \A t \in Setters : setter'[t].next \in {setter[t].next, Nil},
           \A l \in Lists : Loads(l) => Loads(l)'
    PROVE  Versions'
BY DEF Versions

\* A reader that is opened holds the version that was loaded.
LEMMA OpenVersions ==
    ASSUME Types, Versions, HasCountryRules,
           NEW t \in Setters, \A u \in Setters : setter[u].next = Nil,
           NEW i \in Readers, OpensReader(i), Calls(t, i), UNCHANGED <<source, list, countryDB>>,
           \A l \in Lists : l # Country /\ Loads(l) => Loads(l)'
    PROVE  Versions'
<1>0. /\ setter'[t] = [pc |-> "lock", next |-> i, prev |-> Nil]
      /\ \A u \in Setters \ {t} : setter'[u] = setter[u]
  BY CallsEffect
<1>1. /\ setter'[t].next = i
      /\ \A u \in Setters \ {t} : setter'[u].next = Nil
  BY <1>0
<1>2. Country \in Lists /\ URL \in Parts
  BY DEF Lists, Parts
<1>3. loaded[Country][URL] # 0
  BY LifecycleAssumption DEF OpensReader, Ready, HasCountryRules
<1>4. reader'[i] = loaded[Country][URL] /\ \A j \in Readers \ {i} : reader'[j] = reader[j]
  BY DEF OpensReader, Types
<1>5. /\ \A p \in Parts : loaded'[Country][p] = 0
      /\ \A l \in Lists : l # Country => loaded'[l] = loaded[l]
  BY <1>2 DEF OpensReader, Types, PerPart, Nothing
<1>6. countryDB # Nil => countryDB \in Readers \ {i}
  BY DEF OpensReader, InUse, Types
<1>7. \A l \in Lists : \A p \in Parts : source[l][p] \in Nat
  BY LifecycleAssumption DEF Types, PerPart
<1>8. /\ \A l \in Lists : \A p \in Parts :
          /\ p \notin SourcesOf[l] => loaded'[l][p] = 0 /\ list'[l][p] = 0
          /\ loaded'[l][p] <= source'[l][p] /\ list'[l][p] <= source'[l][p]
          /\ loaded'[l][p] # 0 => Loads(l)'
          /\ loaded'[l][p] # 0 /\ l # Country => list'[l][p] <= loaded'[l][p]
  BY <1>2, <1>5, <1>7 DEF Versions
<1>9. \A j \in Readers : reader'[j] <= source'[Country][URL]
  BY <1>2, <1>4 DEF Versions
<1>10. countryDB' # Nil =>
        /\ loaded'[Country][URL] = 0
        /\ \A u \in Setters :
            setter'[u].next # Nil => reader'[countryDB'] <= reader'[setter'[u].next]
  BY <1>1, <1>2, <1>3, <1>4, <1>5, <1>6 DEF Versions
<1>11. QED
  BY <1>8, <1>9, <1>10 DEF Versions

\* A list that is stored holds the versions that were loaded.
LEMMA StoreVersions ==
    ASSUME Types, Versions, NEW l \in Lists, l # Country,
           list' = [list EXCEPT ![l] = loaded[l]],
           loaded' = [loaded EXCEPT ![l] = Nothing],
           UNCHANGED <<source, countryDB, reader, setter>>,
           \A m \in Lists : m # l /\ Loads(m) => Loads(m)'
    PROVE  Versions'
<1>1. \A m \in Lists : \A p \in Parts : source[m][p] \in Nat
  BY LifecycleAssumption DEF Types, PerPart
<1>2. list'[l] = loaded[l] /\ \A p \in Parts : loaded'[l][p] = 0
  BY DEF Types, PerPart, Nothing
<1>3. \A m \in Lists : m # l => list'[m] = list[m] /\ loaded'[m] = loaded[m]
  BY DEF Types, PerPart
<1>4. Country \in Lists
  BY DEF Lists
<1>5. \A m \in Lists : \A p \in Parts :
        /\ p \notin SourcesOf[m] => loaded'[m][p] = 0 /\ list'[m][p] = 0
        /\ loaded'[m][p] <= source'[m][p] /\ list'[m][p] <= source'[m][p]
        /\ loaded'[m][p] # 0 => Loads(m)'
        /\ loaded'[m][p] # 0 /\ m # Country => list'[m][p] <= loaded'[m][p]
  BY <1>1, <1>2, <1>3 DEF Versions
<1>6. QED
  BY <1>3, <1>4, <1>5 DEF Versions

\* Nothing gets older.
LEMMA VersionsKept ==
    ASSUME Types, Control, Calling, ReadersAccounted, Versions, Next
    PROVE  Versions'
<1>a. /\ loop \in [Lists -> {"off", "select", "loading", "setting", "exited"}]
      /\ source \in PerPart /\ loaded \in PerPart /\ list \in PerPart
      /\ \A l \in Lists : \A p \in Parts :
            /\ source[l][p] \in Nat /\ loaded[l][p] \in Nat /\ list[l][p] \in Nat
  BY LifecycleAssumption DEF Types, PerPart
<1>b. Lists = 1 .. 3 /\ Country = 3 /\ Allowlist = 1
  BY DEF Lists, Allowlist, Blacklist, Country
<1>c. Country \in Lists /\ URL \in Parts
  BY DEF Lists, Parts
<1>d. reader \in [Readers -> Nat]
  BY LifecycleAssumption DEF Types
<1>1. ASSUME NEW l \in Lists, NEW p \in Parts, SourceChanges(l, p) PROVE Versions'
  <2>1. /\ UNCHANGED <<main, loop, loaded, list, countryDB, reader, setter>>
        /\ \A m \in Lists : \A q \in Parts : source'[m][q] >= source[m][q]
        /\ \A m \in Lists : \A q \in Parts : source'[m][q] \in Nat
    BY <1>1, <1>a DEF SourceChanges, PerPart, database
  <2>2. \A m \in Lists : Loads(m)' <=> Loads(m)
    BY <2>1 DEF Loads, At
  <2>3. QED
    BY <2>1, <2>2, <1>a, <1>c, <1>d DEF Versions
<1>2. CASE Provision
  <2>1. ASSUME NEW l \in Lists, MainStores(l) PROVE Versions'
    <3>1. \A m \in Lists : m # l /\ Loads(m) => Loads(m)'
      BY <2>1 DEF MainStores, Loads, At
    <3>2. QED
      BY <2>1, <3>1, StoreVersions DEF MainStores, database
  <2>2. ASSUME NEW i \in Readers, MainOpens(i) PROVE Versions'
    <3>1. /\ At("loading") /\ main.list = Country /\ OpensReader(i) /\ Calls("main", i)
          /\ UNCHANGED <<loop, source, list, countryDB>>
      BY <2>2 DEF MainOpens
    <3>2. HasCountryRules /\ \A u \in Setters : setter[u].next = Nil
      BY <3>1, <1>c DEF Control, Calling, At, NoCall, Setters
    <3>3. \A l \in Lists : l # Country /\ Loads(l) => Loads(l)'
      BY <3>1 DEF Loads, At
    <3>4. QED
      BY <3>1, <3>2, <3>3, OpenVersions DEF Setters
  <2>3. CASE StartsLoop \/ ProvisionStarts \/ ProvisionRejects \/ ProvisionReturns
    <3>1. /\ UNCHANGED <<source, loaded, list, countryDB, reader, setter>>
          /\ ~At("loading")
      BY <2>3 DEF StartsLoop, ProvisionStarts, ProvisionRejects, ProvisionReturns, At, database
    <3>2. \A l \in Lists : loop[l] = "loading" => loop'[l] = "loading"
      BY <2>3, <1>a, <1>b DEF StartsLoop, ProvisionStarts, ProvisionRejects, ProvisionReturns,
        Control, At
    <3>3. QED
      BY <3>1, <3>2, VersionsFrame DEF Loads
  <2>4. QED
    BY <1>2, <2>1, <2>2, <2>3 DEF Provision
<1>3. CASE CleanupStarts \/ Cleanup
  <2>1. UNCHANGED <<loop, source, loaded, list, countryDB, reader>> /\ ~At("loading")
    BY <1>3 DEF CleanupStarts, Cleanup, SkipsLoop, StopsLoop, WaitsForLoop, CleanupClears, At,
      database
  <2>2. \A t \in Setters : setter'[t].next \in {setter[t].next, Nil}
    <3>1. CASE CleanupClears
      <4>1. /\ setter'["main"] = [pc |-> "lock", next |-> Nil, prev |-> Nil]
            /\ \A u \in Setters \ {"main"} : setter'[u] = setter[u]
        BY <3>1, CallsEffect DEF CleanupClears, Setters
      <4>2. QED
        BY <4>1
    <3>2. QED
      BY <1>3, <3>1 DEF CleanupStarts, Cleanup, SkipsLoop, StopsLoop, WaitsForLoop, database
  <2>3. QED
    BY <2>1, <2>2, VersionsFrame DEF Loads
<1>4. ASSUME NEW l \in Lists, Load(l) \/ Loop(l) \/ Tick(l) PROVE Versions'
  <2>1. CASE LoadFails(l)
    <3>1. /\ \A p \in Parts : loaded'[l][p] = 0
          /\ \A m \in Lists : m # l => loaded'[m] = loaded[m]
          /\ UNCHANGED <<source, list, countryDB, reader, setter>>
      BY <2>1, <1>a DEF LoadFails, PerPart, Nothing, database
    <3>2. \A m \in Lists : m # l /\ Loads(m) => Loads(m)'
      BY <2>1, <1>a DEF LoadFails, Loads, At, Goto
    <3>3. QED
      BY <3>1, <3>2, <1>a, <1>c DEF Versions
  <2>2. ASSUME NEW p \in Parts, ReadPart(l, p) PROVE Versions'
    <3>1. /\ loaded'[l][p] = source[l][p] /\ p \in SourcesOf[l] /\ Loads(l)
          /\ \A m \in Lists : \A q \in Parts :
                m # l \/ q # p => loaded'[m][q] = loaded[m][q]
          /\ UNCHANGED <<main, loop, source, list, countryDB, reader, setter>>
      BY <2>2, <1>a DEF ReadPart, PerPart, database
    <3>2. \A m \in Lists : Loads(m)' <=> Loads(m)
      BY <3>1 DEF Loads, At
    <3>3. countryDB # Nil => countryDB \in Readers
      BY DEF Types
    <3>4. \A m \in Lists : \A q \in Parts :
            /\ q \notin SourcesOf[m] => loaded'[m][q] = 0 /\ list'[m][q] = 0
            /\ loaded'[m][q] <= source'[m][q] /\ list'[m][q] <= source'[m][q]
            /\ loaded'[m][q] # 0 => Loads(m)'
            /\ loaded'[m][q] # 0 /\ m # Country => list'[m][q] <= loaded'[m][q]
      BY <3>1, <3>2, <1>a DEF Versions
    <3>5. countryDB # Nil /\ loaded'[Country][URL] # 0 => reader[countryDB] <= loaded'[Country][URL]
      BY <3>1, <3>3, <1>a, <1>c DEF Versions
    <3>6. QED
      BY <3>1, <3>4, <3>5 DEF Versions
  <2>3. CASE TakesTick(l) \/ TakesStop(l) \/ Tick(l)
    BY <2>3, <1>a, VersionsFrame DEF TakesTick, TakesStop, Tick, Loads, At, database
  <2>4. CASE LoopStores(l)
    <3>1. \A m \in Lists : m # l /\ Loads(m) => Loads(m)'
      BY <2>4, <1>a DEF LoopStores, Loads, At
    <3>2. QED
      BY <2>4, <3>1, StoreVersions DEF LoopStores, database
  <2>5. ASSUME NEW i \in Readers, LoopOpens(i) PROVE Versions'
    <3>1. /\ loop[Country] = "loading" /\ OpensReader(i) /\ Calls("loop", i)
          /\ loop' = [loop EXCEPT ![Country] = "setting"]
          /\ UNCHANGED <<main, source, list, countryDB>>
      BY <2>5 DEF LoopOpens
    <3>2. HasCountryRules
      BY <3>1, <1>c, LifecycleAssumption DEF Control, HasCountryRules
    <3>3. \A u \in Setters : setter[u].next = Nil
      BY <3>1, <1>c DEF Control, Calling, Alive, At, NoCall, Setters
    <3>4. \A m \in Lists : m # Country /\ Loads(m) => Loads(m)'
      BY <3>1, <1>a DEF Loads, At
    <3>5. QED
      BY <3>1, <3>2, <3>3, <3>4, OpenVersions DEF Setters
  <2>6. QED
    BY <1>4, <2>1, <2>2, <2>3, <2>4, <2>5 DEF Load, Loop
<1>5. ASSUME NEW t \in Setters, SetCountryDB(t) PROVE Versions'
  <2>1. CASE SetLocks(t)
    <3>1. \A u \in Setters : setter'[u].next = setter[u].next
      BY <2>1 DEF SetLocks, Types, CallStates
    <3>2. QED
      BY <2>1, <3>1, VersionsFrame DEF SetLocks, Loads, At
  <2>2. CASE SetSwaps(t)
    <3>1. setter[t].pc = "swap" /\ UNCHANGED <<main, loop, source, loaded, list, reader>>
      BY <2>2 DEF SetSwaps
    <3>2. \A u \in Setters \ {t} : setter[u] = NoCall
      BY <3>1, OneCaller
    <3>3. setter'[t] = [pc |-> "close", next |-> Nil, prev |-> countryDB]
          /\ \A u \in Setters \ {t} : setter'[u] = setter[u]
      BY <2>2, SwapEffect
    <3>4. \A u \in Setters : setter'[u].next = Nil
      BY <3>2, <3>3 DEF NoCall
    <3>5. ~Loads(Country)
      BY <3>1, <1>b, <1>c DEF Loads, Control, Calling, Alive, At, Setters
    <3>6. loaded[Country][URL] = 0
      BY <3>5, <1>c DEF Versions
    <3>7. QED
      BY <3>1, <3>4, <3>6 DEF Versions, Loads, At
  <2>3. CASE SetCloses(t)
    <3>1. /\ \A u \in Setters : setter'[u].next = Nil
          /\ UNCHANGED <<source, loaded, list, countryDB>>
      BY <2>3, OneCaller DEF SetCloses, NoCall, Types
    <3>2. \A i \in Readers : reader'[i] <= reader[i] /\ reader'[i] \in Nat
      BY <2>3, <1>d DEF SetCloses
    <3>3. \A m \in Lists : Loads(m) => Loads(m)'
      BY <2>3, <1>a, <1>c DEF SetCloses, AfterSet, Setters, Loads, At, Calling
    <3>4. countryDB # Nil => countryDB \in Readers
      BY DEF Types
    <3>5. QED
      BY <3>1, <3>2, <3>3, <3>4, <1>a, <1>c, <1>d DEF Versions
  <2>4. QED
    BY <1>5, <2>1, <2>2, <2>3 DEF SetCountryDB
<1>6. ASSUME NEW r \in Requests, Arrives(r) \/ Lookup(r) PROVE Versions'
  BY <1>6, VersionsFrame DEF Arrives, Lookup, LookupStarts, LookupEnds, Loads, At, database
<1>7. QED
  BY <1>1, <1>2, <1>3, <1>4, <1>5, <1>6 DEF Next

\* Steps that publish nothing, and do not take Caddy's thread on, keep Progress.
LEMMA ProgressFrame ==
    ASSUME Progress, UNCHANGED <<list, countryDB>>,
           \/ UNCHANGED main
           \/ main'.pc \notin {"loading", "setting", "starting", "running", "clearing", "cleaned"},
           setter'["main"].pc = "close" => setter["main"].pc = "close"
    PROVE  Progress'
BY DEF Progress, Stored, At

\* Storing a complete list completes it and leaves the others alone.
LEMMA StoreCompletes ==
    ASSUME Types, NEW l \in Lists, Ready(l), list' = [list EXCEPT ![l] = loaded[l]]
    PROVE  Stored(l)' /\ \A m \in Lists : Stored(m) => Stored(m)'
BY DEF Types, PerPart, Ready, Stored

\* What has been published stays until Cleanup withdraws it.
LEMMA ProgressKept ==
    ASSUME Types, Control, Calling, Progress, Next
    PROVE  Progress'
<1>a. /\ Lists = 1 .. 3 /\ Country = 3 /\ Allowlist = 1 /\ Blacklist = 2
      /\ Allowlist \in Lists /\ Blacklist \in Lists
  BY DEF Lists, Allowlist, Blacklist, Country
<1>b. main.list \in 1 .. 4
  BY DEF Types, MainStates
<1>1. ASSUME NEW l \in Lists, NEW p \in Parts, SourceChanges(l, p) PROVE Progress'
  BY <1>1, ProgressFrame DEF SourceChanges, database
<1>2. CASE Provision
  <2>1. ASSUME NEW l \in Lists, MainStores(l) PROVE Progress'
    <3>1. /\ Stored(l)' /\ \A m \in Lists : Stored(m) => Stored(m)'
          /\ At("loading") /\ main.list = l /\ l # Country
          /\ UNCHANGED <<countryDB, setter>>
      BY <2>1, StoreCompletes DEF MainStores, database
    <3>2. \A m \in {Allowlist, Blacklist} : m < l => Stored(m)
      BY <3>1 DEF Progress
    <3>3. CASE l + 1 = Country /\ ~HasCountryRules
      <4>1. main' = [pc |-> "starting", list |-> 1]
        BY <2>1, <3>3 DEF MainStores, Goto
      <4>2. QED
        BY <3>1, <3>2, <3>3, <4>1, <1>a DEF Progress, At
    <3>4. CASE ~(l + 1 = Country /\ ~HasCountryRules)
      <4>1. main' = [pc |-> "loading", list |-> l + 1]
        BY <2>1, <3>4 DEF MainStores, Goto
      <4>2. QED
        BY <3>1, <3>2, <4>1, <1>a DEF Progress, At
    <3>5. QED
      BY <3>3, <3>4
  <2>2. ASSUME NEW i \in Readers, MainOpens(i) PROVE Progress'
    <3>1. /\ main' = [pc |-> "setting", list |-> Country] /\ At("loading") /\ main.list = Country
          /\ UNCHANGED <<list, countryDB>>
      BY <2>2 DEF MainOpens, Goto
    <3>2. setter'["main"] = [pc |-> "lock", next |-> i, prev |-> Nil]
      BY <2>2, CallsEffect DEF MainOpens, Setters
    <3>3. QED
      BY <3>1, <3>2, <1>a DEF Progress, Stored, At
  <2>3. CASE StartsLoop \/ ProvisionStarts \/ ProvisionRejects \/ ProvisionReturns
    <3>1. /\ UNCHANGED <<list, countryDB, setter>>
          /\ \/ At("starting") /\ main'.pc \in {"starting", "running"}
             \/ main' = [pc |-> "loading", list |-> 1]
             \/ main'.pc = "failed"
      BY <2>3 DEF StartsLoop, ProvisionStarts, ProvisionRejects, ProvisionReturns, Goto,
        Allowlist, database
    <3>2. QED
      BY <3>1, <1>a DEF Progress, Stored, At
  <2>4. QED
    BY <1>2, <2>1, <2>2, <2>3 DEF Provision
<1>3. CASE CleanupStarts \/ Cleanup
  <2>1. CASE CleanupStarts \/ SkipsLoop \/ StopsLoop \/ WaitsForLoop
    BY <2>1, ProgressFrame
      DEF CleanupStarts, SkipsLoop, StopsLoop, WaitsForLoop, Goto, database
  <2>2. CASE CleanupClears
    <3>1. main' = [pc |-> "clearing", list |-> 1] /\ UNCHANGED <<list, countryDB>>
      BY <2>2 DEF CleanupClears, Goto
    <3>2. setter'["main"] = [pc |-> "lock", next |-> Nil, prev |-> Nil]
      BY <2>2, CallsEffect DEF CleanupClears, Setters
    <3>3. QED
      BY <3>1, <3>2 DEF Progress, At
  <2>3. QED
    BY <1>3, <2>1, <2>2 DEF Cleanup
<1>4. ASSUME NEW l \in Lists, Load(l) \/ Loop(l) \/ Tick(l) PROVE Progress'
  <2>1. CASE LoadFails(l)
    BY <2>1, ProgressFrame DEF LoadFails, Goto, database
  <2>2. ASSUME NEW p \in Parts, ReadPart(l, p) PROVE Progress'
    BY <2>2, ProgressFrame DEF ReadPart, database
  <2>3. CASE TakesTick(l) \/ TakesStop(l) \/ Tick(l)
    BY <2>3, ProgressFrame DEF TakesTick, TakesStop, Tick, database
  <2>4. CASE LoopStores(l)
    <3>1. UNCHANGED <<main, countryDB, setter>> /\ \A m \in Lists : Stored(m) => Stored(m)'
      BY <2>4, StoreCompletes DEF LoopStores, database
    <3>2. QED
      BY <3>1, <1>a DEF Progress, At
  <2>5. ASSUME NEW i \in Readers, LoopOpens(i) PROVE Progress'
    <3>1. UNCHANGED <<main, list, countryDB>> /\ Calls("loop", i)
      BY <2>5 DEF LoopOpens
    <3>2. setter'["main"] = setter["main"]
      BY <3>1, CallsEffect DEF Setters
    <3>3. QED
      BY <3>1, <3>2, ProgressFrame
  <2>6. QED
    BY <1>4, <2>1, <2>2, <2>3, <2>4, <2>5 DEF Load, Loop
<1>5. ASSUME NEW t \in Setters, SetCountryDB(t) PROVE Progress'
  <2>1. CASE SetLocks(t)
    <3>1. setter'["main"].pc \in {setter["main"].pc, "swap"} /\ UNCHANGED <<main, list, countryDB>>
      BY <2>1 DEF SetLocks, Types, Setters, CallStates
    <3>2. QED
      BY <3>1, ProgressFrame
  <2>2. CASE SetSwaps(t)
    <3>1. setter[t].pc = "swap" /\ UNCHANGED <<main, list>>
      BY <2>2 DEF SetSwaps
    <3>2. countryDB' = setter[t].next /\ \A u \in Setters \ {t} : setter'[u] = setter[u]
      BY <2>2, SwapEffect
    <3>3. CASE t = "loop"
      <4>1. countryDB' # Nil /\ setter'["main"] = setter["main"]
        BY <3>1, <3>2, <3>3 DEF Calling, Setters
      <4>2. ~At("clearing") /\ ~At("cleaned")
        BY <3>1, <3>3, <1>a DEF Control, Calling, Alive, At, Setters
      <4>3. QED
        BY <3>1, <4>1, <4>2 DEF Progress, Stored, At
    <3>4. CASE t = "main"
      <4>1. \/ At("setting") /\ countryDB' # Nil
            \/ At("clearing") /\ countryDB' = Nil
        BY <3>1, <3>2, <3>4 DEF Calling, At, Setters
      <4>2. QED
        BY <3>1, <4>1 DEF Progress, Stored, At
    <3>5. QED
      BY <3>3, <3>4 DEF Setters
  <2>3. CASE SetCloses(t)
    <3>1. /\ setter[t].pc = "close" /\ UNCHANGED <<list, countryDB>>
          /\ setter'["main"] \in {setter["main"], NoCall}
      BY <2>3 DEF SetCloses, Types, Setters
    <3>2. CASE t = "loop"
      BY <2>3, <3>1, <3>2, ProgressFrame DEF SetCloses, AfterSet, NoCall
    <3>3. CASE t = "main"
      <4>1. setter["main"].pc = "close" /\ main.pc \in {"setting", "clearing"}
        BY <3>1, <3>3 DEF Calling
      <4>2. AfterSet("main")
        BY <2>3, <3>3 DEF SetCloses
      <4>3. \/ At("setting") /\ main' = [pc |-> "starting", list |-> 1]
            \/ At("clearing") /\ main' = [pc |-> "cleaned", list |-> 1]
        BY <4>1, <4>2 DEF AfterSet, Goto, At
      <4>4. QED
        BY <3>1, <4>1, <4>3 DEF Progress, Stored, At
    <3>4. QED
      BY <3>2, <3>3 DEF Setters
  <2>4. QED
    BY <1>5, <2>1, <2>2, <2>3 DEF SetCountryDB
<1>6. ASSUME NEW r \in Requests, Arrives(r) \/ Lookup(r) PROVE Progress'
  BY <1>6, ProgressFrame DEF Arrives, Lookup, LookupStarts, LookupEnds, database
<1>7. QED
  BY <1>1, <1>2, <1>3, <1>4, <1>5, <1>6 DEF Next

-----------------------------------------------------------------------------
(* The theorems.                                                            *)

\* Every step of an instance keeps the invariant.
LEMMA StepIInv == IInv /\ [Next]_vars => IInv'
<1> SUFFICES ASSUME IInv, [Next]_vars PROVE IInv'
  OBVIOUS
<1>1. CASE Next
  BY <1>1, TypesKept, ControlKept, CallingKept, AccountedKept, LockedKept, VersionsKept,
    ProgressKept DEF IInv
<1>2. CASE UNCHANGED vars
  <2>1. Types'
    BY <1>2 DEF IInv, Types, vars, MainStates, CallStates, PerPart
  <2>2. Control' /\ Calling'
    BY <1>2, ControlFrame, CallingFrame DEF IInv, vars
  <2>3. ReadersAccounted' /\ Locked'
    BY <1>2 DEF IInv, vars, ReadersAccounted, InUse, Locked
  <2>4. Versions' /\ Progress'
    BY <1>2, ProgressFrame DEF IInv, vars, Versions, Loads, At
  <2>5. QED
    BY <2>1, <2>2, <2>3, <2>4 DEF IInv
<1>3. QED
  BY <1>1, <1>2

\* The inductive invariant holds in every state of an instance.
THEOREM InstanceInvariant == Spec => []IInv
BY InitIInv, StepIInv, PTL DEF Spec

\* TypeOK: the variables keep their types, a tick or a loaded part belongs to a loop
\* or a Provision that will use it, and the write lock to the caller that is swapping.
THEOREM TypeCorrect == Spec => []TypeOK
<1>1. IInv => TypeOK
  <2> SUFFICES ASSUME IInv PROVE TypeOK
    OBVIOUS
  <2>1. Cardinality(Lists) = 3
    <3>1. Lists = 1 .. 3
      BY DEF Lists, Allowlist, Blacklist, Country
    <3>2. 1 \in Int /\ 3 \in Int
      OBVIOUS
    <3>3. Cardinality(1 .. 3) = IF 1 > 3 THEN 0 ELSE 3 - 1 + 1
      BY <3>2, FS_Interval, Zenon
    <3>4. QED
      BY <3>1, <3>3
  <2>2. main.list \in 1 .. Cardinality(Lists) + 1
    BY <2>1 DEF IInv, Types, MainStates
  <2>3. main.pc \in {"new", "loading", "setting", "starting", "running", "failed",
                     "stopping", "waiting", "clearing", "cleaned"}
    BY DEF IInv, Types, MainStates
  <2>4. ASSUME NEW l \in Lists, ticker[l] \/ loaded[l] # Nothing
        PROVE  loop[l] # "off" \/ At("loading")
    <3>1. loaded[l] # Nothing => \E p \in Parts : loaded[l][p] # 0
      <4>1. loaded[l] \in [Parts -> 0 .. MaxVersion]
        BY DEF IInv, Types, PerPart
      <4>2. (\A p \in Parts : loaded[l][p] = 0) => loaded[l] = Nothing
        BY <4>1 DEF Nothing
      <4>3. QED
        BY <4>2
    <3>2. QED
      BY <2>4, <3>1 DEF IInv, Control, Versions, Alive, Loads
  <2>5. mu.readers \subseteq Requests /\ (mu.writer = Nil \/ setter[mu.writer].pc = "swap")
    BY DEF IInv, Types, Calling
  <2>6. QED
    BY <2>2, <2>3, <2>4, <2>5 DEF TypeOK, IInv, Types, PerPart
<1>2. QED
  BY <1>1, InstanceInvariant, PTL

\* NoLookupOnClosedReader: a lookup never works on a reader that was closed under it.
THEOREM LookupsReadOpenReaders == Spec => []NoLookupOnClosedReader
<1>1. IInv => NoLookupOnClosedReader
  BY DEF IInv, Types, Locked, ReadersAccounted, InUse, NoLookupOnClosedReader
<1>2. QED
  BY <1>1, InstanceInvariant, PTL

\* ReadersAccounted: no refresh loses a reader, and none is closed twice.
THEOREM NoReaderIsLost == Spec => []ReadersAccounted
BY InstanceInvariant, PTL DEF IInv

\* CleanupReleasesAll: when Cleanup has returned, no loop and no reader is left.
THEOREM CleanupLeavesNothing == Spec => []CleanupReleasesAll
<1>1. IInv => CleanupReleasesAll
  <2> SUFFICES ASSUME IInv, At("cleaned") PROVE CleanupReleasesAll
    BY DEF CleanupReleasesAll
  <2>1. \A l \in Lists : loop[l] \in {"off", "exited"} /\ stop[l] = "nil"
    BY DEF IInv, Types, Control, Alive, At
  <2>2. \A t \in Setters : setter[t] = NoCall
    BY <2>1 DEF IInv, Calling, At, Setters, Lists
  <2>3. countryDB = Nil
    BY DEF IInv, Progress
  <2>4. InUse = {Nil}
    BY <2>2, <2>3 DEF InUse, NoCall
  <2>5. \A i \in Readers : reader[i] = 0
    BY <2>4, LifecycleAssumption DEF IInv, ReadersAccounted
  <2>6. QED
    BY <2>1, <2>3, <2>5 DEF CleanupReleasesAll
<1>2. QED
  BY <1>1, InstanceInvariant, PTL

\* RunningInstanceIsComplete: a running instance has every list it was configured
\* with, however many refreshes fail half-way.
THEOREM RunningIsComplete == Spec => []RunningInstanceIsComplete
<1>1. IInv => RunningInstanceIsComplete
  <2> SUFFICES ASSUME IInv, At("running"), NEW l \in Lists, NEW p \in SourcesOf[l]
               PROVE  Published(l)[p] # 0
    BY DEF RunningInstanceIsComplete
  <2>1. CASE l # Country
    <3>1. l \in {Allowlist, Blacklist}
      BY <2>1 DEF Lists
    <3>2. QED
      BY <2>1, <3>1 DEF IInv, Progress, Stored, Published, At
  <2>2. CASE l = Country
    <3>1. p = URL /\ HasCountryRules
      BY <2>2, LifecycleAssumption DEF HasCountryRules
    <3>2. countryDB \in Readers /\ countryDB \in InUse /\ countryDB # Nil
      BY <3>1 DEF IInv, Progress, Types, InUse, At
    <3>3. reader[countryDB] # 0
      BY <3>2 DEF IInv, ReadersAccounted
    <3>4. Published(l)[URL] = reader[countryDB]
      BY <2>2, <3>2 DEF Published, Parts
    <3>5. QED
      BY <3>1, <3>3, <3>4
  <2>3. QED
    BY <2>1, <2>2
<1>2. QED
  BY <1>1, InstanceInvariant, PTL

-----------------------------------------------------------------------------
(* The published lists behave as Snapshots says.                            *)

\* Steps that publish nothing are invisible.
LEMMA Invisible ==
    ASSUME UNCHANGED <<list, countryDB>>,
           countryDB # Nil => reader'[countryDB] = reader[countryDB],
           At("cleaned") <=> At("cleaned")'
    PROVE  UNCHANGED Abstract!vars
<1>1. \A l \in Lists : Published(l)' = Published(l)
  BY DEF Published
<1>2. [l \in Lists |-> Published(l)]' = [l \in Lists |-> Published(l)]
  BY <1>1
<1>3. At("cleaned")' = At("cleaned")
  BY DEF At
<1>4. QED
  BY <1>2, <1>3 DEF Abstract!vars

\* A complete list that replaces one no newer in any part is a Publish.
LEMMA Publishes ==
    ASSUME ~At("cleaned"), ~At("cleaned")',
           NEW l \in Lists, NEW next \in [Parts -> 0 .. MaxVersion],
           \A p \in Parts : next[p] # 0 <=> p \in SourcesOf[l],
           \A p \in Parts : next[p] >= Published(l)[p],
           Published(l)' = next,
           \A m \in Lists \ {l} : Published(m)' = Published(m)
    PROVE  Abstract!Next
<1>1. [m \in Lists |-> Published(m)]'
        = [[m \in Lists |-> Published(m)] EXCEPT ![l] = next]
  OBVIOUS
<1>2. At("cleaned")' = At("cleaned")
  BY DEF At
<1>3. Abstract!Publish(l, next)
  BY <1>1, <1>2 DEF Abstract!Publish
<1>4. QED
  BY <1>3 DEF Abstract!Next

\* Storing an IP list publishes it.
LEMMA StorePublishes ==
    ASSUME IInv, ~At("cleaned"), ~At("cleaned")',
           NEW l \in Lists, l # Country, Ready(l),
           list' = [list EXCEPT ![l] = loaded[l]], UNCHANGED <<countryDB, reader>>
    PROVE  Abstract!Next
<1>1. loaded[l] \in [Parts -> 0 .. MaxVersion] /\ list[l] \in [Parts -> 0 .. MaxVersion]
  BY DEF IInv, Types, PerPart
<1>2. \A p \in Parts : /\ loaded[l][p] # 0 <=> p \in SourcesOf[l]
                       /\ loaded[l][p] >= list[l][p]
  BY <1>1, LifecycleAssumption DEF IInv, Versions, Ready
<1>3. Published(l) = list[l] /\ Published(l)' = loaded[l]
  BY DEF Published, IInv, Types, PerPart
<1>4. \A m \in Lists \ {l} : Published(m)' = Published(m)
  BY DEF Published, IInv, Types, PerPart
<1>5. QED
  BY <1>1, <1>2, <1>3, <1>4, Publishes

\* Swapping the pointer publishes the new country database, or withdraws it.
LEMMA SwapPublishes ==
    ASSUME IInv, NEW t \in Setters, SetSwaps(t)
    PROVE  Abstract!Next
<1>1. /\ setter[t].pc = "swap" /\ UNCHANGED <<main, loop, list, reader>>
      /\ countryDB' = setter[t].next /\ setter[t].next \in Readers \cup {Nil}
  BY SwapEffect DEF SetSwaps, IInv
<1>2. At("setting") \/ At("clearing") \/ loop[Country] = "setting"
  BY <1>1 DEF IInv, Calling, At, Setters
<1>3. Country \in Lists /\ URL \in Parts
  BY DEF Lists, Parts
<1>4. ~At("cleaned") /\ ~At("cleaned")'
  BY <1>1, <1>2, <1>3 DEF IInv, Control, Alive, At
<1>5. \A m \in Lists \ {Country} : Published(m)' = Published(m)
  BY <1>1 DEF Published
<1>6. CASE setter[t].next = Nil
  <2>1. Published(Country)' = Nothing
    BY <1>1, <1>6 DEF Published, Nothing
  <2>2. [m \in Lists |-> Published(m)]'
          = [[m \in Lists |-> Published(m)] EXCEPT ![Country] = Abstract!Nothing]
    BY <2>1, <1>5 DEF Nothing, Abstract!Nothing
  <2>3. At("cleaned")' = At("cleaned")
    BY <1>4 DEF At
  <2>4. Abstract!Withdraw(Country)
    BY <2>2, <2>3, <1>4 DEF Abstract!Withdraw
  <2>5. QED
    BY <2>4, <1>3 DEF Abstract!Next
<1>7. CASE setter[t].next # Nil
  <2> DEFINE new  == setter[t].next
             next == [p \in Parts |-> IF p = URL THEN reader[new] ELSE 0]
  <2>1. new \in Readers /\ new \in InUse /\ reader[new] \in 1 .. MaxVersion
    BY <1>1, <1>7, LifecycleAssumption DEF InUse, IInv, ReadersAccounted, Types
  <2>2. ~At("clearing")
    <3>1. CASE t = "main"
      BY <1>7, <3>1 DEF IInv, Calling
    <3>2. CASE t = "loop"
      BY <1>1, <1>3, <3>2 DEF IInv, Calling, Control, Alive, At, Setters
    <3>3. QED
      BY <3>1, <3>2 DEF Setters
  <2>3. HasCountryRules
    BY <1>2, <1>3, <2>2, LifecycleAssumption DEF IInv, Control, HasCountryRules
  <2>4. SourcesOf[Country] = {URL}
    BY <2>3, LifecycleAssumption DEF HasCountryRules
  <2>5. next \in [Parts -> 0 .. MaxVersion]
    BY <2>1, LifecycleAssumption
  <2>6. \A p \in Parts : next[p] # 0 <=> p \in SourcesOf[Country]
    BY <2>1, <2>4
  <2>7. \A p \in Parts : next[p] >= Published(Country)[p]
    <3>1. countryDB # Nil => countryDB \in Readers /\ reader[countryDB] <= reader[new]
      BY <1>7 DEF IInv, Versions, Types
    <3>2. \A p \in Parts : Published(Country)[p]
            = IF p = URL /\ countryDB # Nil THEN reader[countryDB] ELSE 0
      BY DEF Published
    <3>3. QED
      BY <3>1, <3>2, <2>1, LifecycleAssumption
  <2>8. Published(Country)' = next
    BY <1>1, <1>7 DEF Published
  <2> HIDE DEF next
  <2>9. QED
    BY <1>3, <1>4, <1>5, <2>5, <2>6, <2>7, <2>8, Publishes
<1>8. QED
  BY <1>6, <1>7

\* Every step of an instance is a step of Snapshots, or invisible.
LEMMA StepRefines == IInv /\ [Next]_vars => [Abstract!Next]_(Abstract!vars)
<1> SUFFICES ASSUME IInv, [Next]_vars
             PROVE  Abstract!Next \/ UNCHANGED Abstract!vars
  OBVIOUS
<1>a. /\ loop \in [Lists -> {"off", "select", "loading", "setting", "exited"}]
      /\ Country \in Lists
  BY DEF IInv, Types, Lists
<1>b. ASSUME NEW l \in Lists, Loads(l) PROVE ~At("cleaned")
  BY <1>b DEF IInv, Control, Loads, Alive, At
<1>c. ASSUME UNCHANGED <<list, countryDB>>, NEW i \in Readers, OpensReader(i),
             ~At("cleaned"), ~At("cleaned")'
      PROVE  UNCHANGED Abstract!vars
  <2>1. countryDB # Nil => reader'[countryDB] = reader[countryDB]
    BY <1>c DEF OpensReader, InUse, IInv, Types
  <2>2. QED
    BY <1>c, <2>1, Invisible
<1>1. ASSUME NEW l \in Lists, NEW p \in Parts, SourceChanges(l, p)
      PROVE  UNCHANGED Abstract!vars
  BY <1>1, Invisible DEF SourceChanges, At, database
<1>2. CASE Provision
  <2>1. ASSUME NEW l \in Lists, MainStores(l) PROVE Abstract!Next
    <3>1. ~At("cleaned") /\ ~At("cleaned")'
      BY <2>1 DEF MainStores, Goto, At
    <3>2. QED
      BY <2>1, <3>1, StorePublishes DEF MainStores, database
  <2>2. ASSUME NEW i \in Readers, MainOpens(i) PROVE UNCHANGED Abstract!vars
    BY <2>2, <1>c DEF MainOpens, Goto, At
  <2>3. CASE StartsLoop \/ ProvisionStarts \/ ProvisionRejects \/ ProvisionReturns
    BY <2>3, Invisible
      DEF StartsLoop, ProvisionStarts, ProvisionRejects, ProvisionReturns, Goto, At, database
  <2>4. QED
    BY <1>2, <2>1, <2>2, <2>3 DEF Provision
<1>3. CASE CleanupStarts \/ Cleanup
  BY <1>3, Invisible DEF CleanupStarts, Cleanup, SkipsLoop, StopsLoop, WaitsForLoop,
    CleanupClears, Goto, At, database
<1>4. ASSUME NEW l \in Lists, Load(l) \/ Loop(l) \/ Tick(l)
      PROVE  Abstract!Next \/ UNCHANGED Abstract!vars
  <2>1. CASE LoadFails(l)
    BY <2>1, <1>b, Invisible DEF LoadFails, Goto, At, database
  <2>2. ASSUME NEW p \in Parts, ReadPart(l, p) PROVE UNCHANGED Abstract!vars
    BY <2>2, Invisible DEF ReadPart, At, database
  <2>3. CASE TakesTick(l) \/ TakesStop(l) \/ Tick(l)
    BY <2>3, Invisible DEF TakesTick, TakesStop, Tick, At, database
  <2>4. CASE LoopStores(l)
    BY <2>4, <1>b, StorePublishes DEF LoopStores, Loads, At, database
  <2>5. ASSUME NEW i \in Readers, LoopOpens(i) PROVE UNCHANGED Abstract!vars
    BY <2>5, <1>a, <1>b, <1>c DEF LoopOpens, Loads, At
  <2>6. QED
    BY <1>4, <2>1, <2>2, <2>3, <2>4, <2>5 DEF Load, Loop
<1>5. ASSUME NEW t \in Setters, SetCountryDB(t)
      PROVE  Abstract!Next \/ UNCHANGED Abstract!vars
  <2>1. CASE SetLocks(t)
    BY <2>1, Invisible DEF SetLocks, At
  <2>2. CASE SetSwaps(t)
    BY <2>2, SwapPublishes
  <2>3. CASE SetCloses(t)
    <3>1. /\ UNCHANGED <<list, countryDB>>
          /\ countryDB # Nil => reader'[countryDB] = reader[countryDB]
      BY <2>3 DEF SetCloses, IInv, ReadersAccounted, Types
    <3>2. CASE At("cleaned") <=> At("cleaned")'
      BY <3>1, <3>2, Invisible
    <3>3. CASE ~(At("cleaned") <=> At("cleaned")')
      <4>1. ~At("cleaned") /\ At("cleaned")'
        <5>1. setter[t].pc = "close"
          BY <2>3 DEF SetCloses
        <5>2. ~At("cleaned")
          BY <5>1, <1>a DEF IInv, Calling, Control, Alive, At, Setters
        <5>3. QED
          BY <5>2, <3>3
      <4>2. [l \in Lists |-> Published(l)]' = [l \in Lists |-> Published(l)]
        BY <3>1 DEF Published
      <4>3. Abstract!Close
        BY <4>1, <4>2 DEF Abstract!Close, At
      <4>4. QED
        BY <4>3 DEF Abstract!Next
    <3>4. QED
      BY <3>2, <3>3
  <2>4. QED
    BY <1>5, <2>1, <2>2, <2>3 DEF SetCountryDB
<1>6. ASSUME NEW r \in Requests, Arrives(r) \/ Lookup(r) PROVE UNCHANGED Abstract!vars
  BY <1>6, Invisible DEF Arrives, Lookup, LookupStarts, LookupEnds, At, database
<1>7. CASE UNCHANGED vars
  BY <1>7, Invisible DEF vars, At
<1>8. QED
  BY <1>1, <1>2, <1>3, <1>4, <1>5, <1>6, <1>7 DEF Next

\* ImplementsSnapshots: requests see every list replaced as a whole, by a complete one
\* no older in any source, and never again once Cleanup has returned.
THEOREM InstanceImplementsSnapshots == Spec => ImplementsSnapshots
<1>1. Init => Abstract!Init
  <2> SUFFICES ASSUME Init PROVE Abstract!Init
    OBVIOUS
  <2>1. \A l \in Lists : Published(l) = Nothing
    BY DEF Init, Published, Nothing
  <2>2. ~At("cleaned")
    BY DEF Init, At
  <2>3. QED
    BY <2>1, <2>2 DEF Abstract!Init, Abstract!Nothing, Nothing, At
<1>2. QED
  BY <1>1, StepRefines, InstanceInvariant, PTL DEF Spec, ImplementsSnapshots, Abstract!Spec
=============================================================================
