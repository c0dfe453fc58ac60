------------------------- MODULE ConfigurationProofs -------------------------
(***************************************************************************)
(* A configuration that Validate has accepted stays accepted and unchanged   *)
(* when it is validated again, its directives take effect and its URLs can    *)
(* be called: for every file, every width of a word and every set of codes.   *)
(*                                                                          *)
(* The country codes are normalised by a fold.  What it computes is shown by  *)
(* induction on the length of the list, and induction is the statement that   *)
(* a set of numbers without a least element is empty.                        *)
(***************************************************************************)
EXTENDS Configuration, SequenceTheorems, WellFoundedInduction, TLAPS

-----------------------------------------------------------------------------
(* Induction.                                                               *)

\* A set that holds 0, and with every number its successor, holds them all.
LEMMA Induction ==
    ASSUME NEW P \in SUBSET Nat, 0 \in P, \A n \in P : n + 1 \in P
    PROVE  P = Nat
<1> DEFINE R == OpToRel(<, Nat)
           T == Nat \ P
<1>1. IsWellFoundedOn(R, Nat)
  BY NatLessThanWellFounded
<1>2. \A m, n \in Nat : m < n => <<m, n>> \in R
  BY DEF OpToRel
<1> HIDE DEF R
<1> SUFFICES ASSUME T # {} PROVE FALSE
  OBVIOUS
<1>3. PICK n \in T : \A m \in T : ~(<<m, n>> \in R)
  BY <1>1, WFMin
<1>4. n \in Nat /\ n # 0
  OBVIOUS
<1>5. n - 1 \in Nat /\ n - 1 \notin P
  <2>1. n - 1 \in Nat /\ (n - 1) + 1 = n
    BY <1>4
  <2>2. QED
    BY <2>1
<1>6. <<n - 1, n>> \in R
  BY <1>2, <1>4, <1>5
<1>7. QED
  BY <1>3, <1>5, <1>6

-----------------------------------------------------------------------------
(* normalizeCountryCodes.                                                   *)

Codes == DOMAIN Canonical

\* One turn of its loop.
Turn(seen, code) ==
    IF Contains(seen, Canonical[code]) THEN seen ELSE Append(seen, Canonical[code])

\* The recursion that the fold stands for, on the sets of indices up to n.
Folds(g, codes, n) ==
    g = [s \in SUBSET (1 .. n) |->
            IF s = {} THEN <<>> ELSE Turn(g[s \ {Max(s)}], codes[Max(s)])]

\* The largest of a set of indices, if the last one is in it.
LEMMA LastIsMax ==
    ASSUME NEW n \in Nat, NEW s \in SUBSET (1 .. n + 1), n + 1 \in s
    PROVE  Max(s) = n + 1
<1>1. \A y \in s : y \in Int /\ n + 1 >= y
  OBVIOUS
<1>2. \A x \in s : (\A y \in s : x >= y) <=> x = n + 1
  BY <1>1
<1>3. Max(s) \in s /\ \A y \in s : Max(s) >= y
  BY <1>1, Zenon DEF Max
<1>4. QED
  BY <1>2, <1>3

\* There is such a function, for every length.
LEMMA FoldExists ==
    ASSUME NEW codes
    PROVE  \A n \in Nat : \E g : Folds(g, codes, n)
<1> DEFINE P == {n \in Nat : \E g : Folds(g, codes, n)}
<1>1. 0 \in P
  <2> DEFINE g == [s \in SUBSET (1 .. 0) |-> <<>>]
  <2>1. Folds(g, codes, 0)
    BY DEF Folds
  <2>2. QED
    BY <2>1
<1>2. ASSUME NEW n \in P PROVE n + 1 \in P
  <2>1. PICK g : Folds(g, codes, n)
    OBVIOUS
  <2> DEFINE h == [s \in SUBSET (1 .. n + 1) |->
                      IF n + 1 \in s THEN Turn(g[s \ {n + 1}], codes[n + 1]) ELSE g[s]]
  <2>2. ASSUME NEW s \in SUBSET (1 .. n + 1)
        PROVE  h[s] = IF s = {} THEN <<>> ELSE Turn(h[s \ {Max(s)}], codes[Max(s)])
    <3>1. CASE n + 1 \in s
      <4>1. Max(s) = n + 1
        BY <3>1, LastIsMax
      <4>2. s \ {n + 1} \in SUBSET (1 .. n) /\ s \ {n + 1} \in SUBSET (1 .. n + 1)
        OBVIOUS
      <4>3. h[s \ {n + 1}] = g[s \ {n + 1}]
        BY <4>2
      <4>4. h[s] = Turn(g[s \ {n + 1}], codes[n + 1])
        BY <3>1
      <4>5. QED
        BY <3>1, <4>1, <4>3, <4>4
    <3>2. CASE n + 1 \notin s
      <4>1. s \in SUBSET (1 .. n)
        BY <3>2
      <4>2. h[s] = g[s] /\ h[s \ {Max(s)}] = g[s \ {Max(s)}]
        BY <3>2
      <4>3. g[s] = IF s = {} THEN <<>> ELSE Turn(g[s \ {Max(s)}], codes[Max(s)])
        BY <2>1, <4>1 DEF Folds
      <4>4. QED
        BY <4>2, <4>3
    <3>3. QED
      BY <3>1, <3>2
  <2>3. Folds(h, codes, n + 1)
    <3>1. h = [s \in SUBSET (1 .. n + 1) |->
                  IF s = {} THEN <<>> ELSE Turn(h[s \ {Max(s)}], codes[Max(s)])]
      <4> DEFINE k == [s \in SUBSET (1 .. n + 1) |->
                  IF s = {} THEN <<>> ELSE Turn(h[s \ {Max(s)}], codes[Max(s)])]
      <4>1. \A s \in SUBSET (1 .. n + 1) : h[s] = k[s]
        BY <2>2
      <4>2. QED
        BY <4>1, Zenon
    <3> HIDE DEF h
    <3>2. QED
      BY <3>1 DEF Folds
  <2> HIDE DEF h
  <2>4. QED
    BY <2>3
<1> HIDE DEF P
<1>3. P = Nat
  <2>1. P \in SUBSET Nat
    BY DEF P
  <2>2. QED
    BY <1>1, <1>2, <2>1, Induction
<1>4. QED
  BY <1>3 DEF P

\* The loop: it starts with nothing and takes one turn for each code.
LEMMA NormalizationRuns ==
    ASSUME NEW codes \in Seq(Codes)
    PROVE  \E h : /\ h[0] = <<>>
                  /\ \A i \in 1 .. Len(codes) : h[i] = Turn(h[i - 1], codes[i])
                  /\ normalizeCountryCodes(codes) = h[Len(codes)]
<1> DEFINE g == CHOOSE iter : iter =
                  [s \in SUBSET (DOMAIN codes) |->
                      IF s = {} THEN <<>> ELSE Turn(iter[s \ {Max(s)}], codes[Max(s)])]
<1>1. normalizeCountryCodes(codes) = g[DOMAIN codes]
  BY DEF normalizeCountryCodes, FoldLeft, MapThenFoldSet, Turn
<1>2. DOMAIN codes = 1 .. Len(codes) /\ Len(codes) \in Nat
  OBVIOUS
<1>3. Folds(g, codes, Len(codes))
  <2>1. \E iter : Folds(iter, codes, Len(codes))
    BY <1>2, FoldExists
  <2>2. QED
    BY <1>2, <2>1 DEF Folds
<1> HIDE DEF g
<1> DEFINE h == [i \in 0 .. Len(codes) |-> g[1 .. i]]
<1>4. h[0] = <<>>
  <2>1. 1 .. 0 = {} /\ {} \in SUBSET (1 .. Len(codes))
    OBVIOUS
  <2>2. QED
    BY <1>2, <1>3, <2>1 DEF Folds
<1>5. ASSUME NEW i \in 1 .. Len(codes) PROVE h[i] = Turn(h[i - 1], codes[i])
  <2>1. i - 1 \in Nat /\ (i - 1) + 1 = i /\ i - 1 \in 0 .. Len(codes)
    BY <1>2
  <2>2. Max(1 .. i) = i
    <3>1. 1 .. i \in SUBSET (1 .. (i - 1) + 1) /\ (i - 1) + 1 \in 1 .. i
      BY <2>1
    <3>2. QED
      BY <2>1, <3>1, LastIsMax
  <2>3. (1 .. i) \ {i} = 1 .. (i - 1) /\ 1 .. i # {} /\ 1 .. i \in SUBSET (1 .. Len(codes))
    <3>1. i \in Int /\ 1 <= i /\ i <= Len(codes) /\ Len(codes) \in Int
      BY <1>2
    <3>2. \A k : k \in (1 .. i) \ {i} <=> k \in 1 .. (i - 1)
      BY <3>1
    <3>3. i \in 1 .. i /\ \A k \in 1 .. i : k \in 1 .. Len(codes)
      BY <3>1
    <3>4. QED
      BY <3>2, <3>3
  <2>4. g[1 .. i] = Turn(g[1 .. (i - 1)], codes[i])
    BY <1>3, <2>2, <2>3 DEF Folds
  <2>5. QED
    BY <1>2, <2>1, <2>4
<1>6. normalizeCountryCodes(codes) = h[Len(codes)]
  BY <1>1, <1>2
<1> HIDE DEF h
<1>7. QED
  BY <1>4, <1>5, <1>6

\* A list that needs no normalisation.
Normal(codes) ==
    /\ codes \in Seq(Codes)
    /\ \A i \in DOMAIN codes : Canonical[codes[i]] = codes[i]
    /\ \A i, j \in DOMAIN codes : codes[i] = codes[j] => i = j

\* The list holds the canonical forms of the first n codes, and nothing else.
Covers(seen, codes, n) ==
    /\ \A i \in DOMAIN seen : \E j \in 1 .. n : seen[i] = Canonical[codes[j]]
    /\ \A j \in 1 .. n : \E i \in DOMAIN seen : seen[i] = Canonical[codes[j]]

\* A turn keeps the list normal and makes it cover one code more.
LEMMA TurnFacts ==
    ASSUME NEW codes \in Seq(Codes), NEW n \in Nat, n + 1 \in 1 .. Len(codes),
           NEW seen, Normal(seen), Covers(seen, codes, n)
    PROVE  /\ Normal(Turn(seen, codes[n + 1]))
           /\ Covers(Turn(seen, codes[n + 1]), codes, n + 1)
<1> DEFINE c == Canonical[codes[n + 1]]
<1>1. c \in Codes /\ Canonical[c] = c
  BY ConfigurationAssumption DEF Codes
<1>2. seen \in Seq(Codes) /\ DOMAIN seen = 1 .. Len(seen) /\ Len(seen) \in Nat
  BY DEF Normal
<1>3. \A j : j \in 1 .. n + 1 <=> j \in 1 .. n \/ j = n + 1
  OBVIOUS
<1>4. CASE Contains(seen, c)
  <2>1. Turn(seen, codes[n + 1]) = seen
    BY <1>4 DEF Turn
  <2>2. \E i \in DOMAIN seen : seen[i] = c
    BY <1>2, <1>4 DEF Contains
  <2>3. Covers(seen, codes, n + 1)
    BY <1>3, <2>2 DEF Covers
  <2>4. QED
    BY <2>1, <2>3
<1>5. CASE ~Contains(seen, c)
  <2> DEFINE t == Append(seen, c)
  <2>1. Turn(seen, codes[n + 1]) = t
    BY <1>5 DEF Turn
  <2>2. /\ t \in Seq(Codes) /\ DOMAIN t = 1 .. Len(seen) + 1
        /\ \A i \in 1 .. Len(seen) : t[i] = seen[i]
        /\ t[Len(seen) + 1] = c
    BY <1>1, <1>2
  <2>3. \A i \in 1 .. Len(seen) : seen[i] # c
    BY <1>5 DEF Contains
  <2>4. \A i : i \in DOMAIN t <=> i \in DOMAIN seen \/ i = Len(seen) + 1
    BY <1>2, <2>2
  <2> HIDE DEF t, c
  <2>5. Normal(t)
    <3>1. \A i \in DOMAIN t : Canonical[t[i]] = t[i]
      BY <1>1, <1>2, <2>2, <2>4 DEF Normal
    <3>2. \A i, j \in DOMAIN t : t[i] = t[j] => i = j
      BY <1>2, <2>2, <2>3, <2>4 DEF Normal
    <3>3. QED
      BY <2>2, <3>1, <3>2 DEF Normal
  <2>6. Covers(t, codes, n + 1)
    <3>1. ASSUME NEW i \in DOMAIN t PROVE \E j \in 1 .. n + 1 : t[i] = Canonical[codes[j]]
      <4>1. CASE i \in DOMAIN seen
        <5>1. t[i] = seen[i]
          BY <1>2, <2>2, <4>1
        <5>2. PICK j \in 1 .. n : seen[i] = Canonical[codes[j]]
          BY <4>1 DEF Covers
        <5>3. QED
          BY <1>3, <5>1, <5>2
      <4>2. CASE i = Len(seen) + 1
        BY <1>3, <2>2, <4>2 DEF c
      <4>3. QED
        BY <2>4, <3>1, <4>1, <4>2
    <3>2. \A j \in 1 .. n + 1 : \E i \in DOMAIN t : t[i] = Canonical[codes[j]]
      BY <1>2, <1>3, <2>2, <2>4 DEF Covers, c
    <3>3. QED
      BY <3>1, <3>2 DEF Covers
  <2>7. QED
    BY <2>1, <2>5, <2>6
<1>6. QED
  BY <1>4, <1>5

\* normalizeCountryCodes yields the canonical forms of the codes, each once, and loses
\* none of them.
LEMMA NormalizationFacts ==
    ASSUME NEW codes \in Seq(Codes)
    PROVE  /\ Normal(normalizeCountryCodes(codes))
           /\ Covers(normalizeCountryCodes(codes), codes, Len(codes))
<1>1. PICK h : /\ h[0] = <<>>
               /\ \A i \in 1 .. Len(codes) : h[i] = Turn(h[i - 1], codes[i])
               /\ normalizeCountryCodes(codes) = h[Len(codes)]
  BY NormalizationRuns
<1> DEFINE P == {n \in Nat : n <= Len(codes) => Normal(h[n]) /\ Covers(h[n], codes, n)}
<1>2. 0 \in P
  <2>1. <<>> \in Seq(Codes) /\ DOMAIN <<>> = {} /\ 1 .. 0 = {}
    OBVIOUS
  <2>2. Normal(<<>>) /\ Covers(<<>>, codes, 0)
    BY <2>1 DEF Normal, Covers
  <2>3. QED
    BY <1>1, <2>2
<1>3. ASSUME NEW n \in P PROVE n + 1 \in P
  <2> SUFFICES ASSUME n + 1 <= Len(codes)
               PROVE  Normal(h[n + 1]) /\ Covers(h[n + 1], codes, n + 1)
    OBVIOUS
  <2>1. n \in Nat /\ n + 1 \in 1 .. Len(codes) /\ (n + 1) - 1 = n /\ n <= Len(codes)
    OBVIOUS
  <2>2. Normal(h[n]) /\ Covers(h[n], codes, n)
    BY <2>1
  <2>3. h[n + 1] = Turn(h[n], codes[n + 1])
    BY <1>1, <2>1
  <2>4. QED
    BY <2>1, <2>2, <2>3, TurnFacts
<1>4. P \in SUBSET Nat
  OBVIOUS
<1>5. Len(codes) \in Nat
  OBVIOUS
<1> HIDE DEF P
<1>6. Len(codes) \in P
  BY <1>2, <1>3, <1>4, <1>5, Induction
<1>7. QED
  BY <1>1, <1>5, <1>6 DEF P

\* A list that needs no normalisation is left as it is.
LEMMA NormalIsFixed ==
    ASSUME NEW codes, Normal(codes)
    PROVE  normalizeCountryCodes(codes) = codes
<1>1. codes \in Seq(Codes) /\ Len(codes) \in Nat /\ DOMAIN codes = 1 .. Len(codes)
  BY DEF Normal
<1>2. PICK h : /\ h[0] = <<>>
               /\ \A i \in 1 .. Len(codes) : h[i] = Turn(h[i - 1], codes[i])
               /\ normalizeCountryCodes(codes) = h[Len(codes)]
  BY <1>1, NormalizationRuns
<1> DEFINE first(n) == [i \in 1 .. n |-> codes[i]]
           P == {n \in Nat : n <= Len(codes) => h[n] = first(n)}
<1>3. 0 \in P
  BY <1>2
<1>4. ASSUME NEW n \in P PROVE n + 1 \in P
  <2> SUFFICES ASSUME n + 1 <= Len(codes) PROVE h[n + 1] = first(n + 1)
    OBVIOUS
  <2>1. n \in Nat /\ n + 1 \in 1 .. Len(codes) /\ (n + 1) - 1 = n /\ n <= Len(codes)
    BY <1>1
  <2>2. h[n + 1] = Turn(first(n), codes[n + 1])
    BY <1>2, <2>1
  <2>3. Canonical[codes[n + 1]] = codes[n + 1] /\ codes[n + 1] \in Codes
    BY <1>1, <2>1 DEF Normal
  <2>4. first(n) \in Seq(Codes) /\ Len(first(n)) = n
    <3>1. \A i \in 1 .. n : i \in 1 .. Len(codes) /\ codes[i] \in Codes
      BY <1>1, <2>1
    <3> DEFINE s == first(n)
    <3>2. s \in [1 .. n -> Codes] /\ n \in Nat
      BY <2>1, <3>1
    <3> HIDE DEF s
    <3>3. s \in Seq(Codes) /\ Len(s) = n
      BY <3>2
    <3>4. QED
      BY <3>3 DEF s
  <2>5. \A i \in 1 .. n : first(n)[i] # codes[n + 1]
    BY <1>1, <2>1 DEF Normal
  <2>6. h[n + 1] = Append(first(n), codes[n + 1])
    BY <2>2, <2>3, <2>4, <2>5 DEF Turn, Contains
  <2>7. Append(first(n), codes[n + 1]) = first(n + 1)
    <3>1. DOMAIN Append(first(n), codes[n + 1]) = 1 .. n + 1
      BY <2>3, <2>4
    <3>2. \A i \in 1 .. n + 1 : Append(first(n), codes[n + 1])[i] = codes[i]
      BY <2>1, <2>3, <2>4
    <3>3. Append(first(n), codes[n + 1]) \in Seq(Codes)
      BY <2>3, <2>4
    <3>4. QED
      BY <3>1, <3>2, <3>3
  <2>8. QED
    BY <2>6, <2>7
<1>5. P \in SUBSET Nat
  OBVIOUS
<1> HIDE DEF P
<1>6. Len(codes) \in P
  BY <1>1, <1>3, <1>4, <1>5, Induction
<1>7. h[Len(codes)] = first(Len(codes))
  BY <1>1, <1>6 DEF P
<1>8. QED
  BY <1>1, <1>2, <1>7

-----------------------------------------------------------------------------
(* The inductive invariant, in parts.                                       *)

Items == {d[2] : d \in ListArgs} \cup Codes \cup {"ok"}

\* The types of the variables, of the lists' elements as well.
Types ==
    /\ TypeOK
    /\ list \in [ListFields -> Seq(Items)]
    /\ \A f \in CountryFields : list[f] \in Seq(Codes)

\* The duration that a directive asked for.
Given(f) == IF asked[f] = 0 THEN 0 ELSE Wrap(asked[f] * Minute)

\* Every duration is the one that was asked for last, save an allow_for of zero, which
\* has been replaced by the default.
Durations ==
    /\ \A f \in MinutesFields \ {"allow_for"} : minutes[f] = Given(f)
    /\ pc = "reading" => minutes["allow_for"] = Given("allow_for")
    /\ pc \in {"provisioned", "running"} =>
          minutes["allow_for"] = IF Given("allow_for") = 0 THEN Wrap(DefaultAllowFor * Minute)
                                 ELSE Given("allow_for")

\* What Provision has left: a configuration that is valid and loadable as it now stands,
\* whose lists need no normalisation, and the loops that it asks for.
Accepted ==
    pc \in {"provisioned", "running"} =>
        /\ Valid(minutes, text) /\ Loadable(text)
        /\ \A f \in CountryFields : Normal(list[f])
        /\ \A i \in DOMAIN list["deny_header_substring"] :
              list["deny_header_substring"][i] = "ok"
        /\ loops = {[list |-> l, interval |-> minutes[RefreshOf[l]]] :
                       l \in {k \in Lists : Refreshes(minutes, text, k)}}

IInv == Types /\ Durations /\ Accepted

-----------------------------------------------------------------------------
(* Durations and fields.                                                    *)

\* A wrapped number is a word; a number that is one is not changed.
LEMMA WrapFacts ==
    ASSUME NEW n \in Int
    PROVE  /\ Wrap(n) \in Word
           /\ 0 <= n /\ n < Half => Wrap(n) = n
<1>1. Half \in Nat /\ Half > 0 /\ 2 * Half \in Nat /\ 2 * Half > 0
  BY ConfigurationAssumption
<1>2. (n + Half) % (2 * Half) \in 0 .. 2 * Half - 1
  <2> DEFINE k == 2 * Half
             m == n + Half
  <2>1. k \in Nat /\ k > 0 /\ m \in Int
    BY <1>1
  <2> HIDE DEF k, m
  <2>2. m % k \in 0 .. k - 1
    BY <2>1
  <2>3. QED
    BY <2>2 DEF k, m
<1>3. 0 <= n /\ n < Half => (n + Half) % (2 * Half) = n + Half
  <2> DEFINE k == 2 * Half
             m == n + Half
  <2> SUFFICES ASSUME 0 <= n, n < Half PROVE m % k = m
    OBVIOUS
  <2>1. k \in Nat /\ k > 0 /\ m \in Nat /\ m < k
    BY <1>1
  <2> HIDE DEF k, m
  <2>2. QED
    BY <2>1
<1>4. QED
  BY <1>1, <1>2, <1>3 DEF Wrap, Word

\* A number of minutes that a word can hold stays what it is.
LEMMA MinutesFit ==
    ASSUME NEW n \in Nat
    PROVE  /\ n * Minute \in Nat /\ n * Minute = Minute * n
           /\ n # 0 => n * Minute # 0
           /\ n * Minute < Half => Wrap(n * Minute) = n * Minute
<1>1. Minute \in Nat /\ Minute > 0
  BY ConfigurationAssumption
<1>2. n * Minute \in Nat /\ n * Minute = Minute * n
  BY <1>1
<1>3. n # 0 => n * Minute # 0
  BY <1>1
<1>4. QED
  <2> DEFINE m == n * Minute
  <2>1. m \in Nat
    BY <1>2
  <2> HIDE DEF m
  <2>2. m < Half => Wrap(m) = m
    BY <2>1, WrapFacts
  <2>3. QED
    BY <1>2, <1>3, <2>2 DEF m

\* The fields of the lists are fields, and none of them is allow_for.
LEMMA RefreshFields ==
    /\ "allow_for" \in MinutesFields
    /\ \A l \in Lists : RefreshOf[l] \in MinutesFields \ {"allow_for"}
<1>1. /\ RefreshOf["whitelist"] = "whitelist_refresh"
      /\ RefreshOf["blacklist"] = "blacklist_refresh"
      /\ RefreshOf["country"] = "country_url_refresh"
  BY Zenon DEF RefreshOf, Lists, IPLists
<1>2. \A l \in Lists : RefreshOf[l] \in MinutesFields
  BY DEF MinutesFields
<1>3. "allow_for" \in MinutesFields
  BY DEF MinutesFields
<1>4. QED
  BY <1>1, <1>2, <1>3 DEF Lists, IPLists

-----------------------------------------------------------------------------
(* Normalisation keeps what Validate has found.                             *)

\* The lists after a normalisation of some of them have their types.
LEMMA NormalizedTypes ==
    ASSUME Types, NEW done \in {{}, CountryFields, NormalizedFields}
    PROVE  /\ Normalized(done) \in [ListFields -> Seq(Items)]
           /\ \A f \in CountryFields : Normalized(done)[f] \in Seq(Codes)
<1>1. \A f \in CountryFields : list[f] \in Seq(Codes) /\ f \in ListFields
  BY DEF Types, ListFields
<1>2. \A f \in CountryFields : normalizeCountryCodes(list[f]) \in Seq(Codes)
  BY <1>1, NormalizationFacts DEF Normal
<1>3. \A s \in Seq(Codes) : s \in Seq(Items)
  BY DEF Items
<1>4. \A f \in ListFields : list[f] \in Seq(Items) /\ [i \in DOMAIN list[f] |-> "ok"] \in Seq(Items)
  <2> TAKE f \in ListFields
  <2>1. list[f] \in Seq(Items)
    BY DEF Types
  <2>2. "ok" \in Items
    BY DEF Items
  <2>3. QED
    BY <2>1, <2>2
<1>5. \A f \in ListFields : Normalized(done)[f] \in Seq(Items)
  BY <1>2, <1>3, <1>4 DEF Normalized
<1>6. \A f \in CountryFields : Normalized(done)[f] \in Seq(Codes)
  BY <1>1, <1>2 DEF Normalized
<1>7. QED
  BY <1>5, <1>6 DEF Normalized

\* A full normalisation leaves no work and no list empty that was not.
LEMMA NormalizedFacts ==
    ASSUME Types, list' = Normalized(NormalizedFields)
    PROVE  /\ \A f \in CountryFields : Normal(list'[f])
           /\ \A f \in CountryFields : Covers(list'[f], list[f], Len(list[f]))
           /\ \A f \in CountryFields : list'[f] = <<>> <=> list[f] = <<>>
           /\ \A f \in ListFields \ NormalizedFields : list'[f] = list[f]
           /\ \A i \in DOMAIN list'["deny_header_substring"] :
                 list'["deny_header_substring"][i] = "ok"
<1>1. \A f \in CountryFields : /\ list[f] \in Seq(Codes) /\ f \in ListFields
                               /\ list'[f] = normalizeCountryCodes(list[f])
  BY DEF Types, ListFields, Normalized, NormalizedFields
<1>2. \A f \in CountryFields : /\ Normal(list'[f])
                               /\ Covers(list'[f], list[f], Len(list[f]))
  BY <1>1, NormalizationFacts
<1>3. ASSUME NEW f \in CountryFields PROVE list'[f] = <<>> <=> list[f] = <<>>
  <2>1. /\ list[f] \in Seq(Codes) /\ list'[f] \in Seq(Codes)
        /\ Covers(list'[f], list[f], Len(list[f]))
    BY <1>1, <1>2 DEF Normal
  <2>2. \A s \in Seq(Codes) : /\ DOMAIN s = 1 .. Len(s) /\ Len(s) \in Nat
                              /\ s = <<>> <=> Len(s) = 0
    OBVIOUS
  <2>3. Len(list[f]) > 0 => list'[f] # <<>>
    <3> SUFFICES ASSUME Len(list[f]) > 0 PROVE list'[f] # <<>>
      OBVIOUS
    <3>1. 1 \in 1 .. Len(list[f])
      BY <2>1, <2>2
    <3>2. PICK i \in DOMAIN list'[f] : TRUE
      BY <2>1, <3>1 DEF Covers
    <3>3. QED
      BY <3>2
  <2>4. Len(list[f]) = 0 => list'[f] = <<>>
    <3> SUFFICES ASSUME Len(list[f]) = 0, list'[f] # <<>> PROVE FALSE
      OBVIOUS
    <3>1. 1 \in DOMAIN list'[f]
      BY <2>1, <2>2
    <3>2. \E j \in 1 .. 0 : list'[f][1] = Canonical[list[f][j]]
      BY <2>1, <3>1 DEF Covers
    <3>3. QED
      BY <3>2
  <2>5. QED
    BY <2>1, <2>2, <2>3, <2>4
<1>4. \A f \in ListFields \ NormalizedFields : list'[f] = list[f]
  BY DEF Normalized
<1>5. \A i \in DOMAIN list'["deny_header_substring"] :
         list'["deny_header_substring"][i] = "ok"
  <2>1. /\ "deny_header_substring" \in ListFields
        /\ "deny_header_substring" \in NormalizedFields
        /\ "deny_header_substring" \notin CountryFields
    BY DEF ListFields, RuleFields, NormalizedFields, CountryFields
  <2>2. list'["deny_header_substring"]
          = [i \in DOMAIN list["deny_header_substring"] |-> "ok"]
    BY <2>1 DEF Normalized
  <2>3. QED
    BY <2>2
<1>6. QED
  BY <1>2, <1>3, <1>4, <1>5

-----------------------------------------------------------------------------
(* The invariant.                                                           *)

\* It holds of an empty configuration.
LEMMA InitIInv ==
    ASSUME Init
    PROVE  IInv
<1>1. 0 \in Word /\ Half \in Nat
  BY ConfigurationAssumption DEF Word
<1>2. TypeOK
  BY <1>1, DirectivesAssumption DEF Init, TypeOK
<1>3. Types
  <2>1. <<>> \in Seq(Items) /\ <<>> \in Seq(Codes)
    OBVIOUS
  <2>2. CountryFields \subseteq ListFields
    BY DEF ListFields
  <2>3. QED
    BY <1>2, <2>1, <2>2 DEF Init, Types
<1>4. Durations
  BY RefreshFields DEF Init, Durations, Given
<1>5. Accepted
  BY DEF Init, Accepted
<1>6. QED
  BY <1>3, <1>4, <1>5 DEF IInv

\* A duration that is given keeps the invariant.
LEMMA SetMinutesIInv ==
    ASSUME IInv, NEW f, NEW n, <<f, n>> \in MinutesArgs, SetMinutes(f, n)
    PROVE  IInv'
<1>1. f \in MinutesFields /\ n \in Nat /\ n # 0
  <2>1. <<f, n>> \in MinutesFields \X ({Malformed} \cup Int)
    BY DirectivesAssumption
  <2>2. n # Malformed /\ n > 0
    BY DEF SetMinutes, ParsesMinutes
  <2>3. QED
    BY <2>1, <2>2
<1>2. /\ pc = "reading" /\ pc' = "reading" /\ count' \in 0 .. MaxDirectives
      /\ UNCHANGED <<url, text, list, loops>>
  BY DirectivesAssumption DEF SetMinutes, Reads, Read, IInv, Types, TypeOK
<1>3. /\ minutes' = [minutes EXCEPT ![f] = Wrap(n * Minute)]
      /\ asked' = [asked EXCEPT ![f] = n]
      /\ minutes \in [MinutesFields -> Word] /\ asked \in [MinutesFields -> Nat]
  BY DEF SetMinutes, IInv, Types, TypeOK
<1>4. Wrap(n * Minute) \in Word
  BY <1>1, ConfigurationAssumption, WrapFacts
<1>5. minutes' \in [MinutesFields -> Word] /\ asked' \in [MinutesFields -> Nat]
  BY <1>1, <1>3, <1>4
<1>6. Types'
  BY <1>2, <1>5 DEF IInv, Types, TypeOK
<1>7. \A k \in MinutesFields : minutes[k] = Given(k) => minutes'[k] = Given(k)'
  BY <1>1, <1>3 DEF Given
<1>8. Durations'
  BY <1>2, <1>7, RefreshFields DEF IInv, Durations
<1>9. Accepted'
  BY <1>2 DEF Accepted
<1>10. QED
  BY <1>6, <1>8, <1>9 DEF IInv

\* So does a directive that sets another field.
LEMMA DirectiveIInv ==
    ASSUME IInv,
           \/ \E d \in URLArgs : SetURL(d[1], d[2])
           \/ \E d \in TextArgs : SetText(d[1], d[2])
           \/ \E d \in ListArgs : AppendList(d[1], d[2])
    PROVE  IInv'
<1>1. /\ pc = "reading" /\ pc' = "reading" /\ count' \in 0 .. MaxDirectives
      /\ UNCHANGED <<minutes, loops, asked>>
  BY DirectivesAssumption
     DEF SetURL, SetText, AppendList, Reads, Read, IInv, Types, TypeOK
<1>2. url' \in [URLFields -> URLs \cup {NoURL}]
  <2>1. CASE \E d \in URLArgs : SetURL(d[1], d[2])
    <3>1. PICK d \in URLArgs : SetURL(d[1], d[2])
      BY <2>1
    <3>2. d[2] \in URLs \cup {NoURL}
      BY DirectivesAssumption
    <3>3. url' = [url EXCEPT ![d[1]] = d[2]] /\ url \in [URLFields -> URLs \cup {NoURL}]
      BY <3>1 DEF SetURL, IInv, Types, TypeOK
    <3> HIDE DEF URLs, NoURL
    <3>4. QED
      BY <3>2, <3>3
  <2>2. CASE ~(\E d \in URLArgs : SetURL(d[1], d[2]))
    BY <2>2 DEF SetText, AppendList, IInv, Types, TypeOK
  <2>3. QED
    BY <2>1, <2>2
<1>3. text' \in [TextFields -> {"unset", "blank", "bad", "ok"}]
  <2>1. CASE \E d \in TextArgs : SetText(d[1], d[2])
    <3>1. PICK d \in TextArgs : SetText(d[1], d[2])
      BY <2>1
    <3>2. d[2] \in {"unset", "blank", "bad", "ok"}
      BY DirectivesAssumption
    <3>3. /\ text' = [text EXCEPT ![d[1]] = d[2]]
          /\ text \in [TextFields -> {"unset", "blank", "bad", "ok"}]
      BY <3>1 DEF SetText, IInv, Types, TypeOK
    <3>4. QED
      BY <3>2, <3>3
  <2>2. CASE ~(\E d \in TextArgs : SetText(d[1], d[2]))
    BY <2>2 DEF SetURL, AppendList, IInv, Types, TypeOK
  <2>3. QED
    BY <2>1, <2>2
<1>4. /\ list' \in [ListFields -> Seq(Items)]
      /\ \A f \in CountryFields : list'[f] \in Seq(Codes)
  <2>1. CASE \E d \in ListArgs : AppendList(d[1], d[2])
    <3>1. PICK d \in ListArgs : AppendList(d[1], d[2])
      BY <2>1
    <3>2. /\ d[2] \in Items /\ d[1] \in ListFields
          /\ d[1] \in CountryFields => d[2] \in Codes
      BY DirectivesAssumption DEF Items, Codes
    <3>3. /\ list' = [list EXCEPT ![d[1]] = Append(@, d[2])]
          /\ list \in [ListFields -> Seq(Items)]
          /\ \A f \in CountryFields : list[f] \in Seq(Codes) /\ f \in ListFields
      BY <3>1 DEF AppendList, IInv, Types, ListFields
    <3>4. Append(list[d[1]], d[2]) \in Seq(Items)
      BY <3>2, <3>3
    <3>5. d[1] \in CountryFields => Append(list[d[1]], d[2]) \in Seq(Codes)
      BY <3>2, <3>3
    <3>6. QED
      BY <3>2, <3>3, <3>4, <3>5
  <2>2. CASE ~(\E d \in ListArgs : AppendList(d[1], d[2]))
    BY <2>2 DEF SetURL, SetText, IInv, Types
  <2>3. QED
    BY <2>1, <2>2
<1>5. Types'
  BY <1>1, <1>2, <1>3, <1>4 DEF IInv, Types, TypeOK
<1>6. Durations'
  BY <1>1 DEF IInv, Durations, Given
<1>7. Accepted'
  BY <1>1 DEF Accepted
<1>8. QED
  BY <1>5, <1>6, <1>7 DEF IInv

-----------------------------------------------------------------------------
(* Provision and Validate.                                                  *)

\* The defaults change only what is not set.
LEMMA DefaultFacts ==
    ASSUME IInv
    PROVE  /\ withDefaults.minutes \in [MinutesFields -> Word]
           /\ \A f \in MinutesFields \ {"allow_for"} :
                 withDefaults.minutes[f] = minutes[f]
           /\ withDefaults.minutes["allow_for"] =
                 IF minutes["allow_for"] = 0 THEN Wrap(DefaultAllowFor * Minute)
                 ELSE minutes["allow_for"]
           /\ withDefaults.text \in [TextFields -> {"unset", "blank", "bad", "ok"}]
<1>1. /\ minutes \in [MinutesFields -> Word]
      /\ text \in [TextFields -> {"unset", "blank", "bad", "ok"}]
  BY DEF IInv, Types, TypeOK
<1>2. Wrap(DefaultAllowFor * Minute) \in Word
  BY ConfigurationAssumption, WrapFacts
<1>3. withDefaults.minutes =
         [minutes EXCEPT !["allow_for"] = IF minutes["allow_for"] = 0
                                          THEN Wrap(DefaultAllowFor * Minute)
                                          ELSE minutes["allow_for"]]
  BY DEF withDefaults
<1>4. withDefaults.text = [f \in TextFields |-> IF f \in DefaultTexts /\ text[f] = "unset"
                                                THEN "ok" ELSE text[f]]
  BY DEF withDefaults
<1>5. "allow_for" \in MinutesFields
  BY RefreshFields
<1>6. QED
  <2>1. withDefaults.text \in [TextFields -> {"unset", "blank", "bad", "ok"}]
    BY <1>1, <1>4
  <2>2. QED
    BY <1>1, <1>2, <1>3, <1>5, <2>1

\* What is valid and loadable stays so when its lists are normalised.
LEMMA NormalizationKeepsVerdict ==
    ASSUME Types, list' = Normalized(NormalizedFields), UNCHANGED url,
           NEW m, NEW t, Valid(m, t), Loadable(t)
    PROVE  /\ \A f \in CountryFields : CountriesValid(f)'
           /\ \A l \in Lists : URLValid(URLOf[l])'
           /\ EntriesParse' /\ RulesCompile'
           /\ HasCountryRules' = HasCountryRules
           /\ Loaded' = Loaded
<1>1. /\ \A f \in CountryFields : Covers(list'[f], list[f], Len(list[f]))
      /\ \A f \in CountryFields : list'[f] = <<>> <=> list[f] = <<>>
      /\ \A f \in ListFields \ NormalizedFields : list'[f] = list[f]
      /\ \A i \in DOMAIN list'["deny_header_substring"] :
            list'["deny_header_substring"][i] = "ok"
  BY NormalizedFacts
<1>2. ASSUME NEW f \in CountryFields PROVE CountriesValid(f)'
  <2>1. list[f] \in Seq(Codes) /\ DOMAIN list[f] = 1 .. Len(list[f])
    BY DEF Types
  <2>2. CountriesValid(f)
    BY DEF Valid
  <2>3. ASSUME NEW i \in DOMAIN list'[f] PROVE Canonical[list'[f][i]] \in CountryCodes
    <3>1. PICK j \in 1 .. Len(list[f]) : list'[f][i] = Canonical[list[f][j]]
      BY <1>1, <2>3 DEF Covers
    <3>2. list[f][j] \in Codes /\ Canonical[list[f][j]] \in CountryCodes
      BY <2>1, <2>2, <3>1 DEF CountriesValid
    <3>3. QED
      BY <3>1, <3>2, ConfigurationAssumption DEF Codes
  <2>4. QED
    BY <2>3 DEF CountriesValid
<1>3. \A l \in Lists : URLValid(URLOf[l])'
  BY DEF Valid, ListValid, URLValid
<1>4. EntriesParse'
  <2>1. IPFields \subseteq ListFields \ NormalizedFields
    BY DEF IPFields, ListFields, NormalizedFields, CountryFields
  <2>2. QED
    BY <1>1, <2>1 DEF Valid, EntriesParse
<1>5. RulesCompile'
  <2>1. \A f \in RuleFields : \/ f \in ListFields \ NormalizedFields
                              \/ f = "deny_header_substring"
    BY DEF RuleFields, ListFields, NormalizedFields, CountryFields
  <2>2. QED
    BY <1>1, <2>1 DEF Valid, RulesCompile
<1>6. HasCountryRules' = HasCountryRules
  BY <1>1 DEF HasCountryRules
<1>7. Loaded' = Loaded
  BY <1>6 DEF Loaded
<1>8. QED
  BY <1>2, <1>3, <1>4, <1>5, <1>6, <1>7

\* Provision establishes what the invariant says of an instance that is accepted.
LEMMA ProvisionIInv ==
    ASSUME IInv, Provision
    PROVE  IInv'
<1> DEFINE m == withDefaults.minutes
           t == withDefaults.text
<1>1. /\ pc = "reading" /\ pc' = "provisioned" /\ Valid(m, t) /\ Loadable(t)
      /\ minutes' = m /\ text' = t /\ list' = Normalized(NormalizedFields)
      /\ loops' = {[list |-> l, interval |-> m[RefreshOf[l]]] :
                      l \in {k \in Lists : Refreshes(m, t, k)}}
      /\ UNCHANGED <<url, asked, count>>
  BY DEF Provision
<1>2. /\ m \in [MinutesFields -> Word]
      /\ \A f \in MinutesFields \ {"allow_for"} : m[f] = minutes[f]
      /\ m["allow_for"] = IF minutes["allow_for"] = 0 THEN Wrap(DefaultAllowFor * Minute)
                          ELSE minutes["allow_for"]
      /\ t \in [TextFields -> {"unset", "blank", "bad", "ok"}]
  BY DefaultFacts
<1> HIDE DEF m, t
<1>3. Types /\ TypeOK /\ Durations
  BY DEF IInv, Types
<1>4. Types'
  <2>1. /\ list' \in [ListFields -> Seq(Items)]
        /\ \A f \in CountryFields : list'[f] \in Seq(Codes)
    BY <1>1, <1>3, NormalizedTypes
  <2>2. \A r \in loops' : r.list \in Lists /\ r.interval \in 1 .. Half - 1
    <3> SUFFICES ASSUME NEW l \in Lists, Refreshes(m, t, l)
                 PROVE  m[RefreshOf[l]] \in 1 .. Half - 1
      BY <1>1
    <3>1. m[RefreshOf[l]] \in Word /\ m[RefreshOf[l]] > 0 /\ Half \in Nat
      BY <1>2, RefreshFields, ConfigurationAssumption DEF Refreshes
    <3>2. QED
      BY <3>1 DEF Word
  <2>3. m["allow_for"] > 0 /\ \A l \in Lists : m[RefreshOf[l]] >= 0
    BY <1>1 DEF Valid, ListValid
  <2>4. TypeOK'
    BY <1>1, <1>2, <1>3, <2>1, <2>2, <2>3 DEF TypeOK
  <2>5. QED
    BY <2>1, <2>4 DEF Types
<1>5. Durations'
  <2>1. \A f : Given(f)' = Given(f)
    BY <1>1 DEF Given
  <2>2. QED
    BY <1>1, <1>2, <1>3, <2>1 DEF Durations
<1>6. Accepted'
  <2>1. /\ \A f \in CountryFields : CountriesValid(f)'
        /\ \A l \in Lists : URLValid(URLOf[l])'
        /\ EntriesParse' /\ RulesCompile'
        /\ HasCountryRules' = HasCountryRules
        /\ Loaded' = Loaded
    BY <1>1, <1>3, NormalizationKeepsVerdict
  <2>2. /\ \A f \in CountryFields : Normal(list'[f])
        /\ \A i \in DOMAIN list'["deny_header_substring"] :
              list'["deny_header_substring"][i] = "ok"
    BY <1>1, <1>3, NormalizedFacts
  <2>3. Valid(minutes, text)'
    BY <1>1, <2>1 DEF Valid, ListValid
  <2>4. Loadable(text)'
    BY <1>1, <2>1 DEF Loadable
  <2>5. \A l \in Lists : Refreshes(minutes, text, l)' <=> Refreshes(m, t, l)
    BY <1>1, <2>1 DEF Refreshes
  <2>6. loops' = {[list |-> l, interval |-> minutes'[RefreshOf[l]]] :
                     l \in {k \in Lists : Refreshes(minutes, text, k)'}}
    <3>1. {k \in Lists : Refreshes(minutes, text, k)'} = {k \in Lists : Refreshes(m, t, k)}
      BY <2>5
    <3>2. QED
      BY <1>1, <3>1
  <2>7. QED
    BY <2>2, <2>3, <2>4, <2>6 DEF Accepted
<1>7. QED
  BY <1>4, <1>5, <1>6 DEF IInv

\* A refused configuration keeps its types and its durations.
LEMMA ProvisionFailsIInv ==
    ASSUME IInv, ProvisionFails
    PROVE  IInv'
<1>1. /\ pc' = "failed" /\ minutes' = withDefaults.minutes /\ text' = withDefaults.text
      /\ list' \in {Normalized(done) : done \in {{}, CountryFields, NormalizedFields}}
      /\ UNCHANGED <<url, loops, asked, count>>
  BY DEF ProvisionFails
<1>2. /\ minutes' \in [MinutesFields -> Word]
      /\ \A f \in MinutesFields \ {"allow_for"} : minutes'[f] = minutes[f]
      /\ text' \in [TextFields -> {"unset", "blank", "bad", "ok"}]
  BY <1>1, DefaultFacts
<1>3. /\ list' \in [ListFields -> Seq(Items)]
      /\ \A f \in CountryFields : list'[f] \in Seq(Codes)
  <2>1. PICK done \in {{}, CountryFields, NormalizedFields} : list' = Normalized(done)
    BY <1>1
  <2>2. QED
    BY <2>1, NormalizedTypes DEF IInv
<1>4. Types'
  BY <1>1, <1>2, <1>3 DEF IInv, Types, TypeOK
<1>5. Durations'
  BY <1>1, <1>2 DEF IInv, Durations, Given
<1>6. Accepted'
  BY <1>1 DEF Accepted
<1>7. QED
  BY <1>4, <1>5, <1>6 DEF IInv

\* The second Validate accepts, and finds nothing to rewrite.
LEMMA ValidateAgainKeeps ==
    ASSUME IInv, ValidateAgain
    PROVE  pc' = "running" /\ UNCHANGED <<fields, loops, asked, count>>
<1>1. /\ pc = "provisioned" /\ Valid(minutes, text)
      /\ \A f \in CountryFields : Normal(list[f])
      /\ \A i \in DOMAIN list["deny_header_substring"] :
            list["deny_header_substring"][i] = "ok"
  BY DEF IInv, Accepted, ValidateAgain
<1>2. pc' = "running" /\ list' = Normalized(NormalizedFields)
      /\ UNCHANGED <<minutes, url, text, loops, asked, count>>
  BY <1>1 DEF ValidateAgain
<1>3. list \in [ListFields -> Seq(Items)]
  BY DEF IInv, Types
<1>4. \A f \in ListFields : list'[f] = list[f]
  <2> TAKE f \in ListFields
  <2>1. CASE f \notin NormalizedFields
    BY <1>2, <2>1 DEF Normalized
  <2>2. CASE f \in CountryFields
    <3>1. f \in NormalizedFields
      BY <2>2 DEF NormalizedFields
    <3>2. list'[f] = normalizeCountryCodes(list[f])
      BY <1>2, <2>2, <3>1 DEF Normalized
    <3>3. QED
      BY <1>1, <2>2, <3>2, NormalIsFixed
  <2>3. CASE f = "deny_header_substring"
    <3>1. f \in NormalizedFields /\ f \notin CountryFields
      BY <2>3 DEF NormalizedFields, CountryFields
    <3>2. list'[f] = [i \in DOMAIN list[f] |-> "ok"]
      BY <1>2, <3>1 DEF Normalized
    <3>3. list[f] \in Seq(Items)
      BY <1>3
    <3>4. list[f] = [i \in DOMAIN list[f] |-> list[f][i]]
      BY <3>3
    <3>5. QED
      BY <1>1, <2>3, <3>2, <3>4
  <2>4. QED
    BY <2>1, <2>2, <2>3 DEF NormalizedFields
<1>5. list' = list
  <2>1. list' \in [ListFields -> Seq(Items)]
    BY <1>2, NormalizedTypes DEF IInv
  <2>2. QED
    BY <1>3, <1>4, <2>1
<1>6. QED
  BY <1>2, <1>5 DEF fields

-----------------------------------------------------------------------------
(* The theorems.                                                            *)

\* Every step keeps the invariant.
LEMMA StepIInv ==
    ASSUME IInv, [Next]_vars
    PROVE  IInv'
<1>1. CASE \E d \in MinutesArgs : SetMinutes(d[1], d[2])
  <2>1. PICK d \in MinutesArgs : SetMinutes(d[1], d[2])
    BY <1>1
  <2>2. d = <<d[1], d[2]>>
    BY DirectivesAssumption
  <2>3. QED
    BY <2>1, <2>2, SetMinutesIInv
<1>2. CASE \/ \E d \in URLArgs : SetURL(d[1], d[2])
           \/ \E d \in TextArgs : SetText(d[1], d[2])
           \/ \E d \in ListArgs : AppendList(d[1], d[2])
  BY <1>2, DirectiveIInv
<1>3. CASE Rejects
  BY <1>3 DEF Rejects, fields, IInv, Types, TypeOK, Durations, Given, Accepted
<1>4. CASE Provision
  BY <1>4, ProvisionIInv
<1>5. CASE ProvisionFails
  BY <1>5, ProvisionFailsIInv
<1>6. CASE ValidateAgain
  <2>1. pc = "provisioned" /\ pc' = "running" /\ UNCHANGED <<fields, loops, asked, count>>
    BY <1>6, ValidateAgainKeeps DEF ValidateAgain
  <2>2. Types'
    BY <2>1 DEF fields, IInv, Types, TypeOK
  <2>3. Durations'
    BY <2>1 DEF fields, IInv, Durations, Given
  <2>4. Accepted'
    BY <2>1 DEF fields, IInv, Accepted, Valid, ListValid, Loadable, Loaded, Refreshes,
                HasCountryRules, CountriesValid, EntriesParse, RulesCompile, URLValid
  <2>5. QED
    BY <2>2, <2>3, <2>4 DEF IInv
<1>7. CASE UNCHANGED vars
  BY <1>7 DEF vars, fields, IInv, Types, TypeOK, Durations, Given, Accepted, Valid, ListValid, Loadable,
              Loaded, Refreshes, HasCountryRules, CountriesValid, EntriesParse,
              RulesCompile, URLValid
<1>8. QED
  BY <1>1, <1>2, <1>3, <1>4, <1>5, <1>6, <1>7 DEF Next

\* The inductive invariant: the fields have their types, a duration is the one asked for
\* last, and what Provision has accepted is valid, loadable and normalised as it stands
\* (config.go:25-94, 124-183).
THEOREM ConfigurationInvariant == Spec => []IInv
<1>1. Init => IInv
  BY InitIInv
<1>2. IInv /\ [Next]_vars => IInv'
  BY StepIInv
<1>3. QED
  BY <1>1, <1>2, PTL DEF Spec

\* The fields have their types, durations stay within a word, no loop has an interval
\* that is not positive, and whatever a number of minutes wrapped to, an accepted
\* instance has a positive allow_for and no negative refresh (caddyfile.go:79-180,
\* config.go:25-94, 149, refresh.go:27, 44).
THEOREM TypeCorrect == Spec => []TypeOK
<1>1. IInv => TypeOK
  BY DEF IInv, Types
<1>2. QED
  BY <1>1, ConfigurationInvariant, PTL

\* The second Validate, on the fields that the first one has rewritten, accepts what the
\* first accepted and changes nothing: the normalisation is idempotent, whatever the
\* codes (config.go:46, 124-183).
THEOREM SecondValidateIsStable == Spec => ValidateIsStable
<1>1. IInv /\ [Next]_vars
         => [pc = "provisioned" => pc' = "running" /\ UNCHANGED fields]_vars
  <2> SUFFICES ASSUME IInv, Next, pc = "provisioned"
               PROVE  pc' = "running" /\ UNCHANGED fields
    OBVIOUS
  <2>1. ValidateAgain
    BY DEF Next, SetMinutes, SetURL, SetText, AppendList, Reads, Rejects, Provision,
           ProvisionFails
  <2>2. QED
    BY <2>1, ValidateAgainKeeps
<1>2. QED
  BY <1>1, ConfigurationInvariant, PTL DEF Spec, ValidateIsStable

\* Where the minutes that were given fit into a duration, they are what the instance runs
\* with, and its loops are those of the lists that have a source and a refresh, each at
\* its own interval (caddyfile.go:79-180, config.go:25-27, 80-94).
THEOREM DirectivesAreObeyed == Spec => []DirectivesTakeEffect
<1>1. IInv => DirectivesTakeEffect
  <2> SUFFICES ASSUME IInv, pc = "running",
                      \A f \in MinutesFields : asked[f] * Minute < Half
               PROVE  /\ minutes["allow_for"] =
                            Minute * (IF asked["allow_for"] = 0 THEN DefaultAllowFor
                                      ELSE asked["allow_for"])
                      /\ loops = {[list |-> l, interval |-> Minute * asked[RefreshOf[l]]] :
                                     l \in {k \in Lists :
                                               /\ asked[RefreshOf[k]] # 0
                                               /\ \/ k \in Loaded
                                                  \/ /\ k \in IPLists
                                                     /\ text[FileOf[k]] # "unset"}}
    BY DEF DirectivesTakeEffect
  <2>1. \A f \in MinutesFields : asked[f] \in Nat
    BY DEF IInv, Types, TypeOK
  <2>2. \A f \in MinutesFields : /\ Given(f) = Minute * asked[f] /\ Given(f) \in Nat
                                 /\ Given(f) = 0 <=> asked[f] = 0
    <3> TAKE f \in MinutesFields
    <3>1. /\ asked[f] * Minute \in Nat /\ asked[f] * Minute = Minute * asked[f]
          /\ asked[f] # 0 => asked[f] * Minute # 0
          /\ Wrap(asked[f] * Minute) = asked[f] * Minute
      BY <2>1, MinutesFit
    <3>2. asked[f] = 0 => Minute * asked[f] = 0
      BY ConfigurationAssumption
    <3>3. QED
      BY <3>1, <3>2 DEF Given
  <2>3. minutes["allow_for"] = Minute * (IF asked["allow_for"] = 0 THEN DefaultAllowFor
                                         ELSE asked["allow_for"])
    <3>1. /\ DefaultAllowFor * Minute = Minute * DefaultAllowFor
          /\ Wrap(DefaultAllowFor * Minute) = DefaultAllowFor * Minute
      <4>1. DefaultAllowFor \in Nat /\ DefaultAllowFor * Minute \in Word /\ Half \in Nat
        BY ConfigurationAssumption
      <4>2. DefaultAllowFor * Minute < Half
        BY <4>1 DEF Word
      <4>3. QED
        BY <4>1, <4>2, MinutesFit
    <3>2. minutes["allow_for"] = IF Given("allow_for") = 0 THEN Wrap(DefaultAllowFor * Minute)
                                 ELSE Given("allow_for")
      BY DEF IInv, Durations
    <3>3. QED
      BY <2>2, <3>1, <3>2, RefreshFields
  <2>4. \A l \in Lists : /\ minutes[RefreshOf[l]] = Minute * asked[RefreshOf[l]]
                         /\ minutes[RefreshOf[l]] > 0 <=> asked[RefreshOf[l]] # 0
    <3> TAKE l \in Lists
    <3>1. /\ RefreshOf[l] \in MinutesFields \ {"allow_for"}
          /\ minutes[RefreshOf[l]] = Given(RefreshOf[l])
      BY RefreshFields DEF IInv, Durations
    <3>2. QED
      BY <2>2, <3>1
  <2>5. loops = {[list |-> l, interval |-> minutes[RefreshOf[l]]] :
                    l \in {k \in Lists : Refreshes(minutes, text, k)}}
    BY DEF IInv, Accepted
  <2>6. {k \in Lists : Refreshes(minutes, text, k)}
           = {k \in Lists : /\ asked[RefreshOf[k]] # 0
                            /\ \/ k \in Loaded
                               \/ k \in IPLists /\ text[FileOf[k]] # "unset"}
    BY <2>4 DEF Refreshes
  <2>7. QED
    BY <2>3, <2>4, <2>5, <2>6
<1>2. QED
  BY <1>1, ConfigurationInvariant, PTL

\* Whatever URL Validate accepts the policy accepts as well, before the first call, save
\* the two kinds of cap_api_url that the statement names (refresh.go:56-73 against
\* outbound.go:87-110).
THEOREM AcceptedURLsAreCallable == Spec => []URLsAreCallable
<1>1. IInv => URLsAreCallable
  <2> SUFFICES ASSUME IInv, pc = "running"
               PROVE  /\ \A l \in Loaded : Callable(url[URLOf[l]])
                      /\ \/ Callable(url["cap_api_url"])
                         \/ url["cap_api_url"].padded
                         \/ url["cap_api_url"].host \in Addresses \ Public
    BY DEF URLsAreCallable
  <2>1. Valid(minutes, text) /\ Loadable(text)
    BY DEF IInv, Accepted
  <2>2. \A l \in Loaded : Callable(url[URLOf[l]])
    BY <2>1 DEF Loadable
  <2>3. ASSUME NEW u, validateRemoteURL(u), ~u.padded, u.host \notin Addresses \ Public
        PROVE  Callable(u)
    BY <2>3 DEF validateRemoteURL, isLoopbackHost, Callable, Policy!validateURL,
                Policy!validateLiteralPublicAddress, Policy!isPublicAddress,
                Policy!LocalOrigin, Policy!isLoopbackHost, Policy!sameOrigin
  <2>4. validateRemoteURL(url["cap_api_url"])
    BY <2>1 DEF Valid
  <2>5. QED
    BY <2>2, <2>3, <2>4
<1>2. QED
  BY <1>1, ConfigurationInvariant, PTL
===============================================================================
