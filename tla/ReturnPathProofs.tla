--------------------------- MODULE ReturnPathProofs ---------------------------
(***************************************************************************)
(* A state that the server has signed is not refused for its path, and the   *)
(* visitor is sent to the path that was signed: for paths of every length.   *)
(*                                                                          *)
(* path.Clean is a fold over the segments; what it computes is shown by      *)
(* induction on their number, as in ConfigurationProofs.                     *)
(***************************************************************************)
EXTENDS ReturnPath, SequenceTheorems, FiniteSetTheorems, WellFoundedInduction, TLAPS

-----------------------------------------------------------------------------
(* Induction.                                                               *)

\* A set that holds 0, and with every number its successor, holds them all.
LEMMA Induction ==
    ASSUME NEW P \in SUBSET Nat, 0 \in P, \A n \in P : n + 1 \in P
    PROVE  P = Nat
<1> DEFINE R == OpToRel(<, Nat)
           T == Nat \ P
<1>1. IsWellFoundedOn(R, Nat)
  BY NatLessThanWellFounded
<1>2. \A m, n \in Nat : m < n => <<m, n>> \in R
  BY DEF OpToRel
<1> HIDE DEF R
<1> SUFFICES ASSUME T # {} PROVE FALSE
  OBVIOUS
<1>3. PICK n \in T : \A m \in T : ~(<<m, n>> \in R)
  BY <1>1, WFMin
<1>4. n \in Nat /\ n # 0
  OBVIOUS
<1>5. n - 1 \in Nat /\ n - 1 \notin P
  <2>1. n - 1 \in Nat /\ (n - 1) + 1 = n
    BY <1>4
  <2>2. QED
    BY <2>1
<1>6. <<n - 1, n>> \in R
  BY <1>2, <1>4, <1>5
<1>7. QED
  BY <1>3, <1>5, <1>6

-----------------------------------------------------------------------------
(* The run of path.Clean over the segments.                                 *)

\* The recursion that the fold stands for, on the sets of indices up to n.
Folds(g, segs, n) ==
    g = [s \in SUBSET (1 .. n) |->
            IF s = {} THEN <<>> ELSE Walk(g[s \ {Max(s)}], segs[Max(s)])]

\* The largest of a set of indices, if the last one is in it.
LEMMA LastIsMax ==
    ASSUME NEW n \in Nat, NEW s \in SUBSET (1 .. n + 1), n + 1 \in s
    PROVE  Max(s) = n + 1
<1>1. \A y \in s : y \in Int /\ n + 1 >= y
  OBVIOUS
<1>2. \A x \in s : (\A y \in s : x >= y) <=> x = n + 1
  BY <1>1
<1>3. Max(s) \in s /\ \A y \in s : Max(s) >= y
  BY <1>1, Zenon DEF Max
<1>4. QED
  BY <1>2, <1>3

\* There is such a function, for every length.
LEMMA FoldExists ==
    ASSUME NEW segs
    PROVE  \A n \in Nat : \E g : Folds(g, segs, n)
<1> DEFINE P == {n \in Nat : \E g : Folds(g, segs, n)}
<1>1. 0 \in P
  <2> DEFINE g == [s \in SUBSET (1 .. 0) |-> <<>>]
  <2>1. Folds(g, segs, 0)
    BY DEF Folds
  <2>2. QED
    BY <2>1
<1>2. ASSUME NEW n \in P PROVE n + 1 \in P
  <2>1. PICK g : Folds(g, segs, n)
    OBVIOUS
  <2> DEFINE h == [s \in SUBSET (1 .. n + 1) |->
                      IF n + 1 \in s THEN Walk(g[s \ {n + 1}], segs[n + 1]) ELSE g[s]]
  <2>2. ASSUME NEW s \in SUBSET (1 .. n + 1)
        PROVE  h[s] = IF s = {} THEN <<>> ELSE Walk(h[s \ {Max(s)}], segs[Max(s)])
    <3>1. CASE n + 1 \in s
      <4>1. Max(s) = n + 1
        BY <3>1, LastIsMax
      <4>2. s \ {n + 1} \in SUBSET (1 .. n) /\ s \ {n + 1} \in SUBSET (1 .. n + 1)
        OBVIOUS
      <4>3. h[s \ {n + 1}] = g[s \ {n + 1}]
        BY <4>2
      <4>4. h[s] = Walk(g[s \ {n + 1}], segs[n + 1])
        BY <3>1
      <4>5. QED
        BY <3>1, <4>1, <4>3, <4>4
    <3>2. CASE n + 1 \notin s
      <4>1. s \in SUBSET (1 .. n)
        BY <3>2
      <4>2. h[s] = g[s] /\ h[s \ {Max(s)}] = g[s \ {Max(s)}]
        BY <3>2
      <4>3. g[s] = IF s = {} THEN <<>> ELSE Walk(g[s \ {Max(s)}], segs[Max(s)])
        BY <2>1, <4>1 DEF Folds
      <4>4. QED
        BY <4>2, <4>3
    <3>3. QED
      BY <3>1, <3>2
  <2>3. Folds(h, segs, n + 1)
    <3>1. h = [s \in SUBSET (1 .. n + 1) |->
                  IF s = {} THEN <<>> ELSE Walk(h[s \ {Max(s)}], segs[Max(s)])]
      <4> DEFINE k == [s \in SUBSET (1 .. n + 1) |->
                  IF s = {} THEN <<>> ELSE Walk(h[s \ {Max(s)}], segs[Max(s)])]
      <4>1. \A s \in SUBSET (1 .. n + 1) : h[s] = k[s]
        BY <2>2
      <4>2. QED
        BY <4>1, Zenon
    <3> HIDE DEF h
    <3>2. QED
      BY <3>1 DEF Folds
  <2> HIDE DEF h
  <2>4. QED
    BY <2>3
<1> HIDE DEF P
<1>3. P = Nat
  <2>1. P \in SUBSET Nat
    BY DEF P
  <2>2. QED
    BY <1>1, <1>2, <2>1, Induction
<1>4. QED
  BY <1>3 DEF P

\* The names that are left when all segments have been walked.
Kept(segs) == FoldLeft(Walk, <<>>, segs)

\* The walk starts with nothing and takes one step for each segment.
LEMMA WalkRuns ==
    ASSUME NEW segs \in Seq(Segments)
    PROVE  \E h : /\ h[0] = <<>>
                  /\ \A i \in 1 .. Len(segs) : h[i] = Walk(h[i - 1], segs[i])
                  /\ Kept(segs) = h[Len(segs)]
<1> DEFINE g == CHOOSE iter : iter =
                  [s \in SUBSET (DOMAIN segs) |->
                      IF s = {} THEN <<>> ELSE Walk(iter[s \ {Max(s)}], segs[Max(s)])]
<1>1. Kept(segs) = g[DOMAIN segs]
  BY DEF Kept, FoldLeft, MapThenFoldSet
<1>2. DOMAIN segs = 1 .. Len(segs) /\ Len(segs) \in Nat
  OBVIOUS
<1>3. Folds(g, segs, Len(segs))
  <2>1. \E iter : Folds(iter, segs, Len(segs))
    BY <1>2, FoldExists
  <2>2. QED
    BY <1>2, <2>1 DEF Folds
<1> HIDE DEF g
<1> DEFINE h == [i \in 0 .. Len(segs) |-> g[1 .. i]]
<1>4. h[0] = <<>>
  <2>1. 1 .. 0 = {} /\ {} \in SUBSET (1 .. Len(segs))
    OBVIOUS
  <2>2. QED
    BY <1>2, <1>3, <2>1 DEF Folds
<1>5. ASSUME NEW i \in 1 .. Len(segs) PROVE h[i] = Walk(h[i - 1], segs[i])
  <2>1. i - 1 \in Nat /\ (i - 1) + 1 = i /\ i - 1 \in 0 .. Len(segs)
    BY <1>2
  <2>2. Max(1 .. i) = i
    <3>1. 1 .. i \in SUBSET (1 .. (i - 1) + 1) /\ (i - 1) + 1 \in 1 .. i
      BY <2>1
    <3>2. QED
      BY <2>1, <3>1, LastIsMax
  <2>3. (1 .. i) \ {i} = 1 .. (i - 1) /\ 1 .. i # {} /\ 1 .. i \in SUBSET (1 .. Len(segs))
    <3>1. i \in Int /\ 1 <= i /\ i <= Len(segs) /\ Len(segs) \in Int
      BY <1>2
    <3>2. \A k : k \in (1 .. i) \ {i} <=> k \in 1 .. (i - 1)
      BY <3>1
    <3>3. i \in 1 .. i /\ \A k \in 1 .. i : k \in 1 .. Len(segs)
      BY <3>1
    <3>4. QED
      BY <3>2, <3>3
  <2>4. g[1 .. i] = Walk(g[1 .. (i - 1)], segs[i])
    BY <1>3, <2>2, <2>3 DEF Folds
  <2>5. QED
    BY <1>2, <2>1, <2>4
<1>6. Kept(segs) = h[Len(segs)]
  BY <1>1, <1>2
<1> HIDE DEF h
<1>7. QED
  BY <1>4, <1>5, <1>6


-----------------------------------------------------------------------------
(* path.Clean.                                                              *)

\* The segment after a slash at the end, and the segment that leads up.
Blank == ""
Up    == ".."

\* A step of the walk.
LEMMA WalkFacts ==
    ASSUME NEW seen \in Seq(SegmentNames), NEW s \in Segments
    PROVE  /\ Walk(seen, s) \in Seq(SegmentNames)
           /\ s \notin SegmentNames \cup {Up} => Walk(seen, s) = seen
           /\ s = Up => Walk(seen, s) = Pop(seen)
           /\ s \in SegmentNames => Walk(seen, s) = Append(seen, s)
<1>1. Blank \notin SegmentNames \cup {Up} /\ Up \notin SegmentNames
  BY ReturnPathAssumption DEF Blank, Up
<1>2. CASE s \in {"", "."}
  <2>1. Walk(seen, s) = seen
    BY <1>2, Zenon DEF Walk
  <2>2. s \notin SegmentNames /\ s # Up
    BY <1>2, ReturnPathAssumption DEF Up
  <2>3. QED
    BY <2>1, <2>2
<1>3. CASE s = Up
  <2>1. Walk(seen, s) = Pop(seen)
    BY <1>3, Zenon DEF Walk, Up
  <2>2. Pop(seen) \in Seq(SegmentNames)
    <3>1. CASE seen = <<>>
      BY <3>1 DEF Pop
    <3>2. CASE seen # <<>>
      <4>1. Front(seen) \in Seq(SegmentNames)
        BY <3>2 DEF Front
      <4>2. QED
        BY <3>2, <4>1 DEF Pop
    <3>3. QED
      BY <3>1, <3>2
  <2>3. QED
    BY <1>1, <1>3, <2>1, <2>2
<1>4. CASE s \in SegmentNames
  <2>1. s \notin {"", "."} /\ s # ".."
    BY <1>4, ReturnPathAssumption
  <2>2. Walk(seen, s) = Append(seen, s)
    BY <2>1, Zenon DEF Walk
  <2>3. Append(seen, s) \in Seq(SegmentNames)
    BY <1>4
  <2>4. QED
    BY <1>1, <1>4, <2>2, <2>3
<1>5. QED
  BY <1>2, <1>3, <1>4 DEF Segments, Up

\* Nothing but names is left.
LEMMA KeptAreNames ==
    ASSUME NEW segs \in Seq(Segments)
    PROVE  Kept(segs) \in Seq(SegmentNames)
<1>1. PICK h : /\ h[0] = <<>>
               /\ \A i \in 1 .. Len(segs) : h[i] = Walk(h[i - 1], segs[i])
               /\ Kept(segs) = h[Len(segs)]
  BY WalkRuns
<1> DEFINE P == {n \in Nat : n <= Len(segs) => h[n] \in Seq(SegmentNames)}
<1>2. 0 \in P
  <2>1. <<>> \in Seq(SegmentNames)
    OBVIOUS
  <2>2. QED
    BY <1>1, <2>1
<1>3. ASSUME NEW n \in P PROVE n + 1 \in P
  <2> SUFFICES ASSUME n + 1 <= Len(segs) PROVE h[n + 1] \in Seq(SegmentNames)
    OBVIOUS
  <2>1. n \in Nat /\ n + 1 \in 1 .. Len(segs) /\ (n + 1) - 1 = n /\ n <= Len(segs)
    OBVIOUS
  <2>2. h[n] \in Seq(SegmentNames) /\ h[n + 1] = Walk(h[n], segs[n + 1])
    BY <1>1, <2>1
  <2>3. segs[n + 1] \in Segments
    BY <2>1
  <2>4. QED
    BY <2>2, <2>3, WalkFacts
<1>4. P \in SUBSET Nat /\ Len(segs) \in Nat
  OBVIOUS
<1> HIDE DEF P
<1>5. Len(segs) \in P
  BY <1>2, <1>3, <1>4, Induction
<1>6. QED
  BY <1>1, <1>4, <1>5 DEF P

\* Names are left as they are, and a slash at their end makes no difference.
LEMMA NamesAreKept ==
    ASSUME NEW names \in Seq(SegmentNames), NEW segs \in Seq(Segments),
           segs = names \/ segs = Append(names, Blank)
    PROVE  Kept(segs) = names
<1>1. PICK h : /\ h[0] = <<>>
               /\ \A i \in 1 .. Len(segs) : h[i] = Walk(h[i - 1], segs[i])
               /\ Kept(segs) = h[Len(segs)]
  BY WalkRuns
<1>2. /\ Len(names) \in Nat /\ DOMAIN names = 1 .. Len(names)
      /\ \A i \in 1 .. Len(names) : segs[i] = names[i]
      /\ Len(names) <= Len(segs) /\ Len(segs) \in Nat
  OBVIOUS
<1> DEFINE first(n) == [i \in 1 .. n |-> names[i]]
           P == {n \in Nat : n <= Len(names) => h[n] = first(n)}
<1>3. 0 \in P
  BY <1>1
<1>4. ASSUME NEW n \in P PROVE n + 1 \in P
  <2> SUFFICES ASSUME n + 1 <= Len(names) PROVE h[n + 1] = first(n + 1)
    OBVIOUS
  <2>1. n \in Nat /\ n + 1 \in 1 .. Len(names) /\ n + 1 \in 1 .. Len(segs)
        /\ (n + 1) - 1 = n /\ n <= Len(names)
    BY <1>2
  <2>2. h[n + 1] = Walk(first(n), names[n + 1])
    BY <1>1, <1>2, <2>1
  <2>3. names[n + 1] \in SegmentNames /\ names[n + 1] \in Segments
    <3>1. names[n + 1] \in SegmentNames
      BY <1>2, <2>1
    <3>2. SegmentNames \subseteq Segments
      BY DEF Segments
    <3>3. QED
      BY <3>1, <3>2
  <2> DEFINE s == first(n)
  <2>4. s \in [1 .. n -> SegmentNames] /\ \A i \in 1 .. n : s[i] = names[i]
    BY <1>2, <2>1
  <2> HIDE DEF s
  <2>5. s \in Seq(SegmentNames) /\ Len(s) = n
    BY <2>1, <2>4
  <2>6. h[n + 1] = Append(s, names[n + 1])
    BY <2>2, <2>3, <2>5, WalkFacts DEF s
  <2>7. Append(s, names[n + 1]) = first(n + 1)
    <3>1. DOMAIN Append(s, names[n + 1]) = 1 .. n + 1
      BY <2>3, <2>5
    <3>2. \A i \in 1 .. n + 1 : Append(s, names[n + 1])[i] = names[i]
      BY <2>1, <2>3, <2>4, <2>5
    <3>3. Append(s, names[n + 1]) \in Seq(SegmentNames)
      BY <2>3, <2>5
    <3>4. QED
      BY <3>1, <3>2, <3>3
  <2>8. QED
    BY <2>6, <2>7
<1>5. P \in SUBSET Nat
  OBVIOUS
<1> HIDE DEF P
<1>6. Len(names) \in P
  BY <1>2, <1>3, <1>4, <1>5, Induction
<1>7. h[Len(names)] = names
  <2>1. h[Len(names)] = first(Len(names))
    BY <1>2, <1>6 DEF P
  <2>2. QED
    BY <1>2, <2>1
<1>8. CASE segs = names
  BY <1>1, <1>7, <1>8
<1>9. CASE segs = Append(names, Blank)
  <2>1. /\ Len(segs) = Len(names) + 1 /\ segs[Len(segs)] = Blank
        /\ Len(segs) \in 1 .. Len(segs) /\ Len(segs) - 1 = Len(names)
    BY <1>2, <1>9
  <2>2. h[Len(segs)] = Walk(names, Blank)
    BY <1>1, <1>7, <2>1
  <2>3. Blank \in Segments /\ Blank \notin SegmentNames \cup {Up}
    BY ReturnPathAssumption DEF Segments, Blank, Up
  <2>4. QED
    BY <1>1, <2>2, <2>3, WalkFacts
<1>10. QED
  BY <1>8, <1>9

-----------------------------------------------------------------------------
(* What the walk keeps is what Resolved says of a path.                     *)

\* The names that follow segment i up to n, less the ".." among them.
Balance(segs, i, n) ==
    Cardinality(Names(segs, i + 1, n)) - Cardinality(Dots(segs, i + 1, n))

\* Segment i stays if the path ends at n.
StaysTo(segs, i, n) ==
    segs[i] \in SegmentNames /\ \A j \in i + 1 .. n : Balance(segs, i, j) >= 0

\* Segments between two places can be counted.
LEMMA CountsAreNat ==
    ASSUME NEW segs, NEW i \in Int, NEW j \in Int
    PROVE  /\ IsFiniteSet(Names(segs, i, j)) /\ Cardinality(Names(segs, i, j)) \in Nat
           /\ IsFiniteSet(Dots(segs, i, j)) /\ Cardinality(Dots(segs, i, j)) \in Nat
<1>1. IsFiniteSet(i .. j)
  BY FS_Interval
<1>2. Names(segs, i, j) \in SUBSET (i .. j) /\ Dots(segs, i, j) \in SUBSET (i .. j)
  BY DEF Names, Dots
<1>3. QED
  BY <1>1, <1>2, FS_Subset, FS_CardinalityType

\* What one segment more adds to the balance.
LEMMA BalanceFacts ==
    ASSUME NEW segs, NEW i \in Nat, NEW n \in Nat, i <= n
    PROVE  /\ Balance(segs, i, n) \in Int /\ Balance(segs, i, i) = 0
           /\ Balance(segs, i, n + 1) =
                 IF segs[n + 1] \in SegmentNames THEN Balance(segs, i, n) + 1
                 ELSE IF segs[n + 1] = Up THEN Balance(segs, i, n) - 1
                 ELSE Balance(segs, i, n)
<1> DEFINE N == Names(segs, i + 1, n)
           D == Dots(segs, i + 1, n)
<1>1. /\ IsFiniteSet(N) /\ Cardinality(N) \in Nat
      /\ IsFiniteSet(D) /\ Cardinality(D) \in Nat
  BY CountsAreNat
<1>2. \A k : k \in i + 1 .. n + 1 <=> k \in i + 1 .. n \/ k = n + 1
  OBVIOUS
<1>3. n + 1 \notin i + 1 .. n
  OBVIOUS
<1>4. n + 1 \notin N /\ n + 1 \notin D
  BY <1>3 DEF Names, Dots
<1>5. /\ Names(segs, i + 1, n + 1) = IF segs[n + 1] \in SegmentNames THEN N \cup {n + 1} ELSE N
      /\ Dots(segs, i + 1, n + 1) = IF segs[n + 1] = Up THEN D \cup {n + 1} ELSE D
  BY <1>2, <1>3 DEF Names, Dots, Up
<1>6. /\ Cardinality(N \cup {n + 1}) = Cardinality(N) + 1
      /\ Cardinality(D \cup {n + 1}) = Cardinality(D) + 1
  BY <1>1, <1>4, FS_AddElement
<1>7. Balance(segs, i, n) = Cardinality(N) - Cardinality(D)
  BY DEF Balance
<1>8. Balance(segs, i, i) = 0
  <2>1. Names(segs, i + 1, i) = {} /\ Dots(segs, i + 1, i) = {}
    BY DEF Names, Dots
  <2>2. QED
    BY <2>1, FS_EmptySet DEF Balance
<1>9. Up \notin SegmentNames
  BY ReturnPathAssumption DEF Up
<1> HIDE DEF N, D
<1>10. Balance(segs, i, n + 1) =
          IF segs[n + 1] \in SegmentNames THEN Balance(segs, i, n) + 1
          ELSE IF segs[n + 1] = Up THEN Balance(segs, i, n) - 1
          ELSE Balance(segs, i, n)
  <2>1. CASE segs[n + 1] \in SegmentNames
    <3>1. segs[n + 1] # Up
      BY <1>9, <2>1
    <3>2. Balance(segs, i, n + 1) = Cardinality(N \cup {n + 1}) - Cardinality(D)
      BY <1>5, <2>1, <3>1 DEF Balance
    <3>3. QED
      BY <1>1, <1>6, <1>7, <2>1, <3>2
  <2>2. CASE segs[n + 1] = Up
    <3>1. segs[n + 1] \notin SegmentNames
      BY <1>9, <2>2
    <3>2. Balance(segs, i, n + 1) = Cardinality(N) - Cardinality(D \cup {n + 1})
      BY <1>5, <2>2, <3>1 DEF Balance
    <3>3. QED
      BY <1>1, <1>6, <1>7, <2>2, <3>1, <3>2
  <2>3. CASE segs[n + 1] \notin SegmentNames /\ segs[n + 1] # Up
    <3>1. Balance(segs, i, n + 1) = Cardinality(N) - Cardinality(D)
      BY <1>5, <2>3 DEF Balance
    <3>2. QED
      BY <1>7, <2>3, <3>1
  <2>4. QED
    BY <2>1, <2>2, <2>3
<1>11. QED
  BY <1>1, <1>7, <1>8, <1>10

\* Whether a segment stays when the path is one segment longer.
LEMMA StaysNext ==
    ASSUME NEW segs, NEW n \in Nat, NEW i \in 1 .. n + 1
    PROVE  StaysTo(segs, i, n + 1) <=>
              \/ i = n + 1 /\ segs[n + 1] \in SegmentNames
              \/ i \in 1 .. n /\ StaysTo(segs, i, n) /\ Balance(segs, i, n + 1) >= 0
<1>1. i \in Nat /\ (i \in 1 .. n \/ i = n + 1) /\ n + 1 \notin 1 .. n
  OBVIOUS
<1>2. CASE i = n + 1
  <2>1. i + 1 .. n + 1 = {}
    BY <1>2
  <2>2. QED
    BY <1>1, <1>2, <2>1 DEF StaysTo
<1>3. CASE i \in 1 .. n
  <2>1. \A j : j \in i + 1 .. n + 1 <=> j \in i + 1 .. n \/ j = n + 1
    BY <1>3
  <2>2. i # n + 1
    BY <1>1, <1>3
  <2>3. QED
    BY <1>3, <2>1, <2>2 DEF StaysTo
<1>4. QED
  BY <1>1, <1>2, <1>3

\* The walk has kept seen of the first n segments, which are those at the places f: they
\* are in order, they are the segments that stay, and a segment with k others on top of
\* it has a balance of k.
Stack(seen, f, segs, n) ==
    /\ seen \in Seq(SegmentNames)
    /\ f \in [1 .. Len(seen) -> 1 .. n]
    /\ \A k, l \in 1 .. Len(seen) : k < l => f[k] < f[l]
    /\ \A k \in 1 .. Len(seen) :
          seen[k] = segs[f[k]] /\ Balance(segs, f[k], n) = Len(seen) - k
    /\ \A i \in 1 .. n : StaysTo(segs, i, n) <=> \E k \in 1 .. Len(seen) : f[k] = i

\* What is left of a sequence without its last element.
LEMMA FrontFacts ==
    ASSUME NEW S, NEW s \in Seq(S), s # <<>>
    PROVE  /\ Front(s) \in Seq(S) /\ Len(Front(s)) = Len(s) - 1
           /\ \A k \in 1 .. Len(s) - 1 : Front(s)[k] = s[k]
<1>1. Len(s) \in Nat /\ Len(s) # 0
  OBVIOUS
<1>2. Len(s) - 1 \in Nat /\ \A k \in 1 .. Len(s) - 1 : k \in 1 .. Len(s)
  BY <1>1
<1>3. Front(s) = [k \in 1 .. Len(s) - 1 |-> s[k]]
  BY <1>1 DEF Front
<1>4. Front(s) \in [1 .. Len(s) - 1 -> S]
  BY <1>2, <1>3
<1> DEFINE t == Front(s)
           n == Len(s) - 1
<1>5. t \in [1 .. n -> S] /\ n \in Nat
  BY <1>2, <1>4
<1> HIDE DEF t, n
<1>6. t \in Seq(S) /\ Len(t) = n
  BY <1>5
<1>7. QED
  BY <1>3, <1>6 DEF t, n

\* A step of the walk keeps account of the stack.
LEMMA StackStep ==
    ASSUME NEW segs \in Seq(Segments), NEW n \in Nat, n + 1 \in 1 .. Len(segs),
           NEW seen, NEW f, Stack(seen, f, segs, n)
    PROVE  \E g : Stack(Walk(seen, segs[n + 1]), g, segs, n + 1)
<1> DEFINE s == segs[n + 1]
           m == Len(seen)
<1>1. /\ seen \in Seq(SegmentNames) /\ f \in [1 .. m -> 1 .. n]
      /\ \A k, l \in 1 .. m : k < l => f[k] < f[l]
      /\ \A k \in 1 .. m : seen[k] = segs[f[k]] /\ Balance(segs, f[k], n) = m - k
      /\ \A i \in 1 .. n : StaysTo(segs, i, n) <=> \E k \in 1 .. m : f[k] = i
  BY DEF Stack
<1>2. s \in Segments /\ m \in Nat
  BY <1>1
<1>3. /\ \A k \in 1 .. m : f[k] \in 1 .. n /\ f[k] \in Nat /\ f[k] <= n
      /\ \A i \in 1 .. n : i \in Nat /\ i <= n
      /\ \A i \in 1 .. n + 1 : i \in 1 .. n \/ i = n + 1
      /\ n + 1 \notin 1 .. n /\ 1 .. n \subseteq 1 .. n + 1 /\ n + 1 \in 1 .. n + 1
  <2>1. \A i \in 1 .. n : i \in Nat /\ i <= n
    OBVIOUS
  <2>2. \A k \in 1 .. m : f[k] \in 1 .. n
    BY <1>1
  <2>3. /\ \A i \in 1 .. n + 1 : i \in 1 .. n \/ i = n + 1
        /\ n + 1 \notin 1 .. n /\ 1 .. n \subseteq 1 .. n + 1 /\ n + 1 \in 1 .. n + 1
    OBVIOUS
  <2>4. QED
    BY <2>1, <2>2, <2>3
<1>4. ASSUME NEW i \in 1 .. n + 1
      PROVE  StaysTo(segs, i, n + 1) <=>
                \/ i = n + 1 /\ s \in SegmentNames
                \/ i \in 1 .. n /\ StaysTo(segs, i, n) /\ Balance(segs, i, n + 1) >= 0
  BY <1>4, StaysNext
<1>5. ASSUME NEW i \in 1 .. n
      PROVE  /\ Balance(segs, i, n) \in Int
             /\ s \in SegmentNames => Balance(segs, i, n + 1) = Balance(segs, i, n) + 1
             /\ s = Up => Balance(segs, i, n + 1) = Balance(segs, i, n) - 1
             /\ s \notin SegmentNames \cup {Up} =>
                   Balance(segs, i, n + 1) = Balance(segs, i, n)
  <2>1. i \in Nat /\ i <= n
    BY <1>3
  <2>2. Up \notin SegmentNames
    BY ReturnPathAssumption DEF Up
  <2>3. QED
    BY <2>1, <2>2, BalanceFacts
<1> HIDE DEF s, m
<1>6. CASE s \in SegmentNames
  <2> DEFINE t == Append(seen, s)
             g == [k \in 1 .. m + 1 |-> IF k = m + 1 THEN n + 1 ELSE f[k]]
  <2>1. Walk(seen, s) = t
    BY <1>1, <1>2, <1>6, WalkFacts
  <2>2. /\ t \in Seq(SegmentNames) /\ Len(t) = m + 1 /\ t[m + 1] = s
        /\ \A k \in 1 .. m : t[k] = seen[k]
    BY <1>1, <1>6 DEF m
  <2>3. /\ \A k : k \in 1 .. m + 1 <=> k \in 1 .. m \/ k = m + 1
        /\ m + 1 \notin 1 .. m /\ \A k \in 1 .. m : k < m + 1 /\ ~(m + 1 < k)
    BY <1>2
  <2> HIDE DEF t
  <2>4. /\ g \in [1 .. m + 1 -> 1 .. n + 1] /\ g[m + 1] = n + 1
        /\ \A k \in 1 .. m : g[k] = f[k]
    BY <1>1, <1>3, <2>3
  <2> HIDE DEF g
  <2>5. \A k, l \in 1 .. m + 1 : k < l => g[k] < g[l]
    <3> SUFFICES ASSUME NEW k \in 1 .. m + 1, NEW l \in 1 .. m + 1, k < l PROVE g[k] < g[l]
      OBVIOUS
    <3>1. k \in 1 .. m
      BY <1>2
    <3>2. CASE l \in 1 .. m
      BY <1>1, <2>4, <3>1, <3>2
    <3>3. CASE l = m + 1
      <4>1. g[l] = n + 1 /\ g[k] \in Nat /\ g[k] <= n
        BY <1>3, <2>4, <3>1, <3>3
      <4>2. QED
        BY <4>1
    <3>4. QED
      BY <2>3, <3>2, <3>3
  <2>6. ASSUME NEW k \in 1 .. m + 1
        PROVE  t[k] = segs[g[k]] /\ Balance(segs, g[k], n + 1) = (m + 1) - k
    <3>1. CASE k \in 1 .. m
      <4>1. g[k] = f[k] /\ t[k] = seen[k] /\ f[k] \in 1 .. n
        BY <1>3, <2>2, <2>4, <3>1
      <4>2. Balance(segs, f[k], n + 1) = (m - k) + 1
        BY <1>1, <1>5, <1>6, <3>1, <4>1
      <4>3. (m - k) + 1 = (m + 1) - k
        BY <1>2, <3>1
      <4>4. QED
        BY <1>1, <3>1, <4>1, <4>2, <4>3
    <3>2. CASE k = m + 1
      <4>1. g[k] = n + 1 /\ t[k] = s
        BY <2>2, <2>4, <3>2
      <4>2. Balance(segs, n + 1, n + 1) = 0
        <5>1. n + 1 \in Nat /\ n + 1 <= n + 1
          OBVIOUS
        <5>2. QED
          BY <5>1, BalanceFacts
      <4>3. (m + 1) - k = 0
        BY <1>2, <3>2
      <4>4. QED
        BY <4>1, <4>2, <4>3 DEF s
    <3>3. QED
      BY <2>3, <2>6, <3>1, <3>2
  <2>7. ASSUME NEW i \in 1 .. n + 1
        PROVE  StaysTo(segs, i, n + 1) <=> \E k \in 1 .. m + 1 : g[k] = i
    <3>1. CASE i = n + 1
      BY <1>4, <1>6, <2>3, <2>4, <3>1
    <3>2. CASE i \in 1 .. n
      <4>1. i # n + 1
        BY <1>3, <3>2
      <4>2. StaysTo(segs, i, n) => Balance(segs, i, n + 1) >= 0
        <5> SUFFICES ASSUME StaysTo(segs, i, n) PROVE Balance(segs, i, n + 1) >= 0
          OBVIOUS
        <5>1. PICK k \in 1 .. m : f[k] = i
          BY <1>1, <3>2
        <5>2. Balance(segs, i, n + 1) = (m - k) + 1
          BY <1>1, <1>5, <1>6, <3>2, <5>1
        <5>3. QED
          BY <1>2, <5>2
      <4>3. StaysTo(segs, i, n + 1) <=> StaysTo(segs, i, n)
        BY <1>4, <3>2, <4>1, <4>2
      <4>4. (\E k \in 1 .. m + 1 : g[k] = i) <=> \E k \in 1 .. m : f[k] = i
        BY <2>3, <2>4, <4>1
      <4>5. QED
        BY <1>1, <3>2, <4>3, <4>4
    <3>3. QED
      BY <1>3, <2>7, <3>1, <3>2
  <2>8. Stack(t, g, segs, n + 1)
    BY <2>2, <2>4, <2>5, <2>6, <2>7 DEF Stack
  <2>9. QED
    BY <2>1, <2>8 DEF s
<1>7. CASE s \notin SegmentNames \cup {Up}
  <2>1. Walk(seen, s) = seen
    BY <1>1, <1>2, <1>7, WalkFacts
  <2>2. f \in [1 .. m -> 1 .. n + 1]
    BY <1>1, <1>3
  <2>3. \A k \in 1 .. m : Balance(segs, f[k], n + 1) = m - k
    BY <1>1, <1>3, <1>5, <1>7
  <2>4. ASSUME NEW i \in 1 .. n + 1
        PROVE  StaysTo(segs, i, n + 1) <=> \E k \in 1 .. m : f[k] = i
    <3>1. CASE i = n + 1
      BY <1>3, <1>4, <1>7, <3>1
    <3>2. CASE i \in 1 .. n
      <4>1. StaysTo(segs, i, n) => Balance(segs, i, n + 1) >= 0
        <5> SUFFICES ASSUME StaysTo(segs, i, n) PROVE Balance(segs, i, n + 1) >= 0
          OBVIOUS
        <5>1. PICK k \in 1 .. m : f[k] = i
          BY <1>1, <3>2
        <5>2. Balance(segs, i, n + 1) = m - k
          BY <2>3, <5>1
        <5>3. QED
          BY <1>2, <5>2
      <4>2. i # n + 1
        BY <1>3, <3>2
      <4>3. QED
        BY <1>1, <1>4, <3>2, <4>1, <4>2
    <3>3. QED
      BY <1>3, <2>4, <3>1, <3>2
  <2>5. Stack(seen, f, segs, n + 1)
    BY <1>1, <2>2, <2>3, <2>4 DEF Stack, m
  <2>6. QED
    BY <2>1, <2>5 DEF s
<1>8. CASE s = Up /\ seen = <<>>
  <2>1. Walk(seen, s) = <<>>
    BY <1>1, <1>2, <1>8, WalkFacts DEF Pop
  <2>2. m = 0 /\ 1 .. m = {}
    BY <1>8 DEF m
  <2>3. ASSUME NEW i \in 1 .. n + 1 PROVE ~StaysTo(segs, i, n + 1)
    <3>1. Up \notin SegmentNames
      BY ReturnPathAssumption DEF Up
    <3>2. QED
      BY <1>1, <1>4, <1>8, <2>2, <2>3, <3>1
  <2>4. f \in [1 .. m -> 1 .. n + 1]
    BY <1>1, <1>3
  <2>5. Stack(seen, f, segs, n + 1)
    BY <1>1, <2>2, <2>3, <2>4 DEF Stack, m
  <2>6. QED
    BY <1>8, <2>1, <2>5 DEF s
<1>9. CASE s = Up /\ seen # <<>>
  <2> DEFINE t == Front(seen)
             g == [k \in 1 .. m - 1 |-> f[k]]
  <2>1. Walk(seen, s) = t
    BY <1>1, <1>2, <1>9, WalkFacts DEF Pop
  <2>2. m > 0 /\ m - 1 \in Nat
    BY <1>1, <1>9 DEF m
  <2>3. /\ t \in Seq(SegmentNames) /\ Len(t) = m - 1
        /\ \A k \in 1 .. m - 1 : t[k] = seen[k]
    BY <1>1, <1>9, FrontFacts DEF m
  <2>4. /\ \A k : k \in 1 .. m <=> k \in 1 .. m - 1 \/ k = m
        /\ m \notin 1 .. m - 1
    BY <1>2, <2>2
  <2> HIDE DEF t
  <2>5. g \in [1 .. m - 1 -> 1 .. n + 1] /\ \A k \in 1 .. m - 1 : g[k] = f[k]
    BY <1>1, <1>3, <2>4
  <2> HIDE DEF g
  <2>6. \A k, l \in 1 .. m - 1 : k < l => g[k] < g[l]
    BY <1>1, <2>4, <2>5
  <2>7. \A k \in 1 .. m : Balance(segs, f[k], n + 1) = (m - k) - 1
    BY <1>1, <1>3, <1>5, <1>9
  <2>8. ASSUME NEW k \in 1 .. m - 1
        PROVE  t[k] = segs[g[k]] /\ Balance(segs, g[k], n + 1) = (m - 1) - k
    <3>1. (m - k) - 1 = (m - 1) - k
      BY <1>2
    <3>2. QED
      BY <1>1, <2>3, <2>4, <2>5, <2>7, <2>8, <3>1
  <2>9. ASSUME NEW i \in 1 .. n + 1
        PROVE  StaysTo(segs, i, n + 1) <=> \E k \in 1 .. m - 1 : g[k] = i
    <3>1. CASE i = n + 1
      <4>1. s \notin SegmentNames
        BY <1>9, ReturnPathAssumption DEF Up
      <4>2. \A k \in 1 .. m - 1 : g[k] # i
        BY <1>3, <2>4, <2>5, <3>1
      <4>3. QED
        BY <1>3, <1>4, <3>1, <4>1, <4>2
    <3>2. CASE i \in 1 .. n
      <4>1. i # n + 1
        BY <1>3, <3>2
      <4>2. StaysTo(segs, i, n + 1) <=> StaysTo(segs, i, n) /\ Balance(segs, i, n + 1) >= 0
        BY <1>4, <3>2, <4>1
      <4>3. ASSUME NEW k \in 1 .. m, f[k] = i
            PROVE  Balance(segs, i, n + 1) >= 0 <=> k \in 1 .. m - 1
        <5>1. Balance(segs, i, n + 1) = (m - k) - 1
          BY <2>7, <4>3
        <5>2. QED
          BY <1>2, <5>1
      <4>4. StaysTo(segs, i, n + 1) <=> \E k \in 1 .. m - 1 : f[k] = i
        BY <1>1, <2>4, <3>2, <4>2, <4>3
      <4>5. QED
        BY <2>5, <4>4
    <3>3. QED
      BY <1>3, <2>9, <3>1, <3>2
  <2>10. Stack(t, g, segs, n + 1)
    BY <2>3, <2>5, <2>6, <2>8, <2>9 DEF Stack
  <2>11. QED
    BY <2>1, <2>10 DEF s
<1>10. QED
  BY <1>6, <1>7, <1>8, <1>9

\* At every segment there is such an account.
LEMMA WalkIsStack ==
    ASSUME NEW segs \in Seq(Segments)
    PROVE  \E f : Stack(Kept(segs), f, segs, Len(segs))
<1>1. PICK h : /\ h[0] = <<>>
               /\ \A i \in 1 .. Len(segs) : h[i] = Walk(h[i - 1], segs[i])
               /\ Kept(segs) = h[Len(segs)]
  BY WalkRuns
<1> DEFINE P == {n \in Nat : n <= Len(segs) => \E f : Stack(h[n], f, segs, n)}
<1>2. 0 \in P
  <2> DEFINE f == [k \in 1 .. 0 |-> 0]
  <2>1. <<>> \in Seq(SegmentNames) /\ Len(<<>>) = 0 /\ 1 .. 0 = {}
    OBVIOUS
  <2>2. f \in [1 .. 0 -> 1 .. 0]
    BY <2>1
  <2> HIDE DEF f
  <2>3. Stack(<<>>, f, segs, 0)
    BY <2>1, <2>2 DEF Stack
  <2>4. QED
    BY <1>1, <2>3
<1>3. ASSUME NEW n \in P PROVE n + 1 \in P
  <2> SUFFICES ASSUME n + 1 <= Len(segs) PROVE \E f : Stack(h[n + 1], f, segs, n + 1)
    OBVIOUS
  <2>1. n \in Nat /\ n + 1 \in 1 .. Len(segs) /\ (n + 1) - 1 = n /\ n <= Len(segs)
    OBVIOUS
  <2>2. PICK f : Stack(h[n], f, segs, n)
    BY <2>1
  <2>3. h[n + 1] = Walk(h[n], segs[n + 1])
    BY <1>1, <2>1
  <2>4. QED
    BY <2>1, <2>2, <2>3, StackStep
<1>4. P \in SUBSET Nat /\ Len(segs) \in Nat
  OBVIOUS
<1> HIDE DEF P
<1>5. Len(segs) \in P
  BY <1>2, <1>3, <1>4, Induction
<1>6. QED
  BY <1>1, <1>4, <1>5 DEF P

\* An increasing sequence of m numbers has m elements.
LEMMA IncreasingCount ==
    ASSUME NEW m \in Nat, NEW f, \A k \in 1 .. m : f[k] \in Nat,
           \A k, l \in 1 .. m : k < l => f[k] < f[l]
    PROVE  Cardinality({f[k] : k \in 1 .. m}) = m
<1> DEFINE S == {f[k] : k \in 1 .. m}
           g == [k \in 1 .. m |-> f[k]]
<1>1. \A k, l \in 1 .. m : f[k] = f[l] => k = l
  <2> SUFFICES ASSUME NEW k \in 1 .. m, NEW l \in 1 .. m, k # l PROVE f[k] # f[l]
    OBVIOUS
  <2>1. k < l \/ l < k
    OBVIOUS
  <2>2. f[k] < f[l] \/ f[l] < f[k]
    BY <2>1
  <2>3. f[k] \in Nat /\ f[l] \in Nat
    OBVIOUS
  <2>4. QED
    BY <2>2, <2>3
<1>2. g \in [1 .. m -> S] /\ \A t \in S : \E k \in 1 .. m : g[k] = t
  OBVIOUS
<1>3. \A k, l \in 1 .. m : g[k] = g[l] => k = l
  BY <1>1
<1> HIDE DEF g, S
<1>4. g \in Bijection(1 .. m, S)
  BY <1>2, <1>3 DEF Bijection, Injection, Surjection, IsInjective
<1>5. ExistsBijection(1 .. m, S)
  BY <1>4 DEF ExistsBijection
<1>6. IsFiniteSet(1 .. m) /\ Cardinality(1 .. m) = m
  <2>1. Cardinality(1 .. m) = IF 1 > m THEN 0 ELSE m - 1 + 1
    BY FS_Interval
  <2>2. QED
    BY <2>1, FS_Interval
<1>7. Cardinality(S) = m
  BY <1>5, <1>6, FS_Bijection
<1>8. QED
  BY <1>7 DEF S

\* The names the walk has kept are the resolved path.
LEMMA KeptIsResolved ==
    ASSUME NEW segs \in Seq(Segments)
    PROVE  Kept(segs) = Resolved(segs)
<1> DEFINE seen == Kept(segs)
           m == Len(seen)
           kept == {i \in DOMAIN segs : Stays(segs, i)}
           Place(i) == Cardinality({j \in kept : j <= i})
<1>1. PICK f : Stack(seen, f, segs, Len(segs))
  BY WalkIsStack
<1>2. DOMAIN segs = 1 .. Len(segs) /\ Len(segs) \in Nat
  OBVIOUS
<1>3. seen \in Seq(SegmentNames) /\ m \in Nat
  BY KeptAreNames
<1>4. \A i \in 1 .. Len(segs) : Stays(segs, i) <=> StaysTo(segs, i, Len(segs))
  <2> TAKE i \in 1 .. Len(segs)
  <2>1. \A j \in i + 1 .. Len(segs) :
           Cardinality(Dots(segs, i + 1, j)) <= Cardinality(Names(segs, i + 1, j))
              <=> Balance(segs, i, j) >= 0
    <3> TAKE j \in i + 1 .. Len(segs)
    <3>1. /\ Cardinality(Names(segs, i + 1, j)) \in Nat
          /\ Cardinality(Dots(segs, i + 1, j)) \in Nat
      BY CountsAreNat
    <3>2. QED
      BY <3>1 DEF Balance
  <2>2. QED
    BY <2>1 DEF Stays, StaysTo
<1> HIDE DEF seen, m
<1>5. /\ \A k \in 1 .. m : f[k] \in 1 .. Len(segs) /\ f[k] \in Nat
      /\ \A k, l \in 1 .. m : k < l => f[k] < f[l]
      /\ \A k \in 1 .. m : seen[k] = segs[f[k]]
      /\ \A i \in 1 .. Len(segs) : Stays(segs, i) <=> \E k \in 1 .. m : f[k] = i
  <2>1. /\ f \in [1 .. m -> 1 .. Len(segs)]
        /\ \A k, l \in 1 .. m : k < l => f[k] < f[l]
        /\ \A k \in 1 .. m : seen[k] = segs[f[k]]
        /\ \A i \in 1 .. Len(segs) :
              StaysTo(segs, i, Len(segs)) <=> \E k \in 1 .. m : f[k] = i
    BY <1>1 DEF Stack, m
  <2>2. \A i \in 1 .. Len(segs) : i \in Nat
    OBVIOUS
  <2>3. \A k \in 1 .. m : f[k] \in 1 .. Len(segs) /\ f[k] \in Nat
    BY <2>1, <2>2
  <2>4. QED
    BY <1>4, <2>1, <2>3
<1>6. kept = {f[k] : k \in 1 .. m}
  BY <1>2, <1>5
<1>7. Cardinality(kept) = m
  <2>1. Cardinality({f[k] : k \in 1 .. m}) = m
    BY <1>3, <1>5, IncreasingCount
  <2>2. QED
    BY <1>6, <2>1
<1>8. ASSUME NEW k \in 1 .. m PROVE Place(f[k]) = k
  <2>1. k \in Nat /\ k <= m /\ \A l \in 1 .. k : l \in 1 .. m
    BY <1>3
  <2>2. {j \in kept : j <= f[k]} = {f[l] : l \in 1 .. k}
    <3>1. ASSUME NEW l \in 1 .. m PROVE f[l] <= f[k] <=> l \in 1 .. k
      <4>1. f[l] \in Nat /\ f[k] \in Nat /\ l \in Nat
        BY <1>5
      <4>2. CASE l > k
        <5>1. f[k] < f[l]
          BY <1>5, <4>2
        <5>2. QED
          BY <2>1, <4>1, <4>2, <5>1
      <4>3. CASE l = k
        BY <2>1, <4>1, <4>3
      <4>4. CASE l < k
        <5>1. f[l] < f[k]
          BY <1>5, <4>4
        <5>2. QED
          BY <2>1, <4>1, <4>4, <5>1
      <4>5. QED
        BY <2>1, <4>1, <4>2, <4>3, <4>4
    <3>2. QED
      BY <1>6, <2>1, <3>1
  <2>3. Cardinality({f[l] : l \in 1 .. k}) = k
    BY <1>5, <2>1, IncreasingCount
  <2>4. QED
    BY <2>2, <2>3
<1> HIDE DEF kept, Place
<1>9. ASSUME NEW k \in 1 .. m PROVE (CHOOSE i \in kept : Place(i) = k) = f[k]
  <2>1. f[k] \in kept /\ Place(f[k]) = k
    BY <1>6, <1>8
  <2>2. \A i \in kept : Place(i) = k => i = f[k]
    BY <1>6, <1>8
  <2>3. QED
    BY <2>1, <2>2
<1>10. Resolved(segs) = [k \in 1 .. m |-> segs[CHOOSE i \in kept : Place(i) = k]]
  BY <1>7 DEF Resolved, kept, Place
<1>11. seen = [k \in 1 .. m |-> seen[k]]
  BY <1>3 DEF m
<1>12. \A k \in 1 .. m : segs[CHOOSE i \in kept : Place(i) = k] = seen[k]
  BY <1>5, <1>9
<1>13. QED
  BY <1>10, <1>11, <1>12 DEF seen

-----------------------------------------------------------------------------
(* safeReturnPathFrom.                                                      *)

\* Paths of any length.
AllPaths == [rooted : BOOLEAN, query : Queries \cup {NoQuery},
             segs : Seq(Segments) \ {<<>>}]

\* The segments of a path that is clean: the root's, or names, or names and a slash.
Canonical(segs) ==
    \/ segs = <<Blank>>
    \/ segs \in Seq(SegmentNames) \ {<<>>}
    \/ \E names \in Seq(SegmentNames) \ {<<>>} : segs = Append(names, Blank)

Safe(p) == p \in AllPaths /\ p.rooted /\ Canonical(p.segs)

\* What the operators on sequences say of names and of a slash at their end.
LEMMA SegmentFacts ==
    /\ Blank \in Segments /\ SegmentNames \subseteq Segments /\ Blank \notin SegmentNames
    /\ \A names \in Seq(SegmentNames) : names \in Seq(Segments)
<1>1. Blank \in Segments /\ SegmentNames \subseteq Segments
  BY DEF Blank, Segments
<1>2. Blank \notin SegmentNames
  BY ReturnPathAssumption DEF Blank
<1>3. QED
  BY <1>1, <1>2

\* Whatever the path, what is made of it is clean.
LEMMA MadeSafe ==
    ASSUME NEW p \in AllPaths
    PROVE  Safe(safeReturnPathFrom(p))
<1>1. Safe(Root)
  <2>1. Root.segs = <<Blank>> /\ Root.rooted
    BY DEF Root, Blank
  <2>2. Root \in AllPaths
    <3>1. <<Blank>> \in Seq(Segments) \ {<<>>}
      BY SegmentFacts
    <3>2. QED
      BY <3>1 DEF Root, AllPaths, Blank
  <2>3. QED
    BY <2>1, <2>2 DEF Safe, Canonical
<1>2. CASE ~p.rooted \/ BeginsWithTwoSlashes(p)
  BY <1>1, <1>2 DEF safeReturnPathFrom
<1>3. CASE ~(~p.rooted \/ BeginsWithTwoSlashes(p))
  <2> DEFINE clean == Clean(p.segs)
             segs == IF HasTrailingSlash(p) THEN restoreTrailingSlash(clean) ELSE clean
  <2>1. safeReturnPathFrom(p) = [p EXCEPT !.segs = segs]
    BY <1>3 DEF safeReturnPathFrom
  <2>2. p.segs \in Seq(Segments)
    BY DEF AllPaths
  <2>3. Kept(p.segs) \in Seq(SegmentNames)
    BY <2>2, KeptAreNames
  <2>4. clean = IF Kept(p.segs) = <<>> THEN <<Blank>> ELSE Kept(p.segs)
    BY DEF Clean, Kept, Blank
  <2>5. Canonical(clean) /\ clean \in Seq(Segments) \ {<<>>}
    <3>1. CASE Kept(p.segs) = <<>>
      BY <2>4, <3>1, SegmentFacts DEF Canonical
    <3>2. CASE Kept(p.segs) # <<>>
      BY <2>3, <2>4, <3>2, SegmentFacts DEF Canonical
    <3>3. QED
      BY <3>1, <3>2
  <2>6. Canonical(segs) /\ segs \in Seq(Segments) \ {<<>>}
    <3>1. CASE HasTrailingSlash(p) /\ Last(clean) # Blank
      <4>1. segs = Append(clean, Blank)
        BY <3>1 DEF restoreTrailingSlash, Blank
      <4>2. Kept(p.segs) # <<>>
        <5>1. Last(<<Blank>>) = Blank
          BY DEF Last
        <5>2. QED
          BY <2>4, <3>1, <5>1
      <4>3. segs = Append(Kept(p.segs), Blank)
        BY <2>4, <4>1, <4>2
      <4>4. Append(Kept(p.segs), Blank) \in Seq(Segments) \ {<<>>}
        BY <2>3, SegmentFacts
      <4>5. QED
        BY <2>3, <4>2, <4>3, <4>4 DEF Canonical
    <3>2. CASE ~(HasTrailingSlash(p) /\ Last(clean) # Blank)
      <4>1. segs = clean
        BY <3>2 DEF restoreTrailingSlash, Blank
      <4>2. QED
        BY <2>5, <4>1
    <3>3. QED
      BY <3>1, <3>2
  <2> HIDE DEF segs
  <2>7. QED
    BY <1>3, <2>1, <2>6 DEF Safe, AllPaths
<1>4. QED
  BY <1>2, <1>3

\* What is made of a path of this host: it is resolved and keeps its query and its slash
\* at the end.
LEMMA MadeResolved ==
    ASSUME NEW p \in AllPaths, p.rooted, ~BeginsWithTwoSlashes(p)
    PROVE  /\ safeReturnPathFrom(p).query = p.query
           /\ safeReturnPathFrom(p).segs =
                 IF Resolved(p.segs) = <<>> THEN <<Blank>>
                 ELSE IF HasTrailingSlash(p) THEN Append(Resolved(p.segs), Blank)
                 ELSE Resolved(p.segs)
<1> DEFINE kept  == Kept(p.segs)
           clean == Clean(p.segs)
           segs  == IF HasTrailingSlash(p) THEN restoreTrailingSlash(clean) ELSE clean
<1>1. p.segs \in Seq(Segments)
  BY DEF AllPaths
<1>2. kept \in Seq(SegmentNames) /\ kept = Resolved(p.segs)
  BY <1>1, KeptAreNames, KeptIsResolved
<1>3. clean = IF kept = <<>> THEN <<Blank>> ELSE kept
  BY DEF Clean, Kept, Blank
<1>4. safeReturnPathFrom(p) = [p EXCEPT !.segs = segs]
  BY DEF safeReturnPathFrom
<1> HIDE DEF kept, clean
<1>5. CASE kept = <<>>
  <2>1. Last(clean) = Blank
    BY <1>3, <1>5 DEF Last
  <2>2. segs = <<Blank>>
    BY <1>3, <1>5, <2>1 DEF restoreTrailingSlash, Blank
  <2>3. QED
    BY <1>2, <1>4, <1>5, <2>2 DEF AllPaths
<1>6. CASE kept # <<>>
  <2>1. kept[Len(kept)] \in SegmentNames
    BY <1>2, <1>6
  <2>2. Last(clean) # Blank
    BY <1>3, <1>6, <2>1, SegmentFacts DEF Last
  <2>3. segs = IF HasTrailingSlash(p) THEN Append(kept, Blank) ELSE kept
    BY <1>3, <1>6, <2>2 DEF restoreTrailingSlash, Blank
  <2>4. QED
    BY <1>2, <1>4, <1>6, <2>3 DEF AllPaths
<1>7. QED
  BY <1>5, <1>6

\* A clean path is a path of this host, and is left as it is.
LEMMA SafeIsFixed ==
    ASSUME NEW p, Safe(p)
    PROVE  safeReturnPathFrom(p) = p /\ p.rooted /\ ~BeginsWithTwoSlashes(p) /\ p # Empty
<1>1. p \in AllPaths /\ p.rooted /\ p.segs \in Seq(Segments) \ {<<>>}
  BY DEF Safe, AllPaths
<1>2. p # Empty
  <2>1. Empty.rooted = FALSE
    BY Zenon DEF Empty
  <2>2. QED
    BY <1>1, <2>1
<1>3. CASE p.segs = <<Blank>>
  <2>1. ~BeginsWithTwoSlashes(p)
    <3>1. ~(Len(p.segs) > 1)
      BY <1>3
    <3>2. QED
      BY <3>1 DEF BeginsWithTwoSlashes
  <2>2. ~HasTrailingSlash(p)
    BY <1>3 DEF HasTrailingSlash, Blank
  <2>3. Clean(p.segs) = p.segs
    <3>1. /\ <<>> \in Seq(SegmentNames) /\ <<Blank>> \in Seq(Segments)
          /\ <<Blank>> = Append(<<>>, Blank)
      BY SegmentFacts
    <3>2. Kept(p.segs) = <<>>
      BY <1>3, <3>1, NamesAreKept
    <3>3. QED
      BY <1>3, <3>2 DEF Clean, Kept, Blank
  <2>4. [p EXCEPT !.segs = p.segs] = p
    BY <1>1 DEF AllPaths
  <2>5. QED
    BY <1>1, <1>2, <2>1, <2>2, <2>3, <2>4 DEF safeReturnPathFrom
<1>4. CASE p.segs \in Seq(SegmentNames) \ {<<>>}
  <2>1. /\ p.segs[1] \in SegmentNames /\ p.segs[Len(p.segs)] \in SegmentNames
        /\ Head(p.segs) = p.segs[1]
    BY <1>4
  <2>2. Head(p.segs) # Blank /\ Last(p.segs) # Blank
    BY <2>1, SegmentFacts DEF Last
  <2>3. ~BeginsWithTwoSlashes(p) /\ ~HasTrailingSlash(p)
    BY <2>2 DEF BeginsWithTwoSlashes, HasTrailingSlash, Blank
  <2>4. Clean(p.segs) = p.segs
    <3>1. Kept(p.segs) = p.segs
      BY <1>1, <1>4, NamesAreKept
    <3>2. QED
      BY <1>4, <3>1 DEF Clean, Kept
  <2>5. [p EXCEPT !.segs = p.segs] = p
    BY <1>1 DEF AllPaths
  <2>6. QED
    BY <1>1, <1>2, <2>3, <2>4, <2>5 DEF safeReturnPathFrom
<1>5. CASE \E names \in Seq(SegmentNames) \ {<<>>} : p.segs = Append(names, Blank)
  <2>1. PICK names \in Seq(SegmentNames) \ {<<>>} : p.segs = Append(names, Blank)
    BY <1>5
  <2>2. /\ Len(names) \in Nat /\ Len(names) > 0 /\ names[1] \in SegmentNames
        /\ names[Len(names)] \in SegmentNames
    BY <2>1
  <2>3. /\ Len(p.segs) = Len(names) + 1 /\ p.segs[1] = names[1]
        /\ p.segs[Len(p.segs)] = Blank /\ Head(p.segs) = p.segs[1]
    BY <2>1, <2>2
  <2>4. ~BeginsWithTwoSlashes(p)
    <3>1. Head(p.segs) # Blank
      BY <2>2, <2>3, SegmentFacts
    <3>2. QED
      BY <3>1 DEF BeginsWithTwoSlashes, Blank
  <2>5. HasTrailingSlash(p)
    <3>1. p.segs # <<Blank>>
      <4>1. Len(<<Blank>>) = 1 /\ Len(p.segs) # 1
        BY <2>2, <2>3
      <4>2. QED
        BY <4>1
    <3>2. Last(p.segs) = Blank
      BY <2>3 DEF Last
    <3>3. QED
      BY <3>1, <3>2 DEF HasTrailingSlash, Blank
  <2>6. Clean(p.segs) = names
    <3>1. Kept(p.segs) = names
      BY <1>1, <2>1, NamesAreKept
    <3>2. QED
      BY <2>1, <3>1 DEF Clean, Kept
  <2>7. restoreTrailingSlash(names) = p.segs
    <3>1. Last(names) # Blank
      BY <2>2, SegmentFacts DEF Last
    <3>2. QED
      BY <2>1, <3>1 DEF restoreTrailingSlash, Blank
  <2>8. [p EXCEPT !.segs = p.segs] = p
    BY <1>1 DEF AllPaths
  <2>9. QED
    BY <1>1, <1>2, <2>4, <2>5, <2>6, <2>7, <2>8 DEF safeReturnPathFrom
<1>6. QED
  BY <1>3, <1>4, <1>5 DEF Safe, Canonical

-----------------------------------------------------------------------------
(* The way of a path.                                                       *)

\* From the moment it is signed on, the path in the state is clean; it is the original
\* path, and the one the visitor is sent to.
IInv ==
    /\ asked \in AllPaths
    /\ route.stripped => asked.rooted
    /\ pc \in {"asked", "signed", "verified", "returned"}
    /\ pc # "asked" => Safe(claim) /\ claim = getOriginalPath
    /\ pc = "returned" => returnTo = claim

\* Of two segments one is left.
LEMMA TailFacts ==
    ASSUME NEW S, NEW s \in Seq(S), Len(s) > 1
    PROVE  Tail(s) \in Seq(S) \ {<<>>}
<1> DEFINE t == Tail(s)
<1>1. t \in Seq(S) /\ Len(t) = Len(s) - 1 /\ Len(s) \in Nat
  OBVIOUS
<1> HIDE DEF t
<1>2. t # <<>>
  BY <1>1
<1>3. QED
  BY <1>1, <1>2 DEF t

\* What is left of a path when a route has taken its first segment is a path.
LEMMA CurrentIsPath ==
    ASSUME asked \in AllPaths
    PROVE  current \in AllPaths
<1>1. asked.segs \in Seq(Segments) \ {<<>>}
  BY DEF AllPaths
<1>2. Len(asked.segs) > 1 => Tail(asked.segs) \in Seq(Segments) \ {<<>>}
  BY <1>1, TailFacts
<1>3. <<Blank>> \in Seq(Segments) \ {<<>>}
  BY SegmentFacts
<1> DEFINE segs == IF Len(asked.segs) > 1 THEN Tail(asked.segs) ELSE <<Blank>>
<1>4. segs \in Seq(Segments) \ {<<>>}
  BY <1>2, <1>3
<1>5. current = IF ~route.stripped THEN asked ELSE [asked EXCEPT !.segs = segs]
  BY DEF current, Blank
<1> HIDE DEF segs
<1>6. QED
  BY <1>4, <1>5 DEF AllPaths

\* The original path is clean, so that it is signed as it is.
LEMMA OriginalIsSafe ==
    ASSUME asked \in AllPaths
    PROVE  /\ Safe(getOriginalPath)
           /\ safeReturnPathFrom(getOriginalPath) = getOriginalPath
<1>1. Safe(getOriginalPath)
  BY CurrentIsPath, MadeSafe DEF getOriginalPath
<1>2. QED
  BY <1>1, SafeIsFixed

\* Every step keeps the invariant.
LEMMA StepIInv ==
    ASSUME IInv, [Next]_vars
    PROVE  IInv'
<1>1. CASE ServeChallenge
  <2>1. Safe(claim') /\ claim' = getOriginalPath
    BY <1>1, OriginalIsSafe DEF ServeChallenge, IInv
  <2>2. getOriginalPath' = getOriginalPath
    BY <1>1 DEF ServeChallenge, getOriginalPath, current
  <2>3. QED
    BY <1>1, <2>1, <2>2 DEF ServeChallenge, IInv
<1>2. CASE VerifyReturnState
  <2>1. Safe(claim) /\ pc = "signed"
    BY <1>2 DEF VerifyReturnState, IInv
  <2>2. ClaimOK
    BY <2>1, SafeIsFixed DEF ClaimOK
  <2>3. getOriginalPath' = getOriginalPath
    BY <1>2 DEF VerifyReturnState, getOriginalPath, current
  <2>4. QED
    BY <1>2, <2>1, <2>2, <2>3 DEF VerifyReturnState, IInv
<1>3. CASE HandleVerify
  <2>1. Safe(claim) /\ pc = "verified"
    BY <1>3 DEF HandleVerify, IInv
  <2>2. returnTo' = claim
    BY <1>3, <2>1, SafeIsFixed DEF HandleVerify
  <2>3. getOriginalPath' = getOriginalPath
    BY <1>3 DEF HandleVerify, getOriginalPath, current
  <2>4. QED
    BY <1>3, <2>1, <2>2, <2>3 DEF HandleVerify, IInv
<1>4. CASE AskAgain
  BY <1>4 DEF AskAgain, IInv, Safe
<1>5. CASE UNCHANGED vars
  <2>1. getOriginalPath' = getOriginalPath
    BY <1>5 DEF vars, getOriginalPath, current
  <2>2. QED
    BY <1>5, <2>1 DEF vars, IInv
<1>6. QED
  BY <1>1, <1>2, <1>3, <1>4, <1>5 DEF Next

\* The invariant: the path that is signed is the original one, and clean, which is what
\* safeReturnPathFrom leaves alone (handler.go:102-143, verification.go:18).
THEOREM ReturnPathInvariant == Spec => []IInv
<1>1. Init => IInv
  <2> SUFFICES ASSUME Init PROVE asked \in AllPaths
    BY Zenon DEF Init, IInv
  <2>1. asked \in Paths
    BY DEF Init, Asked
  <2>2. \A n \in 1 .. MaxSegments : [1 .. n -> Segments] \subseteq Seq(Segments) \ {<<>>}
    <3> SUFFICES ASSUME NEW n \in 1 .. MaxSegments, NEW s \in [1 .. n -> Segments]
                 PROVE  s \in Seq(Segments) /\ s # <<>>
      OBVIOUS
    <3>1. n \in Nat /\ n # 0
      <4>1. MaxSegments \in Nat
        BY ReturnPathAssumption
      <4>2. QED
        BY <4>1
    <3>2. s \in Seq(Segments) /\ Len(s) = n
      BY <3>1
    <3>3. QED
      BY <3>1, <3>2
  <2>3. QED
    BY <2>1, <2>2 DEF Paths, AllPaths
<1>2. IInv /\ [Next]_vars => IInv'
  BY StepIInv
<1>3. QED
  BY <1>1, <1>2, PTL DEF Spec

\* Making a path safe is idempotent: no state that the server signed is refused for its
\* path, and the visitor is sent to the path that was signed, on this host
\* (verification.go:34, verification_handler.go:100).
THEOREM SignedPathsReturn == Spec => []GenuineStatesReturn
<1>1. IInv => GenuineStatesReturn
  BY SafeIsFixed DEF IInv, GenuineStatesReturn
<1>2. QED
  BY <1>1, ReturnPathInvariant, PTL

\* The visitor is sent to the path that was asked for, as it was before a route took a
\* prefix away, resolved, with its query and its slash at the end; a URI that is no path,
\* or begins with two slashes, leads to the root (handler.go:102-143).
THEOREM VisitorsReturn == Spec => []ReturnsWhereAsked
<1>1. IInv => ReturnsWhereAsked
  <2> DEFINE path == IF route.orig THEN asked ELSE current
             kept == Resolved(path.segs)
  <2> SUFFICES ASSUME IInv, pc = "returned"
               PROVE  IF path.rooted /\ ~BeginsWithTwoSlashes(path)
                      THEN /\ returnTo.query = path.query
                           /\ returnTo.segs = IF kept = <<>> THEN <<Blank>>
                                              ELSE IF HasTrailingSlash(path)
                                              THEN Append(kept, Blank) ELSE kept
                      ELSE returnTo = Root
    BY Zenon DEF ReturnsWhereAsked, Blank
  <2>1. asked \in AllPaths /\ current \in AllPaths
    BY CurrentIsPath DEF IInv
  <2>2. path \in AllPaths
    BY <2>1
  <2>3. returnTo = getOriginalPath
    BY DEF IInv
  <2>4. returnTo = safeReturnPathFrom(path)
    <3>1. CASE route.orig /\ ~asked.rooted
      <4>1. current = asked
        BY <3>1 DEF IInv, current
      <4>2. QED
        BY <2>3, <3>1, <4>1 DEF getOriginalPath
    <3>2. CASE ~(route.orig /\ ~asked.rooted)
      BY <2>3, <3>2 DEF getOriginalPath
    <3>3. QED
      BY <3>1, <3>2
  <2> HIDE DEF path
  <2>5. CASE path.rooted /\ ~BeginsWithTwoSlashes(path)
    BY <2>2, <2>4, <2>5, MadeResolved
  <2>6. CASE ~(path.rooted /\ ~BeginsWithTwoSlashes(path))
    BY <2>4, <2>6 DEF safeReturnPathFrom
  <2>7. QED
    BY <2>5, <2>6
<1>2. QED
  BY <1>1, ReturnPathInvariant, PTL
===============================================================================
