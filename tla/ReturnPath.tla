------------------------------ MODULE ReturnPath ------------------------------
(***************************************************************************)
(* Where a visitor is sent after a challenge.  The path that was asked for   *)
(* is made safe when the challenge is served, again when the state is        *)
(* signed, when it is verified and when it is used (handler.go:102-143,      *)
(* verification.go:18 and 34, verification_handler.go:100), and then the      *)
(* browser asks for it.                                                      *)
(*                                                                          *)
(* A path is the segments between its slashes: "/a/" is rooted with <<"a",   *)
(* "">>, "/" is rooted with <<"">>.  Other characters of a segment and of    *)
(* the query are opaque.                                                     *)
(***************************************************************************)
EXTENDS Naturals, Sequences, SequencesExt

CONSTANTS
    SegmentNames,   \* segments other than "", "." and ".."
    Queries,        \* queries after a "?"
    NoQuery,
    MaxSegments     \* bound: segments of a path that is asked for

ASSUME ReturnPathAssumption ==
    /\ SegmentNames \cap {"", ".", ".."} = {} /\ NoQuery \notin Queries
    /\ MaxSegments \in Nat \ {0}

Segments == SegmentNames \cup {"", ".", ".."}
Paths == [rooted : BOOLEAN, query : Queries \cup {NoQuery},
          segs : UNION {[1 .. n -> Segments] : n \in 1 .. MaxSegments}]
Asked == {p \in Paths : ~p.rooted => Head(p.segs) # ""}   \* "*" is not rooted
Root  == [rooted |-> TRUE, query |-> NoQuery, segs |-> <<"">>]
Empty == [rooted |-> FALSE, query |-> NoQuery, segs |-> <<"">>]

VARIABLES
    asked,     \* the URI the visitor asked for
    route,     \* [stripped, orig]: handle_path has taken the first segment away;
               \* Caddy's replacer has orig_uri
    pc,        \* "asked", "signed", "verified", "returned" or "refused"
    claim,     \* the return path in the signed state
    returnTo   \* where the browser is sent

vars == <<asked, route, pc, claim, returnTo>>

-----------------------------------------------------------------------------
(* path.Clean and safeReturnPathFrom.                                       *)

\* path.Clean of a rooted path: a ".." takes the segment before it away.
Pop(names)    == IF names = <<>> THEN <<>> ELSE Front(names)
Walk(seen, s) == CASE s \in {"", "."} -> seen
                   [] s = ".."        -> Pop(seen)
                   [] OTHER           -> Append(seen, s)
Clean(segs)   ==
    LET names == FoldLeft(Walk, <<>>, segs)
    IN  IF names = <<>> THEN <<"">> ELSE names

BeginsWithTwoSlashes(p) == p.rooted /\ Len(p.segs) > 1 /\ Head(p.segs) = ""
HasTrailingSlash(p)     == p.segs # <<"">> /\ Last(p.segs) = ""

restoreTrailingSlash(segs) == IF Last(segs) = "" THEN segs ELSE Append(segs, "")

safeReturnPathFrom(p) ==
    LET clean == Clean(p.segs)
    IN  IF ~p.rooted \/ BeginsWithTwoSlashes(p) THEN Root
        ELSE [p EXCEPT !.segs = IF HasTrailingSlash(p) THEN restoreTrailingSlash(clean)
                                ELSE clean]

-----------------------------------------------------------------------------
(* The way of a path.                                                       *)

\* r.URL.RequestURI().
current ==
    IF ~route.stripped THEN asked
    ELSE [asked EXCEPT !.segs = IF Len(asked.segs) > 1 THEN Tail(asked.segs) ELSE <<"">>]

\* Mutation: the path as the handler sees it.
getCurrentPath == safeReturnPathFrom(current)

getOriginalPath ==
    IF route.orig /\ asked.rooted THEN safeReturnPathFrom(asked)
    ELSE safeReturnPathFrom(current)

Init ==
    /\ asked \in Asked
    /\ route \in [stripped : BOOLEAN, orig : BOOLEAN] /\ (route.stripped => asked.rooted)
    /\ pc = "asked"
    /\ claim = Empty
    /\ returnTo = Empty

\* Mutation: the path is signed as it was asked for.
SignsUnchanged ==
    /\ pc = "asked"
    /\ claim' = current
    /\ pc' = "signed"
    /\ UNCHANGED <<asked, route, returnTo>>

\* createReturnState with the original path.
ServeChallenge ==
    /\ pc = "asked"
    /\ claim' = safeReturnPathFrom(getOriginalPath)
    /\ pc' = "signed"
    /\ UNCHANGED <<asked, route, returnTo>>

ClaimOK == claim # Empty /\ ~(safeReturnPathFrom(claim) = Root /\ claim # Root)

VerifyReturnState ==
    /\ pc = "signed"
    /\ pc' = IF ClaimOK THEN "verified" ELSE "refused"
    /\ UNCHANGED <<asked, route, claim, returnTo>>

HandleVerify ==
    /\ pc = "verified"
    /\ returnTo' = safeReturnPathFrom(claim)
    /\ pc' = "returned"
    /\ UNCHANGED <<asked, route, claim>>

\* The browser asks for returnTo; its cookie may have been refused meanwhile.
AskAgain ==
    /\ pc = "returned"
    /\ asked' = returnTo
    /\ pc' = "asked"
    /\ claim' = Empty /\ returnTo' = Empty
    /\ UNCHANGED route

Next == ServeChallenge \/ VerifyReturnState \/ HandleVerify \/ AskAgain

Spec == Init /\ [][Next]_vars

-----------------------------------------------------------------------------
(* Properties.                                                              *)

\* A state that the server signed is never refused for its path, however the path was
\* written, and making it safe once more at its use changes nothing: the visitor is
\* sent to the path that was signed, which is a path of this host
\* (verification.go:34, verification_handler.go:100).
GenuineStatesReturn ==
    /\ pc # "refused"
    /\ pc = "returned" => /\ returnTo = claim
                          /\ returnTo.rooted /\ ~BeginsWithTwoSlashes(returnTo)

\* What a path means, without its order of evaluation: a name stays if no stretch that
\* follows it has more ".." than names.
Names(segs, i, j) == {k \in i .. j : segs[k] \in SegmentNames}
Dots(segs, i, j)  == {k \in i .. j : segs[k] = ".."}
Stays(segs, i) ==
    /\ segs[i] \in SegmentNames
    /\ \A j \in i + 1 .. Len(segs) :
           Cardinality(Dots(segs, i + 1, j)) <= Cardinality(Names(segs, i + 1, j))
Resolved(segs) ==
    LET kept == {i \in DOMAIN segs : Stays(segs, i)}
        Place(i) == Cardinality({j \in kept : j <= i})
    IN  [k \in 1 .. Cardinality(kept) |-> segs[CHOOSE i \in kept : Place(i) = k]]

\* The visitor is sent to the path that was asked for, as it was before a route took a
\* prefix away, resolved, with its query and with a trailing slash where it had one; a
\* URI that is no path, or begins with two slashes, leads to the root
\* (handler.go:102-143).
ReturnsWhereAsked ==
    LET path == IF route.orig THEN asked ELSE current
        kept == Resolved(path.segs)
    IN  pc = "returned" =>
            IF path.rooted /\ ~BeginsWithTwoSlashes(path)
            THEN /\ returnTo.query = path.query
                 /\ returnTo.segs = IF kept = <<>> THEN <<"">>
                                    ELSE IF HasTrailingSlash(path) THEN Append(kept, "")
                                    ELSE kept
            ELSE returnTo = Root

=============================================================================
