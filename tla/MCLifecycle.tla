----------------------------- MODULE MCLifecycle -----------------------------
(***************************************************************************)
(* Instances of Lifecycle for TLC.                                          *)
(***************************************************************************)
EXTENDS Lifecycle

CONSTANTS r1, r2, db1, db2

\* The country database and a list assembled from two sources.
CountryAndBlacklist == <<{}, {File, URL}, {URL}>>

\* The country database and a list that is read from a file.
CountryAndFile == <<{}, {File}, {URL}>>

BlacklistAndCountry == {Blacklist, Country}

=============================================================================
