--------------------------- MODULE MCConfiguration ---------------------------
(***************************************************************************)
(* Instances of Configuration: words of six bits and a Minute of 12, so that *)
(* minutes overflow to a negative, a short and a zero duration.              *)
(***************************************************************************)
EXTENDS Configuration

CONSTANTS cap, local, pub, loop, priv

DE == "DE"
URL(scheme, host) == [scheme |-> scheme, host |-> host, padded |-> FALSE]
Padded(u) == [u EXCEPT !.padded = TRUE]

MCCanonical == [code \in {"DE", "de", "D1", "AT"} |-> IF code = "de" THEN DE ELSE code]

\* 2 minutes fit; 3 wrap to a negative, 6 to a short duration, 16 to zero; 40 do not
\* parse.
MCMinutes ==
    {<<"allow_for", 2>>, <<"allow_for", 6>>, <<"allow_for", Malformed>>,
     <<"whitelist_refresh", 2>>, <<"whitelist_refresh", 3>>, <<"whitelist_refresh", 40>>,
     <<"country_url_refresh", 2>>, <<"country_url_refresh", 16>>}

MCURLs ==
    {"cap_api_url"} \X {URL("https", cap), URL("http", cap), URL("http", local),
                        URL("https", priv), Padded(URL("https", cap))}
    \cup {"whitelist_url", "country_url"} \X {URL("https", cap), URL("https", loop)}

MCTexts ==
    {<<"cap_site_key", "ok">>, <<"cap_site_key", "blank">>, <<"cap_secret_key", "ok">>,
     <<"whitelist_file", "ok">>, <<"cookie_path", "bad">>, <<"cookie_secure", "bad">>}

MCLists ==
    {<<"whitelist_country", "DE">>, <<"whitelist_country", "de">>,
     <<"blacklist_country", "D1">>, <<"whitelist_ip", "bad">>, <<"deny_header_substring", "padded">>}

\* For durations alone: the required directives, and every field of minutes.
Numbers         == {Malformed, 0, 1, 2, 3, 4, 5, 6, 16, 40}
DurationMinutes == {"allow_for", "blacklist_refresh"} \X Numbers
DurationURLs    == {<<"cap_api_url", URL("https", cap)>>}
DurationTexts   == {<<"cap_site_key", "ok">>, <<"cap_secret_key", "ok">>,
                    <<"blacklist_file", "ok">>}
=============================================================================
