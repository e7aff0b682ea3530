----------------------------- MODULE Discovery ------------------------------
(***************************************************************************)
(* src/oidc/discovery.rs and src/oidc/endpoints.rs: the discovery document *)
(* of an issuer.  A URL, and the text of one, is [origin, rest]: scheme,   *)
(* host and port as they are written, and the sequence of tokens after     *)
(* them: "slash", "question", "hash", and pieces of text without these     *)
(* that parsing leaves as they are (no dot segments).                      *)
(***************************************************************************)
EXTENDS Sequences, SequencesExt, Option

CONSTANTS
    Tokens,         \* of the texts
    normal,         \* [origin as written -> the url crate's form of it, or None]
    Special,        \* origins of a scheme with a known port ("https://auth")
    Schemes         \* origins that are a scheme alone ("mailto:")

begins_with_slash(url) == url.rest # <<>> /\ Head(url.rest) = "slash"

\* Url::parse: an error, or the URL with its host in lower case and a default
\* port dropped; a special URL's empty path becomes a slash.
parse(text) ==
    IF normal[text.origin] = None THEN None
    ELSE [origin |-> normal[text.origin],
          rest   |-> IF text.origin \in Special /\ ~begins_with_slash(text)
                     THEN <<"slash">> \o text.rest
                     ELSE text.rest]

\* Url::cannot_be_a_base: no slash follows the scheme.
cannot_be_a_base(url) == url.origin \in Schemes /\ ~begins_with_slash(url)

\* The path of a URL: what comes before its query and fragment.
path(url) ==
    LET i == SelectInSeq(url.rest, LAMBDA token : token \in {"question", "hash"})
    IN IF i = 0 THEN url.rest ELSE SubSeq(url.rest, 1, i - 1)

\* Url::join: a path that begins with a slash replaces the path (and query and
\* fragment) of the base, any other replaces what follows its last slash.
join(base, p) ==
    [origin |-> base.origin,
     rest   |-> IF Head(p) = "slash" THEN p
                ELSE SubSeq(path(base), 1,
                         SelectLastInSeq(path(base), LAMBDA t : t = "slash")) \o p]

\* A mistake for the properties to notice: the normalised URL is published as
\* it is, with the slash that parsing has added.
canonicalize_issuer_not(url) == url

\* One trailing slash is dropped, whatever part of the URL it ends.
canonicalize_issuer(url) ==
    IF url.rest # <<>> /\ Last(url.rest) = "slash"
    THEN [url EXCEPT !.rest = Front(@)]
    ELSE url

\* A mistake for the properties to notice: paths without the leading slash.
RelativeEndpointPaths ==
    [authorization_endpoint |-> <<"authorize">>,
     token_endpoint         |-> <<"token">>,
     userinfo_endpoint      |-> <<"userinfo">>,
     jwks_uri               |-> <<"jwks">>]

OIDCEndpointPaths ==
    [authorization_endpoint |-> <<"slash", "authorize">>,
     token_endpoint         |-> <<"slash", "token">>,
     userinfo_endpoint      |-> <<"slash", "userinfo">>,
     jwks_uri               |-> <<"slash", "jwks">>]

\* The paths oidc_router has a handler for.
DiscoveryRoute == <<"slash", ".well-known", "slash", "openid-configuration">>
Routes ==
    {DiscoveryRoute, <<"slash", "authorize">>, <<"slash", "token">>,
     <<"slash", "userinfo">>, <<"slash", "jwks">>}

\* The document of the issuer, or None: joining to a URL that cannot be a base
\* is an error, and `unwrap' panics.
discovery_info(url) ==
    LET canonical == canonicalize_issuer(url)
        base == parse(canonical)
    IN IF cannot_be_a_base(base) THEN None
       ELSE [issuer    |-> canonical,
             endpoints |-> [e \in DOMAIN OIDCEndpointPaths |->
                               join(base, OIDCEndpointPaths[e])]]

=============================================================================
