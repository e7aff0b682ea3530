---------------------------- MODULE MCDeployment ----------------------------
(* Instances of Deployment.                                                *)
EXTENDS Deployment

CONSTANTS s1, s2, k1, k2

MCNormal ==
    [o \in {"https://auth", "HTTPS://Auth:443", "https://other", "spiffe://auth",
            "urn:", "auth"} |->
        CASE o = "HTTPS://Auth:443" -> "https://auth"
          [] o = "auth" -> None
          [] OTHER -> o]

MCSpecial == {"https://auth", "HTTPS://Auth:443", "https://other"}

MCTokens ==
    {"slash", "question", "hash", "oidc", ".well-known", "openid-configuration"}

OneHost == [s \in Servers |-> "host"]
OwnHosts == [s \in Servers |-> s]

Issuer(origin, rest) == [origin |-> origin, rest |-> rest]

BaseFile ==
    [issuer |-> Issuer("https://auth", <<>>), listen_addr |-> "0.0.0.0:8080",
     code_max_age_seconds |-> 300, code_hmac_key |-> <<"0", "a", "9", "F">>,
     user_header |-> None, dn_attribute |-> None, id_token_ttl_seconds |-> None,
     access_token_ttl_seconds |-> 60, signing_key_path |-> "key.pem",
     clients |-> None, default_groups |-> None]

WithIssuer(origin, rest) ==
    [BaseFile EXCEPT !.issuer = Issuer(origin, rest)]
With(origin, rest, text) ==
    [WithIssuer(origin, rest) EXCEPT !.code_hmac_key = text]

\* One issuer in three spellings, and another.
ReplicaFiles ==
    {BaseFile, WithIssuer("https://auth", <<"slash">>),
     WithIssuer("HTTPS://Auth:443", <<>>), WithIssuer("https://other", <<>>)}

\* A query that ends in a slash.
QueryFile == {WithIssuer("https://auth", <<"slash", "oidc", "question", "slash">>)}

\* Good files with every kind of issuer, whose key texts differ in case, in one
\* digit or in a sign; and one file of each kind that main refuses.
StartFiles ==
    {BaseFile,
     With("https://auth", <<"slash">>, <<"0", "A", "9", "f">>),
     With("HTTPS://Auth:443", <<>>, <<"0", "a", "9", "E">>),
     With("urn:", <<"slash", "oidc">>, <<"+", "a", "9", "F">>),
     With("spiffe://auth", <<"question", "oidc">>, <<"0", "a", "9", "C">>),
     With("https://auth", <<"slash", "oidc", "question", "slash">>, <<"0", "a", "8", "F">>),
     With("https://auth", DiscoveryRoute \o <<"question">>, <<"0", "a", "9", "d">>),
     With("https://auth", <<"question", "oidc">>, <<"0", "1", "9", "F">>),
     With("https://auth", <<>>, <<"0", "a", "9">>),
     With("https://auth", <<>>, <<"0", "+", "9", "F">>),
     None,
     [BaseFile EXCEPT !.issuer = None],
     [BaseFile EXCEPT !.clients = <<[client_id |-> "app"], [client_id |-> "app"]>>],
     WithIssuer("auth", <<>>),
     WithIssuer("urn:", <<"slash">>),
     WithIssuer("urn:", <<"oidc">>)}

ReplicaSymmetry == Permutations(Servers) \cup Permutations(SigningKeys)
=============================================================================
