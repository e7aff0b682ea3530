--------------------------- MODULE MCAuthCodeFlow ---------------------------
(***************************************************************************)
(* Small instances of AuthCodeFlow.                                        *)
(***************************************************************************)
EXTENDS AuthCodeFlow, TLC

CONSTANTS s1, s2, w1, w2, j1, j2, other

OneServer == {s1}
TwoServers == {s1, s2}
OneWorker == {w1}
TwoWorkers == {w1, w2}
AllHomeS1 == [w \in Workers |-> s1]
OneEach == [w \in Workers |-> IF w = w1 THEN s1 ELSE s2]
OneJti == {j1}
TwoJtis == {j1, j2}
OneSpelling == {Canonical}
TwoSpellings == {Canonical, other}
Sha == [v1 |-> "h1", v2 |-> "h2"]
BadUris == {"not a uri"}

-----------------------------------------------------------------------------
(* Configurations *)

Web == [client_id |-> "web", client_secret |-> "secret1",
        redirect_uris |-> <<"web/cb", "web/cb2">>, groups |-> <<"dev", "staff">>]
Spa == [client_id |-> "spa", client_secret |-> None,
        redirect_uris |-> <<"spa/cb", "not a uri">>, groups |-> <<>>]

Base == [hmac_key |-> "hmac1", code_max_age |-> 2, clients |-> <<Web, Spa>>,
         default_groups |-> <<"staff">>, dn_attribute |-> "CN",
         jwt |-> from_private_key("rsa1", "https://op"),
         id_token_ttl |-> 1, access_token_ttl |-> 1]

\* Base with one thing an operator may have changed before a restart.
NewHmacKey == [Base EXCEPT !.hmac_key = "hmac2"]
NewSecret == [Base EXCEPT !.clients = <<[Web EXCEPT !.client_secret = "secret2"], Spa>>]
NewRedirect == [Base EXCEPT !.clients = <<[Web EXCEPT !.redirect_uris = <<"web/cb2">>], Spa>>]
ClientRemoved == [Base EXCEPT !.clients = <<Spa>>]
NewGroups == [Base EXCEPT !.default_groups = <<"all">>, !.code_max_age = 1]
NewSigningKey == [Base EXCEPT !.jwt = from_private_key("rsa2", "https://op")]
HugeTtl == [Base EXCEPT !.access_token_ttl = MaxSystemTime + 1]
DuplicateGroup == [Base EXCEPT !.default_groups = <<"all", "all">>]
DuplicateClient == [Base EXCEPT !.clients = <<Web, Spa, Web>>]

BaseOnly == {Base}
BaseOrHugeTtl == {Base, HugeTtl}
BaseOrDuplicateGroup == {Base, DuplicateGroup}
Reconfigured == {Base, NewHmacKey, NewSecret, NewRedirect, ClientRemoved,
                 NewGroups, NewSigningKey, DuplicateClient}

-----------------------------------------------------------------------------
(* Requests *)

CN(name) == [key |-> "CN", value |-> name]
OU == [key |-> "OU", value |-> "unit"]

AuthWeb == [response_type |-> "code", code_challenge_method |-> "S256",
            client_id |-> "web", redirect_uri |-> "web/cb",
            scope |-> <<"openid">>, state |-> "xyz", code_challenge |-> "h1",
            nonce |-> "n1", user_header |-> <<OU, CN("alice")>>]
AuthSpa == [AuthWeb EXCEPT !.client_id = "spa", !.redirect_uri = "spa/cb",
                           !.code_challenge = None,
                           !.code_challenge_method = None]

AuthWebOnly == {AuthWeb}

\* AuthWeb, and its neighbours on every branch of authorize_handler.
AuthAll ==
    {AuthWeb, AuthSpa,
     [AuthWeb EXCEPT !.response_type = "token"],
     [AuthWeb EXCEPT !.code_challenge_method = "S512"],
     [AuthWeb EXCEPT !.code_challenge_method = None],
     [AuthWeb EXCEPT !.code_challenge_method = "plain", !.code_challenge = "v2"],
     [AuthWeb EXCEPT !.client_id = "nobody"],
     [AuthWeb EXCEPT !.redirect_uri = "spa/cb"],
     [AuthWeb EXCEPT !.user_header = None],
     [AuthWeb EXCEPT !.user_header = <<OU>>],
     [AuthWeb EXCEPT !.user_header = <<None, CN("alice")>>],
     [AuthWeb EXCEPT !.user_header = <<CN("bob"), None>>, !.nonce = None],
     [AuthSpa EXCEPT !.redirect_uri = "not a uri"]}

Basic(id, secret) ==
    [scheme |-> "Basic",
     payload |-> [client_id |-> id, client_secret |-> secret]]
BadBasic == [scheme |-> "Basic", payload |-> None]
OtherScheme == [scheme |-> "Bearer", payload |-> None]

TokenWeb == [grant_type |-> "authorization_code", redirect_uri |-> "web/cb",
             code_verifier |-> "v1", client_id |-> "web",
             client_secret |-> "secret1", authorization |-> None]
TokenSpa == [TokenWeb EXCEPT !.redirect_uri = "spa/cb", !.client_id = "spa",
                             !.client_secret = None, !.code_verifier = None]
WrongSecret == [TokenWeb EXCEPT !.client_secret = "secret2"]

TokenWebOnly == {TokenWeb}
TokenWebOrWrong == {TokenWeb, WrongSecret}

TokenAll ==
    {TokenWeb, TokenSpa, WrongSecret,
     [TokenWeb EXCEPT !.grant_type = "refresh_token"],
     [TokenWeb EXCEPT !.client_id = None],
     [TokenWeb EXCEPT !.client_id = None, !.client_secret = None,
                      !.authorization = Basic("web", "secret1")],
     [TokenWeb EXCEPT !.authorization = Basic("spa", "")],
     [TokenWeb EXCEPT !.authorization = BadBasic],
     [TokenWeb EXCEPT !.authorization = OtherScheme],
     [TokenWeb EXCEPT !.redirect_uri = "web/cb2"],
     [TokenWeb EXCEPT !.code_verifier = None],
     [TokenWeb EXCEPT !.code_verifier = "v2"],
     [TokenSpa EXCEPT !.code_verifier = "v1"]}

-----------------------------------------------------------------------------
(* Bounds of the run `requests': one process is asked everything, one request *)
(* at a time, or two that may restart are asked the ordinary.              *)

Everything ==
    /\ epoch[s1] = 0
    /\ Cardinality(granted) + InFlight({"token"} \cup Exchanging) <= 1
    /\ config[s2] = Base /\ epoch[s2] = 0 /\ clock[s2] = 0
    /\ pc[w2] = "idle" /\ reply[w2] = None

Ordinary ==
    /\ \A s \in Servers : config[s] = Base /\ clock[s] = 0
    /\ \A w \in Workers :
           /\ pc[w] = "authorize" => task[w] = AuthWeb
           /\ pc[w] = "token" => task[w].params = TokenWeb
    /\ \A c \in codes :
           c.content = authorization_code(Base, AuthWeb) /\ c.timestamp = 0
    /\ \A g \in granted :
           g.exchange.params = TokenWeb /\ g.exchange.verified_at = 0

RequestsSpec ==
    /\ Init /\ (Everything \/ Ordinary)
    /\ [][Next /\ (Everything' \/ Ordinary')]_vars

-----------------------------------------------------------------------------
\* Token identifiers are interchangeable.
JtiSymmetry == Permutations(Jtis)

=============================================================================
