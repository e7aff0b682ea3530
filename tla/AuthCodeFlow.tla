---------------------------- MODULE AuthCodeFlow ----------------------------
(***************************************************************************)
(* The authorization-code flow of the server, end to end: the handlers of  *)
(* src/oidc/router.rs over OIDCAuthCodePKCEFlow (src/oidc/protocol.rs), the *)
(* client registry, the signed code, the JWT issuer and the in-memory      *)
(* token store, in a deployment of one or more server processes.           *)
(*                                                                         *)
(* A server process s keeps config[s] (AppState, fixed while it runs) and  *)
(* the two maps of InMemoryTokenStore, consumed[s] and records[s].  A      *)
(* worker w is one in-flight request of the process Home[w]; the steps of  *)
(* different workers interleave.  A step covers the code up to the next    *)
(* access to the store or read of the clock.  Clients, the proxy, the wall *)
(* clocks and the operator who restarts a process are the environment.     *)
(***************************************************************************)
EXTENDS Integers, FiniteSets, Users, ClientRegistry, AuthorizationCode, JwtIssuer

CONSTANTS
    Servers, Workers,
    Home,                \* the process each worker belongs to
    Configs,             \* configurations a process can be started with
    AuthorizeRequests,   \* GET /authorize: AuthorizeParams and user header
    TokenRequests,       \* POST /token: TokenParams without `code', Basic header
    Spellings,           \* texts one signed code has
    UnparsableUris,      \* redirect URIs Url::parse rejects
    Jtis,                \* values random_jti can return
    MaxSystemTime,       \* the last moment a SystemTime can hold
    MaxTime,             \* bound: largest clock reading
    MaxEpoch,            \* bound: restarts of a process
    MaxCodes             \* bound: distinct codes handed out

Time == 0 .. MaxTime
Epochs == 0 .. MaxEpoch

\* A process starts only with a configuration whose client list is accepted.
StartConfigs == {cfg \in Configs : registry_ok(cfg.clients)}

\* OIDCError::error_code, and invalid_token of /userinfo.
ErrorCodes ==
    {"invalid_request", "unauthorized_client", "access_denied",
     "unsupported_response_type", "invalid_grant", "invalid_client",
     "server_error", "invalid_token"}

ASSUME FlowAssumption ==
    /\ None \notin ErrorCodes
    /\ Home \in [Workers -> Servers]
    /\ Canonical \in Spellings
    /\ None \notin Jtis
    /\ MaxTime \in Nat
    /\ MaxSystemTime \in Nat
    /\ MaxEpoch \in Nat
    /\ \A cfg \in Configs : /\ cfg.hmac_key # None
                             /\ cfg.access_token_ttl \in Nat
                             /\ cfg.code_max_age \in Nat
                             /\ cfg.default_groups \in Seq(STRING)
                             /\ cfg.clients \in Seq(Range(cfg.clients))
                             /\ \A client \in Range(cfg.clients) :
                                    client.groups \in Seq(STRING)

VARIABLES
    clock,      \* [Servers -> Time]: SystemTime::now() on the host of s
    config,     \* [Servers -> StartConfigs]: what s was started with
    epoch,      \* [Servers -> Epochs]: how often s has been restarted
    consumed,   \* [Servers -> SUBSET keys]: InMemoryTokenStore.consumed_codes
    records,    \* [Servers -> [Jtis -> record or None]]: its records
    pc,         \* [Workers -> PCs]: where the handler of w is
    task,       \* [Workers -> ...]: the request w serves and its local state
    reply,      \* [Workers -> ...]: the last response of w, None in between
    codes,      \* signed codes that redirects have carried to clients
    granted     \* history: the successful answers of the token endpoint

flow == <<pc, task, reply>>
store == <<consumed, records>>
process == <<config, epoch>>
world == <<codes, granted>>
vars == <<clock, process, store, flow, world>>

-----------------------------------------------------------------------------
(* GET /authorize *)

\* The checks of authorize_handler in their order; None when all pass.  The
\* method is parsed, and refused, whether or not there is a challenge.
authorize_error(cfg, p) ==
    IF p.response_type # "code" THEN "unsupported_response_type"
    ELSE IF p.code_challenge_method \notin {"S256", "plain", None}
    THEN "invalid_request"
    ELSE IF find_by_id(cfg.clients, p.client_id) = None
    THEN "unauthorized_client"
    ELSE IF ~validate_redirect_uri(cfg.clients, p.client_id, p.redirect_uri)
    THEN "invalid_request"
    ELSE IF p.user_header = None THEN "access_denied"
    ELSE IF extract_dn_attribute(p.user_header, cfg.dn_attribute) = None
    THEN "access_denied"
    ELSE IF p.redirect_uri \in UnparsableUris THEN "server_error"
    ELSE None

\* The AuthorizationCode of a request that passes.  (Its own timestamp field
\* is never read; the one that counts is added by sign_and_encode.)
authorization_code(cfg, p) ==
    [client_id             |-> p.client_id,
     redirect_uri          |-> p.redirect_uri,
     code_challenge        |-> p.code_challenge,
     code_challenge_method |->
         IF p.code_challenge_method = "S256" THEN "S256" ELSE "Plain",
     subject |-> extract_dn_attribute(p.user_header, cfg.dn_attribute),
     nonce   |-> p.nonce,
     groups  |-> resolve_groups(find_by_id(cfg.clients, p.client_id).groups,
                                cfg.default_groups),
     scope   |-> p.scope]

-----------------------------------------------------------------------------
(* POST /token *)

\* The credentials of a Basic header.  None for both when there is no header,
\* its scheme is another one, or its payload is not base64, not UTF-8 or has
\* no colon (payload = None).
parse_basic_auth(header) ==
    IF header = None \/ header.scheme # "Basic" \/ header.payload = None
    THEN [client_id |-> None, client_secret |-> None]
    ELSE header.payload

\* The client a token request is for, and the secret it presents: each from
\* the Basic header if that has one, else from the form body.
client_id(t) == or(parse_basic_auth(t.authorization).client_id, t.client_id)
client_secret(t) ==
    or(parse_basic_auth(t.authorization).client_secret, t.client_secret)

\* A mistake for the properties to notice: access_token_request trusts
\* /authorize to have checked the redirect URI.
token_error_unregistered(cfg, t, text, now) ==
    LET code == decode_and_verify(text, cfg.hmac_key, cfg.code_max_age, now)
    IN IF t.grant_type # "authorization_code" \/ client_id(t) = None
       THEN "invalid_request"
       ELSE IF \/ code = None
               \/ ~validate_token_request(code, client_id(t), t.redirect_uri,
                                          t.code_verifier)
       THEN "invalid_grant"
       ELSE IF ~validate_client_secret(cfg.clients, client_id(t),
                                       client_secret(t))
       THEN "invalid_client"
       ELSE None

\* The checks of token_handler and access_token_request up to the point where
\* the code is consumed, in their order; None when all pass.
token_error(cfg, t, text, now) ==
    LET code == decode_and_verify(text, cfg.hmac_key, cfg.code_max_age, now)
    IN IF t.grant_type # "authorization_code" THEN "invalid_request"
       ELSE IF client_id(t) = None THEN "invalid_request"
       ELSE IF \/ code = None
               \/ ~validate_token_request(code, client_id(t), t.redirect_uri,
                                          t.code_verifier)
               \/ ~validate_redirect_uri(cfg.clients, client_id(t),
                                         t.redirect_uri)
       THEN "invalid_grant"
       ELSE IF ~validate_client_secret(cfg.clients, client_id(t),
                                       client_secret(t))
       THEN "invalid_client"
       ELSE None

\* The store's record of an access token, as access_token_request fills it in.
token_record(cfg, x, now) ==
    [subject    |-> x.auth_code.subject,
     client_id  |-> client_id(x.params),
     scope      |-> x.auth_code.scope,
     groups     |-> x.auth_code.groups,
     expires_at |-> now + cfg.access_token_ttl,
     jti        |-> x.access_token.jti]

-----------------------------------------------------------------------------
(* What the state holds *)

AuthorizationCodes ==
    {authorization_code(cp[1], cp[2]) :
        cp \in {cp \in StartConfigs \X AuthorizeRequests :
                    authorize_error(cp[1], cp[2]) = None}}

HmacKeys == {cfg.hmac_key : cfg \in Configs}

\* What a `code' parameter can decode to: a signed code, or one whose MAC is
\* wrong; and the texts themselves.
SignedCodes ==
    [content : AuthorizationCodes, timestamp : Time, mac : HmacKeys \cup {None}]
Texts == [signed : SignedCodes \cup {None}, spelling : Spellings]
ReplayKeys == [blake3 : Texts]

ClientIds == {client_id(t) : t \in TokenRequests}
IdTokens ==
    {issue_id_token(cfg.jwt, c.subject, id, c.groups, c.nonce,
                    cfg.id_token_ttl, now) :
        cfg \in StartConfigs, c \in AuthorizationCodes,
        id \in ClientIds, now \in Time}
AccessTokens ==
    {issue_access_token(cfg.jwt, c.subject, id, c.groups, c.scope, jti,
                        cfg.access_token_ttl, now) :
        cfg \in StartConfigs, c \in AuthorizationCodes,
        id \in ClientIds,
        jti \in Jtis, now \in Time}

\* The local state of access_token_request once the checks have passed: the
\* form, the text, the code in it, when the text was verified, the tokens.
Exchanges ==
    [params : TokenRequests, code : Texts, auth_code : AuthorizationCodes,
     verified_at : Time, id_token : IdTokens \cup {None},
     access_token : AccessTokens \cup {None}]
Grants ==
    [server : Servers, epoch : Epochs, config : StartConfigs,
     exchange : Exchanges]

TokenRecords ==
    [subject : {c.subject : c \in AuthorizationCodes},
     client_id : ClientIds,
     scope : {c.scope : c \in AuthorizationCodes},
     groups : {c.groups : c \in AuthorizationCodes},
     expires_at : Nat,
     jti : Jtis]

ASSUME RecordAssumption == None \notin TokenRecords

\* Where a handler can be: waiting for a request; about to run the checks of
\* one of the three endpoints; and between two steps of one.
Signed == {"record", "respond"}                    \* it has both tokens
Issuing == {"sign_id", "sign_access"} \cup Signed  \* it has consumed the code
Exchanging == {"consume"} \cup Issuing
PCs == {"idle", "authorize", "token", "userinfo", "lookup"} \cup Exchanging

-----------------------------------------------------------------------------
(* The handlers *)

Init ==
    /\ clock \in [Servers -> {0}]
    /\ config \in [Servers -> StartConfigs]
    /\ epoch = [s \in Servers |-> 0]
    /\ consumed = [s \in Servers |-> {}]
    /\ records = [s \in Servers |-> [j \in Jtis |-> None]]
    /\ pc = [w \in Workers |-> "idle"]
    /\ task = [w \in Workers |-> None]
    /\ reply = [w \in Workers |-> None]
    /\ codes = {}
    /\ granted = {}

\* Control passes to `to' with local state x.
Goto(w, to, x) ==
    /\ pc' = [pc EXCEPT ![w] = to]
    /\ task' = [task EXCEPT ![w] = x]

\* The handler returns `response'.
Respond(w, response) ==
    /\ Goto(w, "idle", None)
    /\ reply' = [reply EXCEPT ![w] = response]

Error(error_code) == [error |-> error_code]

-----------------------------------------------------------------------------
(* Mistakes that the properties below must notice: each is a form that one of *)
(* the definitions of this module could have had.                          *)

\* The code is consumed before the request is checked.
VerifyCodeLate(w) ==
    LET s == Home[w]
        x == task[w]
        error == token_error(config[s], x.params, x.code, clock[s])
    IN /\ pc[w] = "token"
       /\ error # None
       /\ Respond(w, Error(error))
       /\ consumed' = [consumed EXCEPT ![s] = @ \cup {code_replay_key(x.code)}]
       /\ UNCHANGED <<clock, process, records, world>>

\* The result of consume_code is not looked at.
ConsumeCodeUnchecked(w) ==
    /\ pc[w] = "consume"
    /\ Goto(w, "sign_id", task[w])
    /\ consumed' = [consumed EXCEPT ![Home[w]] =
                       @ \cup {code_replay_key(task[w].code)}]
    /\ UNCHANGED <<clock, process, records, reply, world>>

\* A request whose code is taken waits for it.
ConsumeCodeWaiting(w) ==
    /\ pc[w] = "consume"
    /\ code_replay_key(task[w].code) \notin consumed[Home[w]]
    /\ ConsumeCodeUnchecked(w)

\* A failed redemption gives the code back.
SigningFailsReleasing(w) ==
    /\ pc[w] \in {"sign_id", "sign_access"}
    /\ Respond(w, Error("server_error"))
    /\ consumed' = [consumed EXCEPT ![Home[w]] =
                       @ \ {code_replay_key(task[w].code)}]
    /\ UNCHANGED <<clock, process, records, world>>

\* The access token is forgotten.
SignIdTokenOnly(w) ==
    /\ pc[w] = "sign_id"
    /\ Goto(w, "record", task[w])
    /\ UNCHANGED <<clock, process, store, reply, world>>

\* The response does not wait for the record.
RecordTokenUnawaited(w) ==
    /\ pc[w] = "record"
    /\ Goto(w, "respond", task[w])
    /\ UNCHANGED <<clock, process, store, reply, world>>

\* /userinfo answers from the claims and not from the store.
LookupTokenStateless(w) ==
    LET token == task[w].token
    IN /\ pc[w] = "lookup"
       /\ Respond(w, [sub |-> token.sub, groups |-> token.groups,
                      scope |-> token.scope, client_id |-> token.client_id])
       /\ UNCHANGED <<clock, process, store, world>>

-----------------------------------------------------------------------------
(* The handlers, step by step *)

\* A request reaches an idle worker.
Receive(w, at, request) ==
    /\ pc[w] = "idle"
    /\ Goto(w, at, request)
    /\ reply' = [reply EXCEPT ![w] = None]
    /\ UNCHANGED <<clock, process, store, world>>

InFlight(pcs) == Cardinality({w \in Workers : pc[w] \in pcs})

ReceiveAuthorize(w) ==
    /\ Cardinality(codes) + InFlight({"authorize"}) < MaxCodes
    /\ \E p \in AuthorizeRequests : Receive(w, "authorize", p)

\* What a client can send as `code': some text of a code that was handed out,
\* to it or to another; such a code with its MAC broken; no code at all.
PresentableTexts ==
    [signed : codes \cup {[c EXCEPT !.mac = None] : c \in codes} \cup {None},
     spelling : Spellings]

ReceiveToken(w) ==
    /\ Cardinality(granted) + InFlight({"token"} \cup Exchanging)
           < Cardinality(Jtis)
    /\ \E t \in TokenRequests, text \in PresentableTexts :
           Receive(w, "token", [params |-> t, code |-> text])

\* The bearer token is one the token endpoint has returned, or None: missing,
\* of another scheme, or not a token of ours.
ReceiveUserinfo(w) ==
    \E token \in {g.exchange.access_token : g \in granted}
                    \cup {g.exchange.id_token : g \in granted} \cup {None} :
        Receive(w, "userinfo", [token |-> token])

\* authorize_handler touches neither the store nor, but for the timestamp of
\* the code, the clock: it is one step.
authorize_handler(w) ==
    LET cfg == config[Home[w]]
        p == task[w]
        error == authorize_error(cfg, p)
        encoded == sign_and_encode(authorization_code(cfg, p), cfg.hmac_key,
                                   clock[Home[w]])
    IN /\ pc[w] = "authorize"
       /\ \/ /\ error # None
             /\ Respond(w, Error(error))
             /\ UNCHANGED codes
          \/ /\ error = None
             /\ Respond(w, [redirect |-> p.redirect_uri, code |-> encoded,
                            state |-> p.state])
             /\ codes' = codes \cup {encoded.signed}
       /\ UNCHANGED <<clock, process, store, granted>>

\* token_handler and access_token_request up to the replay check.
VerifyCode(w) ==
    LET cfg == config[Home[w]]
        now == clock[Home[w]]
        error == token_error(cfg, task[w].params, task[w].code, now)
    IN /\ pc[w] = "token"
       /\ \/ /\ error # None
             /\ Respond(w, Error(error))
          \/ /\ error = None
             /\ Goto(w, "consume",
                     [params |-> task[w].params,
                      code |-> task[w].code,
                      auth_code |-> decode_and_verify(task[w].code,
                                        cfg.hmac_key, cfg.code_max_age, now),
                      verified_at |-> now,
                      id_token |-> None,
                      access_token |-> None])
             /\ UNCHANGED reply
       /\ UNCHANGED <<clock, process, store, world>>

\* TokenStore::consume_code: test and insert under one write lock.
ConsumeCode(w) ==
    LET s == Home[w]
        key == code_replay_key(task[w].code)
    IN /\ pc[w] = "consume"
       /\ \/ /\ key \in consumed[s]
             /\ Respond(w, Error("invalid_grant"))
          \/ /\ key \notin consumed[s]
             /\ Goto(w, "sign_id", task[w])
             /\ UNCHANGED reply
       /\ consumed' = [consumed EXCEPT ![s] = @ \cup {key}]
       /\ UNCHANGED <<clock, process, records, world>>

\* Signing a token can fail; the code stays consumed.
SigningFails(w) ==
    /\ pc[w] \in {"sign_id", "sign_access"}
    /\ Respond(w, Error("server_error"))
    /\ UNCHANGED <<clock, process, store, world>>

SignIdToken(w) ==
    LET cfg == config[Home[w]]
        x == task[w]
    IN /\ pc[w] = "sign_id"
       /\ Goto(w, "sign_access",
               [x EXCEPT !.id_token =
                   issue_id_token(cfg.jwt, x.auth_code.subject,
                       client_id(x.params), x.auth_code.groups,
                       x.auth_code.nonce, cfg.id_token_ttl, clock[Home[w]])])
       /\ UNCHANGED <<clock, process, store, reply, world>>

\* A v4 UUID: no two requests draw the same one.
random_jti ==
    Jtis \ ({g.exchange.access_token.jti : g \in granted} \cup
            {task[w].access_token.jti : w \in {v \in Workers : pc[v] \in Signed}})

SignAccessToken(w) ==
    LET cfg == config[Home[w]]
        x == task[w]
    IN /\ pc[w] = "sign_access"
       /\ \E jti \in random_jti :
             Goto(w, "record",
                 [x EXCEPT !.access_token =
                     issue_access_token(cfg.jwt, x.auth_code.subject,
                         client_id(x.params), x.auth_code.groups,
                         x.auth_code.scope, jti, cfg.access_token_ttl,
                         clock[Home[w]])])
       /\ UNCHANGED <<clock, process, store, reply, world>>

\* TokenStore::issue under the write lock of records.
RecordToken(w) ==
    LET s == Home[w]
        x == task[w]
    IN /\ pc[w] = "record"
       /\ clock[s] + config[s].access_token_ttl <= MaxSystemTime
       /\ records' = [records EXCEPT ![s][x.access_token.jti] =
                         token_record(config[s], x, clock[s])]
       /\ Goto(w, "respond", x)
       /\ UNCHANGED <<clock, process, consumed, reply, world>>

\* now() + ttl lies beyond the range of SystemTime: the task panics before it
\* has taken the lock, and its connection is closed without a response.  The
\* code stays consumed, and the process goes on.
RecordPanics(w) ==
    /\ pc[w] = "record"
    /\ clock[Home[w]] + config[Home[w]].access_token_ttl > MaxSystemTime
    /\ Respond(w, None)
    /\ UNCHANGED <<clock, process, store, world>>

\* The lock is released and the TokenResponse leaves.
SendTokens(w) ==
    LET s == Home[w]
        x == task[w]
    IN /\ pc[w] = "respond"
       /\ granted' = granted \cup {[server |-> s, epoch |-> epoch[s],
                                    config |-> config[s], exchange |-> x]}
       /\ Respond(w, [access_token |-> x.access_token, id_token |-> x.id_token])
       /\ UNCHANGED <<clock, process, store, codes>>

\* verify_bearer_token, first half of userinfo_handler.
VerifyBearer(w) ==
    LET claims == verify_access_token(config[Home[w]].jwt, task[w].token,
                                      clock[Home[w]])
    IN /\ pc[w] = "userinfo"
       /\ \/ /\ claims = None
             /\ Respond(w, Error("invalid_token"))
          \/ /\ claims # None
             /\ Goto(w, "lookup", [token |-> claims])
             /\ UNCHANGED reply
       /\ UNCHANGED <<clock, process, store, world>>

\* TokenStore::lookup under the read lock, then the response.
LookupToken(w) ==
    LET record == records[Home[w]][task[w].token.jti]
    IN /\ pc[w] = "lookup"
       /\ \/ /\ record = None
             /\ Respond(w, Error("invalid_token"))
          \/ /\ record # None
             /\ Respond(w, [sub |-> record.subject, groups |-> record.groups,
                            scope |-> record.scope,
                            client_id |-> record.client_id])
       /\ UNCHANGED <<clock, process, store, world>>

-----------------------------------------------------------------------------
(* The environment of the handlers *)

\* SystemTime is the wall clock of the host: it runs, and it can be set.
SetClock(s) ==
    /\ \E t \in Time \ {clock[s]} : clock' = [clock EXCEPT ![s] = t]
    /\ UNCHANGED <<process, store, flow, world>>

\* A process ends, with the requests it is serving, and main runs again, on
\* the same or another configuration and with an empty store.
Restart(s) ==
    /\ epoch[s] < MaxEpoch
    /\ epoch' = [epoch EXCEPT ![s] = @ + 1]
    /\ \E cfg \in StartConfigs : config' = [config EXCEPT ![s] = cfg]
    /\ consumed' = [consumed EXCEPT ![s] = {}]
    /\ records' = [records EXCEPT ![s] = [j \in Jtis |-> None]]
    /\ pc' = [w \in Workers |-> IF Home[w] = s THEN "idle" ELSE pc[w]]
    /\ task' = [w \in Workers |-> IF Home[w] = s THEN None ELSE task[w]]
    /\ reply' = [w \in Workers |-> IF Home[w] = s THEN None ELSE reply[w]]
    /\ UNCHANGED <<clock, world>>

\* What the server does for a request it has received: steps that wait for no
\* other request, and steps that need the lock of one of the store's maps.
Compute(w) ==
    \/ authorize_handler(w)
    \/ VerifyCode(w)
    \/ SigningFails(w) \/ SignIdToken(w) \/ SignAccessToken(w) \/ SendTokens(w)
    \/ VerifyBearer(w)
UseRecords(w) == RecordToken(w) \/ RecordPanics(w) \/ LookupToken(w)
Serve(w) == Compute(w) \/ ConsumeCode(w) \/ UseRecords(w)

Next ==
    \/ \E w \in Workers :
           ReceiveAuthorize(w) \/ ReceiveToken(w) \/ ReceiveUserinfo(w) \/ Serve(w)
    \/ \E s \in Servers : SetClock(s) \/ Restart(s)

Spec == Init /\ [][Next]_vars

\* The runtime polls every request it has accepted until it is answered.  A
\* lock that is free and wanted is taken by someone, but std::sync::RwLock does
\* not say by whom: no request is sure of its turn while others keep coming.
FairSpec ==
    /\ Spec
    /\ \A w \in Workers : WF_vars(Compute(w))
    /\ \A s \in Servers :
           /\ WF_vars(\E w \in Workers : Home[w] = s /\ ConsumeCode(w))
           /\ WF_vars(\E w \in Workers : Home[w] = s /\ UseRecords(w))

-----------------------------------------------------------------------------
(* Correctness *)

\* What a worker holds depends on where it is.
TaskTypeOK(w) ==
    /\ pc[w] = "authorize" => task[w] \in AuthorizeRequests
    /\ pc[w] = "token" => task[w] \in [params : TokenRequests, code : Texts]
    /\ pc[w] \in Exchanging => task[w] \in Exchanges
    /\ pc[w] \in {"sign_access"} \cup Signed => task[w].id_token \in IdTokens
    /\ pc[w] \in Signed => task[w].access_token \in AccessTokens
    /\ pc[w] = "userinfo" =>
          task[w] \in [token : AccessTokens \cup IdTokens \cup {None}]
    /\ pc[w] = "lookup" => task[w] \in [token : AccessTokens]

\* The types of the variables.
TypeOK ==
    /\ clock \in [Servers -> Time]
    /\ config \in [Servers -> StartConfigs]
    /\ epoch \in [Servers -> Epochs]
    /\ consumed \in [Servers -> SUBSET ReplayKeys]
    /\ records \in [Servers -> [Jtis -> TokenRecords \cup {None}]]
    /\ pc \in [Workers -> PCs]
    /\ DOMAIN task = Workers
    /\ DOMAIN reply = Workers
    /\ \A w \in Workers : TaskTypeOK(w)
    /\ codes \subseteq SignedCodes
    /\ granted \subseteq Grants
    /\ \A g \in granted : /\ g.exchange.id_token \in IdTokens
                          /\ g.exchange.access_token \in AccessTokens

Failed(w) == reply'[w] # None /\ "error" \in DOMAIN reply'[w]

\* However requests interleave, one life of a process answers at most one
\* token request that presents a given text of a code: consume_code, a test
\* and an insert under one lock, is what decides between two requests that
\* have both passed every check.
RedeemedOncePerProcess ==
    \A g, h \in granted :
        /\ g.server = h.server
        /\ g.epoch = h.epoch
        /\ code_replay_key(g.exchange.code) = code_replay_key(h.exchange.code)
        => g = h

\* The requests of s that have consumed `key' and are not answered yet.
Redeemers(s, key) ==
    {w \in Workers : /\ Home[w] = s
                     /\ pc[w] \in Issuing
                     /\ code_replay_key(task[w].code) = key}

StaysBurned ==
    \A s \in Servers : \A key \in consumed[s] :
        epoch'[s] = epoch[s] =>
            /\ key \in consumed'[s]
            /\ Redeemers(s, key)' \subseteq Redeemers(s, key)

\* A code is redeemed by the request that consumed it or by none: if that one
\* fails afterwards (a JWT cannot be signed) the code is lost, and while the
\* process lives no other request takes it up.
BurnedForGood == [][StaysBurned]_vars

RefusalKeepsCodes ==
    \A w \in Workers :
        (pc[w] \in {"token", "consume"} /\ Failed(w)) => UNCHANGED consumed

\* A token request that is refused, for whatever reason, uses up no code: a
\* wrong secret, verifier, redirect URI or client leaves the code redeemable
\* by its owner.  access_token_request consumes only after the last check.
RefusalsBurnNothing == [][RefusalKeepsCodes]_vars

\* Every access token a process has returned since it started is in its store
\* with the claims the token carries, so that /userinfo can answer for it: the
\* record is inserted before the response leaves.
ReturnedTokensKnown ==
    \A g \in granted :
        LET token == g.exchange.access_token
            record == records[g.server][token.jti]
        IN g.epoch = epoch[g.server] =>
               /\ record # None
               /\ record.subject = token.sub
               /\ record.client_id = token.client_id
               /\ record.groups = token.groups
               /\ record.scope = token.scope

\* The server has returned this access token in its present life.
IssuedHere(s, token) ==
    \E g \in granted : /\ g.server = s
                       /\ g.epoch = epoch[s]
                       /\ g.exchange.access_token = token

AnswersExactly ==
    \A w \in Workers :
        (pc[w] = "lookup" /\ reply'[w] # None) =>
            LET token == task[w].token
            IN reply'[w] = IF IssuedHere(Home[w], token)
                           THEN [sub |-> token.sub, groups |-> token.groups,
                                 scope |-> token.scope,
                                 client_id |-> token.client_id]
                           ELSE Error("invalid_token")

\* /userinfo, having verified a token, answers with the claims of exactly that
\* token when this process has issued it since it started, and refuses it
\* otherwise (a token of a replica, or of an earlier life of the process).
UserinfoExact == [][AnswersExactly]_vars

\* Tokens say what one code says that the server handed out: the subject,
\* groups, nonce and scope were fixed at /authorize, the audience is the client
\* the code was issued to, and whoever redeemed it held its PKCE verifier.
GrantsFollowCode ==
    \A g \in granted :
        LET x == g.exchange
            code == x.code.signed.content
        IN /\ x.code.signed \in codes
           /\ x.id_token.sub = code.subject
           /\ x.id_token.aud = code.client_id
           /\ x.id_token.nonce = code.nonce
           /\ x.id_token.groups = code.groups
           /\ x.access_token.sub = code.subject
           /\ x.access_token.client_id = code.client_id
           /\ x.access_token.groups = code.groups
           /\ x.access_token.scope = code.scope
           /\ code.code_challenge # None =>
                 /\ x.params.code_verifier # None
                 /\ verify_pkce(code.code_challenge_method, code.code_challenge,
                                x.params.code_verifier)

\* A code outlives the configuration it was issued under, the decision to
\* redeem it does not: at each grant the client, its redirect URI and its
\* secret were those of the configuration the process was running, the code
\* was signed with that configuration's key (rotating it invalidates every
\* outstanding code) and was younger than that configuration's maximum age.
GrantsUnderRunningConfig ==
    \A g \in granted :
        LET x == g.exchange
            code == x.code.signed.content
        IN /\ validate_redirect_uri(g.config.clients, code.client_id,
                                    code.redirect_uri)
           /\ validate_client_secret(g.config.clients, code.client_id,
                                     client_secret(x.params))
           /\ x.code.signed.mac = g.config.hmac_key
           /\ fresh(x.code.signed.timestamp, g.config.code_max_age, x.verified_at)
           /\ x.access_token.key = g.config.jwt.key
           /\ g.epoch = epoch[g.server] => g.config = config[g.server]

\* How far one-time use reaches beyond one life of a process: the same text is
\* redeemed a second time only by another process, or another life of one,
\* that runs with the same code_hmac_key, and verifies the text less than its
\* code_max_age after the other did, by the hosts' clocks.  Restarting with a
\* new key, or after the maximum age, closes the gap that an empty store opens.
ReplayNeedsSharedKey ==
    \A g, h \in granted :
        (g # h /\ g.exchange.code = h.exchange.code) =>
            /\ <<g.server, g.epoch>> # <<h.server, h.epoch>>
            /\ g.config.hmac_key = h.config.hmac_key
            /\ h.exchange.verified_at - g.exchange.verified_at
                   < h.config.code_max_age

\* A code carries the groups of its client and the default groups, no others.
\* If default_groups repeats no group, neither does the code, whatever the
\* client's list, and the defaults come first, in their order (resolve_groups).
GroupsExact ==
    \A c \in codes : \E cfg \in StartConfigs :
        LET groups == c.content.groups
            defaults == cfg.default_groups
            client == find_by_id(cfg.clients, c.content.client_id)
        IN /\ client # None
           /\ Range(groups) = Range(defaults) \cup Range(client.groups)
           /\ IsInjective(defaults) =>
                  IsInjective(groups) /\ IsPrefix(defaults, groups)

\* Once no more requests arrive, every request a process has taken is answered,
\* or its connection closed by a panic or by the end of the process: none waits
\* for a code, a lock or a record that another one has.
RequestsDrain ==
    <>[][\A w \in Workers : pc[w] = "idle" => pc'[w] = "idle"]_vars
        => \A w \in Workers : pc[w] # "idle" ~> pc[w] = "idle"

\* The flow implements the promise of OneTimeGrant, a store being one life of
\* one process.
Promise == INSTANCE OneTimeGrant WITH
    Stores <- Servers \X Epochs,
    Keys <- ReplayKeys,
    grants <- {[store |-> <<g.server, g.epoch>>,
                key   |-> code_replay_key(g.exchange.code),
                jti   |-> g.exchange.access_token.jti] : g \in granted}
ImplementsOneTimeGrant == Promise!Spec

-----------------------------------------------------------------------------
(* What the repository's documents say of the program *)

\* README: "authorization codes are one-time use", with no exception for a
\* restart or a second replica.
CodesAreOneTimeUse ==
    \A g, h \in granted : g.exchange.code = h.exchange.code => g = h

\* protocol.rs:199: "Atomically consume the code so it cannot be replayed", said
\* of the code, not of one of its texts.
CodesOncePerProcess ==
    \A g, h \in granted :
        /\ g.server = h.server
        /\ g.epoch = h.epoch
        /\ g.exchange.code.signed = h.exchange.code.signed
        => g = h

\* users/mod.rs:88-91: "The result is the union of the two, de-duplicated".
GroupsDeduplicated == \A c \in codes : IsInjective(c.content.groups)

\* README: after a restart "issued access tokens remain valid until their `exp`
\* (verified by JWT signature)": a token that verifies is not refused.
TokensRemainValid ==
    [][\A w \in Workers : pc[w] = "lookup" => ~Failed(w)]_vars

=============================================================================
