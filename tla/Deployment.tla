----------------------------- MODULE Deployment -----------------------------
(***************************************************************************)
(* src/bin/server/main.rs: processes that start from files which their     *)
(* operator may edit at any time, serve until they end and are started     *)
(* again, and relying parties that gather a discovery document, a key set  *)
(* and an ID token from whichever processes answer.                        *)
(***************************************************************************)
EXTENDS Discovery, ServerConfig, JwtIssuer, ClientRegistry

CONSTANTS
    Servers,        \* processes
    HostOf,         \* [Servers -> hosts]: whose addresses a process binds
    ConfigFiles,    \* contents of config.toml
    KeyPaths,       \* values of signing_key_path
    SigningKeys,    \* RSA private keys
    RelyingParties, \* client_ids of parties that verify ID tokens themselves
    MaxKills        \* bound: processes ended from outside

\* Texts of an issuer: what follows a host is a path, a query or a fragment.
IssuerTexts ==
    {text \in [origin : DOMAIN normal, rest : Seq(Tokens)] :
        text.origin \notin Schemes /\ text.rest # <<>> =>
            Head(text.rest) \in {"slash", "question", "hash"}}

\* A normal form is its own normal form and of the same kind.  A file has the
\* fields of Config, each with a value of its type or None, and None is no
\* such value.
ASSUME DeploymentAssumption ==
    /\ MaxKills \in Nat
    /\ Leeway \in Nat
    /\ KeyBytes \in Nat
    /\ {"slash", "question", "hash"} \subseteq Tokens
    /\ \A o \in DOMAIN normal :
           normal[o] # None =>
               /\ normal[o] \in DOMAIN normal
               /\ normal[normal[o]] = normal[o]
               /\ normal[o] \in Special <=> o \in Special
               /\ normal[o] \in Schemes <=> o \in Schemes
    /\ \A file \in ConfigFiles \ {None} :
           /\ DOMAIN file = Required \cup DOMAIN defaults
           /\ file.issuer \in IssuerTexts \cup {None}
           /\ file.id_token_ttl_seconds \in Nat \cup {None}
           /\ file.code_hmac_key \in Seq(STRING) \cup {None}
           /\ file.signing_key_path \in KeyPaths \cup {None}
    /\ None \notin 0 .. 15
    /\ \A field \in DOMAIN defaults : defaults[field] # None

VARIABLES
    config_file,    \* the content of config.toml
    key_files,      \* [KeyPaths -> SigningKeys or None]: PEM files
    phase,          \* [Servers -> Phases]: how far main has come
    app,            \* [Servers -> what main has built so far, or None]
    rp,             \* [RelyingParties -> what each has last received]
    kills           \* how many processes were ended from outside

vars == <<config_file, key_files, phase, app, rp, kills>>

Phases == {"down", "configured", "ready", "serving"}

Init ==
    /\ config_file \in ConfigFiles
    /\ key_files \in [KeyPaths -> SigningKeys]
    /\ phase = [s \in Servers |-> "down"]
    /\ app = [s \in Servers |-> None]
    /\ rp = [c \in RelyingParties |->
                [discovery |-> None, jwks |-> None, id_token |-> None]]
    /\ kills = 0

-----------------------------------------------------------------------------
(* main.  An error or a panic in it ends the process.                      *)

Goto(s, p, state) ==
    /\ phase' = [phase EXCEPT ![s] = p]
    /\ app' = [app EXCEPT ![s] = state]

\* A mistake for the properties to notice: a process that cannot go on tries
\* again with what it has.
ExitNever(s) == UNCHANGED <<phase, app>>

Exit(s) == Goto(s, "down", None)

\* The configuration and the HMAC key.  A start that fails here leaves the
\* process as down as it was.
LoadConfig(s) ==
    LET config   == load(config_file)
        hmac_key == hex_to_32_bytes(config.code_hmac_key)
    IN /\ phase[s] = "down"
       /\ config # None
       /\ hmac_key # None
       /\ Goto(s, "configured", [config |-> config, hmac_key |-> hmac_key])
       /\ UNCHANGED <<config_file, key_files, rp, kills>>

\* The PEM file is read after the configuration that names it.
CanBuild(config) ==
    /\ key_files[config.signing_key_path] # None
    /\ registry_ok(config.clients)
    /\ parse(config.issuer) # None
    /\ discovery_info(parse(config.issuer)) # None

BuildState(s) ==
    LET config == app[s].config
    IN /\ phase[s] = "configured"
       /\ CanBuild(config)
       /\ Goto(s, "ready",
              [config    |-> config,
               hmac_key  |-> app[s].hmac_key,
               jwt       |-> from_private_key(
                                 key_files[config.signing_key_path],
                                 config.issuer),
               discovery |-> discovery_info(parse(config.issuer))])
       /\ UNCHANGED <<config_file, key_files, rp, kills>>

BuildFails(s) ==
    /\ phase[s] = "configured"
    /\ ~CanBuild(app[s].config)
    /\ Exit(s)
    /\ UNCHANGED <<config_file, key_files, rp, kills>>

\* Another process listens on the address.
AddressInUse(s) ==
    \E t \in Servers \ {s} :
        /\ HostOf[t] = HostOf[s]
        /\ phase[t] = "serving"
        /\ app[t].config.listen_addr = app[s].config.listen_addr

Bind(s) ==
    /\ phase[s] = "ready"
    /\ ~AddressInUse(s)
    /\ Goto(s, "serving", app[s])
    /\ UNCHANGED <<config_file, key_files, rp, kills>>

BindFails(s) ==
    /\ phase[s] = "ready"
    /\ AddressInUse(s)
    /\ Exit(s)
    /\ UNCHANGED <<config_file, key_files, rp, kills>>

\* A process started by its supervisor takes the next step of main.
Start(s) ==
    LoadConfig(s) \/ BuildState(s) \/ BuildFails(s) \/ Bind(s) \/ BindFails(s)

-----------------------------------------------------------------------------
(* The surroundings: the operator's edits, the end of a process (a crash,  *)
(* a rollout, a node that goes away).                                      *)

EditConfig ==
    /\ config_file' \in ConfigFiles \ {config_file}
    /\ UNCHANGED <<key_files, phase, app, rp, kills>>

EditKey ==
    /\ \E p \in KeyPaths :
           \E pem \in (SigningKeys \cup {None}) \ {key_files[p]} :
               key_files' = [key_files EXCEPT ![p] = pem]
    /\ UNCHANGED <<config_file, phase, app, rp, kills>>

Kill(s) ==
    /\ phase[s] # "down"
    /\ kills < MaxKills
    /\ kills' = kills + 1
    /\ Exit(s)
    /\ UNCHANGED <<config_file, key_files, rp>>

\* What party c gets from s, with the issuer text and the key that s runs
\* with.
Receive(c, s, field, doc) ==
    /\ phase[s] = "serving"
    /\ rp' = [rp EXCEPT ![c][field] =
                 [doc    |-> doc,
                  issuer |-> app[s].config.issuer,
                  key    |-> app[s].jwt.key]]
    /\ UNCHANGED <<config_file, key_files, phase, app, kills>>

discovery_handler(c, s) == Receive(c, s, "discovery", app[s].discovery)

jwks_handler(c, s) == Receive(c, s, "jwks", get_jwks(app[s].jwt))

\* An exchange at /token.  Expiry plays no part here: time stands at 0.
SignIn(c, s) ==
    Receive(c, s, "id_token",
        issue_id_token(app[s].jwt, "user", c, app[s].config.default_groups,
                       None, app[s].config.id_token_ttl_seconds, 0))

-----------------------------------------------------------------------------

Next ==
    \/ \E s \in Servers : Start(s) \/ Kill(s)
    \/ EditConfig
    \/ EditKey
    \/ \E c \in RelyingParties, s \in Servers :
           discovery_handler(c, s) \/ jwks_handler(c, s) \/ SignIn(c, s)

Spec == Init /\ [][Next]_vars

\* The supervisor starts what is down, and main never waits.
FairSpec == Spec /\ \A s \in Servers : WF_vars(Start(s))

-----------------------------------------------------------------------------
(* Properties                                                              *)

Complete(config) == \A field \in DOMAIN config : config[field] # None

\* Types.  What main has built is complete: config.rs refuses a file without a
\* required field and gives the others their defaults, and a process that has
\* not come as far as the issuer and the document serves nobody.
TypeOK ==
    /\ config_file \in ConfigFiles
    /\ key_files \in [KeyPaths -> SigningKeys \cup {None}]
    /\ phase \in [Servers -> Phases]
    /\ kills \in 0 .. MaxKills
    /\ DOMAIN app = Servers /\ DOMAIN rp = RelyingParties
    /\ \A s \in Servers :
           /\ phase[s] = "down" => app[s] = None
           /\ phase[s] = "configured" => DOMAIN app[s] = {"config", "hmac_key"}
           /\ phase[s] \in {"ready", "serving"} =>
                  /\ DOMAIN app[s] = {"config", "hmac_key", "jwt", "discovery"}
                  /\ app[s].jwt.key \in SigningKeys
           /\ phase[s] # "down" =>
                  /\ Complete(app[s].config)
                  /\ app[s].hmac_key \in [1 .. KeyBytes -> 0 .. 255]

Serving == {s \in Servers : phase[s] = "serving"}

\* An issuer text that means the same to everyone: normalised, not ending in a
\* slash, and with a path, if it is special and has anything behind the host.
WellFormed(text) ==
    /\ normal[text.origin] = text.origin
    /\ text.rest # <<>> =>
           /\ Last(text.rest) # "slash"
           /\ text.origin \in Special => Head(text.rest) = "slash"

\* The iss claim is the configured text (main.rs:31), the document's issuer
\* what canonicalize_issuer makes of the parsed URL (main.rs:48-49): they agree
\* for well-formed texts, and differ for all others.  (Of a slash that ends a
\* query or a fragment see IssClaimsMatchDiscovery.)
IssuerExact ==
    \A s \in Serving :
        LET text  == app[s].config.issuer
            agree == app[s].jwt.issuer = app[s].discovery.issuer
        IN /\ WellFormed(text) => agree
           /\ path(text) = text.rest \/ Last(text.rest) # "slash" =>
                  (agree => WellFormed(text))

\* Where a party looks for the document of an issuer (OpenID Connect Discovery
\* 1.0, section 4): a slash at the end is dropped, the suffix appended.
well_known(text) ==
    [text EXCEPT !.rest =
        (IF @ # <<>> /\ Last(@) = "slash" THEN Front(@) ELSE @)
            \o DiscoveryRoute]

\* Every endpoint the document advertises is one oidc_router serves, on the
\* issuer's own origin, no two the same, whatever path, query or fragment the
\* issuer has; and the document is found from the iss claim exactly when the
\* issuer has no path (or is the URL of the document, with a query or fragment
\* that swallows the suffix).
EndpointsServed ==
    \A s \in Serving :
        LET text == app[s].config.issuer
            doc  == app[s].discovery
        IN /\ \A e \in DOMAIN doc.endpoints :
                  /\ doc.endpoints[e].origin = normal[text.origin]
                  /\ doc.endpoints[e].rest \in Routes
                  /\ \A f \in DOMAIN doc.endpoints :
                         doc.endpoints[e] = doc.endpoints[f] => e = f
           /\ path(parse(well_known(text))) = DiscoveryRoute
                  <=> \/ text.rest \in {<<>>, <<"slash">>}
                      \/ /\ path(text) # text.rest
                         /\ path(parse(text)) = DiscoveryRoute

\* A party takes the key its key set has under the token's kid, and checks the
\* token against that key and the issuer of the document.
Accepts(c) ==
    LET id_token == rp[c].id_token.doc
    IN \E jwk \in rp[c].jwks.doc :
           /\ jwk.kid = id_token.kid
           /\ verify_id_token(rp[c].discovery.doc.issuer, jwk.n, id_token, c, 0)

\* It does not matter which processes, or which lives of one, a party got its
\* document, its keys and its token from: it accepts the token when all three
\* run with one well-formed issuer and one key, and never when the token's
\* process had another key than the key set's or another origin than the
\* document's, however files were edited and starts interleaved in between.
AcceptedAcrossReplicas ==
    \A c \in RelyingParties :
        LET held == rp[c]
        IN (\A field \in DOMAIN held : held[field] # None) =>
               /\ (/\ held.id_token.key = held.jwks.key
                   /\ held.id_token.issuer = held.discovery.issuer
                   /\ WellFormed(held.id_token.issuer)) => Accepts(c)
               /\ Accepts(c) =>
                      /\ held.id_token.key = held.jwks.key
                      /\ normal[held.id_token.issuer.origin]
                            = normal[held.discovery.issuer.origin]

Running == {s \in Servers : phase[s] # "down"}

HexText(text) == \A i \in DOMAIN text : text[i] \in DOMAIN to_digit

\* Two running processes with hexadecimal code_hmac_key texts have one key for
\* codes exactly when the texts have the same digits, in upper or lower case
\* (hex_to_32_bytes, main.rs:76-85): no digit is ignored, no others collide.
KeyFollowsText ==
    \A s, t \in Running :
        LET a == app[s].config.code_hmac_key
            b == app[t].config.code_hmac_key
        IN HexText(a) /\ HexText(b) =>
               (app[s].hmac_key = app[t].hmac_key
                    <=> \A i \in DOMAIN a : digit(a[i]) = digit(b[i]))

\* A start from the files as they are would succeed.
GoodFiles ==
    LET config == load(config_file)
    IN /\ config # None
       /\ hex_to_32_bytes(config.code_hmac_key) # None
       /\ CanBuild(config)

\* Once the files stay good, every host comes to serve and goes on serving,
\* whatever was wrong before, whichever old and new files a start had mixed,
\* and although processes of one host compete for its address.
ServiceRecovers ==
    <>[]GoodFiles =>
        \A h \in {HostOf[s] : s \in Servers} :
            <>[](\E s \in Serving : HostOf[s] = h)

-----------------------------------------------------------------------------
(* What the repository says                                                *)

\* discovery.rs:30-31: the issuer is normalised "so that `iss` claims and the
\* discovery `issuer` field match exactly"; discovery.rs:54-56: a slash at the
\* end of its path is stripped, "query and fragment are preserved".
IssClaimsMatchDiscovery ==
    \A s \in Serving : app[s].jwt.issuer = app[s].discovery.issuer

=============================================================================
