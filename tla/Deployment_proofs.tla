-------------------------- MODULE Deployment_proofs -------------------------
(***************************************************************************)
(* What relying parties can count on, for any issuers, keys, processes and *)
(* edits of the files.                                                     *)
(***************************************************************************)
EXTENDS Deployment, SequenceLemmas

\* An issuer text that main accepts.
Accepted(text) ==
    /\ text \in IssuerTexts
    /\ parse(text) # None
    /\ discovery_info(parse(text)) # None

\* A configuration that was loaded has every field.
LoadedConfig(config) ==
    /\ Complete(config)
    /\ config.issuer \in IssuerTexts
    /\ config.id_token_ttl_seconds \in Nat
    /\ config.code_hmac_key \in Seq(STRING)
    /\ config.signing_key_path \in KeyPaths

\* The key for codes is what the text stands for.
Loaded(state) ==
    /\ LoadedConfig(state.config)
    /\ state.hmac_key = hex_to_32_bytes(state.config.code_hmac_key)
    /\ state.hmac_key # None

\* What a process has built is what its issuer text and its key determine.
Built(state) ==
    /\ DOMAIN state = {"config", "hmac_key", "jwt", "discovery"}
    /\ Accepted(state.config.issuer)
    /\ state.jwt.key \in SigningKeys
    /\ state.jwt = from_private_key(state.jwt.key, state.config.issuer)
    /\ state.discovery = discovery_info(parse(state.config.issuer))

\* What a process has when main has come as far as p.
Reached(p, state) ==
    /\ p = "down" => state = None
    /\ p = "configured" => DOMAIN state = {"config", "hmac_key"}
    /\ p # "down" => Loaded(state)
    /\ p \in {"ready", "serving"} => Built(state)

\* What a party holds is what the issuer text and the key determine that its
\* source was running with, long as this may be past.
HasDiscovery(x) ==
    Accepted(x.issuer) /\ x.doc = discovery_info(parse(x.issuer))
HasJwks(x) == x.doc = get_jwks(from_private_key(x.key, x.issuer))
HasIdToken(x, c) ==
    /\ Accepted(x.issuer)
    /\ \E groups : \E ttl \in Nat :
           x.doc = issue_id_token(from_private_key(x.key, x.issuer), "user", c,
                                  groups, None, ttl, 0)
Holds(c) ==
    /\ DOMAIN rp[c] = {"discovery", "jwks", "id_token"}
    /\ rp[c].discovery # None => HasDiscovery(rp[c].discovery)
    /\ rp[c].jwks # None => HasJwks(rp[c].jwks)
    /\ rp[c].id_token # None => HasIdToken(rp[c].id_token, c)

\* The inductive invariant.
DeploymentInv ==
    /\ config_file \in ConfigFiles
    /\ key_files \in [KeyPaths -> SigningKeys \cup {None}]
    /\ phase \in [Servers -> Phases]
    /\ kills \in 0 .. MaxKills
    /\ DOMAIN app = Servers
    /\ DOMAIN rp = RelyingParties
    /\ app = [s \in Servers |-> app[s]]
    /\ rp = [c \in RelyingParties |-> rp[c]]
    /\ \A c \in RelyingParties : rp[c] = [f \in DOMAIN rp[c] |-> rp[c][f]]
    /\ \A s \in Servers : Reached(phase[s], app[s])
    /\ \A c \in RelyingParties : Holds(c)

-----------------------------------------------------------------------------
(* Issuer texts                                                            *)

\* What main publishes of an accepted issuer.
LEMMA DocumentIssuer ==
    ASSUME NEW text, Accepted(text)
    PROVE  /\ normal[text.origin] # None
           /\ discovery_info(parse(text)).issuer
                  = canonicalize_issuer(parse(text))
           /\ parse(text).origin = normal[text.origin]
<1>1. normal[text.origin] # None
  BY DEF Accepted, parse
<1>2. parse(text).origin = normal[text.origin]
  BY <1>1 DEF parse
<1>3. discovery_info(parse(text)).issuer = canonicalize_issuer(parse(text))
  BY DEF Accepted, discovery_info
<1> QED
  BY <1>1, <1>2, <1>3

\* The path of an accepted issuer, and what canonicalize_issuer leaves of it.
LEMMA ParsedRest ==
    ASSUME NEW text, Accepted(text)
    PROVE  parse(text).rest =
               IF text.origin \notin Special \/ begins_with_slash(text)
               THEN text.rest ELSE <<"slash">> \o text.rest
BY DocumentIssuer DEF parse

LEMMA CanonicalRest ==
    ASSUME NEW text, Accepted(text)
    PROVE  canonicalize_issuer(parse(text)).rest = text.rest
               <=> (text.rest # <<>> =>
                       /\ Last(text.rest) # "slash"
                       /\ text.origin \in Special => Head(text.rest) = "slash")
<1> DEFINE rest == text.rest
           R == parse(text).rest
<1>1. rest \in Seq(Tokens)
  BY DEF Accepted, IssuerTexts
<1>2. canonicalize_issuer(parse(text)).rest =
          IF R # <<>> /\ Last(R) = "slash" THEN Front(R) ELSE R
  BY DocumentIssuer DEF canonicalize_issuer, parse
<1>3. <<"slash">> \in Seq(Tokens) /\ Len(<<"slash">>) = 1
             /\ <<"slash">>[1] = "slash"
  BY DeploymentAssumption
<1>4. CASE rest = <<>>
  <2>1. CASE text.origin \in Special
    <3>1. R = <<"slash">>
      BY <1>4, <1>3, <2>1, ParsedRest, ConcatEmptySeq DEF begins_with_slash
    <3>2. Last(R) = "slash" /\ Front(R) = <<>> /\ R # <<>>
      BY <3>1 DEF Last, Front
    <3> QED
      BY <1>2, <1>4, <3>2
  <2>2. CASE text.origin \notin Special
    <3>1. R = <<>>
      BY <1>4, <2>2, ParsedRest
    <3> QED
      BY <1>2, <1>4, <3>1
  <2> QED
    BY <2>1, <2>2
<1>5. CASE rest # <<>> /\ (text.origin \notin Special \/ Head(rest) = "slash")
  <2>1. R = rest
    BY <1>5, ParsedRest DEF begins_with_slash
  <2>2. Front(rest) # rest
    <3>1. Len(rest) \in Nat \ {0}
      BY <1>1, <1>5
    <3>2. Len(Front(rest)) = Len(rest) - 1
      BY <1>1, <3>1 DEF Front
    <3> QED
      BY <3>1, <3>2
  <2> QED
    BY <1>2, <1>5, <2>1, <2>2
<1>6. CASE rest # <<>> /\ text.origin \in Special /\ Head(rest) # "slash"
  <2>1. R = <<"slash">> \o rest
    BY <1>6, ParsedRest DEF begins_with_slash
  <2>2. /\ Len(R) = Len(rest) + 1 /\ R[1] = "slash"
        /\ R \in Seq(Tokens) /\ Len(rest) \in Nat \ {0}
    <3>1. Len(rest) \in Nat \ {0}
      BY <1>1, <1>6
    <3>2. /\ <<"slash">> \o rest \in Seq(Tokens)
          /\ Len(<<"slash">> \o rest) = 1 + Len(rest)
          /\ (<<"slash">> \o rest)[1] = "slash"
      BY <1>1, <1>3, <3>1, ConcatProperties
    <3> HIDE DEF R, rest
    <3> QED
      BY <2>1, <3>1, <3>2
  <2>3. Front(R)[1] = "slash" /\ R[1] = "slash"
    BY <2>2 DEF Front
  <2>4. rest[1] # "slash"
    BY <1>1, <1>6
  <2> QED
    BY <1>2, <1>6, <2>3, <2>4
<1> QED
  BY <1>4, <1>5, <1>6

\* The document's issuer is the text exactly when the text is well formed.
LEMMA IssuerOfDocument ==
    ASSUME NEW text, Accepted(text)
    PROVE  text = discovery_info(parse(text)).issuer <=> WellFormed(text)
<1> DEFINE canonical == canonicalize_issuer(parse(text))
<1>1. canonical = [origin |-> canonical.origin, rest |-> canonical.rest]
  BY DocumentIssuer DEF canonicalize_issuer, parse
<1>2. canonical.origin = normal[text.origin]
  BY DocumentIssuer DEF canonicalize_issuer, parse
<1>3. text = [origin |-> text.origin, rest |-> text.rest]
  BY DEF Accepted, IssuerTexts
<1>4. text = canonical
          <=> text.origin = canonical.origin /\ text.rest = canonical.rest
  BY <1>1, <1>3
<1> QED
  BY <1>2, <1>4, CanonicalRest, DocumentIssuer DEF WellFormed

-----------------------------------------------------------------------------
(* The invariant                                                           *)

LEMMA InitInv == Init => DeploymentInv
<1> SUFFICES ASSUME Init PROVE DeploymentInv
  OBVIOUS
<1>1. \A s \in Servers : Reached(phase[s], app[s])
  BY DEF Init, Reached
<1>2. \A c \in RelyingParties : Holds(c)
  BY DEF Init, Holds
<1>3. key_files \in [KeyPaths -> SigningKeys \cup {None}]
  BY DEF Init
<1>4. kills \in 0 .. MaxKills
  BY DeploymentAssumption DEF Init
<1> QED
  BY <1>1, <1>2, <1>3, <1>4 DEF Init, DeploymentInv, Phases

\* A step of main that leaves the parties alone keeps what they hold.
LEMMA PartiesKeep ==
    ASSUME DeploymentInv, UNCHANGED rp
    PROVE  /\ DOMAIN rp' = RelyingParties
           /\ rp' = [c \in RelyingParties |-> rp'[c]]
           /\ \A c \in RelyingParties :
                  rp'[c] = [f \in DOMAIN rp'[c] |-> rp'[c][f]]
           /\ \A c \in RelyingParties : Holds(c)'
BY DEF DeploymentInv, Holds

\* A step of process s keeps the others as they are; what is left to show is
\* what s comes to have.
LEMMA OneProcess ==
    ASSUME DeploymentInv, NEW s \in Servers, NEW p \in Phases, NEW state,
           Goto(s, p, state), UNCHANGED <<config_file, key_files, rp>>,
           kills' \in 0 .. MaxKills,
           Reached(p, state)
    PROVE  DeploymentInv'
<1>1. /\ phase' = [phase EXCEPT ![s] = p]
      /\ app' = [app EXCEPT ![s] = state]
  BY DEF Goto
<1>2. /\ phase' \in [Servers -> Phases]
      /\ DOMAIN app' = Servers
      /\ app' = [t \in Servers |-> app'[t]]
  BY <1>1 DEF DeploymentInv
<1>3. phase'[s] = p /\ app'[s] = state
  BY <1>1 DEF DeploymentInv
<1>4. \A t \in Servers \ {s} : phase'[t] = phase[t] /\ app'[t] = app[t]
  BY <1>1 DEF DeploymentInv
<1>5. \A t \in Servers : Reached(phase'[t], app'[t])
  BY <1>3, <1>4 DEF DeploymentInv
<1> QED
  BY <1>2, <1>5, PartiesKeep DEF DeploymentInv

\* What load makes of a file.
LEMMA LoadedFile ==
    ASSUME NEW file \in ConfigFiles, load(file) # None
    PROVE  LoadedConfig(load(file))
<1> DEFINE config == load(file)
<1>1. file # None /\ \A field \in Required : file[field] # None
  BY DEF load
<1>2. /\ DOMAIN file = Required \cup DOMAIN defaults
      /\ file.issuer \in IssuerTexts \cup {None}
      /\ file.id_token_ttl_seconds \in Nat \cup {None}
      /\ file.code_hmac_key \in Seq(STRING) \cup {None}
      /\ file.signing_key_path \in KeyPaths \cup {None}
  BY <1>1, DeploymentAssumption
<1>3. config = [field \in DOMAIN file |->
                   IF field \in DOMAIN defaults
                   THEN or(file[field], defaults[field])
                   ELSE file[field]]
  BY DEF load
<1>4. /\ {"issuer", "code_hmac_key", "signing_key_path"} \subseteq Required
      /\ "issuer" \notin DOMAIN defaults
      /\ "code_hmac_key" \notin DOMAIN defaults
      /\ "signing_key_path" \notin DOMAIN defaults
      /\ "id_token_ttl_seconds" \in DOMAIN defaults
      /\ defaults["id_token_ttl_seconds"] = 3600
  BY DEF defaults, Required
<1>5. DOMAIN config = DOMAIN file
  BY <1>3
<1>6. ASSUME NEW field \in DOMAIN file
      PROVE  config[field] # None
  <2>1. CASE field \in DOMAIN defaults
    <3>1. config[field] = or(file[field], defaults[field])
      BY <1>3, <2>1
    <3> QED
      BY <2>1, <3>1, DeploymentAssumption DEF or
  <2>2. CASE field \notin DOMAIN defaults
    <3>1. field \in Required /\ config[field] = file[field]
      BY <1>2, <1>3, <2>2
    <3> QED
      BY <1>1, <3>1
  <2> QED
    BY <2>1, <2>2
<1>7. /\ config["issuer"] = file["issuer"]
      /\ config["code_hmac_key"] = file["code_hmac_key"]
      /\ config["signing_key_path"] = file["signing_key_path"]
      /\ config["id_token_ttl_seconds"] = or(file["id_token_ttl_seconds"], 3600)
  BY <1>2, <1>3, <1>4
<1>8. config["id_token_ttl_seconds"] \in Nat
  BY <1>2, <1>7 DEF or
<1>9. Complete(config)
  BY <1>5, <1>6 DEF Complete
<1> HIDE DEF config
<1> QED
  BY <1>1, <1>2, <1>4, <1>7, <1>8, <1>9 DEF LoadedConfig, config

LEMMA StartInv ==
    ASSUME DeploymentInv, NEW s \in Servers, Start(s)
    PROVE  DeploymentInv'
<1> USE DEF Phases
<1>0. kills \in 0 .. MaxKills /\ Reached(phase[s], app[s])
  BY DEF DeploymentInv
<1>1. CASE LoadConfig(s)
  <2> DEFINE config == load(config_file)
             hmac_key == hex_to_32_bytes(config.code_hmac_key)
             state == [config |-> config, hmac_key |-> hmac_key]
  <2>1. /\ config # None /\ hmac_key # None
        /\ Goto(s, "configured", state)
        /\ UNCHANGED <<config_file, key_files, rp, kills>>
    BY <1>1 DEF LoadConfig
  <2>2. LoadedConfig(config)
    BY <2>1, LoadedFile DEF DeploymentInv
  <2>3. /\ state.config = config /\ state.hmac_key = hmac_key
        /\ DOMAIN state = {"config", "hmac_key"}
    OBVIOUS
  <2>4. Reached("configured", state)
    BY <2>1, <2>2, <2>3 DEF Reached, Loaded
  <2> HIDE DEF config, state
  <2> QED
    BY <1>0, <2>1, <2>4, OneProcess
<1>2. CASE BuildState(s)
  <2> DEFINE config == app[s].config
             key == key_files[config.signing_key_path]
             state == [config    |-> config,
                       hmac_key  |-> app[s].hmac_key,
                       jwt       |-> from_private_key(key, config.issuer),
                       discovery |-> discovery_info(parse(config.issuer))]
  <2>1. /\ phase[s] = "configured"
        /\ CanBuild(config)
        /\ Goto(s, "ready", state)
        /\ UNCHANGED <<config_file, key_files, rp, kills>>
    BY <1>2 DEF BuildState
  <2>2. Loaded(app[s])
    BY <1>0, <2>1 DEF Reached
  <2>3. Accepted(config.issuer)
    BY <2>1, <2>2 DEF Accepted, CanBuild, Loaded, LoadedConfig
  <2>4. key \in SigningKeys
    BY <2>1, <2>2 DEF CanBuild, Loaded, LoadedConfig, DeploymentInv
  <2>5. /\ state.config = config
        /\ state.hmac_key = app[s].hmac_key
        /\ state.jwt = from_private_key(key, config.issuer)
        /\ state.discovery = discovery_info(parse(config.issuer))
        /\ DOMAIN state = {"config", "hmac_key", "jwt", "discovery"}
    OBVIOUS
  <2>6. from_private_key(key, config.issuer).key = key
    BY DEF from_private_key
  <2>7. Loaded(state)
    BY <2>2, <2>5 DEF Loaded
  <2> HIDE DEF state, key
  <2>8. Built(state)
    BY <2>3, <2>4, <2>5, <2>6 DEF Built
  <2>9. Reached("ready", state)
    BY <2>7, <2>8 DEF Reached
  <2> QED
    BY <1>0, <2>1, <2>9, OneProcess
<1>3. CASE BuildFails(s) \/ BindFails(s)
  <2>1. /\ Goto(s, "down", None)
        /\ UNCHANGED <<config_file, key_files, rp, kills>>
    BY <1>3 DEF BuildFails, BindFails, Exit
  <2> QED
    BY <1>0, <2>1, OneProcess DEF Reached
<1>4. CASE Bind(s)
  <2>1. /\ phase[s] = "ready"
        /\ Goto(s, "serving", app[s])
        /\ UNCHANGED <<config_file, key_files, rp, kills>>
    BY <1>4 DEF Bind
  <2>2. Reached("serving", app[s])
    BY <1>0, <2>1 DEF Reached
  <2> QED
    BY <1>0, <2>1, <2>2, OneProcess
<1> QED
  BY <1>1, <1>2, <1>3, <1>4 DEF Start

LEMMA KillInv ==
    ASSUME DeploymentInv, NEW s \in Servers, Kill(s)
    PROVE  DeploymentInv'
<1>1. Goto(s, "down", None) /\ UNCHANGED <<config_file, key_files, rp>>
  BY DEF Kill, Exit
<1>2. kills' \in 0 .. MaxKills
  <2>1. kills < MaxKills /\ kills' = kills + 1 /\ kills \in 0 .. MaxKills
    BY DEF Kill, DeploymentInv
  <2>2. MaxKills \in Nat
    BY DeploymentAssumption
  <2> QED
    BY <2>1, <2>2
<1> QED
  BY <1>1, <1>2, OneProcess DEF Phases, Reached

LEMMA EditInv ==
    ASSUME DeploymentInv, EditConfig \/ EditKey \/ UNCHANGED vars
    PROVE  DeploymentInv'
<1>1. /\ UNCHANGED <<phase, app, rp, kills>>
      /\ config_file' \in ConfigFiles
  BY DEF EditConfig, EditKey, vars, DeploymentInv
<1>2. key_files' \in [KeyPaths -> SigningKeys \cup {None}]
  BY DEF EditConfig, EditKey, vars, DeploymentInv
<1>3. \A s \in Servers : Reached(phase'[s], app'[s])
  BY <1>1 DEF DeploymentInv
<1> QED
  BY <1>1, <1>2, <1>3, PartiesKeep DEF DeploymentInv

\* A party that receives one thing keeps the others; what is left to show is
\* that this one is what it should be.
LEMMA OneDocument ==
    ASSUME DeploymentInv, NEW c \in RelyingParties, NEW s \in Servers,
           NEW field \in {"discovery", "jwks", "id_token"}, NEW doc,
           Receive(c, s, field, doc),
           NEW x, x = [doc |-> doc, issuer |-> app[s].config.issuer,
                       key |-> app[s].jwt.key],
           field = "discovery" => HasDiscovery(x),
           field = "jwks" => HasJwks(x),
           field = "id_token" => HasIdToken(x, c)
    PROVE  DeploymentInv'
<1>1. /\ UNCHANGED <<config_file, key_files, phase, app, kills>>
      /\ rp' = [rp EXCEPT ![c][field] = x]
  BY DEF Receive
<1>2. /\ DOMAIN rp' = RelyingParties
      /\ rp' = [d \in RelyingParties |-> rp'[d]]
  BY <1>1 DEF DeploymentInv
<1>3. \A d \in RelyingParties \ {c} : rp'[d] = rp[d]
  BY <1>1 DEF DeploymentInv
<1>4. rp'[c] = [rp[c] EXCEPT ![field] = x]
  BY <1>1 DEF DeploymentInv
<1>5. DOMAIN rp[c] = {"discovery", "jwks", "id_token"}
  BY DEF DeploymentInv, Holds
<1>6. /\ DOMAIN rp'[c] = {"discovery", "jwks", "id_token"}
      /\ rp'[c] = [f \in DOMAIN rp'[c] |-> rp'[c][f]]
      /\ rp'[c][field] = x
      /\ \A f \in {"discovery", "jwks", "id_token"} \ {field} :
             rp'[c][f] = rp[c][f]
  BY <1>4, <1>5 DEF DeploymentInv
<1>7. Holds(c)'
  <2>1. rp'[c].discovery # None => HasDiscovery(rp'[c].discovery)
    <3>1. CASE field = "discovery"
      BY <1>6, <3>1
    <3>2. CASE field # "discovery"
      <4>1. rp'[c].discovery = rp[c].discovery
        BY <1>6, <3>2
      <4> QED
        BY <4>1 DEF DeploymentInv, Holds
    <3> QED
      BY <3>1, <3>2
  <2>2. rp'[c].jwks # None => HasJwks(rp'[c].jwks)
    <3>1. CASE field = "jwks"
      BY <1>6, <3>1
    <3>2. CASE field # "jwks"
      <4>1. rp'[c].jwks = rp[c].jwks
        BY <1>6, <3>2
      <4> QED
        BY <4>1 DEF DeploymentInv, Holds
    <3> QED
      BY <3>1, <3>2
  <2>3. rp'[c].id_token # None => HasIdToken(rp'[c].id_token, c)
    <3>1. CASE field = "id_token"
      BY <1>6, <3>1
    <3>2. CASE field # "id_token"
      <4>1. rp'[c].id_token = rp[c].id_token
        BY <1>6, <3>2
      <4> QED
        BY <4>1 DEF DeploymentInv, Holds
    <3> QED
      BY <3>1, <3>2
  <2>4. DOMAIN rp'[c] = {"discovery", "jwks", "id_token"}
    BY <1>6
  <2> QED
    BY <2>1, <2>2, <2>3, <2>4 DEF Holds
<1>8. \A d \in RelyingParties \ {c} : Holds(d)'
  BY <1>3 DEF DeploymentInv, Holds
<1>9. \A d \in RelyingParties : rp'[d] = [f \in DOMAIN rp'[d] |-> rp'[d][f]]
  BY <1>3, <1>6 DEF DeploymentInv
<1>10. \A t \in Servers : Reached(phase'[t], app'[t])
  BY <1>1 DEF DeploymentInv
<1>11. /\ (config_file \in ConfigFiles)'
       /\ (key_files \in [KeyPaths -> SigningKeys \cup {None}])'
       /\ (kills \in 0 .. MaxKills)'
       /\ (phase \in [Servers -> Phases])'
       /\ (DOMAIN app = Servers)'
       /\ (app = [t \in Servers |-> app[t]])'
  BY <1>1 DEF DeploymentInv
<1> QED
  BY <1>2, <1>7, <1>8, <1>9, <1>10, <1>11 DEF DeploymentInv

LEMMA ReceiveInv ==
    ASSUME DeploymentInv, NEW c \in RelyingParties, NEW s \in Servers,
           discovery_handler(c, s) \/ jwks_handler(c, s) \/ SignIn(c, s)
    PROVE  DeploymentInv'
<1> DEFINE issuer == app[s].config.issuer
           key == app[s].jwt.key
           X(doc) == [doc |-> doc, issuer |-> issuer, key |-> key]
<1>1. phase[s] = "serving"
  BY DEF discovery_handler, jwks_handler, SignIn, Receive
<1>2. /\ Accepted(issuer)
      /\ app[s].jwt = from_private_key(key, issuer)
      /\ app[s].discovery = discovery_info(parse(issuer))
      /\ app[s].config.id_token_ttl_seconds \in Nat
  BY <1>1 DEF DeploymentInv, Reached, Built, Loaded, LoadedConfig
<1>3. CASE discovery_handler(c, s)
  <2>1. HasDiscovery(X(app[s].discovery))
    BY <1>2 DEF HasDiscovery
  <2> QED
    BY <1>3, <2>1, OneDocument DEF discovery_handler
<1>4. CASE jwks_handler(c, s)
  <2>1. HasJwks(X(get_jwks(app[s].jwt)))
    BY <1>2 DEF HasJwks
  <2> QED
    BY <1>4, <2>1, OneDocument DEF jwks_handler
<1>5. CASE SignIn(c, s)
  <2> DEFINE groups == app[s].config.default_groups
             ttl == app[s].config.id_token_ttl_seconds
             token == issue_id_token(app[s].jwt, "user", c, groups, None, ttl, 0)
  <2>1. token = issue_id_token(from_private_key(key, issuer), "user", c, groups,
                               None, ttl, 0)
    BY <1>2
  <2>2. HasIdToken(X(token), c)
    BY <1>2, <2>1 DEF HasIdToken
  <2>3. Receive(c, s, "id_token", token)
    BY <1>5 DEF SignIn
  <2> HIDE DEF token
  <2> QED
    BY <2>2, <2>3, OneDocument
<1> QED
  BY <1>3, <1>4, <1>5

LEMMA StepInv == DeploymentInv /\ [Next]_vars => DeploymentInv'
BY StartInv, KillInv, EditInv, ReceiveInv DEF Next

LEMMA Invariance == Spec => []DeploymentInv
BY InitInv, StepInv, PTL DEF Spec

-----------------------------------------------------------------------------
(* Theorems                                                                *)

\* The iss claim of a process and the issuer of its discovery document agree
\* exactly when the configured text is well formed, for every text that main
\* accepts whose query or fragment, if any, does not end in a slash.
THEOREM IssuersAreExact == Spec => []IssuerExact
<1>1. DeploymentInv => IssuerExact
  <2> SUFFICES ASSUME DeploymentInv, NEW s \in Serving
               PROVE  app[s].jwt.issuer = app[s].discovery.issuer
                          <=> WellFormed(app[s].config.issuer)
    BY Zenon DEF IssuerExact
  <2>1. Built(app[s]) /\ phase[s] = "serving"
    BY DEF DeploymentInv, Serving, Reached
  <2>2. app[s].jwt.issuer = app[s].config.issuer
    BY <2>1 DEF Built, from_private_key
  <2> QED
    BY <2>1, <2>2, IssuerOfDocument DEF Built
<1> QED
  BY <1>1, Invariance, PTL

\* Whatever lives of whatever processes a party got its document, its keys and
\* its token from, its verdict depends on their issuer texts and keys alone.
THEOREM ReplicasAgree == Spec => []AcceptedAcrossReplicas
<1>1. DeploymentInv => AcceptedAcrossReplicas
  <2> SUFFICES ASSUME DeploymentInv, NEW c \in RelyingParties,
                      \A field \in DOMAIN rp[c] : rp[c][field] # None
               PROVE  /\ (/\ rp[c].id_token.key = rp[c].jwks.key
                          /\ rp[c].id_token.issuer = rp[c].discovery.issuer
                          /\ WellFormed(rp[c].id_token.issuer)) => Accepts(c)
                      /\ Accepts(c) =>
                             /\ rp[c].id_token.key = rp[c].jwks.key
                             /\ normal[rp[c].id_token.issuer.origin]
                                   = normal[rp[c].discovery.issuer.origin]
    BY DEF AcceptedAcrossReplicas
  <2> DEFINE d == rp[c].discovery
             j == rp[c].jwks
             i == rp[c].id_token
  <2>1. HasDiscovery(d) /\ HasJwks(j) /\ HasIdToken(i, c)
    BY DEF DeploymentInv, Holds
  <2>2. j.doc = {[kid |-> kid_of(j.key), n |-> j.key]}
    BY <2>1 DEF HasJwks, get_jwks, from_private_key
  <2>3. PICK ttl \in Nat :
            /\ i.doc.type = "id" /\ i.doc.kid = kid_of(i.key)
            /\ i.doc.key = i.key /\ i.doc.iss = i.issuer
            /\ i.doc.aud = c /\ i.doc.exp = 0 + ttl
    BY <2>1 DEF HasIdToken, issue_id_token, from_private_key
  <2>4. d.doc.issuer = discovery_info(parse(d.issuer)).issuer
    BY <2>1 DEF HasDiscovery
  <2>5. Accepts(c) <=> /\ kid_of(j.key) = kid_of(i.key)
                       /\ i.key = j.key
                       /\ i.issuer = d.doc.issuer
    <3>1. i.doc.exp >= 0 - Leeway
      <4>1. Leeway \in Nat /\ ttl \in Nat
        BY DeploymentAssumption
      <4>2. i.doc.exp = 0 + ttl
        BY <2>3
      <4> HIDE DEF i
      <4> QED
        BY ONLY <4>1, <4>2
    <3>2. Accepts(c) <=>
              \E jwk \in j.doc : /\ jwk.kid = i.doc.kid
                                 /\ i.doc.key = jwk.n
                                 /\ i.doc.iss = d.doc.issuer
      BY <2>3, <3>1 DEF Accepts, verify_id_token
    <3> HIDE DEF d, j, i
    <3> QED
      BY <2>2, <2>3, <3>2
  <2>6. ASSUME i.key = j.key, i.issuer = d.issuer, WellFormed(i.issuer)
        PROVE  Accepts(c)
    BY <2>1, <2>4, <2>5, <2>6, IssuerOfDocument DEF HasDiscovery
  <2>7. ASSUME Accepts(c)
        PROVE  i.key = j.key /\ normal[i.issuer.origin] = normal[d.issuer.origin]
    <3>1. i.issuer = canonicalize_issuer(parse(d.issuer))
      BY <2>1, <2>4, <2>5, <2>7, DocumentIssuer DEF HasDiscovery
    <3>2. i.issuer.origin = normal[d.issuer.origin]
      BY <2>1, <3>1, DocumentIssuer
         DEF HasDiscovery, canonicalize_issuer, parse
    <3>3. normal[normal[d.issuer.origin]] = normal[d.issuer.origin]
      BY <2>1, DocumentIssuer, DeploymentAssumption
         DEF HasDiscovery, Accepted, IssuerTexts
    <3> QED
      BY <2>5, <2>7, <3>2, <3>3
  <2> QED
    BY <2>6, <2>7
<1> QED
  BY <1>1, Invariance, PTL

-----------------------------------------------------------------------------
(* Keys for codes                                                          *)

\* A digit has one of sixteen values, and a plus sign is none.
LEMMA DigitValues ==
    /\ \A ch : digit(ch) # None => digit(ch) \in 0 .. 15
    /\ digit("+") = None
<1>1. ASSUME NEW ch, ch \in Range(Lower)
      PROVE  (CHOOSE d \in 1 .. 16 : Lower[d] = ch) \in 1 .. 16
  <2>1. \E d \in 1 .. 16 : Lower[d] = ch
    BY <1>1 DEF Range, Lower
  <2> QED
    BY <2>1
<1>2. ASSUME NEW ch, ch \in Range(Upper)
      PROVE  (CHOOSE d \in 1 .. 6 : Upper[d] = ch) \in 1 .. 6
  <2>1. \E d \in 1 .. 6 : Upper[d] = ch
    BY <1>2 DEF Range, Upper
  <2> QED
    BY <2>1
<1>3. ASSUME NEW ch \in DOMAIN to_digit
      PROVE  to_digit[ch] \in 0 .. 15
  <2>1. CASE ch \in Range(Lower)
    <3>1. to_digit[ch] = (CHOOSE d \in 1 .. 16 : Lower[d] = ch) - 1
      BY <2>1 DEF to_digit
    <3> QED
      BY <1>1, <2>1, <3>1
  <2>2. CASE ch \notin Range(Lower)
    <3> DEFINE d == CHOOSE d \in 1 .. 6 : Upper[d] = ch
    <3>1. ch \in Range(Upper) /\ to_digit[ch] = d + 9
      BY <2>2 DEF to_digit
    <3>2. d \in 1 .. 6
      BY <1>2, <3>1
    <3> HIDE DEF d
    <3> QED
      BY <3>1, <3>2
  <2> QED
    BY <2>1, <2>2
<1>4. "+" \notin Range(Lower) /\ "+" \notin Range(Upper)
  BY DEF Range, Lower, Upper
<1>5. "+" \notin DOMAIN to_digit
  BY <1>4 DEF to_digit
<1> QED
  BY <1>3, <1>5 DEF digit

\* What a character of an accepted text counts for.
Value(ch) == IF ch = "+" THEN 0 ELSE digit(ch)

\* What two characters stand for, if anything, is their two values.
LEMMA PairValue ==
    ASSUME NEW a, NEW b, from_str_radix(a, b) # None
    PROVE  /\ Value(a) \in 0 .. 15
           /\ Value(b) \in 0 .. 15
           /\ from_str_radix(a, b) = 16 * Value(a) + Value(b)
<1>1. digit(b) # None /\ digit(b) \in 0 .. 15 /\ b # "+"
  BY DigitValues DEF from_str_radix
<1>2. CASE a = "+"
  BY <1>1, <1>2 DEF from_str_radix, Value
<1>3. CASE a # "+"
  <2>1. digit(a) # None /\ digit(a) \in 0 .. 15
    BY <1>1, <1>3, DigitValues DEF from_str_radix
  <2> QED
    BY <1>1, <1>3, <2>1 DEF from_str_radix, Value
<1> QED
  BY <1>2, <1>3

\* Every position of a text lies in one of its pairs.
LEMMA PairOf ==
    ASSUME NEW i \in 1 .. 2 * KeyBytes
    PROVE  \E k \in 1 .. KeyBytes : i = 2 * k - 1 \/ i = 2 * k
<1>0. KeyBytes \in Nat
  BY DeploymentAssumption
<1>1. CASE i % 2 = 0
  <2>1. i \div 2 \in 1 .. KeyBytes /\ i = 2 * (i \div 2)
    BY <1>0, <1>1
  <2> QED
    BY <2>1
<1>2. CASE i % 2 = 1
  <2>1. (i + 1) \div 2 \in 1 .. KeyBytes /\ i = 2 * ((i + 1) \div 2) - 1
    BY <1>0, <1>2
  <2> QED
    BY <2>1
<1> QED
  BY <1>0, <1>1, <1>2

\* A key is the bytes that the values of the text's characters make up.
LEMMA KeyOfText ==
    ASSUME NEW hex \in Seq(STRING), hex_to_32_bytes(hex) # None
    PROVE  /\ Len(hex) = 2 * KeyBytes
           /\ \A k \in 1 .. 2 * KeyBytes : Value(hex[k]) \in 0 .. 15
           /\ hex_to_32_bytes(hex) =
                  [k \in 1 .. KeyBytes |->
                      16 * Value(hex[2 * k - 1]) + Value(hex[2 * k])]
<1>1. KeyBytes \in Nat
  BY DeploymentAssumption
<1> DEFINE B(k) == from_str_radix(hex[2 * k - 1], hex[2 * k])
<1>2. /\ Len(hex) = 2 * KeyBytes
      /\ hex_to_32_bytes(hex) = [k \in 1 .. KeyBytes |-> B(k)]
      /\ \A k \in 1 .. KeyBytes : B(k) # None
  <2>1. \A k \in 1 .. KeyBytes : [l \in 1 .. KeyBytes |-> B(l)][k] = B(k)
    OBVIOUS
  <2> HIDE DEF B
  <2> QED
    BY <2>1 DEF hex_to_32_bytes, B
<1>3. \A k \in 1 .. KeyBytes :
          /\ Value(hex[2 * k - 1]) \in 0 .. 15
          /\ Value(hex[2 * k]) \in 0 .. 15
          /\ B(k) = 16 * Value(hex[2 * k - 1]) + Value(hex[2 * k])
  BY <1>2, PairValue
<1>4. ASSUME NEW i \in 1 .. 2 * KeyBytes
      PROVE  Value(hex[i]) \in 0 .. 15
  <2>1. \E k \in 1 .. KeyBytes : i = 2 * k - 1 \/ i = 2 * k
    BY PairOf
  <2> HIDE DEF B
  <2> QED
    BY <1>3, <2>1
<1> HIDE DEF B
<1>5. [k \in 1 .. KeyBytes |-> B(k)] =
          [k \in 1 .. KeyBytes |->
              16 * Value(hex[2 * k - 1]) + Value(hex[2 * k])]
  BY <1>3
<1> QED
  BY <1>2, <1>4, <1>5

\* Two digits make a byte, and a byte has two digits.
LEMMA ByteOfDigits ==
    ASSUME NEW x \in 0 .. 15, NEW y \in 0 .. 15
    PROVE  /\ 16 * x + y \in 0 .. 255
           /\ \A v, w \in 0 .. 15 : 16 * x + y = 16 * v + w => x = v /\ y = w
OBVIOUS

\* main never takes a step with half of what it needs: every process is typed
\* as its phase says, whatever files it started from and however they changed
\* while it did.
THEOREM DeploymentTypes == Spec => []TypeOK
<1>1. DeploymentInv => TypeOK
  <2> SUFFICES ASSUME DeploymentInv PROVE TypeOK
    OBVIOUS
  <2>1. ASSUME NEW s \in Servers, phase[s] # "down"
        PROVE  /\ Complete(app[s].config)
               /\ app[s].hmac_key \in [1 .. KeyBytes -> 0 .. 255]
    <3>1. Loaded(app[s])
      BY <2>1 DEF DeploymentInv, Reached
    <3> DEFINE hex == app[s].config.code_hmac_key
               B(k) == 16 * Value(hex[2 * k - 1]) + Value(hex[2 * k])
    <3>2. /\ KeyBytes \in Nat
          /\ \A k \in 1 .. 2 * KeyBytes : Value(hex[k]) \in 0 .. 15
          /\ app[s].hmac_key = [k \in 1 .. KeyBytes |-> B(k)]
      BY <3>1, KeyOfText, DeploymentAssumption DEF Loaded, LoadedConfig
    <3>3. \A k \in 1 .. KeyBytes : B(k) \in 0 .. 255
      <4> TAKE k \in 1 .. KeyBytes
      <4>1. 2 * k - 1 \in 1 .. 2 * KeyBytes /\ 2 * k \in 1 .. 2 * KeyBytes
        BY <3>2
      <4>2. Value(hex[2 * k - 1]) \in 0 .. 15 /\ Value(hex[2 * k]) \in 0 .. 15
        BY <3>2, <4>1
      <4> DEFINE x == Value(hex[2 * k - 1])
                 y == Value(hex[2 * k])
      <4>3. B(k) = 16 * x + y
        OBVIOUS
      <4>4. x \in 0 .. 15 /\ y \in 0 .. 15
        BY <4>2
      <4> HIDE DEF x, y, B
      <4> QED
        BY <4>3, <4>4, ByteOfDigits
    <3> HIDE DEF B
    <3>4. app[s].hmac_key \in [1 .. KeyBytes -> 0 .. 255]
      BY <3>2, <3>3
    <3> QED
      BY <3>1, <3>4 DEF Loaded, LoadedConfig
  <2>2. ASSUME NEW s \in Servers
        PROVE  /\ phase[s] = "down" => app[s] = None
               /\ phase[s] = "configured" =>
                      DOMAIN app[s] = {"config", "hmac_key"}
               /\ phase[s] \in {"ready", "serving"} =>
                      /\ DOMAIN app[s]
                             = {"config", "hmac_key", "jwt", "discovery"}
                      /\ app[s].jwt.key \in SigningKeys
    BY DEF DeploymentInv, Reached, Built
  <2>3. /\ config_file \in ConfigFiles
        /\ key_files \in [KeyPaths -> SigningKeys \cup {None}]
        /\ phase \in [Servers -> Phases]
        /\ kills \in 0 .. MaxKills
        /\ DOMAIN app = Servers /\ DOMAIN rp = RelyingParties
    BY DEF DeploymentInv
  <2> QED
    BY ONLY <2>1, <2>2, <2>3 DEF TypeOK
<1> QED
  BY <1>1, Invariance, PTL

\* Two processes whose texts are hexadecimal validate each other's codes exactly
\* when the texts have the same digits.
THEOREM KeysFollowTexts == Spec => []KeyFollowsText
<1>1. DeploymentInv => KeyFollowsText
  <2> SUFFICES ASSUME DeploymentInv,
                      NEW s \in Servers, phase[s] # "down",
                      NEW t \in Servers, phase[t] # "down",
                      NEW a, a = app[s].config.code_hmac_key,
                      NEW b, b = app[t].config.code_hmac_key,
                      HexText(a), HexText(b)
               PROVE  app[s].hmac_key = app[t].hmac_key
                          <=> \A i \in DOMAIN a : digit(a[i]) = digit(b[i])
    BY DEF KeyFollowsText, Running
  <2>1. Loaded(app[s]) /\ Loaded(app[t])
    BY DEF DeploymentInv, Reached
  <2>2. KeyBytes \in Nat
    BY DeploymentAssumption
  <2> DEFINE A(k) == Value(a[k])
             B(k) == Value(b[k])
  <2>3. /\ DOMAIN a = 1 .. 2 * KeyBytes /\ DOMAIN b = 1 .. 2 * KeyBytes
        /\ \A k \in 1 .. 2 * KeyBytes : A(k) \in 0 .. 15 /\ B(k) \in 0 .. 15
        /\ app[s].hmac_key =
               [k \in 1 .. KeyBytes |-> 16 * A(2 * k - 1) + A(2 * k)]
        /\ app[t].hmac_key =
               [k \in 1 .. KeyBytes |-> 16 * B(2 * k - 1) + B(2 * k)]
    <3>1. /\ a \in Seq(STRING) /\ hex_to_32_bytes(a) # None
          /\ b \in Seq(STRING) /\ hex_to_32_bytes(b) # None
          /\ app[s].hmac_key = hex_to_32_bytes(a)
          /\ app[t].hmac_key = hex_to_32_bytes(b)
      BY <2>1 DEF Loaded, LoadedConfig
    <3>2. DOMAIN a = 1 .. Len(a) /\ DOMAIN b = 1 .. Len(b)
      BY <3>1
    <3> QED
      BY <3>1, <3>2, KeyOfText
  <2>4. \A k \in 1 .. KeyBytes :
            2 * k - 1 \in 1 .. 2 * KeyBytes /\ 2 * k \in 1 .. 2 * KeyBytes
    BY <2>2
  <2> HIDE DEF A, B
  <2>5. ASSUME app[s].hmac_key = app[t].hmac_key
        PROVE  \A i \in 1 .. 2 * KeyBytes : A(i) = B(i)
    <3>1. ASSUME NEW k \in 1 .. KeyBytes
          PROVE  A(2 * k - 1) = B(2 * k - 1) /\ A(2 * k) = B(2 * k)
      <4>1. /\ app[s].hmac_key[k] = 16 * A(2 * k - 1) + A(2 * k)
            /\ app[t].hmac_key[k] = 16 * B(2 * k - 1) + B(2 * k)
        BY <2>3
      <4>2. 16 * A(2 * k - 1) + A(2 * k) = 16 * B(2 * k - 1) + B(2 * k)
        BY <2>5, <4>1
      <4>3. /\ A(2 * k - 1) \in 0 .. 15 /\ A(2 * k) \in 0 .. 15
            /\ B(2 * k - 1) \in 0 .. 15 /\ B(2 * k) \in 0 .. 15
        BY <2>3, <2>4
      <4> DEFINE x == A(2 * k - 1)
                 y == A(2 * k)
                 v == B(2 * k - 1)
                 w == B(2 * k)
      <4> HIDE DEF x, y, v, w
      <4>4. 16 * x + y = 16 * v + w
        BY <4>2 DEF x, y, v, w
      <4>5. x \in 0 .. 15 /\ y \in 0 .. 15 /\ v \in 0 .. 15 /\ w \in 0 .. 15
        BY <4>3 DEF x, y, v, w
      <4>6. x = v /\ y = w
        BY <4>4, <4>5, ByteOfDigits
      <4> QED
        BY <4>6 DEF x, y, v, w
    <3> QED
      BY <3>1, PairOf
  <2>6. ASSUME \A i \in 1 .. 2 * KeyBytes : A(i) = B(i)
        PROVE  app[s].hmac_key = app[t].hmac_key
    BY <2>3, <2>4, <2>6
  <2>7. \A i \in 1 .. 2 * KeyBytes : A(i) = digit(a[i]) /\ B(i) = digit(b[i])
    <3>1. "+" \notin DOMAIN to_digit
      <4>1. "+" \notin Range(Lower) /\ "+" \notin Range(Upper)
        BY DEF Range, Lower, Upper
      <4> QED
        BY <4>1 DEF to_digit
    <3>2. \A i \in 1 .. 2 * KeyBytes : a[i] # "+" /\ b[i] # "+"
      BY <2>3, <3>1 DEF HexText
    <3> QED
      BY <3>2 DEF A, B, Value
  <2>8. (\A i \in DOMAIN a : digit(a[i]) = digit(b[i]))
            <=> \A i \in 1 .. 2 * KeyBytes : A(i) = B(i)
    <3>1. DOMAIN a = 1 .. 2 * KeyBytes
      BY <2>3
    <3> QED
      BY ONLY <2>7, <3>1
  <2> QED
    BY <2>5, <2>6, <2>8
<1> QED
  BY <1>1, Invariance, PTL

-----------------------------------------------------------------------------
(* Paths                                                                   *)

\* What ends a path, and the tokens of the URLs that come up.
Ends == {"question", "hash"}
UrlTokens == Tokens \cup {"slash", ".well-known", "openid-configuration"}

LEMMA WholePath ==
    ASSUME NEW url, \A k \in 1 .. Len(url.rest) : url.rest[k] \notin Ends
    PROVE  path(url) = url.rest
BY DEF path, SelectInSeq, Ends

LEMMA CutPath ==
    ASSUME NEW url, NEW m \in 1 .. Len(url.rest), url.rest \in Seq(UrlTokens),
           url.rest[m] \in Ends,
           \A k \in 1 .. m - 1 : url.rest[k] \notin Ends
    PROVE  path(url) = SubSeq(url.rest, 1, m - 1)
<1> DEFINE r == url.rest
           I == {k \in 1 .. Len(r) : r[k] \in Ends}
<1>1. Len(r) \in Nat /\ m \in I /\ I \subseteq Nat /\ \A k \in I : m <= k
  OBVIOUS
<1>2. Min(I) = m
  <2>1. Min(I) \in I /\ Min(I) <= m
    BY <1>1, MinFacts
  <2>2. Min(I) \in Nat /\ m <= Min(I)
    BY <1>1, <2>1
  <2> QED
    BY <2>1, <2>2
<1>3. SelectInSeq(r, LAMBDA token : token \in {"question", "hash"}) = m
  <2>1. I = {k \in 1 .. Len(r) : r[k] \in {"question", "hash"}}
    BY DEF Ends
  <2> HIDE DEF I
  <2> QED
    BY <1>1, <1>2, <2>1 DEF SelectInSeq
<1> HIDE DEF r
<1> QED
  BY <1>3 DEF path, r

\* Two URLs that are the same up to where the path of one of them ends have the
\* same path.
LEMMA SamePath ==
    ASSUME NEW u, NEW w, u.rest \in Seq(UrlTokens), w.rest \in Seq(UrlTokens),
           NEW m \in 1 .. Len(u.rest), m <= Len(w.rest),
           \A k \in 1 .. m : u.rest[k] = w.rest[k],
           u.rest[m] \in Ends,
           \A k \in 1 .. m - 1 : u.rest[k] \notin Ends
    PROVE  path(u) = path(w) /\ path(u) # u.rest
<1>1. m \in 1 .. Len(w.rest) /\ m \in Nat /\ Len(u.rest) \in Nat
  OBVIOUS
<1>2. path(u) = SubSeq(u.rest, 1, m - 1)
  BY CutPath
<1>3. path(w) = SubSeq(w.rest, 1, m - 1)
  <2>1. w.rest[m] \in Ends /\ \A k \in 1 .. m - 1 : w.rest[k] \notin Ends
    <3>1. m \in 1 .. m /\ \A k \in 1 .. m - 1 : k \in 1 .. m
      BY <1>1
    <3> QED
      BY <3>1
  <2> QED
    BY <1>1, <2>1, CutPath
<1>4. /\ path(u) = SubSeq(u.rest, 1, m - 1)
      /\ path(w) = SubSeq(w.rest, 1, m - 1)
  BY <1>2, <1>3
<1>5. /\ SubSeq(u.rest, 1, m - 1) \in Seq(UrlTokens)
      /\ Len(SubSeq(u.rest, 1, m - 1)) = m - 1
      /\ \A k \in 1 .. m - 1 : SubSeq(u.rest, 1, m - 1)[k] = u.rest[k]
  BY <1>1, SubSeqProperties
<1>6. /\ SubSeq(w.rest, 1, m - 1) \in Seq(UrlTokens)
      /\ Len(SubSeq(w.rest, 1, m - 1)) = m - 1
      /\ \A k \in 1 .. m - 1 : SubSeq(w.rest, 1, m - 1)[k] = w.rest[k]
  BY <1>1, SubSeqProperties
<1>7. SubSeq(u.rest, 1, m - 1) = SubSeq(w.rest, 1, m - 1)
  BY <1>1, <1>5, <1>6, SeqEqual
<1>8. SubSeq(u.rest, 1, m - 1) # u.rest
  BY <1>1, <1>5
<1> QED
  BY <1>4, <1>7, <1>8

\* What a party asks for when it looks for the document of an accepted issuer.
Stem(text) ==
    IF text.rest # <<>> /\ Last(text.rest) = "slash"
    THEN Front(text.rest) ELSE text.rest

LEMMA WellKnownRest ==
    ASSUME NEW text, Accepted(text)
    PROVE  LET F == Stem(text)
               W == F \o DiscoveryRoute
           IN /\ F \in Seq(UrlTokens) /\ W \in Seq(UrlTokens)
              /\ text.rest \in Seq(UrlTokens)
              /\ Len(W) = Len(F) + 4
              /\ \A k \in 1 .. Len(F) : W[k] = F[k]
              /\ \A k \in 1 .. 4 : W[Len(F) + k] = DiscoveryRoute[k]
              /\ \A k \in 1 .. Len(F) : F[k] = text.rest[k]
              /\ \/ Len(text.rest) = Len(F)
                 \/ Len(text.rest) = Len(F) + 1 /\ text.rest[Len(F) + 1] = "slash"
              /\ parse(well_known(text)).rest =
                     IF text.origin \notin Special \/ W[1] = "slash"
                     THEN W ELSE <<"slash">> \o W
<1> DEFINE r == text.rest
           F == Stem(text)
           W == F \o DiscoveryRoute
<1>1. r \in Seq(UrlTokens) /\ Len(r) \in Nat
  <2>1. r \in Seq(Tokens)
    BY DEF Accepted, IssuerTexts
  <2>2. Tokens \subseteq UrlTokens
    BY DEF UrlTokens
  <2> QED
    BY <2>1, <2>2, SeqMonotonic
<1>2. /\ F \in Seq(UrlTokens)
      /\ \A k \in 1 .. Len(F) : F[k] = r[k]
      /\ \/ Len(r) = Len(F)
         \/ Len(r) = Len(F) + 1 /\ r[Len(F) + 1] = "slash"
  <2>1. CASE r # <<>> /\ Last(r) = "slash"
    <3>1. F = SubSeq(r, 1, Len(r) - 1) /\ Len(r) # 0 /\ r[Len(r)] = "slash"
      BY <1>1, <2>1 DEF Stem, Front, Last
    <3>2. /\ SubSeq(r, 1, Len(r) - 1) \in Seq(UrlTokens)
          /\ Len(SubSeq(r, 1, Len(r) - 1)) = Len(r) - 1
          /\ \A k \in 1 .. Len(r) - 1 : SubSeq(r, 1, Len(r) - 1)[k] = r[k]
      BY <1>1, <3>1, SubSeqProperties
    <3> HIDE DEF F
    <3> QED
      BY <1>1, <3>1, <3>2
  <2>2. CASE ~(r # <<>> /\ Last(r) = "slash")
    BY <1>1, <2>2 DEF Stem
  <2> QED
    BY <2>1, <2>2
<1>3. /\ DiscoveryRoute \in Seq(UrlTokens)
      /\ Len(DiscoveryRoute) = 4
  BY DEF DiscoveryRoute, UrlTokens
<1>4. /\ W \in Seq(UrlTokens) /\ Len(W) = Len(F) + 4 /\ Len(F) \in Nat
      /\ \A k \in 1 .. Len(F) : W[k] = F[k]
      /\ \A k \in 1 .. 4 : W[Len(F) + k] = DiscoveryRoute[k]
  <2> DEFINE D == DiscoveryRoute
  <2> HIDE DEF F, D
  <2>1. F \in Seq(UrlTokens) /\ D \in Seq(UrlTokens) /\ Len(D) = 4
    BY <1>2, <1>3 DEF D
  <2>2. /\ F \o D \in Seq(UrlTokens) /\ Len(F) \in Nat
        /\ Len(F \o D) = Len(F) + Len(D)
        /\ \A k \in 1 .. Len(F) : (F \o D)[k] = F[k]
        /\ \A k \in 1 .. Len(D) : (F \o D)[Len(F) + k] = D[k]
    BY <2>1, ConcatFacts
  <2> QED
    BY <2>1, <2>2 DEF D
<1>5. well_known(text) = [origin |-> text.origin, rest |-> W]
  <2>1. text \in [origin : DOMAIN normal, rest : Seq(Tokens)]
    BY DEF Accepted, IssuerTexts
  <2>2. well_known(text) = [text EXCEPT !.rest = W]
    BY <2>1 DEF well_known, Stem
  <2> HIDE DEF W
  <2> QED
    BY <2>1, <2>2
<1>6. Head(W) = W[1] /\ W # <<>>
  BY <1>4
<1>7. parse(well_known(text)).rest =
          IF text.origin \notin Special \/ W[1] = "slash"
          THEN W ELSE <<"slash">> \o W
  <2>1. normal[text.origin] # None
    BY DocumentIssuer
  <2>2. /\ well_known(text).origin = text.origin
        /\ well_known(text).rest = W
    BY <1>5
  <2> HIDE DEF W
  <2> QED
    BY <1>6, <2>1, <2>2 DEF parse, begins_with_slash
<1> QED
  BY <1>1, <1>2, <1>4, <1>7

LEMMA SlashBefore ==
    ASSUME NEW s \in Seq(UrlTokens)
    PROVE  /\ <<"slash">> \o s \in Seq(UrlTokens)
           /\ Len(<<"slash">> \o s) = Len(s) + 1
           /\ (<<"slash">> \o s)[1] = "slash"
           /\ \A k \in 1 .. Len(s) : (<<"slash">> \o s)[k + 1] = s[k]
<1> DEFINE d == <<"slash">>
<1>1. Len(d) = 1 /\ d[1] = "slash"
  OBVIOUS
<1>2. d \in Seq(UrlTokens)
  BY DEF UrlTokens
<1> HIDE DEF d
<1>3. /\ d \o s \in Seq(UrlTokens) /\ Len(s) \in Nat
      /\ Len(d \o s) = Len(d) + Len(s)
      /\ \A k \in 1 .. Len(d) : (d \o s)[k] = d[k]
      /\ \A k \in 1 .. Len(s) : (d \o s)[Len(d) + k] = s[k]
  BY <1>2, ConcatFacts
<1>4. /\ Len(d \o s) = Len(s) + 1 /\ (d \o s)[1] = "slash"
      /\ \A k \in 1 .. Len(s) : (d \o s)[k + 1] = s[k]
  <2>1. \A k \in 1 .. Len(s) : k + 1 = 1 + k
    BY <1>3
  <2> QED
    BY <1>1, <1>3, <2>1
<1> QED
  BY <1>3, <1>4 DEF d

\* The document is found under the issuer's name when the issuer has no path,
\* or is the document's own URL with a query or a fragment.
LEMMA WellKnownFound ==
    ASSUME NEW text, Accepted(text)
    PROVE  path(parse(well_known(text))) = DiscoveryRoute
               <=> \/ text.rest \in {<<>>, <<"slash">>}
                   \/ /\ path(text) # text.rest
                      /\ path(parse(text)) = DiscoveryRoute
<1> DEFINE r == text.rest
           F == Stem(text)
           W == F \o DiscoveryRoute
           Q == parse(well_known(text)).rest
           kept == text.origin \notin Special
<1>1. /\ F \in Seq(UrlTokens) /\ W \in Seq(UrlTokens) /\ r \in Seq(UrlTokens)
      /\ Len(W) = Len(F) + 4 /\ Len(F) \in Nat /\ Len(r) \in Nat
      /\ \A k \in 1 .. Len(F) : W[k] = F[k]
      /\ \A k \in 1 .. 4 : W[Len(F) + k] = DiscoveryRoute[k]
      /\ \A k \in 1 .. Len(F) : F[k] = r[k]
      /\ \/ Len(r) = Len(F)
         \/ Len(r) = Len(F) + 1 /\ r[Len(F) + 1] = "slash"
      /\ Q = IF kept \/ W[1] = "slash" THEN W ELSE <<"slash">> \o W
  BY WellKnownRest, SMTT(30)
<1>2. /\ DiscoveryRoute \in Seq(UrlTokens) /\ Len(DiscoveryRoute) = 4
      /\ DiscoveryRoute[1] = "slash"
      /\ \A k \in 1 .. 4 : DiscoveryRoute[k] \notin Ends
  BY DEF DiscoveryRoute, UrlTokens, Ends
<1>3. r = <<"slash">> => Len(F) = 0
  BY DEF Stem, Front, Last
<1>4. parse(text).rest =
          IF kept \/ (r # <<>> /\ r[1] = "slash") THEN r ELSE <<"slash">> \o r
  <2>1. r # <<>> => Head(r) = r[1]
    BY <1>1
  <2> QED
    BY <2>1, ParsedRest DEF begins_with_slash
<1>5. "slash" \notin Ends
  BY DEF Ends
<1> HIDE DEF F, Q, r, W, kept
<1>6. CASE Len(F) = 0
  <2>1. \A k \in 1 .. 4 : W[k] = DiscoveryRoute[k]
    <3>1. \A k \in 1 .. 4 : Len(F) + k = k
      BY <1>6
    <3> QED
      BY <1>1, <3>1
  <2>2. W = DiscoveryRoute
    <3>1. Len(W) = Len(DiscoveryRoute)
      BY <1>1, <1>2, <1>6
    <3> QED
      BY <1>1, <1>2, <2>1, <3>1, SeqEqual
  <2>3. Q = DiscoveryRoute
    BY <1>1, <1>2, <2>2
  <2>4. path(parse(well_known(text))) = DiscoveryRoute
    BY <1>2, <2>3, WholePath DEF Q
  <2>5. r \in {<<>>, <<"slash">>}
    <3>1. CASE Len(r) = 0
      BY <1>1, <3>1
    <3>2. CASE Len(r) = 1 /\ r[1] = "slash"
      BY <1>1, <3>2
    <3> QED
      BY <1>1, <1>6, <3>1, <3>2
  <2> QED
    BY <2>4, <2>5 DEF r
<1>7. CASE Len(F) > 0 /\ \A k \in 1 .. Len(F) : F[k] \notin Ends
  <2>1. r \notin {<<>>, <<"slash">>}
    BY <1>1, <1>3, <1>7
  <2>2. \A k \in 1 .. Len(r) : r[k] \notin Ends
    <3>1. \A k \in 1 .. Len(r) : k \in 1 .. Len(F) \/ k = Len(F) + 1
      BY <1>1
    <3>2. \A k \in 1 .. Len(r) : k = Len(F) + 1 => r[k] = "slash"
      BY <1>1
    <3> QED
      BY <1>1, <1>5, <1>7, <3>1, <3>2
  <2>3. path(text) = r
    BY <2>2, WholePath DEF r
  <2>4. \A k \in 1 .. Len(W) : W[k] \notin Ends
    <3>1. \A k \in 1 .. Len(W) : k \in 1 .. Len(F) \/ k - Len(F) \in 1 .. 4
      <4>1. Len(W) = Len(F) + 4 /\ Len(F) \in Nat
        BY <1>1
      <4> QED
        BY <4>1
    <3>2. \A k \in 1 .. Len(W) : k - Len(F) \in 1 .. 4
                => W[Len(F) + (k - Len(F))] \notin Ends /\ Len(F) + (k - Len(F)) = k
      BY <1>1, <1>2
    <3> QED
      BY <1>1, <1>7, <3>1, <3>2
  <2>5. Len(Q) > 4 /\ \A k \in 1 .. Len(Q) : Q[k] \notin Ends
    <3>1. CASE kept \/ W[1] = "slash"
      BY <1>1, <1>7, <2>4, <3>1
    <3>2. CASE ~kept /\ W[1] # "slash"
      <4>1. /\ Len(Q) = Len(W) + 1 /\ Q[1] = "slash"
            /\ \A k \in 1 .. Len(W) : Q[k + 1] = W[k]
        BY <1>1, <3>2, SlashBefore
      <4>2. \A k \in 1 .. Len(Q) :
                k = 1 \/ (k - 1 \in 1 .. Len(W) /\ (k - 1) + 1 = k)
        BY <1>1, <4>1
      <4> QED
        BY <1>1, <1>5, <1>7, <2>4, <4>1, <4>2
    <3> QED
      BY <3>1, <3>2
  <2>6. path(parse(well_known(text))) = Q
    BY <2>5, WholePath DEF Q
  <2>7. Q # DiscoveryRoute
    BY <1>2, <2>5
  <2> QED
    BY <2>1, <2>3, <2>6, <2>7 DEF r
<1>8. CASE Len(F) > 0 /\ \E k \in 1 .. Len(F) : F[k] \in Ends
  <2>1. PICK m \in 1 .. Len(F) :
            F[m] \in Ends /\ \A k \in 1 .. m - 1 : F[k] \notin Ends
    <3> DEFINE I == {k \in 1 .. Len(F) : F[k] \in Ends}
    <3>1. I \subseteq Nat /\ I # {}
      <4>1. Len(F) \in Nat
        BY <1>1
      <4>2. I \subseteq Nat
        BY <4>1
      <4> QED
        BY <1>8, <4>2
    <3>2. PICK m \in I : \A k \in I : m <= k
      BY <3>1, Least
    <3>3. \A k \in 1 .. m - 1 : k \in 1 .. Len(F) /\ ~(m <= k)
      BY <1>1, <3>2
    <3> QED
      BY <3>2, <3>3
  <2>2. /\ m \in 1 .. Len(r) /\ m \in 1 .. Len(W) /\ m \in Nat
        /\ \A k \in 1 .. m : k \in 1 .. Len(F) /\ k \in 1 .. Len(r)
                             /\ k \in 1 .. Len(W)
        /\ \A k \in 1 .. m - 1 : k \in 1 .. m
        /\ m \in 1 .. m /\ 1 \in 1 .. m /\ 1 \in 1 .. Len(F)
    <3>1. /\ Len(W) = Len(F) + 4 /\ Len(F) \in Nat
          /\ Len(r) = Len(F) \/ Len(r) = Len(F) + 1
      BY <1>1
    <3> QED
      BY <3>1
  <2>3. /\ \A k \in 1 .. m : r[k] = F[k] /\ W[k] = F[k]
        /\ r[m] \in Ends /\ \A k \in 1 .. m - 1 : r[k] \notin Ends
    BY <1>1, <2>1, <2>2
  <2>4. path(text) # r
    <3>1. m <= Len(r)
      BY <2>2
    <3> QED
      BY <1>1, <2>2, <2>3, <3>1, SamePath DEF r
  <2>5. r \notin {<<>>, <<"slash">>}
    BY <1>1, <1>3, <1>8
  <2>6. path(parse(text)) = path(parse(well_known(text)))
    <3> DEFINE R == parse(text).rest
    <3>1. CASE kept \/ F[1] = "slash"
      <4>1. R = r /\ Q = W
        BY <1>1, <1>4, <2>2, <2>3, <2>5, <3>1
      <4> HIDE DEF R
      <4>2. /\ R \in Seq(UrlTokens) /\ Q \in Seq(UrlTokens)
            /\ m \in 1 .. Len(R) /\ m <= Len(Q)
            /\ \A k \in 1 .. m : R[k] = Q[k]
            /\ R[m] \in Ends /\ \A k \in 1 .. m - 1 : R[k] \notin Ends
        BY <1>1, <2>2, <2>3, <4>1
      <4> QED
        BY <4>2, SamePath DEF R, Q
    <3>2. CASE ~kept /\ F[1] # "slash"
      <4>1. R = <<"slash">> \o r /\ Q = <<"slash">> \o W
        BY <1>1, <1>4, <2>2, <2>3, <2>5, <3>2
      <4> HIDE DEF R
      <4>2. /\ R \in Seq(UrlTokens) /\ Len(R) = Len(r) + 1 /\ R[1] = "slash"
            /\ \A k \in 1 .. Len(r) : R[k + 1] = r[k]
        BY <1>1, <4>1, SlashBefore
      <4>3. /\ Q \in Seq(UrlTokens) /\ Len(Q) = Len(W) + 1 /\ Q[1] = "slash"
            /\ \A k \in 1 .. Len(W) : Q[k + 1] = W[k]
        BY <1>1, <4>1, SlashBefore
      <4> DEFINE p == m + 1
      <4>4. /\ p \in 1 .. Len(R) /\ p <= Len(Q)
            /\ \A k \in 1 .. p : k = 1 \/ (k - 1 \in 1 .. m /\ (k - 1) + 1 = k)
            /\ \A k \in 1 .. p - 1 :
                   k = 1 \/ (k - 1 \in 1 .. m - 1 /\ (k - 1) + 1 = k)
        <5>1. /\ m \in Nat /\ 1 <= m /\ m <= Len(r) /\ m <= Len(W)
              /\ Len(R) = Len(r) + 1 /\ Len(Q) = Len(W) + 1
              /\ Len(r) \in Nat /\ Len(W) \in Nat
          BY <1>1, <2>2, <4>2, <4>3
        <5>2. p \in 1 .. Len(R) /\ p <= Len(Q)
          BY ONLY <5>1
        <5>3. \A k \in 1 .. p : k = 1 \/ (k - 1 \in 1 .. m /\ (k - 1) + 1 = k)
          BY ONLY <5>1
        <5>4. \A k \in 1 .. p - 1 :
                  k = 1 \/ (k - 1 \in 1 .. m - 1 /\ (k - 1) + 1 = k)
          BY ONLY <5>1
        <5> QED
          BY ONLY <5>2, <5>3, <5>4
      <4>5. R[p] = r[m]
        BY <2>2, <4>2
      <4> HIDE DEF p
      <4>6. ASSUME NEW k \in 1 .. p PROVE R[k] = Q[k]
        <5>1. CASE k = 1
          BY <4>2, <4>3, <5>1
        <5>2. CASE k # 1
          <6> DEFINE j == k - 1
          <6>1. j \in 1 .. m /\ j + 1 = k
            BY <4>4, <5>2
          <6> HIDE DEF j
          <6>2. R[j + 1] = r[j] /\ Q[j + 1] = W[j]
            BY <2>2, <4>2, <4>3, <6>1
          <6> QED
            BY <2>3, <6>1, <6>2
        <5> QED
          BY <5>1, <5>2
      <4>7. ASSUME NEW k \in 1 .. p - 1 PROVE R[k] \notin Ends
        <5>1. CASE k = 1
          BY <1>5, <4>2, <5>1
        <5>2. CASE k # 1
          <6> DEFINE j == k - 1
          <6>1. j \in 1 .. m - 1 /\ j + 1 = k
            BY <4>4, <5>2
          <6> HIDE DEF j
          <6>2. R[j + 1] = r[j]
            BY <2>2, <4>2, <6>1
          <6> QED
            BY <2>3, <6>1, <6>2
        <5> QED
          BY <5>1, <5>2
      <4> QED
        BY <2>3, <4>2, <4>3, <4>4, <4>5, <4>6, <4>7, SamePath DEF R, Q
    <3> QED
      BY <3>1, <3>2
  <2> QED
    BY <2>4, <2>5, <2>6 DEF r
<1> QED
  BY <1>1, <1>6, <1>7, <1>8

\* The endpoints are the paths of OIDCEndpointPaths on the issuer's origin.
LEMMA Endpoints ==
    ASSUME NEW text, Accepted(text)
    PROVE  LET endpoints == discovery_info(parse(text)).endpoints
           IN /\ DOMAIN endpoints = DOMAIN OIDCEndpointPaths
              /\ \A e \in DOMAIN OIDCEndpointPaths :
                     endpoints[e] = [origin |-> normal[text.origin],
                                     rest   |-> OIDCEndpointPaths[e]]
<1> DEFINE url == parse(text)
           canonical == canonicalize_issuer(url)
           o == normal[text.origin]
<1>1. url.origin = o /\ o # None
  BY DocumentIssuer
<1>2. canonical.origin = o
  <2>1. url = [origin |-> url.origin, rest |-> url.rest]
    BY DocumentIssuer DEF parse
  <2> HIDE DEF url, o
  <2> QED
    BY <1>1, <2>1 DEF canonicalize_issuer
<1>3. parse(canonical).origin = o
  <2>1. normal[o] = o
    BY <1>1, DeploymentAssumption DEF Accepted, IssuerTexts
  <2> HIDE DEF canonical, o
  <2> QED
    BY <1>1, <1>2, <2>1 DEF parse
<1>4. discovery_info(url).endpoints =
          [e \in DOMAIN OIDCEndpointPaths |->
              join(parse(canonical), OIDCEndpointPaths[e])]
  BY DEF Accepted, discovery_info
<1>5. \A e \in DOMAIN OIDCEndpointPaths : Head(OIDCEndpointPaths[e]) = "slash"
  BY DEF OIDCEndpointPaths
<1> HIDE DEF url, canonical, o
<1>6. ASSUME NEW e \in DOMAIN OIDCEndpointPaths
      PROVE  join(parse(canonical), OIDCEndpointPaths[e]) =
                 [origin |-> o, rest |-> OIDCEndpointPaths[e]]
  BY <1>3, <1>5 DEF join
<1> QED
  BY <1>4, <1>6 DEF url, o

\* What a serving process advertises is served, at the issuer's origin and
\* each endpoint at a path of its own; and exactly the issuers without a path
\* (or that are the document's URL with a query or fragment) lead to the
\* document: for every issuer text main accepts.
THEOREM EndpointsAreServed == Spec => []EndpointsServed
<1>1. DeploymentInv => EndpointsServed
  <2> SUFFICES ASSUME DeploymentInv, NEW s \in Serving
               PROVE  LET text == app[s].config.issuer
                          doc  == app[s].discovery
                      IN /\ \A e \in DOMAIN doc.endpoints :
                                /\ doc.endpoints[e].origin = normal[text.origin]
                                /\ doc.endpoints[e].rest \in Routes
                                /\ \A f \in DOMAIN doc.endpoints :
                                       doc.endpoints[e] = doc.endpoints[f] => e = f
                         /\ path(parse(well_known(text))) = DiscoveryRoute
                                <=> \/ text.rest \in {<<>>, <<"slash">>}
                                    \/ /\ path(text) # text.rest
                                       /\ path(parse(text)) = DiscoveryRoute
    BY DEF EndpointsServed
  <2> DEFINE text == app[s].config.issuer
             endpoints == app[s].discovery.endpoints
  <2>1. Accepted(text) /\ app[s].discovery = discovery_info(parse(text))
    BY DEF DeploymentInv, Reached, Built, Serving
  <2>2. path(parse(well_known(text))) = DiscoveryRoute
            <=> \/ text.rest \in {<<>>, <<"slash">>}
                \/ /\ path(text) # text.rest
                   /\ path(parse(text)) = DiscoveryRoute
    <3> HIDE DEF text
    <3> QED
      BY <2>1, WellKnownFound
  <2>3. /\ DOMAIN endpoints = DOMAIN OIDCEndpointPaths
        /\ \A e \in DOMAIN OIDCEndpointPaths :
               endpoints[e] = [origin |-> normal[text.origin],
                               rest   |-> OIDCEndpointPaths[e]]
    <3> HIDE DEF text
    <3> QED
      BY <2>1, Endpoints
  <2>4. \A e \in DOMAIN OIDCEndpointPaths :
            /\ OIDCEndpointPaths[e] \in Routes
            /\ \A f \in DOMAIN OIDCEndpointPaths :
                   OIDCEndpointPaths[e] = OIDCEndpointPaths[f] => e = f
    BY DEF OIDCEndpointPaths, Routes
  <2> HIDE DEF text, endpoints
  <2>5. \A e \in DOMAIN endpoints :
            /\ endpoints[e].origin = normal[text.origin]
            /\ endpoints[e].rest \in Routes
            /\ \A f \in DOMAIN endpoints : endpoints[e] = endpoints[f] => e = f
    BY <2>3, <2>4
  <2> QED
    BY <2>2, <2>5 DEF text, endpoints
<1> QED
  BY <1>1, Invariance, PTL

=============================================================================
