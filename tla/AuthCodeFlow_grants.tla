------------------------ MODULE AuthCodeFlow_grants -------------------------
(***************************************************************************)
(* Theorems about what the token endpoint grants and what /userinfo says   *)
(* of it, for all constants.  They rest on one fact per stage of a token   *)
(* request: what the checks established, and what the tokens say.          *)
(***************************************************************************)
EXTENDS AuthCodeFlow_proofs, SequenceLemmas

-----------------------------------------------------------------------------
(* Where a grant comes from *)

\* What VerifyCode established under cfg, and nothing later may disturb.
Justified(x, cfg) ==
    /\ x.code.signed \in codes
    /\ x.auth_code = x.code.signed.content
    /\ client_id(x.params) = x.auth_code.client_id
    /\ x.code.signed.mac = cfg.hmac_key
    /\ fresh(x.code.signed.timestamp, cfg.code_max_age, x.verified_at)
    /\ validate_redirect_uri(cfg.clients, x.auth_code.client_id,
                             x.auth_code.redirect_uri)
    /\ validate_client_secret(cfg.clients, x.auth_code.client_id,
                              client_secret(x.params))
    /\ x.auth_code.code_challenge # None =>
          /\ x.params.code_verifier # None
          /\ verify_pkce(x.auth_code.code_challenge_method,
                         x.auth_code.code_challenge, x.params.code_verifier)

IdTokenSays(x) ==
    /\ x.id_token.sub = x.auth_code.subject
    /\ x.id_token.aud = client_id(x.params)
    /\ x.id_token.nonce = x.auth_code.nonce
    /\ x.id_token.groups = x.auth_code.groups

AccessTokenSays(x, cfg) ==
    /\ x.access_token.sub = x.auth_code.subject
    /\ x.access_token.client_id = client_id(x.params)
    /\ x.access_token.groups = x.auth_code.groups
    /\ x.access_token.scope = x.auth_code.scope
    /\ x.access_token.key = cfg.jwt.key

\* The codes clients present are codes they were handed, or broken ones.
Presentable(text) ==
    text.signed \in codes \/ text.signed = None \/ text.signed.mac = None

Sourced(w) ==
    /\ pc[w] = "token" => Presentable(task[w].code)
    /\ pc[w] \in Exchanging => Justified(task[w], config[Home[w]])
    /\ pc[w] \in {"sign_access"} \cup Signed => IdTokenSays(task[w])
    /\ pc[w] \in Signed => AccessTokenSays(task[w], config[Home[w]])

GrantSourced(g) ==
    /\ Justified(g.exchange, g.config)
    /\ IdTokenSays(g.exchange)
    /\ AccessTokenSays(g.exchange, g.config)
    /\ g.epoch = epoch[g.server] => g.config = config[g.server]

Provenance ==
    /\ \A w \in Workers : Sourced(w)
    /\ \A g \in granted : GrantSourced(g)

\* Codes are never taken back, so that what was justified stays so.
LEMMA StaysSourced ==
    ASSUME Provenance, codes \subseteq codes'
    PROVE  /\ \A v \in Workers :
                 (/\ pc'[v] = pc[v] /\ task'[v] = task[v]
                  /\ config'[Home[v]] = config[Home[v]]) => Sourced(v)'
           /\ \A g \in granted :
                 (g.epoch = epoch'[g.server] =>
                     /\ epoch'[g.server] = epoch[g.server]
                     /\ config'[g.server] = config[g.server])
                 => GrantSourced(g)'
<1>1. ASSUME NEW v \in Workers, pc'[v] = pc[v], task'[v] = task[v],
             config'[Home[v]] = config[Home[v]]
      PROVE  Sourced(v)'
  <2>1. Sourced(v)
    BY DEF Provenance
  <2> QED
    BY <1>1, <2>1 DEF Sourced, Presentable, Justified, IdTokenSays, AccessTokenSays
<1>2. ASSUME NEW g \in granted,
             g.epoch = epoch'[g.server] =>
                     /\ epoch'[g.server] = epoch[g.server]
                     /\ config'[g.server] = config[g.server]
      PROVE  GrantSourced(g)'
  <2>1. GrantSourced(g)
    BY DEF Provenance
  <2> QED
    BY <1>2, <2>1 DEF GrantSourced, Justified, IdTokenSays, AccessTokenSays
<1> QED
  BY <1>1, <1>2

\* A step of one worker that grants nothing has to show that worker sourced.
LEMMA WorkerStepKeeps ==
    ASSUME TypeOK, Provenance, NEW w \in Workers, NEW to \in PCs, NEW x,
           Goto(w, to, x), codes \subseteq codes',
           UNCHANGED <<process, granted>>, Sourced(w)'
    PROVE  Provenance'
<1>1. \A v \in Workers \ {w} : pc'[v] = pc[v] /\ task'[v] = task[v]
  BY GotoMoves
<1> QED
  BY <1>1, StaysSourced DEF Provenance, process

\* A step that only answers keeps Provenance.
LEMMA RespondKeeps ==
    ASSUME TypeOK, Provenance, NEW w \in Workers, NEW r, Respond(w, r),
           codes \subseteq codes', UNCHANGED <<process, granted>>
    PROVE  Provenance'
<1>1. Goto(w, "idle", None) /\ "idle" \in PCs
  BY DEF Respond, PCs
<1>2. Sourced(w)'
  BY RespondMoves DEF Sourced, Exchanging, Issuing, Signed
<1> QED
  BY <1>1, <1>2, WorkerStepKeeps

\* So does the arrival of a request.
LEMMA ReceiveKeeps ==
    ASSUME TypeOK, Provenance, NEW w \in Workers, NEW at \in PCs \ Exchanging,
           NEW x, Receive(w, at, x), at = "token" => Presentable(x.code)
    PROVE  Provenance'
<1>1. Goto(w, at, x) /\ UNCHANGED <<process, granted, codes>>
  BY DEF Receive, process, world
<1>2. pc'[w] = at /\ task'[w] = x
  BY <1>1, GotoMoves
<1>3. Sourced(w)'
  BY <1>1, <1>2 DEF Sourced, Presentable, Exchanging, Issuing, Signed
<1> QED
  BY <1>1, <1>3, WorkerStepKeeps

\* The checks of token_handler and access_token_request justify the exchange.
LEMMA VerifyKeeps ==
    ASSUME TypeOK, Provenance, NEW w \in Workers, VerifyCode(w)
    PROVE  Provenance'
<1> DEFINE cfg == config[Home[w]]
           t == task[w].params
           text == task[w].code
           now == clock[Home[w]]
           code == decode_and_verify(text, cfg.hmac_key, cfg.code_max_age, now)
           x == [params |-> t, code |-> text, auth_code |-> code,
                 verified_at |-> now, id_token |-> None, access_token |-> None]
<1>1. UNCHANGED <<process, granted, codes>>
  BY DEF VerifyCode, process, world
<1>2. CASE token_error(cfg, t, text, now) # None
  <2>1. \E r : Respond(w, r)
    BY <1>2 DEF VerifyCode
  <2> QED
    BY <1>1, <2>1, RespondKeeps
<1>3. CASE token_error(cfg, t, text, now) = None
  <2>1. Goto(w, "consume", x) /\ "consume" \in PCs
    BY <1>3 DEF VerifyCode, PCs, Exchanging, Issuing, Signed
  <2>2. pc'[w] = "consume" /\ task'[w] = x
    BY <2>1, GotoMoves
  <2>3. /\ code # None
        /\ validate_token_request(code, client_id(t), t.redirect_uri,
                                  t.code_verifier)
        /\ validate_redirect_uri(cfg.clients, client_id(t), t.redirect_uri)
        /\ validate_client_secret(cfg.clients, client_id(t), client_secret(t))
    BY <1>3, FlowAssumption DEF token_error, ErrorCodes
  <2>4. /\ text.signed # None
        /\ text.signed.mac = cfg.hmac_key
        /\ fresh(text.signed.timestamp, cfg.code_max_age, now)
        /\ code = text.signed.content
    BY <2>3 DEF decode_and_verify
  <2>5. cfg.hmac_key # None
    BY FlowAssumption DEF TypeOK, StartConfigs
  <2>6. text.signed \in codes
    BY <2>4, <2>5 DEF VerifyCode, Provenance, Sourced, Presentable
  <2>7. /\ code.client_id = client_id(t) /\ code.redirect_uri = t.redirect_uri
        /\ code.code_challenge # None =>
              /\ t.code_verifier # None
              /\ verify_pkce(code.code_challenge_method, code.code_challenge,
                             t.code_verifier)
    BY <2>3 DEF validate_token_request
  <2>8. Justified(x, cfg)
    <3> HIDE DEF cfg, t, text, now, code
    <3> QED
      BY <2>3, <2>4, <2>6, <2>7 DEF Justified
  <2>9. Sourced(w)'
    BY <1>1, <2>2, <2>8 DEF Sourced, Signed, Justified, process
  <2> QED
    BY <1>1, <2>1, <2>9, WorkerStepKeeps
<1> QED
  BY <1>2, <1>3

\* Each token says what the code says when it is signed.
LEMMA SignIdKeeps ==
    ASSUME TypeOK, Provenance, NEW w \in Workers, SignIdToken(w)
    PROVE  Provenance'
<1> DEFINE token == issue_id_token(config[Home[w]].jwt, task[w].auth_code.subject,
                        client_id(task[w].params), task[w].auth_code.groups,
                        task[w].auth_code.nonce, config[Home[w]].id_token_ttl,
                        clock[Home[w]])
           x == [task[w] EXCEPT !.id_token = token]
<1>1. /\ Goto(w, "sign_access", x) /\ "sign_access" \in PCs
      /\ UNCHANGED <<process, granted, codes>>
  BY DEF SignIdToken, process, world, PCs, Exchanging, Issuing, Signed
<1>2. task[w] \in Exchanges /\ Justified(task[w], config[Home[w]])
  BY DEF TypeOK, TaskTypeOK, SignIdToken, Exchanging, Issuing, Signed,
         Provenance, Sourced
<1>3. Justified(x, config[Home[w]])
  BY <1>2 DEF Exchanges, Justified
<1>4. IdTokenSays(x)
  BY <1>2 DEF Exchanges, IdTokenSays, issue_id_token
<1>5. pc'[w] = "sign_access" /\ task'[w] = x
  BY <1>1, GotoMoves
<1>6. Sourced(w)'
  <2> HIDE DEF x
  <2> QED
    BY <1>1, <1>3, <1>4, <1>5 DEF Sourced, Signed, Justified, IdTokenSays, process
<1> QED
  BY <1>1, <1>6, WorkerStepKeeps

\* The access token likewise.
LEMMA SignAccessKeeps ==
    ASSUME TypeOK, Provenance, NEW w \in Workers, SignAccessToken(w)
    PROVE  Provenance'
<1> DEFINE cfg == config[Home[w]]
           token(jti) == issue_access_token(cfg.jwt, task[w].auth_code.subject,
                             client_id(task[w].params), task[w].auth_code.groups,
                             task[w].auth_code.scope, jti,
                             cfg.access_token_ttl, clock[Home[w]])
           x(jti) == [task[w] EXCEPT !.access_token = token(jti)]
<1>1. PICK jti \in random_jti : Goto(w, "record", x(jti))
  BY DEF SignAccessToken
<1>2. UNCHANGED <<process, granted, codes>> /\ "record" \in PCs
  BY DEF SignAccessToken, process, world, PCs, Exchanging, Issuing, Signed
<1>3. /\ task[w] \in Exchanges
      /\ Justified(task[w], cfg) /\ IdTokenSays(task[w])
  BY DEF TypeOK, TaskTypeOK, SignAccessToken, Exchanging, Issuing, Signed,
         Provenance, Sourced
<1>4. Justified(x(jti), cfg)
  BY <1>3 DEF Exchanges, Justified
<1>5. IdTokenSays(x(jti)) /\ AccessTokenSays(x(jti), cfg)
  BY <1>3 DEF Exchanges, IdTokenSays, AccessTokenSays, issue_access_token
<1>6. pc'[w] = "record" /\ task'[w] = x(jti)
  BY <1>1, <1>2, GotoMoves
<1>7. Sourced(w)'
  <2> HIDE DEF x
  <2> QED
    BY <1>2, <1>4, <1>5, <1>6
    DEF Sourced, Justified, IdTokenSays, AccessTokenSays, process
<1> QED
  BY <1>1, <1>2, <1>7, WorkerStepKeeps

\* A grant is what its worker held, under the configuration that is running.
LEMMA SendKeepsProvenance ==
    ASSUME TypeOK, Provenance, NEW w \in Workers, SendTokens(w)
    PROVE  Provenance'
<1> PICK n : n = [server |-> Home[w], epoch |-> epoch[Home[w]],
                  config |-> config[Home[w]], exchange |-> task[w]]
  OBVIOUS
<1>1. /\ granted' = granted \cup {n}
      /\ UNCHANGED <<process, codes>>
      /\ \E r : Respond(w, r)
  BY DEF SendTokens
<1>2. GrantSourced(n)'
  <2>1. /\ Justified(n.exchange, n.config)
        /\ IdTokenSays(n.exchange)
        /\ AccessTokenSays(n.exchange, n.config)
        /\ n.config = config[n.server]
    BY DEF SendTokens, Provenance, Sourced, Exchanging, Issuing, Signed
  <2> QED
    BY <1>1, <2>1 DEF GrantSourced, Justified, IdTokenSays, AccessTokenSays, process
<1>3. /\ pc'[w] = "idle"
      /\ \A v \in Workers \ {w} : pc'[v] = pc[v] /\ task'[v] = task[v]
  BY <1>1, RespondMoves
<1>4. \A v \in Workers : Sourced(v)'
  <2>1. Sourced(w)'
    BY <1>3 DEF Sourced, Exchanging, Issuing, Signed
  <2> QED
    BY <1>1, <1>3, <2>1, StaysSourced DEF process
<1>5. \A g \in granted : GrantSourced(g)'
  BY <1>1, StaysSourced DEF process
<1> QED
  BY <1>1, <1>2, <1>4, <1>5 DEF Provenance

\* A restart ends the requests it would otherwise leave under another
\* configuration, and the grants made so far belong to an earlier life.
LEMMA RestartKeepsProvenance ==
    ASSUME TypeOK, OneRedeemer, Provenance, NEW s \in Servers, Restart(s)
    PROVE  Provenance'
<1>1. UNCHANGED <<codes, granted>>
  BY DEF Restart, world
<1>2. \A r \in Servers \ {s} : epoch'[r] = epoch[r] /\ config'[r] = config[r]
  BY DEF Restart, TypeOK
<1>3. \A g \in granted : g.server \in Servers /\ (g.server = s => g.epoch # epoch'[s])
  <2>1. epoch[s] \in Nat /\ epoch'[s] = epoch[s] + 1
    BY FlowAssumption DEF Restart, TypeOK, Epochs
  <2>2. \A g \in granted : /\ g.server \in Servers /\ g.epoch \in Nat
                           /\ g.epoch =< epoch[g.server]
    BY FlowAssumption DEF TypeOK, Grants, Epochs, OneRedeemer
  <2> QED
    BY <2>1, <2>2
<1>4. \A g \in granted : GrantSourced(g)'
  BY <1>1, <1>2, <1>3, StaysSourced
<1>5. \A v \in Workers : Sourced(v)'
  <2> SUFFICES ASSUME NEW v \in Workers PROVE Sourced(v)'
    OBVIOUS
  <2>1. CASE Home[v] = s
    BY <2>1 DEF Restart, Sourced, Exchanging, Issuing, Signed
  <2>2. CASE Home[v] # s
    <3>1. pc'[v] = pc[v] /\ task'[v] = task[v] /\ Home[v] \in Servers
      BY <2>2, FlowAssumption DEF Restart
    <3> QED
      BY <1>1, <1>2, <2>2, <3>1, StaysSourced
  <2> QED
    BY <2>1, <2>2
<1> QED
  BY <1>1, <1>4, <1>5 DEF Provenance

\* Every step keeps Provenance.
LEMMA ProvenanceStep ==
    TypeOK /\ OneRedeemer /\ Provenance /\ [Next]_vars => Provenance'
<1> SUFFICES ASSUME TypeOK, OneRedeemer, Provenance, [Next]_vars
             PROVE  Provenance'
  OBVIOUS
<1>1. {"authorize", "token", "userinfo"} \subseteq PCs \ Exchanging
  BY DEF PCs, Exchanging, Issuing, Signed
<1>2. ASSUME NEW w \in Workers, ReceiveAuthorize(w) \/ ReceiveUserinfo(w)
      PROVE  Provenance'
  <2>1. \E at \in {"authorize", "userinfo"} : \E x : Receive(w, at, x)
    BY <1>2 DEF ReceiveAuthorize, ReceiveUserinfo
  <2> QED
    BY <1>1, <2>1, ReceiveKeeps
<1>3. ASSUME NEW w \in Workers, ReceiveToken(w) PROVE Provenance'
  <2>1. PICK t \in TokenRequests, text \in PresentableTexts :
            Receive(w, "token", [params |-> t, code |-> text])
    BY <1>3 DEF ReceiveToken
  <2>2. \A c \in codes : [c EXCEPT !.mac = None].mac = None
    BY DEF TypeOK, SignedCodes
  <2>3. Presentable(text)
    BY <2>2 DEF PresentableTexts, Presentable
  <2> QED
    BY <1>1, <2>1, <2>3, ReceiveKeeps
<1>4. ASSUME NEW w \in Workers, authorize_handler(w) PROVE Provenance'
  <2>1. /\ \E r : Respond(w, r)
        /\ codes \subseteq codes'
        /\ UNCHANGED <<process, granted>>
    BY <1>4 DEF authorize_handler, world
  <2> QED
    BY <2>1, RespondKeeps
<1>5. ASSUME NEW w \in Workers, ConsumeCode(w) PROVE Provenance'
  <2>1. UNCHANGED <<process, granted, codes>>
    BY <1>5 DEF ConsumeCode, world
  <2>2. CASE \E r : Respond(w, r)
    BY <2>1, <2>2, RespondKeeps
  <2>3. CASE Goto(w, "sign_id", task[w])
    <3>1. "sign_id" \in PCs /\ pc[w] = "consume"
      BY <1>5 DEF PCs, Exchanging, Issuing, Signed, ConsumeCode
    <3>2. pc'[w] = "sign_id" /\ task'[w] = task[w]
      BY <2>3, <3>1, GotoMoves
    <3>3. Justified(task[w], config[Home[w]])
      BY <3>1 DEF Provenance, Sourced, Exchanging, Issuing, Signed
    <3>4. Sourced(w)'
      BY <2>1, <3>2, <3>3 DEF Sourced, Signed, Justified, process
    <3> QED
      BY <2>1, <2>3, <3>1, <3>4, WorkerStepKeeps
  <2> QED
    BY <1>5, <2>2, <2>3 DEF ConsumeCode
<1>6. ASSUME NEW w \in Workers, SigningFails(w) \/ RecordPanics(w) \/ LookupToken(w)
      PROVE  Provenance'
  <2>1. (\E r : Respond(w, r)) /\ UNCHANGED <<process, granted, codes>>
    BY <1>6 DEF SigningFails, RecordPanics, LookupToken, world
  <2> QED
    BY <2>1, RespondKeeps
<1>7. ASSUME NEW w \in Workers, VerifyBearer(w) PROVE Provenance'
  <2>1. UNCHANGED <<process, granted, codes>>
    BY <1>7 DEF VerifyBearer, world
  <2>2. CASE \E r : Respond(w, r)
    BY <2>1, <2>2, RespondKeeps
  <2>3. CASE \E x : Goto(w, "lookup", x)
    <3>1. "lookup" \in PCs /\ "lookup" \notin Exchanging
      BY DEF PCs, Exchanging, Issuing, Signed
    <3>2. pc'[w] = "lookup"
      BY <2>3, <3>1, GotoMoves
    <3>3. Sourced(w)'
      BY <3>1, <3>2 DEF Sourced, Signed
    <3> QED
      BY <2>1, <2>3, <3>1, <3>3, WorkerStepKeeps
  <2> QED
    BY <1>7, <2>2, <2>3 DEF VerifyBearer
<1>8. ASSUME NEW w \in Workers, RecordToken(w) PROVE Provenance'
  <2>1. /\ pc[w] = "record" /\ Goto(w, "respond", task[w])
        /\ UNCHANGED <<process, granted, codes>>
    BY <1>8 DEF RecordToken, world
  <2>2. "respond" \in PCs
    BY DEF PCs, Exchanging, Issuing, Signed
  <2>3. pc'[w] = "respond" /\ task'[w] = task[w]
    BY <2>1, <2>2, GotoMoves
  <2>4. /\ Justified(task[w], config[Home[w]])
        /\ IdTokenSays(task[w]) /\ AccessTokenSays(task[w], config[Home[w]])
    BY <2>1 DEF Provenance, Sourced, Exchanging, Issuing, Signed
  <2>5. Sourced(w)'
    BY <2>1, <2>3, <2>4
    DEF Sourced, Justified, IdTokenSays, AccessTokenSays, process
  <2> QED
    BY <2>1, <2>2, <2>5, WorkerStepKeeps
<1>9. ASSUME NEW s \in Servers, SetClock(s) PROVE Provenance'
  BY <1>9, StaysSourced DEF SetClock, process, flow, world, Provenance
<1>10. CASE UNCHANGED vars
  BY <1>10, StaysSourced DEF vars, process, flow, world, Provenance
<1> QED
  BY <1>2, <1>3, <1>4, <1>5, <1>6, <1>7, <1>8, <1>9, <1>10, VerifyKeeps,
     SignIdKeeps, SignAccessKeeps, SendKeepsProvenance, RestartKeepsProvenance
  DEF Next, Serve, Compute, UseRecords

\* Provenance holds in every reachable state.
LEMMA ProvenanceInvariant == Spec => []Provenance
<1>1. Init => Provenance
  BY DEF Init, Provenance, Sourced, Exchanging, Issuing, Signed
<1> QED
  BY <1>1, OneRedeemerInvariant, ProvenanceStep, PTL DEF Spec

\* The tokens of a grant say what a code says that the server handed out, and
\* go to the client the code was issued to, which held its PKCE verifier.
THEOREM GrantsFollow == Spec => []GrantsFollowCode
<1>1. Provenance => GrantsFollowCode
  BY DEF Provenance, GrantSourced, Justified, IdTokenSays, AccessTokenSays,
         GrantsFollowCode
<1> QED
  BY <1>1, ProvenanceInvariant, PTL

\* The configuration that was running decided each grant.
THEOREM RunningConfigDecides == Spec => []GrantsUnderRunningConfig
<1>1. Provenance => GrantsUnderRunningConfig
  BY DEF Provenance, GrantSourced, Justified, AccessTokenSays,
         GrantsUnderRunningConfig
<1> QED
  BY <1>1, ProvenanceInvariant, PTL

\* A text is redeemed twice only by two lives of processes with one HMAC key,
\* and within the maximum age of the code: both verifications come after its
\* timestamp, and each less than the maximum age after it.
THEOREM ReplayBounded == Spec => []ReplayNeedsSharedKey
<1>1. ASSUME TypeOK, RedeemedOncePerProcess, GrantsUnderRunningConfig,
             GrantsFollowCode
      PROVE  ReplayNeedsSharedKey
  <2>1. SUFFICES ASSUME NEW g \in granted, NEW h \in granted, g # h,
                        g.exchange.code = h.exchange.code
                 PROVE  /\ <<g.server, g.epoch>> # <<h.server, h.epoch>>
                        /\ g.config.hmac_key = h.config.hmac_key
                        /\ h.exchange.verified_at - g.exchange.verified_at
                               < h.config.code_max_age
    BY DEF ReplayNeedsSharedKey
  <2>2. <<g.server, g.epoch>> # <<h.server, h.epoch>>
    BY <1>1, <2>1 DEF RedeemedOncePerProcess
  <2>3. g.config.hmac_key = h.config.hmac_key
    BY <1>1, <2>1 DEF GrantsUnderRunningConfig
  <2> DEFINE ts == g.exchange.code.signed.timestamp
  <2>4. /\ g.exchange.verified_at >= ts
        /\ h.exchange.verified_at - ts < h.config.code_max_age
    BY <1>1, <2>1 DEF GrantsUnderRunningConfig, fresh
  <2>5. /\ g.exchange.verified_at \in Nat
        /\ h.exchange.verified_at \in Nat
        /\ h.config.code_max_age \in Nat
    <3>1. \A x \in granted : x \in Grants
      BY <1>1 DEF TypeOK
    <3>2. Time \subseteq Nat
      BY FlowAssumption DEF Time
    <3> QED
      BY <2>1, <3>1, <3>2, FlowAssumption DEF Grants, Exchanges, StartConfigs
  <2>6. ts \in Nat
    <3>1. g.exchange.code.signed \in codes
      BY <1>1, <2>1 DEF GrantsFollowCode
    <3>2. codes \subseteq SignedCodes /\ Time \subseteq Nat
      BY <1>1, FlowAssumption DEF TypeOK, Time
    <3> QED
      BY <3>1, <3>2 DEF SignedCodes
  <2> HIDE DEF ts
  <2>7. h.exchange.verified_at - g.exchange.verified_at < h.config.code_max_age
    BY <2>4, <2>5, <2>6
  <2> QED
    BY <2>2, <2>3, <2>7
<1> QED
  BY <1>1, TypeCorrect, RedeemedOnce, GrantsFollow, RunningConfigDecides, PTL

-----------------------------------------------------------------------------
(* What the store knows *)

Responding(w) == pc[w] = "respond"

\* The store of a process holds the records of the grants of its present life
\* and of the tokens that are about to be sent, and no others.
StoreExact ==
    /\ \A g \in granted : g.epoch = epoch[g.server] =>
          \E now \in Time :
              records[g.server][g.exchange.access_token.jti]
                  = token_record(g.config, g.exchange, now)
    /\ \A w \in Workers : Responding(w) =>
          \E now \in Time :
              records[Home[w]][task[w].access_token.jti]
                  = token_record(config[Home[w]], task[w], now)
    /\ \A s \in Servers, j \in Jtis : records[s][j] # None =>
          \/ \E g \in granted : /\ g.server = s
                                /\ g.epoch = epoch[s]
                                /\ g.exchange.access_token.jti = j
          \/ \E w \in Workers : /\ Home[w] = s
                                /\ Responding(w)
                                /\ task[w].access_token.jti = j

\* Steps that neither record nor send keep the requests that are about to
\* answer, and add none.
StoreQuiet ==
    /\ UNCHANGED <<records, granted, process>>
    /\ \A v \in Workers : Responding(v)' <=> Responding(v)
    /\ \A v \in Workers : Responding(v) => task'[v] = task[v]

LEMMA StoreQuietKeeps == StoreExact /\ StoreQuiet => StoreExact'
BY DEF StoreExact, StoreQuiet, Responding, process

LEMMA StoreQuietSteps ==
    ASSUME TypeOK, NEW w \in Workers,
           \/ ReceiveAuthorize(w) \/ ReceiveToken(w) \/ ReceiveUserinfo(w)
           \/ Serve(w) /\ ~RecordToken(w) /\ ~SendTokens(w)
    PROVE  StoreQuiet
<1>1. UNCHANGED <<records, granted, process>>
  BY DEF ReceiveAuthorize, ReceiveToken, ReceiveUserinfo, Receive, Serve,
         Compute, UseRecords, authorize_handler, VerifyCode, ConsumeCode,
         SigningFails, RecordPanics, SignIdToken, SignAccessToken,
         VerifyBearer, LookupToken, store, world
<1>2. pc[w] # "respond"
  BY DEF ReceiveAuthorize, ReceiveToken, ReceiveUserinfo, Receive, Serve,
         Compute, UseRecords, authorize_handler, VerifyCode, ConsumeCode,
         SigningFails, RecordPanics, SignIdToken, SignAccessToken,
         VerifyBearer, LookupToken
<1>3. \E to \in PCs \ {"respond"} : \E x : Goto(w, to, x)
  <2>1. {"idle", "authorize", "token", "userinfo", "consume", "sign_id",
         "sign_access", "record", "lookup"} \subseteq PCs \ {"respond"}
    BY DEF PCs, Exchanging, Issuing, Signed
  <2>2. \E to \in {"idle", "authorize", "token", "userinfo", "consume",
                   "sign_id", "sign_access", "record", "lookup"} :
            \E x : Goto(w, to, x)
    BY DEF ReceiveAuthorize, ReceiveToken, ReceiveUserinfo, Receive, Serve,
           Compute, UseRecords, authorize_handler, VerifyCode, ConsumeCode,
           SigningFails, RecordPanics, SignIdToken, SignAccessToken,
           VerifyBearer, LookupToken, Respond
  <2> QED
    BY <2>1, <2>2
<1>4. /\ pc'[w] # "respond"
      /\ \A v \in Workers \ {w} : pc'[v] = pc[v] /\ task'[v] = task[v]
  BY <1>3, GotoMoves
<1> QED
  BY <1>1, <1>2, <1>4 DEF StoreQuiet, Responding

\* A new record overwrites none, since its identifier is new.
LEMMA RecordKeepsStore ==
    ASSUME TypeOK, FreshJtis, StoreExact, NEW w \in Workers, RecordToken(w)
    PROVE  StoreExact'
<1> DEFINE s == Home[w]
           jti == task[w].access_token.jti
           record == token_record(config[s], task[w], clock[s])
<1>1. /\ records' = [records EXCEPT ![s][jti] = record]
      /\ Goto(w, "respond", task[w])
      /\ UNCHANGED <<granted, config, epoch>>
  BY DEF RecordToken, process, world
<1>2. /\ s \in Servers /\ clock[s] \in Time /\ jti \in Jtis
      /\ records \in [Servers -> [Jtis -> TokenRecords \cup {None}]]
  BY FlowAssumption, AccessTokenShape DEF TypeOK, TaskTypeOK, RecordToken, Signed
<1>3. /\ records'[s][jti] = record
      /\ \A r \in Servers, j \in Jtis :
            (r # s \/ j # jti) => records'[r][j] = records[r][j]
  BY <1>1, <1>2
<1>4. \A g \in granted : /\ g.server \in Servers
                         /\ g.exchange.access_token.jti \in Jtis
                         /\ g.exchange.access_token.jti # jti
  BY AccessTokenShape
  DEF TypeOK, Grants, FreshJtis, Recording, RecordToken, Signed
<1>5. /\ pc'[w] = "respond" /\ task'[w] = task[w]
      /\ \A v \in Workers \ {w} : pc'[v] = pc[v] /\ task'[v] = task[v]
  <2>1. "respond" \in PCs
    BY DEF PCs, Exchanging, Issuing, Signed
  <2> QED
    BY <1>1, <2>1, GotoMoves
<1>6. \A v \in Workers \ {w} : Responding(v) =>
          /\ Home[v] \in Servers
          /\ task[v].access_token.jti \in Jtis
          /\ task[v].access_token.jti # jti
  BY FlowAssumption, AccessTokenShape
  DEF TypeOK, TaskTypeOK, FreshJtis, Recording, Responding, RecordToken, Signed
<1>7. ASSUME NEW g \in granted', g.epoch = epoch'[g.server]
      PROVE  \E now \in Time : records'[g.server][g.exchange.access_token.jti]
                                   = token_record(g.config, g.exchange, now)
  <2>1. g \in granted /\ g.epoch = epoch[g.server]
    BY <1>1, <1>7
  <2>2. records'[g.server][g.exchange.access_token.jti]
            = records[g.server][g.exchange.access_token.jti]
    BY <1>3, <1>4, <2>1
  <2>3. \E now \in Time : records[g.server][g.exchange.access_token.jti]
                              = token_record(g.config, g.exchange, now)
    BY <2>1 DEF StoreExact
  <2> QED
    BY ONLY <2>2, <2>3
<1>8. ASSUME NEW v \in Workers, Responding(v)'
      PROVE  \E now \in Time : records'[Home[v]][task'[v].access_token.jti]
                                   = token_record(config'[Home[v]], task'[v], now)
  <2>1. CASE v = w
    BY <1>1, <1>2, <1>3, <1>5, <2>1
  <2>2. CASE v # w
    <3>1. Responding(v) /\ task'[v] = task[v]
      BY <1>5, <1>8, <2>2 DEF Responding
    <3>2. records'[Home[v]][task[v].access_token.jti]
              = records[Home[v]][task[v].access_token.jti]
      BY <1>3, <1>6, <2>2, <3>1
    <3>3. \E now \in Time : records[Home[v]][task[v].access_token.jti]
                                = token_record(config[Home[v]], task[v], now)
      BY <3>1 DEF StoreExact
    <3>4. config' = config
      BY <1>1
    <3> QED
      BY ONLY <3>1, <3>2, <3>3, <3>4
  <2> QED
    BY <2>1, <2>2
<1>9. ASSUME NEW r \in Servers, NEW j \in Jtis, records'[r][j] # None
      PROVE  \/ \E g \in granted' : /\ g.server = r
                                    /\ g.epoch = epoch'[r]
                                    /\ g.exchange.access_token.jti = j
             \/ \E v \in Workers : /\ Home[v] = r
                                   /\ Responding(v)'
                                   /\ task'[v].access_token.jti = j
  <2>1. CASE r = s /\ j = jti
    BY <1>5, <2>1 DEF Responding
  <2>2. CASE r # s \/ j # jti
    <3>1. records[r][j] # None
      BY <1>3, <1>9, <2>2
    <3>2. ~Responding(w)
      BY DEF Responding, RecordToken
    <3> HIDE DEF s, jti
    <3> QED
      BY <1>1, <1>5, <3>1, <3>2 DEF StoreExact, Responding
  <2> QED
    BY <2>1, <2>2
<1> QED
  BY <1>7, <1>8, <1>9 DEF StoreExact

\* What is sent has its record.
LEMMA SendKeepsStore ==
    ASSUME TypeOK, StoreExact, NEW w \in Workers, SendTokens(w)
    PROVE  StoreExact'
<1> DEFINE s == Home[w]
<1> PICK n : n = [server |-> s, epoch |-> epoch[s], config |-> config[s],
                  exchange |-> task[w]]
  OBVIOUS
<1>1. /\ granted' = granted \cup {n}
      /\ UNCHANGED <<records, config, epoch>>
      /\ Responding(w)
  BY DEF SendTokens, process, store, Responding
<1>2. /\ pc'[w] = "idle"
      /\ \A v \in Workers \ {w} : pc'[v] = pc[v] /\ task'[v] = task[v]
  BY RespondMoves DEF SendTokens
<1>3. n.server = s /\ n.epoch = epoch[s] /\ n.config = config[s]
      /\ n.exchange = task[w]
  OBVIOUS
<1>4. \A v \in Workers : Responding(v)' => Responding(v) /\ task'[v] = task[v]
  BY <1>2 DEF Responding
<1>5. \A v \in Workers \ {w} : Responding(v) => Responding(v)' /\ task'[v] = task[v]
  BY <1>2 DEF Responding
<1>6. ASSUME NEW g \in granted', g.epoch = epoch'[g.server]
      PROVE  \E now \in Time : records'[g.server][g.exchange.access_token.jti]
                                   = token_record(g.config, g.exchange, now)
  <2>1. CASE g = n
    BY <1>1, <1>3, <2>1 DEF StoreExact
  <2>2. CASE g \in granted
    BY <1>1, <1>6, <2>2 DEF StoreExact
  <2> QED
    BY <1>1, <2>1, <2>2
<1>7. \A v \in Workers : Responding(v)' =>
          \E now \in Time : records'[Home[v]][task'[v].access_token.jti]
                                = token_record(config'[Home[v]], task'[v], now)
  BY <1>1, <1>4 DEF StoreExact
<1>8. ASSUME NEW r \in Servers, NEW j \in Jtis, records'[r][j] # None
      PROVE  \/ \E g \in granted' : /\ g.server = r
                                    /\ g.epoch = epoch'[r]
                                    /\ g.exchange.access_token.jti = j
             \/ \E v \in Workers : /\ Home[v] = r
                                   /\ Responding(v)'
                                   /\ task'[v].access_token.jti = j
  <2>1. CASE r = s /\ task[w].access_token.jti = j
    BY <1>1, <1>3, <2>1
  <2>2. CASE ~(r = s /\ task[w].access_token.jti = j)
    BY <1>1, <1>5, <1>8, <2>2 DEF StoreExact
  <2> QED
    BY <2>1, <2>2
<1> QED
  BY <1>6, <1>7, <1>8 DEF StoreExact

\* A restart forgets the records of the life it ends, and only those.
LEMMA RestartKeepsStore ==
    ASSUME TypeOK, OneRedeemer, StoreExact, NEW s \in Servers, Restart(s)
    PROVE  StoreExact'
<1>1. /\ granted' = granted
      /\ \A j \in Jtis : records'[s][j] = None
      /\ \A r \in Servers \ {s} : /\ epoch'[r] = epoch[r]
                                  /\ config'[r] = config[r]
                                  /\ records'[r] = records[r]
  BY DEF Restart, world, TypeOK
<1>2. \A g \in granted : g.server \in Servers /\ (g.server = s => g.epoch # epoch'[s])
  <2>1. epoch[s] \in Nat /\ epoch'[s] = epoch[s] + 1
    BY FlowAssumption DEF Restart, TypeOK, Epochs
  <2>2. \A g \in granted : /\ g.server \in Servers /\ g.epoch \in Nat
                           /\ g.epoch =< epoch[g.server]
    BY FlowAssumption DEF TypeOK, Grants, Epochs, OneRedeemer
  <2> QED
    BY <2>1, <2>2
<1>3. \A g \in granted : g.epoch = epoch'[g.server] =>
          g.server # s /\ epoch'[g.server] = epoch[g.server]
          /\ records'[g.server] = records[g.server]
  BY <1>1, <1>2
<1>4. \A v \in Workers : Home[v] \in Servers /\ (Home[v] = s => ~Responding(v)')
  BY FlowAssumption DEF Restart, Responding
<1>5. \A v \in Workers : Home[v] # s =>
          (Responding(v)' <=> Responding(v)) /\ task'[v] = task[v]
  BY DEF Restart, Responding
<1>6. \A g \in granted' : g.epoch = epoch'[g.server] =>
          \E now \in Time : records'[g.server][g.exchange.access_token.jti]
                                = token_record(g.config, g.exchange, now)
  BY <1>1, <1>3 DEF StoreExact
<1>7. \A v \in Workers : Responding(v)' =>
          \E now \in Time : records'[Home[v]][task'[v].access_token.jti]
                                = token_record(config'[Home[v]], task'[v], now)
  BY <1>1, <1>4, <1>5 DEF StoreExact
<1>8. ASSUME NEW r \in Servers, NEW j \in Jtis, records'[r][j] # None
      PROVE  \/ \E g \in granted' : /\ g.server = r
                                    /\ g.epoch = epoch'[r]
                                    /\ g.exchange.access_token.jti = j
             \/ \E v \in Workers : /\ Home[v] = r
                                   /\ Responding(v)'
                                   /\ task'[v].access_token.jti = j
  <2>1. r # s /\ records[r][j] # None /\ epoch'[r] = epoch[r]
    BY <1>1, <1>8
  <2> QED
    BY <1>1, <1>5, <2>1 DEF StoreExact
<1> QED
  BY <1>6, <1>7, <1>8 DEF StoreExact

\* Every step keeps StoreExact.
LEMMA StoreExactStep ==
    TypeOK /\ OneRedeemer /\ FreshJtis /\ StoreExact /\ [Next]_vars => StoreExact'
<1> SUFFICES ASSUME TypeOK, OneRedeemer, FreshJtis, StoreExact, [Next]_vars
             PROVE  StoreExact'
  OBVIOUS
<1>1. ASSUME NEW w \in Workers,
             \/ ReceiveAuthorize(w) \/ ReceiveToken(w) \/ ReceiveUserinfo(w)
             \/ Serve(w)
      PROVE  StoreExact'
  BY <1>1, StoreQuietSteps, StoreQuietKeeps, RecordKeepsStore, SendKeepsStore
<1>2. ASSUME NEW s \in Servers, SetClock(s) PROVE StoreQuiet
  BY <1>2 DEF SetClock, StoreQuiet, Responding, store, flow, world
<1>3. CASE UNCHANGED vars
  <2>1. StoreQuiet
    BY <1>3 DEF vars, StoreQuiet, Responding, store, flow, world
  <2> QED
    BY <2>1, StoreQuietKeeps
<1> QED
  BY <1>1, <1>2, <1>3, StoreQuietKeeps, RestartKeepsStore DEF Next

\* StoreExact holds in every reachable state.
LEMMA StoreExactInvariant == Spec => []StoreExact
<1>1. Init => StoreExact
  BY DEF Init, StoreExact, Responding
<1> QED
  BY <1>1, OneRedeemerInvariant, FreshJtisInvariant, StoreExactStep, PTL DEF Spec

\* Every access token a process has returned since it started is in its store
\* with the claims the token carries.
THEOREM TokensKnown == Spec => []ReturnedTokensKnown
<1>1. TypeOK /\ Provenance /\ StoreExact => ReturnedTokensKnown
  <2> SUFFICES ASSUME TypeOK, Provenance, StoreExact,
                      NEW g \in granted, g.epoch = epoch[g.server]
               PROVE  LET token == g.exchange.access_token
                          record == records[g.server][token.jti]
                      IN /\ record # None
                         /\ record.subject = token.sub
                         /\ record.client_id = token.client_id
                         /\ record.groups = token.groups
                         /\ record.scope = token.scope
    BY DEF ReturnedTokensKnown
  <2>1. PICK now \in Time : records[g.server][g.exchange.access_token.jti]
                                = token_record(g.config, g.exchange, now)
    BY DEF StoreExact
  <2>2. token_record(g.config, g.exchange, now) \in TokenRecords
    BY RecordTypes DEF TypeOK, Grants
  <2> QED
    BY <2>1, <2>2, RecordAssumption
    DEF Provenance, GrantSourced, AccessTokenSays, token_record
<1> QED
  BY <1>1, TypeCorrect, ProvenanceInvariant, StoreExactInvariant, PTL

-----------------------------------------------------------------------------
(* What /userinfo answers *)

Returned(token) == \E g \in granted : g.exchange.access_token = token

\* A bearer token that passes verification is an access token that some
\* process has returned.
BearersReturned ==
    \A w \in Workers :
        /\ pc[w] = "userinfo" =>
              \/ task[w].token = None
              \/ task[w].token \in IdTokens
              \/ Returned(task[w].token)
        /\ pc[w] = "lookup" => Returned(task[w].token)

\* What was returned stays returned.
LEMMA BearersStay ==
    ASSUME BearersReturned, granted \subseteq granted',
           \A v \in Workers :
               pc'[v] \in {"userinfo", "lookup"} =>
                   pc'[v] = pc[v] /\ task'[v] = task[v]
    PROVE  BearersReturned'
BY DEF BearersReturned, Returned

\* Every step keeps BearersReturned.
LEMMA BearersStep == TypeOK /\ BearersReturned /\ [Next]_vars => BearersReturned'
<1> SUFFICES ASSUME TypeOK, BearersReturned, [Next]_vars PROVE BearersReturned'
  OBVIOUS
<1>1. ASSUME NEW w \in Workers, NEW to \in PCs \ {"userinfo", "lookup"}, NEW x,
             Goto(w, to, x), granted \subseteq granted'
      PROVE  BearersReturned'
  BY <1>1, GotoMoves, BearersStay
<1>2. {"idle", "authorize", "token"} \cup Exchanging
          \subseteq PCs \ {"userinfo", "lookup"}
  BY DEF PCs, Exchanging, Issuing, Signed
<1>3. ASSUME NEW w \in Workers, ReceiveUserinfo(w) PROVE BearersReturned'
  <2>1. PICK token \in {g.exchange.access_token : g \in granted}
                           \cup {g.exchange.id_token : g \in granted} \cup {None} :
            Receive(w, "userinfo", [token |-> token])
    BY <1>3 DEF ReceiveUserinfo
  <2>2. token = None \/ token \in IdTokens \/ Returned(token)
    BY DEF TypeOK, Returned
  <2>3. /\ Goto(w, "userinfo", [token |-> token]) /\ "userinfo" \in PCs
        /\ granted' = granted
    BY <2>1 DEF Receive, world, PCs
  <2> QED
    BY <2>2, <2>3, GotoMoves DEF BearersReturned, Returned
<1>4. ASSUME NEW w \in Workers, VerifyBearer(w) PROVE BearersReturned'
  <2> DEFINE claims == verify_access_token(config[Home[w]].jwt, task[w].token,
                                           clock[Home[w]])
  <2>1. granted' = granted /\ pc[w] = "userinfo" /\ "lookup" \in PCs
    BY <1>4 DEF VerifyBearer, world, PCs
  <2>2. CASE \E r : Respond(w, r)
    BY <1>1, <1>2, <2>1, <2>2 DEF Respond
  <2>3. CASE claims # None /\ Goto(w, "lookup", [token |-> claims])
    <3>1. claims = task[w].token /\ task[w].token # None
          /\ task[w].token \notin IdTokens
      BY <2>3, AccessTokenShape DEF verify_access_token
    <3>2. Returned(claims)
      BY <2>1, <3>1 DEF BearersReturned
    <3> QED
      BY <2>1, <2>3, <3>2, GotoMoves DEF BearersReturned, Returned
  <2> QED
    BY <1>4, <2>2, <2>3 DEF VerifyBearer
<1>5. ASSUME NEW w \in Workers,
             \/ ReceiveAuthorize(w) \/ ReceiveToken(w)
             \/ Serve(w) /\ ~VerifyBearer(w)
      PROVE  BearersReturned'
  <2>1. granted \subseteq granted'
    BY <1>5 DEF ReceiveAuthorize, ReceiveToken, Receive, Serve,
         Compute, UseRecords, authorize_handler, VerifyCode, ConsumeCode,
         SigningFails, RecordPanics, SignIdToken, SignAccessToken, RecordToken,
         SendTokens, LookupToken, world
  <2>2. \E to \in {"idle", "authorize", "token"} \cup Exchanging : \E x :
            Goto(w, to, x)
    BY <1>5 DEF ReceiveAuthorize, ReceiveToken, Receive, Serve,
         Compute, UseRecords, authorize_handler, VerifyCode, ConsumeCode,
         SigningFails, RecordPanics, SignIdToken, SignAccessToken, RecordToken,
         SendTokens, LookupToken, Respond, Exchanging, Issuing, Signed
  <2> QED
    BY <1>1, <1>2, <2>1, <2>2
<1>6. ASSUME NEW s \in Servers, Restart(s) PROVE BearersReturned'
  BY <1>6, BearersStay DEF Restart, world
<1>7. ASSUME NEW s \in Servers, SetClock(s) PROVE BearersReturned'
  BY <1>7, BearersStay DEF SetClock, flow, world
<1>8. CASE UNCHANGED vars
  BY <1>8, BearersStay DEF vars, flow, world
<1> QED
  BY <1>3, <1>4, <1>5, <1>6, <1>7, <1>8
  DEF Next, Serve, Compute, UseRecords

\* What the store says of a verified token is what the token says, if it was
\* issued here, and nothing otherwise: the record under its jti cannot be that
\* of another token.
LEMMA LookupExact ==
    ASSUME TypeOK, FreshJtis, StoreExact, ReturnedTokensKnown,
           NEW s \in Servers, NEW token \in AccessTokens, Returned(token)
    PROVE  LET record == records[s][token.jti]
           IN IF IssuedHere(s, token)
              THEN /\ record # None
                   /\ record.subject = token.sub
                   /\ record.client_id = token.client_id
                   /\ record.groups = token.groups
                   /\ record.scope = token.scope
              ELSE record = None
<1>1. CASE IssuedHere(s, token)
  BY <1>1 DEF IssuedHere, ReturnedTokensKnown
<1>2. CASE ~IssuedHere(s, token)
  <2> SUFFICES ASSUME records[s][token.jti] # None PROVE FALSE
    BY <1>2
  <2>1. token.jti \in Jtis
    BY AccessTokenShape
  <2>2. PICK h \in granted : h.exchange.access_token = token
    BY DEF Returned
  <2>3. PICK g \in granted : /\ g.server = s /\ g.epoch = epoch[s]
                             /\ g.exchange.access_token.jti = token.jti
    <3>1. ASSUME NEW w \in Workers, Responding(w),
                 task[w].access_token.jti = token.jti
          PROVE  FALSE
      BY <2>2, <3>1 DEF FreshJtis, Recording, Responding, Signed
    <3> QED
      BY <2>1, <3>1 DEF StoreExact
  <2>4. g = h
    BY <2>2, <2>3 DEF FreshJtis
  <2> QED
    BY <1>2, <2>2, <2>3, <2>4 DEF IssuedHere
<1> QED
  BY <1>1, <1>2

\* /userinfo answers for a verified token with its claims, exactly when this
\* process has returned it since it started.
THEOREM UserinfoAnswers == Spec => UserinfoExact
<1> DEFINE Inv == /\ TypeOK /\ Unanswered /\ FreshJtis /\ StoreExact
                  /\ ReturnedTokensKnown /\ BearersReturned
<1>1. ASSUME Inv, [Next]_vars PROVE AnswersExactly
  <2> SUFFICES ASSUME NEW w \in Workers, pc[w] = "lookup", reply'[w] # None
               PROVE  LET token == task[w].token
                      IN reply'[w] = IF IssuedHere(Home[w], token)
                                     THEN [sub |-> token.sub,
                                           groups |-> token.groups,
                                           scope |-> token.scope,
                                           client_id |-> token.client_id]
                                     ELSE Error("invalid_token")
    BY DEF AnswersExactly
  <2> USE <1>1
  <2>1. reply[w] = None /\ pc[w] # "idle"
    BY DEF Unanswered
  <2>2. LookupToken(w)
    <3>1. ASSUME NEW v \in Workers,
                 ReceiveAuthorize(v) \/ ReceiveToken(v) \/ ReceiveUserinfo(v)
          PROVE  FALSE
      BY <2>1, <3>1
      DEF ReceiveAuthorize, ReceiveToken, ReceiveUserinfo, Receive, TypeOK
    <3>2. ASSUME NEW v \in Workers, Serve(v) PROVE v = w
      BY <2>1, <3>2
      DEF Serve, Compute, UseRecords, authorize_handler, VerifyCode, ConsumeCode,
          SigningFails, RecordPanics, SignIdToken, SignAccessToken, RecordToken,
          SendTokens, VerifyBearer, LookupToken, Respond, TypeOK
    <3>3. Serve(w) => LookupToken(w)
      BY DEF Serve, Compute, UseRecords, authorize_handler, VerifyCode,
             ConsumeCode, SigningFails, RecordPanics, SignIdToken,
             SignAccessToken, RecordToken, SendTokens, VerifyBearer
    <3>4. ASSUME NEW s \in Servers, SetClock(s) \/ Restart(s) PROVE FALSE
      BY <2>1, <3>4 DEF SetClock, Restart, flow
    <3>5. ~UNCHANGED vars
      BY <2>1 DEF vars, flow
    <3> QED
      BY <3>1, <3>2, <3>3, <3>4, <3>5 DEF Next
  <2>3. task[w].token \in AccessTokens /\ Returned(task[w].token)
        /\ Home[w] \in Servers
    BY FlowAssumption DEF TypeOK, TaskTypeOK, BearersReturned
  <2> DEFINE record == records[Home[w]][task[w].token.jti]
  <2>4. reply'[w] = IF record = None THEN Error("invalid_token")
                    ELSE [sub |-> record.subject, groups |-> record.groups,
                          scope |-> record.scope, client_id |-> record.client_id]
    BY <2>2 DEF LookupToken, Respond, TypeOK
  <2> QED
    BY <2>3, <2>4, LookupExact
<1>2. Init => Unanswered /\ BearersReturned
  BY DEF Init, Unanswered, BearersReturned
<1>3. Inv /\ [Next]_vars => AnswersExactly
  BY <1>1
<1> QED
  BY <1>2, <1>3, UnansweredStep, BearersStep, TypeCorrect, FreshJtisInvariant,
     StoreExactInvariant, TokensKnown, PTL
  DEF Spec, UserinfoExact

-----------------------------------------------------------------------------
(* The groups of a code                                                    *)

\* The lists after each of N turns of the loop of resolve_groups.
Turns(f, defaults, added, N) ==
    f = [n \in 0 .. N |->
            IF n = 0 THEN defaults
            ELSE IF Contains(f[n - 1], added[n]) THEN f[n - 1]
            ELSE Append(f[n - 1], added[n])]

LEMMA LoopDefined ==
    ASSUME NEW defaults, NEW added, NEW N \in Nat
    PROVE  \E f : Turns(f, defaults, added, N)
<1> DEFINE H(x, n) == IF n = 0 THEN defaults
                      ELSE IF Contains(x, added[n]) THEN x
                      ELSE Append(x, added[n])
           F(m, f) == f = [n \in 0 .. m |-> H(f[n - 1], n)]
           S == {m \in Nat : \E f : F(m, f)}
<1>1. \A x : H(x, 0) = defaults
  OBVIOUS
<1> HIDE DEF H
<1>2. 0 \in S
  <2> DEFINE e == [n \in 0 .. 0 |-> defaults]
  <2>1. e = [n \in 0 .. 0 |-> H(e[n - 1], n)]
    BY <1>1
  <2> HIDE DEF e
  <2> QED
    BY <2>1
<1>3. ASSUME NEW m \in Nat, m \in S PROVE m + 1 \in S
  <2>1. PICK f : F(m, f)
    BY <1>3
  <2>2. \A n \in 0 .. m : f[n] = H(f[n - 1], n)
    BY <2>1
  <2> DEFINE g == [n \in 0 .. m + 1 |-> H(f[n - 1], n)]
  <2>3. \A n \in 0 .. m + 1 : g[n] = H(f[n - 1], n)
    OBVIOUS
  <2> HIDE DEF F
  <2>4. ASSUME NEW n \in 0 .. m + 1 PROVE H(g[n - 1], n) = H(f[n - 1], n)
    <3>1. CASE n = 0
      BY <1>1, <3>1
    <3>2. CASE n # 0
      <4>1. n - 1 \in 0 .. m /\ n - 1 \in 0 .. m + 1
        BY <3>2
      <4>2. g[n - 1] = f[n - 1]
        BY <2>2, <2>3, <4>1
      <4> QED
        BY <4>2
    <3> QED
      BY <3>1, <3>2
  <2>5. g = [n \in 0 .. m + 1 |-> H(g[n - 1], n)]
    BY <2>4
  <2> HIDE DEF g
  <2>6. F(m + 1, g)
    BY <2>5 DEF F
  <2> QED
    BY <2>6
<1>4. N \in S
  <2> HIDE DEF S
  <2>1. Nat \subseteq S
    BY <1>2, <1>3, Induction
  <2> QED
    BY <2>1
<1> QED
  BY <1>4 DEF H, Turns

\* The list keeps the defaults in front, and holds behind them each of the
\* first m additions that is no default once.
Merged(C, list, defaults, added, m) ==
    /\ list \in Seq(C)
    /\ Len(defaults) <= Len(list)
    /\ \A k \in 1 .. Len(defaults) : list[k] = defaults[k]
    /\ \A a \in Len(defaults) + 1 .. Len(list) :
           /\ \A b \in 1 .. a - 1 : list[b] # list[a]
           /\ \E j \in 1 .. m : list[a] = added[j]
    /\ \A j \in 1 .. m : \E a \in 1 .. Len(list) : list[a] = added[j]

\* One turn of the loop.
LEMMA MergeOne ==
    ASSUME NEW C, NEW defaults \in Seq(C), NEW added \in Seq(C),
           NEW m \in 0 .. Len(added) - 1, NEW list,
           Merged(C, list, defaults, added, m)
    PROVE  Merged(C, IF Contains(list, added[m + 1]) THEN list
                  ELSE Append(list, added[m + 1]), defaults, added, m + 1)
<1> DEFINE g == added[m + 1]
           D == Len(defaults)
           L == Len(list)
<1>1. g \in C /\ D \in Nat /\ L \in Nat /\ list \in Seq(C) /\ D <= L
      /\ m \in Nat
  BY DEF Merged
<1>2. \A j \in 1 .. m + 1 : j \in 1 .. m \/ j = m + 1
  BY <1>1
<1>3. \A j \in 1 .. m : j \in 1 .. m + 1
  BY <1>1
<1>4. m + 1 \in 1 .. m + 1
  BY <1>1
<1>5. CASE Contains(list, g)
  <2>1. PICK a \in 1 .. L : list[a] = g
    BY <1>5 DEF Contains
  <2>2. Merged(C, list, defaults, added, m + 1)
    BY <1>2, <1>3, <2>1 DEF Merged
  <2> QED
    BY <1>5, <2>2
<1>6. CASE ~Contains(list, g)
  <2> DEFINE longer == Append(list, g)
  <2>1. \A a \in 1 .. L : list[a] # g
    BY <1>6 DEF Contains
  <2> HIDE DEF g
  <2>2. /\ longer \in Seq(C) /\ Len(longer) = L + 1 /\ longer[L + 1] = g
        /\ \A a \in 1 .. L : longer[a] = list[a]
    BY <1>1, AppendFacts
  <2> HIDE DEF longer
  <2>3. \A k \in 1 .. D : k \in 1 .. L /\ longer[k] = defaults[k]
    BY <1>1, <2>2 DEF Merged
  <2>4. ASSUME NEW a \in D + 1 .. L + 1
        PROVE  /\ \A b \in 1 .. a - 1 : longer[b] # longer[a]
               /\ \E j \in 1 .. m + 1 : longer[a] = added[j]
    <3>1. \A b \in 1 .. a - 1 : b \in 1 .. L
      BY <1>1
    <3>2. CASE a = L + 1
      BY <1>4, <2>1, <2>2, <3>1, <3>2 DEF g
    <3>3. CASE a # L + 1
      <4>1. a \in D + 1 .. L /\ a \in 1 .. L
        BY <1>1, <3>3
      <4>2. /\ \A b \in 1 .. a - 1 : list[b] # list[a]
            /\ \E j \in 1 .. m : list[a] = added[j]
        BY <4>1 DEF Merged
      <4> QED
        BY <1>3, <2>2, <3>1, <4>1, <4>2
    <3> QED
      BY <3>2, <3>3
  <2>5. ASSUME NEW j \in 1 .. m + 1
        PROVE  \E a \in 1 .. L + 1 : longer[a] = added[j]
    <3>1. L + 1 \in 1 .. L + 1 /\ \A a \in 1 .. L : a \in 1 .. L + 1
      BY <1>1
    <3>2. CASE j \in 1 .. m
      <4>1. PICK a \in 1 .. L : list[a] = added[j]
        BY <3>2 DEF Merged
      <4> QED
        BY <2>2, <3>1, <4>1
    <3>3. CASE j = m + 1
      BY <2>2, <3>1, <3>3 DEF g
    <3> QED
      BY <1>2, <3>2, <3>3
  <2>6. D <= L + 1
    BY <1>1
  <2>7. Merged(C, longer, defaults, added, m + 1)
    BY <2>2, <2>3, <2>4, <2>5, <2>6 DEF Merged
  <2> QED
    BY <1>6, <2>7 DEF longer, g
<1> QED
  BY <1>5, <1>6

LEMMA ResolveGroups ==
    ASSUME NEW C, NEW defaults \in Seq(C), NEW added \in Seq(C)
    PROVE  Merged(C, resolve_groups(added, defaults), defaults, added, Len(added))
<1> DEFINE N == Len(added)
           f == CHOOSE f : Turns(f, defaults, added, N)
<1>1. N \in Nat
  OBVIOUS
<1>2. Turns(f, defaults, added, N)
  BY <1>1, LoopDefined
<1>3. resolve_groups(added, defaults) = f[N]
  BY DEF resolve_groups, Turns
<1> HIDE DEF f
<1>4. /\ f[0] = defaults
      /\ \A n \in 1 .. N : f[n] = IF Contains(f[n - 1], added[n]) THEN f[n - 1]
                                   ELSE Append(f[n - 1], added[n])
  <2> DEFINE H(x, n) == IF n = 0 THEN defaults
                        ELSE IF Contains(x, added[n]) THEN x
                        ELSE Append(x, added[n])
  <2>1. f = [n \in 0 .. N |-> H(f[n - 1], n)]
    BY <1>2 DEF Turns
  <2> HIDE DEF H
  <2>2. \A n \in 0 .. N : f[n] = H(f[n - 1], n)
    BY <2>1
  <2>3. 0 \in 0 .. N /\ \A n \in 1 .. N : n \in 0 .. N /\ n # 0
    BY <1>3
  <2> HIDE DEF N
  <2> QED
    BY <2>2, <2>3 DEF H
<1> DEFINE S == {m \in Nat : m <= N => Merged(C, f[m], defaults, added, m)}
<1>5. 0 \in S
  BY <1>4 DEF Merged
<1>6. ASSUME NEW m \in Nat, m \in S PROVE m + 1 \in S
  <2> SUFFICES ASSUME m + 1 <= N PROVE Merged(C, f[m + 1], defaults, added, m + 1)
    OBVIOUS
  <2>1. m \in 0 .. N - 1 /\ m + 1 \in 1 .. N /\ (m + 1) - 1 = m /\ m <= N
    BY <1>3
  <2>2. Merged(C, f[m], defaults, added, m)
    BY <1>6, <2>1
  <2>3. f[m + 1] = IF Contains(f[m], added[m + 1]) THEN f[m]
                   ELSE Append(f[m], added[m + 1])
    <3> DEFINE k == m + 1
    <3>1. k \in 1 .. N /\ k - 1 = m
      BY <2>1
    <3> HIDE DEF k
    <3>2. f[k] = IF Contains(f[m], added[k]) THEN f[m] ELSE Append(f[m], added[k])
      BY <1>4, <3>1
    <3> QED
      BY <3>2 DEF k
  <2> QED
    BY <2>1, <2>2, <2>3, MergeOne
<1>7. N \in S
  <2> HIDE DEF S
  <2>1. Nat \subseteq S
    BY <1>5, <1>6, Induction
  <2> QED
    BY <1>3, <2>1
<1> QED
  BY <1>3, <1>3, <1>7

\* What Merged says, in the words of GroupsExact.
LEMMA MergedFacts ==
    ASSUME NEW C, NEW defaults \in Seq(C), NEW added \in Seq(C), NEW list,
           Merged(C, list, defaults, added, Len(added))
    PROVE  /\ IsPrefix(defaults, list)
           /\ Range(list) = Range(defaults) \cup Range(added)
           /\ IsInjective(defaults) => IsInjective(list)
<1> DEFINE D == Len(defaults)
           L == Len(list)
<1>1. list \in Seq(C) /\ D \in Nat /\ L \in Nat /\ D <= L
      /\ Len(added) \in Nat
  BY DEF Merged
<1>2. IsPrefix(defaults, list)
  <2>1. /\ SubSeq(defaults, 1, D) \in Seq(C)
        /\ Len(SubSeq(defaults, 1, D)) = D
        /\ \A k \in 1 .. D : SubSeq(defaults, 1, D)[k] = defaults[k]
    BY <1>1, SubSeqFacts
  <2>2. /\ SubSeq(list, 1, D) \in Seq(C)
        /\ Len(SubSeq(list, 1, D)) = D
        /\ \A k \in 1 .. D : SubSeq(list, 1, D)[k] = list[k]
    BY <1>1, SubSeqFacts
  <2>3. SubSeq(defaults, 1, D) = SubSeq(list, 1, D)
    <3>1. \A k \in 1 .. D : list[k] = defaults[k]
      BY DEF Merged
    <3> QED
      BY <2>1, <2>2, <3>1, SeqEqual
  <2> QED
    BY <1>1, <2>3 DEF IsPrefix
<1>3. DOMAIN list = 1 .. L /\ DOMAIN added = 1 .. Len(added)
      /\ DOMAIN defaults = 1 .. D
  BY <1>1
<1> HIDE DEF D, L
<1>4. /\ \A a \in 1 .. D : list[a] = defaults[a]
      /\ \A a \in D + 1 .. L : /\ \A b \in 1 .. a - 1 : list[b] # list[a]
                               /\ \E j \in 1 .. Len(added) : list[a] = added[j]
      /\ \A j \in 1 .. Len(added) : \E a \in 1 .. L : list[a] = added[j]
  BY DEF Merged, D, L
<1>5. \A a \in 1 .. L : a \in 1 .. D \/ a \in D + 1 .. L
  BY <1>1
<1>6. \A a \in 1 .. D : a \in 1 .. L
  BY <1>1
<1>7. Range(list) = Range(defaults) \cup Range(added)
  <2>1. ASSUME NEW x \in Range(list)
        PROVE  x \in Range(defaults) \cup Range(added)
    BY <1>3, <1>4, <1>5 DEF Range
  <2>2. ASSUME NEW x \in Range(defaults) PROVE x \in Range(list)
    BY <1>3, <1>4, <1>6 DEF Range
  <2>3. ASSUME NEW x \in Range(added) PROVE x \in Range(list)
    BY <1>3, <1>4 DEF Range
  <2> QED
    BY <2>1, <2>2, <2>3
<1>8. ASSUME IsInjective(defaults), NEW a \in 1 .. L, NEW b \in 1 .. L,
             list[a] = list[b], a # b
      PROVE  FALSE
  <2>1. CASE a \in 1 .. D /\ b \in 1 .. D
    BY <1>3, <1>4, <1>8, <2>1 DEF IsInjective
  <2>2. CASE a \in D + 1 .. L /\ b < a
    <3>1. b \in 1 .. a - 1
      BY <1>1, <2>2
    <3> QED
      BY <1>4, <1>8, <2>2, <3>1
  <2>3. CASE b \in D + 1 .. L /\ a < b
    <3>1. a \in 1 .. b - 1
      BY <1>1, <2>3
    <3> QED
      BY <1>4, <1>8, <2>3, <3>1
  <2>4. \/ a \in 1 .. D /\ b \in 1 .. D
        \/ a \in D + 1 .. L /\ b < a
        \/ b \in D + 1 .. L /\ a < b
    BY <1>1, <1>8
  <2> QED
    BY <2>1, <2>2, <2>3, <2>4
<1> QED
  BY <1>2, <1>3, <1>7, <1>8 DEF IsInjective

\* A client that is found is one of the registry.
LEMMA FoundClient ==
    ASSUME NEW cfg \in Configs, NEW id, find_by_id(cfg.clients, id) # None
    PROVE  find_by_id(cfg.clients, id).groups \in Seq(STRING)
<1> DEFINE clients == cfg.clients
           I == {i \in 1 .. Len(clients) : clients[i].client_id = id}
<1>1. /\ clients \in Seq(Range(clients))
      /\ \A client \in Range(clients) : client.groups \in Seq(STRING)
  BY FlowAssumption
<1>2. I # {} /\ find_by_id(clients, id) = clients[Min(I)]
  <2>1. find_by_id(clients, id) =
            IF (IF I # {} THEN Min(I) ELSE 0) = 0 THEN None
            ELSE clients[IF I # {} THEN Min(I) ELSE 0]
    BY DEF find_by_id, SelectInSeq
  <2> HIDE DEF I
  <2> QED
    BY <2>1
<1>3. Min(I) \in 1 .. Len(clients)
  <2>1. I \subseteq Nat
    OBVIOUS
  <2>2. Min(I) \in I
    BY <1>2, <2>1, MinFacts
  <2> QED
    BY <2>2
<1> HIDE DEF clients, I
<1>4. clients[Min(I)] \in Range(clients)
  BY <1>1, <1>3
<1> QED
  BY <1>1, <1>2, <1>4 DEF clients

\* Every code carries its client's groups and the defaults of the configuration
\* it was issued under: no group is lost or added, and none is repeated unless
\* default_groups repeats it, whatever the lists have in common.
THEOREM GroupsAreExact == Spec => []GroupsExact
<1>1. TypeOK => GroupsExact
  <2> SUFFICES ASSUME TypeOK, NEW c \in codes
               PROVE  \E cfg \in StartConfigs :
                          LET groups == c.content.groups
                              defaults == cfg.default_groups
                              client == find_by_id(cfg.clients,
                                                   c.content.client_id)
                          IN /\ client # None
                             /\ Range(groups)
                                   = Range(defaults) \cup Range(client.groups)
                             /\ IsInjective(defaults) =>
                                    /\ IsInjective(groups)
                                    /\ IsPrefix(defaults, groups)
    BY DEF GroupsExact
  <2>1. c.content \in AuthorizationCodes
    BY DEF TypeOK, SignedCodes
  <2>2. PICK cfg \in StartConfigs, p \in AuthorizeRequests :
            /\ authorize_error(cfg, p) = None
            /\ c.content = authorization_code(cfg, p)
    BY <2>1 DEF AuthorizationCodes
  <2> DEFINE groups == c.content.groups
             defaults == cfg.default_groups
             client == find_by_id(cfg.clients, c.content.client_id)
             added == client.groups
  <2>3. c.content.client_id = p.client_id
        /\ groups = resolve_groups(find_by_id(cfg.clients, p.client_id).groups,
                                   defaults)
    BY <2>2 DEF authorization_code
  <2>4. client # None
    BY <2>2, <2>3, FlowAssumption DEF authorize_error, ErrorCodes
  <2>5. defaults \in Seq(STRING) /\ added \in Seq(STRING)
    BY <2>4, FoundClient, FlowAssumption DEF StartConfigs
  <2>6. groups = resolve_groups(added, defaults)
    BY <2>3
  <2> HIDE DEF groups, defaults, client, added
  <2>7. Merged(STRING, groups, defaults, added, Len(added))
    BY <2>5, <2>6, ResolveGroups
  <2>8. /\ IsPrefix(defaults, groups)
        /\ Range(groups) = Range(defaults) \cup Range(added)
        /\ IsInjective(defaults) => IsInjective(groups)
    BY <2>5, <2>7, MergedFacts
  <2> QED
    BY <2>4, <2>8 DEF groups, defaults, client, added
<1> QED
  BY <1>1, TypeCorrect, PTL

=============================================================================
