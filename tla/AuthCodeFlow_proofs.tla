------------------------ MODULE AuthCodeFlow_proofs -------------------------
(***************************************************************************)
(* Theorems about AuthCodeFlow, for any number of processes, workers,      *)
(* configurations, requests, restarts and clock readings.                  *)
(***************************************************************************)
EXTENDS AuthCodeFlow, TLAPS

-----------------------------------------------------------------------------
(* Types *)

\* What the helpers of the handlers return is of the type the state expects.
LEMMA HelperTypes ==
    /\ \A cfg \in StartConfigs, p \in AuthorizeRequests :
          authorize_error(cfg, p) = None =>
              authorization_code(cfg, p) \in AuthorizationCodes
    /\ \A cfg \in StartConfigs : cfg.hmac_key \in HmacKeys
    /\ \A c \in SignedCodes : [c EXCEPT !.mac = None] \in SignedCodes
    /\ \A text \in Texts : \A key, age, now :
          \/ decode_and_verify(text, key, age, now) = None
          \/ decode_and_verify(text, key, age, now) \in AuthorizationCodes
    /\ \A text \in Texts : code_replay_key(text) \in ReplayKeys
<1>1. \A cfg \in StartConfigs, p \in AuthorizeRequests :
          authorize_error(cfg, p) = None =>
              authorization_code(cfg, p) \in AuthorizationCodes
  <2> SUFFICES ASSUME NEW cfg \in StartConfigs, NEW p \in AuthorizeRequests,
                      authorize_error(cfg, p) = None
               PROVE  authorization_code(cfg, p) \in AuthorizationCodes
    OBVIOUS
  <2>1. <<cfg, p>> \in {cp \in StartConfigs \X AuthorizeRequests :
                           authorize_error(cp[1], cp[2]) = None}
    OBVIOUS
  <2> QED
    BY <2>1 DEF AuthorizationCodes
<1>2. \A cfg \in StartConfigs : cfg.hmac_key \in HmacKeys
  BY DEF HmacKeys, StartConfigs
<1>3. \A c \in SignedCodes : [c EXCEPT !.mac = None] \in SignedCodes
  BY DEF SignedCodes
<1>4. \A text \in Texts : \A key, age, now :
          \/ decode_and_verify(text, key, age, now) = None
          \/ decode_and_verify(text, key, age, now) \in AuthorizationCodes
  BY DEF decode_and_verify, Texts, SignedCodes
<1>5. \A text \in Texts : code_replay_key(text) \in ReplayKeys
  BY DEF code_replay_key, ReplayKeys
<1> QED
  BY <1>1, <1>2, <1>3, <1>4, <1>5


\* A step of one worker moves that worker and no other.
LEMMA GotoMoves ==
    ASSUME TypeOK, NEW w \in Workers, NEW to \in PCs, NEW x, Goto(w, to, x)
    PROVE  /\ pc' \in [Workers -> PCs]
           /\ DOMAIN task' = Workers
           /\ pc'[w] = to /\ task'[w] = x
           /\ \A v \in Workers \ {w} : pc'[v] = pc[v] /\ task'[v] = task[v]
           /\ TaskTypeOK(w)' => \A v \in Workers : TaskTypeOK(v)'
<1>1. pc' = [pc EXCEPT ![w] = to] /\ task' = [task EXCEPT ![w] = x]
  BY DEF Goto
<1>2. pc \in [Workers -> PCs] /\ DOMAIN task = Workers
  BY DEF TypeOK
<1>3. \A v \in Workers \ {w} : pc'[v] = pc[v] /\ task'[v] = task[v]
  BY <1>1, <1>2
<1>4. \A v \in Workers \ {w} : TaskTypeOK(v)'
  BY <1>3 DEF TypeOK, TaskTypeOK
<1> QED
  BY <1>1, <1>2, <1>3, <1>4

\* Answering moves a worker to idle, and no other worker.
LEMMA RespondMoves ==
    ASSUME TypeOK, NEW w \in Workers, NEW r, Respond(w, r)
    PROVE  /\ pc' \in [Workers -> PCs]
           /\ DOMAIN task' = Workers
           /\ DOMAIN reply' = Workers
           /\ pc'[w] = "idle"
           /\ \A v \in Workers \ {w} : pc'[v] = pc[v] /\ task'[v] = task[v]
           /\ \A v \in Workers : TaskTypeOK(v)'
<1>1. "idle" \in PCs /\ Goto(w, "idle", None)
  BY DEF PCs, Respond
<1>2. DOMAIN reply' = Workers
  BY DEF Respond, TypeOK
<1>3. pc'[w] = "idle" => TaskTypeOK(w)'
  BY DEF TaskTypeOK, Exchanging, Issuing, Signed
<1> QED
  BY <1>1, <1>2, <1>3, GotoMoves

\* The tokens an exchange adds are of the types IdTokens and AccessTokens.
LEMMA TokenTypes ==
    ASSUME NEW cfg \in StartConfigs, NEW x \in Exchanges, NEW now \in Time
    PROVE  /\ issue_id_token(cfg.jwt, x.auth_code.subject, client_id(x.params),
                  x.auth_code.groups, x.auth_code.nonce, cfg.id_token_ttl, now)
                  \in IdTokens
           /\ \A jti \in Jtis :
                 issue_access_token(cfg.jwt, x.auth_code.subject,
                     client_id(x.params), x.auth_code.groups,
                     x.auth_code.scope, jti, cfg.access_token_ttl, now)
                     \in AccessTokens
<1>1. x.auth_code \in AuthorizationCodes /\ client_id(x.params) \in ClientIds
  BY DEF Exchanges, ClientIds
<1> QED
  BY <1>1 DEF IdTokens, AccessTokens

\* The two kinds of token are told apart by their type.
LEMMA AccessTokenShape ==
    /\ \A token \in AccessTokens : token.type = "access" /\ token.jti \in Jtis
    /\ \A token \in IdTokens : token.type = "id"
BY DEF AccessTokens, IdTokens, issue_access_token, issue_id_token

\* What TokenStore::issue is given is a record.
LEMMA RecordTypes ==
    ASSUME NEW cfg \in StartConfigs, NEW x \in Exchanges, NEW now \in Time,
           x.access_token \in AccessTokens
    PROVE  token_record(cfg, x, now) \in TokenRecords
<1>1. x.auth_code \in AuthorizationCodes /\ client_id(x.params) \in ClientIds
  BY DEF Exchanges, ClientIds
<1>2. now + cfg.access_token_ttl \in Nat
  BY FlowAssumption DEF StartConfigs, Time
<1>3. x.access_token.jti \in Jtis
  BY AccessTokenShape
<1> QED
  BY <1>1, <1>2, <1>3 DEF token_record, TokenRecords

\* Every step keeps the types.
LEMMA TypeStep == TypeOK /\ [Next]_vars => TypeOK'
<1> SUFFICES ASSUME TypeOK, [Next]_vars PROVE TypeOK'
  OBVIOUS
<1> USE DEF process, store, flow, world
<1>1. ASSUME NEW w \in Workers, ReceiveAuthorize(w) PROVE TypeOK'
  <2>1. PICK p \in AuthorizeRequests : Receive(w, "authorize", p)
    BY <1>1 DEF ReceiveAuthorize
  <2>2. "authorize" \in PCs /\ Goto(w, "authorize", p)
    BY <2>1 DEF Receive, PCs
  <2>3. pc'[w] = "authorize" /\ task'[w] = p => TaskTypeOK(w)'
    BY DEF TaskTypeOK, Exchanging, Issuing, Signed
  <2>4. DOMAIN reply' = Workers
    BY <2>1 DEF Receive, TypeOK
  <2> QED
    BY <2>1, <2>2, <2>3, <2>4, GotoMoves DEF TypeOK, Receive
<1>2. ASSUME NEW w \in Workers, ReceiveToken(w) PROVE TypeOK'
  <2>1. PICK t \in TokenRequests, text \in PresentableTexts :
            Receive(w, "token", [params |-> t, code |-> text])
    BY <1>2 DEF ReceiveToken
  <2>2. "token" \in PCs /\ Goto(w, "token", [params |-> t, code |-> text])
    BY <2>1 DEF Receive, PCs
  <2>3. text \in Texts
    BY HelperTypes DEF PresentableTexts, Texts, TypeOK
  <2>4. (pc'[w] = "token" /\ task'[w] = [params |-> t, code |-> text])
            => TaskTypeOK(w)'
    BY <2>3 DEF TaskTypeOK, Exchanging, Issuing, Signed
  <2>5. DOMAIN reply' = Workers
    BY <2>1 DEF Receive, TypeOK
  <2> QED
    BY <2>1, <2>2, <2>4, <2>5, GotoMoves DEF TypeOK, Receive
<1>3. ASSUME NEW w \in Workers, ReceiveUserinfo(w) PROVE TypeOK'
  <2>1. PICK token \in {g.exchange.access_token : g \in granted}
                           \cup {g.exchange.id_token : g \in granted} \cup {None} :
            Receive(w, "userinfo", [token |-> token])
    BY <1>3 DEF ReceiveUserinfo
  <2>2. "userinfo" \in PCs /\ Goto(w, "userinfo", [token |-> token])
    BY <2>1 DEF Receive, PCs
  <2>3. token \in AccessTokens \cup IdTokens \cup {None}
    BY DEF TypeOK
  <2>4. (pc'[w] = "userinfo" /\ task'[w] = [token |-> token]) => TaskTypeOK(w)'
    BY <2>3 DEF TaskTypeOK, Exchanging, Issuing, Signed
  <2>5. DOMAIN reply' = Workers
    BY <2>1 DEF Receive, TypeOK
  <2> QED
    BY <2>1, <2>2, <2>4, <2>5, GotoMoves DEF TypeOK, Receive
<1>4. ASSUME NEW w \in Workers, authorize_handler(w) PROVE TypeOK'
  <2> DEFINE cfg == config[Home[w]]
             error == authorize_error(cfg, task[w])
             encoded == sign_and_encode(authorization_code(cfg, task[w]),
                                        cfg.hmac_key, clock[Home[w]])
  <2>1. CASE error # None
    <3>1. Respond(w, Error(error)) /\ UNCHANGED <<clock, process, store, world>>
      BY <1>4, <2>1 DEF authorize_handler
    <3> QED
      BY <3>1, RespondMoves DEF TypeOK
  <2>2. CASE error = None
    <3>1. /\ Respond(w, [redirect |-> task[w].redirect_uri, code |-> encoded,
                         state |-> task[w].state])
          /\ codes' = codes \cup {encoded.signed}
          /\ UNCHANGED <<clock, process, store, granted>>
      BY <1>4, <2>2 DEF authorize_handler
    <3>2. encoded.signed \in SignedCodes
      <4>1. cfg \in StartConfigs /\ clock[Home[w]] \in Time
        BY FlowAssumption DEF TypeOK
      <4>2. task[w] \in AuthorizeRequests
        BY <1>4 DEF TypeOK, TaskTypeOK, authorize_handler
      <4>3. authorization_code(cfg, task[w]) \in AuthorizationCodes
        BY <2>2, <4>1, <4>2, HelperTypes
      <4> QED
        BY <4>1, <4>3, HelperTypes DEF sign_and_encode, SignedCodes
    <3> QED
      BY <3>1, <3>2, RespondMoves DEF TypeOK
  <2> QED
    BY <2>1, <2>2
<1>5. ASSUME NEW w \in Workers, VerifyCode(w) PROVE TypeOK'
  <2> DEFINE cfg == config[Home[w]]
             now == clock[Home[w]]
             error == token_error(cfg, task[w].params, task[w].code, now)
             code == decode_and_verify(task[w].code, cfg.hmac_key,
                                       cfg.code_max_age, now)
             x == [params |-> task[w].params, code |-> task[w].code,
                   auth_code |-> code, verified_at |-> now,
                   id_token |-> None, access_token |-> None]
  <2>1. CASE error # None
    <3>1. Respond(w, Error(error)) /\ UNCHANGED <<clock, process, store, world>>
      BY <1>5, <2>1 DEF VerifyCode
    <3> QED
      BY <3>1, RespondMoves DEF TypeOK
  <2>2. CASE error = None
    <3>1. /\ Goto(w, "consume", x)
          /\ UNCHANGED <<clock, process, store, world, reply>>
      BY <1>5, <2>2 DEF VerifyCode
    <3>2. task[w] \in [params : TokenRequests, code : Texts]
      BY <1>5 DEF TypeOK, TaskTypeOK, VerifyCode
    <3>3. code # None
      BY <2>2, FlowAssumption DEF token_error, ErrorCodes
    <3>4. code \in AuthorizationCodes /\ now \in Time
      BY <3>2, <3>3, HelperTypes, FlowAssumption DEF TypeOK
    <3>5. x \in Exchanges
      BY <3>2, <3>4 DEF Exchanges
    <3>6. (pc'[w] = "consume" /\ task'[w] = x) => TaskTypeOK(w)'
      BY <3>5 DEF TaskTypeOK, Signed
    <3>7. "consume" \in PCs
      BY DEF PCs, Exchanging, Issuing, Signed
    <3> QED
      BY <3>1, <3>6, <3>7, GotoMoves DEF TypeOK
  <2> QED
    BY <2>1, <2>2
<1>6. ASSUME NEW w \in Workers, ConsumeCode(w) PROVE TypeOK'
  <2> DEFINE key == code_replay_key(task[w].code)
  <2>1. task[w] \in Exchanges
    BY <1>6 DEF TypeOK, TaskTypeOK, ConsumeCode, Exchanging, Issuing, Signed
  <2>2. key \in ReplayKeys
    BY <2>1, HelperTypes DEF Exchanges
  <2>3. /\ consumed' = [consumed EXCEPT ![Home[w]] = @ \cup {key}]
        /\ UNCHANGED <<clock, process, records, world>>
    BY <1>6 DEF ConsumeCode
  <2>4. consumed' \in [Servers -> SUBSET ReplayKeys]
    BY <2>2, <2>3, FlowAssumption DEF TypeOK
  <2>5. CASE Respond(w, Error("invalid_grant"))
    BY <2>3, <2>4, <2>5, RespondMoves DEF TypeOK
  <2>6. CASE Goto(w, "sign_id", task[w]) /\ UNCHANGED reply
    <3>1. (pc'[w] = "sign_id" /\ task'[w] = task[w]) => TaskTypeOK(w)'
      BY <2>1 DEF TaskTypeOK, Signed
    <3>2. "sign_id" \in PCs
      BY DEF PCs, Exchanging, Issuing, Signed
    <3> QED
      BY <2>3, <2>4, <2>6, <3>1, <3>2, GotoMoves DEF TypeOK
  <2> QED
    BY <1>6, <2>5, <2>6 DEF ConsumeCode
<1>7. ASSUME NEW w \in Workers, SigningFails(w) \/ RecordPanics(w)
      PROVE  TypeOK'
  <2>1. /\ \E response : Respond(w, response)
        /\ UNCHANGED <<clock, process, store, world>>
    BY <1>7 DEF SigningFails, RecordPanics
  <2> QED
    BY <2>1, RespondMoves DEF TypeOK
<1>8. ASSUME NEW w \in Workers, SignIdToken(w) PROVE TypeOK'
  <2> DEFINE cfg == config[Home[w]]
             token == issue_id_token(cfg.jwt, task[w].auth_code.subject,
                          client_id(task[w].params), task[w].auth_code.groups,
                          task[w].auth_code.nonce, cfg.id_token_ttl,
                          clock[Home[w]])
             x == [task[w] EXCEPT !.id_token = token]
  <2>1. /\ Goto(w, "sign_access", x)
        /\ UNCHANGED <<clock, process, store, reply, world>>
    BY <1>8 DEF SignIdToken
  <2>2. task[w] \in Exchanges
    BY <1>8 DEF TypeOK, TaskTypeOK, SignIdToken, Exchanging, Issuing, Signed
  <2>3. cfg \in StartConfigs /\ clock[Home[w]] \in Time
    BY FlowAssumption DEF TypeOK
  <2>4. token \in IdTokens
    BY <2>2, <2>3, TokenTypes
  <2>5. x \in Exchanges /\ x.id_token \in IdTokens
    BY <2>2, <2>4 DEF Exchanges
  <2>6. (pc'[w] = "sign_access" /\ task'[w] = x) => TaskTypeOK(w)'
    BY <2>5 DEF TaskTypeOK, Signed
  <2>7. "sign_access" \in PCs
    BY DEF PCs, Exchanging, Issuing, Signed
  <2> QED
    BY <2>1, <2>6, <2>7, GotoMoves DEF TypeOK
<1>9. ASSUME NEW w \in Workers, SignAccessToken(w) PROVE TypeOK'
  <2> DEFINE cfg == config[Home[w]]
             token(jti) == issue_access_token(cfg.jwt,
                               task[w].auth_code.subject,
                               client_id(task[w].params),
                               task[w].auth_code.groups,
                               task[w].auth_code.scope, jti,
                               cfg.access_token_ttl, clock[Home[w]])
  <2>1. PICK jti \in random_jti :
            Goto(w, "record", [task[w] EXCEPT !.access_token = token(jti)])
    BY <1>9 DEF SignAccessToken
  <2>2. UNCHANGED <<clock, process, store, reply, world>>
    BY <1>9 DEF SignAccessToken
  <2>3. task[w] \in Exchanges /\ task[w].id_token \in IdTokens
    BY <1>9 DEF TypeOK, TaskTypeOK, SignAccessToken, Exchanging, Issuing, Signed
  <2>4. cfg \in StartConfigs /\ clock[Home[w]] \in Time /\ jti \in Jtis
    BY FlowAssumption DEF TypeOK, random_jti
  <2>5. token(jti) \in AccessTokens
    BY <2>3, <2>4, TokenTypes
  <2> DEFINE x == [task[w] EXCEPT !.access_token = token(jti)]
  <2>6. /\ x \in Exchanges
        /\ x.id_token \in IdTokens
        /\ x.access_token \in AccessTokens
    BY <2>3, <2>5 DEF Exchanges
  <2>7. (pc'[w] = "record" /\ task'[w] = x) => TaskTypeOK(w)'
    BY <2>6 DEF TaskTypeOK
  <2>8. "record" \in PCs
    BY DEF PCs, Exchanging, Issuing, Signed
  <2> QED
    BY <2>1, <2>2, <2>7, <2>8, GotoMoves DEF TypeOK
<1>10. ASSUME NEW w \in Workers, RecordToken(w) PROVE TypeOK'
  <2> DEFINE s == Home[w]
             x == task[w]
             record == token_record(config[s], x, clock[s])
  <2>1. /\ records' = [records EXCEPT ![s][x.access_token.jti] = record]
        /\ Goto(w, "respond", x)
        /\ UNCHANGED <<clock, process, consumed, reply, world>>
    BY <1>10 DEF RecordToken
  <2>2. /\ x \in Exchanges
        /\ x.id_token \in IdTokens
        /\ x.access_token \in AccessTokens
    BY <1>10 DEF TypeOK, TaskTypeOK, RecordToken, Exchanging, Issuing, Signed
  <2>3. s \in Servers /\ config[s] \in StartConfigs /\ clock[s] \in Time
    BY FlowAssumption DEF TypeOK
  <2>4. record \in TokenRecords
    BY <2>2, <2>3, RecordTypes
  <2>5. records' \in [Servers -> [Jtis -> TokenRecords \cup {None}]]
    <3>1. records \in [Servers -> [Jtis -> TokenRecords \cup {None}]]
      BY DEF TypeOK
    <3>2. [records[s] EXCEPT ![x.access_token.jti] = record]
              \in [Jtis -> TokenRecords \cup {None}]
      BY <2>3, <2>4, <3>1
    <3>3. records' = [records EXCEPT ![s] =
                        [records[s] EXCEPT ![x.access_token.jti] = record]]
      BY <2>1, <2>3, <3>1
    <3> QED
      BY <3>1, <3>2, <3>3
  <2>6. (pc'[w] = "respond" /\ task'[w] = x) => TaskTypeOK(w)'
    BY <2>2 DEF TaskTypeOK
  <2>7. "respond" \in PCs
    BY DEF PCs, Exchanging, Issuing, Signed
  <2> QED
    BY <2>1, <2>5, <2>6, <2>7, GotoMoves DEF TypeOK
<1>11. ASSUME NEW w \in Workers, SendTokens(w) PROVE TypeOK'
  <2> DEFINE s == Home[w]
             x == task[w]
             g == [server |-> s, epoch |-> epoch[s], config |-> config[s],
                   exchange |-> x]
  <2>1. /\ granted' = granted \cup {g}
        /\ Respond(w, [access_token |-> x.access_token, id_token |-> x.id_token])
        /\ UNCHANGED <<clock, process, store, codes>>
    BY <1>11 DEF SendTokens
  <2>2. /\ x \in Exchanges
        /\ x.id_token \in IdTokens
        /\ x.access_token \in AccessTokens
    BY <1>11 DEF TypeOK, TaskTypeOK, SendTokens, Exchanging, Issuing, Signed
  <2>3. s \in Servers /\ config[s] \in StartConfigs /\ epoch[s] \in Epochs
    BY FlowAssumption DEF TypeOK
  <2>4. g \in Grants /\ g.exchange = x
    BY <2>2, <2>3 DEF Grants
  <2> QED
    BY <2>1, <2>2, <2>4, RespondMoves DEF TypeOK
<1>12. ASSUME NEW w \in Workers, VerifyBearer(w) PROVE TypeOK'
  <2> DEFINE claims == verify_access_token(config[Home[w]].jwt, task[w].token,
                                           clock[Home[w]])
  <2>1. UNCHANGED <<clock, process, store, world>>
    BY <1>12 DEF VerifyBearer
  <2>2. CASE Respond(w, Error("invalid_token"))
    BY <2>1, <2>2, RespondMoves DEF TypeOK
  <2>3. CASE claims # None /\ Goto(w, "lookup", [token |-> claims])
             /\ UNCHANGED reply
    <3>1. task[w].token \in AccessTokens \cup IdTokens \cup {None}
      BY <1>12 DEF TypeOK, TaskTypeOK, VerifyBearer
    <3>2. claims \in AccessTokens
      BY <2>3, <3>1, AccessTokenShape DEF verify_access_token
    <3>3. (pc'[w] = "lookup" /\ task'[w] = [token |-> claims]) => TaskTypeOK(w)'
      BY <3>2 DEF TaskTypeOK, Exchanging, Issuing, Signed
    <3>4. "lookup" \in PCs
      BY DEF PCs
    <3> QED
      BY <2>1, <2>3, <3>3, <3>4, GotoMoves DEF TypeOK
  <2> QED
    BY <1>12, <2>2, <2>3 DEF VerifyBearer
<1>13. ASSUME NEW w \in Workers, LookupToken(w) PROVE TypeOK'
  <2>1. PICK r : Respond(w, r)
    BY <1>13 DEF LookupToken
  <2>2. UNCHANGED <<clock, process, store, world>>
    BY <1>13 DEF LookupToken
  <2> QED
    BY <2>1, <2>2, RespondMoves DEF TypeOK
<1>14. ASSUME NEW s \in Servers, SetClock(s) PROVE TypeOK'
  <2>1. PICK t \in Time : clock' = [clock EXCEPT ![s] = t]
    BY <1>14 DEF SetClock
  <2>2. UNCHANGED <<process, store, flow, world>>
    BY <1>14 DEF SetClock
  <2> QED
    BY <2>1, <2>2 DEF TypeOK, TaskTypeOK
<1>15. ASSUME NEW s \in Servers, Restart(s) PROVE TypeOK'
  <2>1. PICK cfg \in StartConfigs : config' = [config EXCEPT ![s] = cfg]
    BY <1>15 DEF Restart
  <2>2. epoch' \in [Servers -> Epochs]
    BY <1>15, FlowAssumption DEF Restart, TypeOK, Epochs
  <2>3. /\ consumed' \in [Servers -> SUBSET ReplayKeys]
        /\ records' \in [Servers -> [Jtis -> TokenRecords \cup {None}]]
    BY <1>15 DEF Restart, TypeOK
  <2>4. /\ pc' \in [Workers -> PCs]
        /\ DOMAIN task' = Workers
        /\ DOMAIN reply' = Workers
    BY <1>15 DEF Restart, TypeOK, PCs
  <2>5. ASSUME NEW w \in Workers PROVE TaskTypeOK(w)'
    <3>1. CASE Home[w] = s
      <4>1. pc'[w] = "idle"
        BY <1>15, <3>1 DEF Restart
      <4> QED
        BY <4>1 DEF TaskTypeOK, Exchanging, Issuing, Signed
    <3>2. CASE Home[w] # s
      <4>1. pc'[w] = pc[w] /\ task'[w] = task[w]
        BY <1>15, <3>2 DEF Restart
      <4> QED
        BY <4>1 DEF TypeOK, TaskTypeOK
    <3> QED
      BY <3>1, <3>2
  <2> QED
    BY <1>15, <2>1, <2>2, <2>3, <2>4, <2>5 DEF Restart, TypeOK
<1>16. CASE UNCHANGED vars
  BY <1>16 DEF vars, TypeOK, TaskTypeOK
<1> QED
  BY <1>1, <1>2, <1>3, <1>4, <1>5, <1>6, <1>7, <1>8, <1>9, <1>10, <1>11, <1>12,
     <1>13, <1>14, <1>15, <1>16 DEF Next, Serve, Compute, UseRecords

\* Every reachable state is well typed: in particular the tokens, records and
\* keys are built only from requests and configurations the server was given.
THEOREM TypeCorrect == Spec => []TypeOK
<1>1. Init => TypeOK
  <2> SUFFICES ASSUME Init PROVE TypeOK
    OBVIOUS
  <2>1. 0 \in Time /\ 0 \in Epochs /\ "idle" \in PCs
    BY FlowAssumption DEF Time, Epochs, PCs
  <2>2. \A w \in Workers : TaskTypeOK(w)
    BY DEF Init, TaskTypeOK, Exchanging, Issuing, Signed
  <2> QED
    BY <2>1, <2>2 DEF Init, TypeOK
<1> QED
  BY <1>1, TypeStep, PTL DEF Spec

-----------------------------------------------------------------------------
(* One redemption per code and life of a process.                          *)
(*                                                                         *)
(* RedeemedOncePerProcess speaks of the answers only and is not inductive: *)
(* nothing in it keeps two requests from being past consume_code with one  *)
(* key.  OneRedeemer adds what does: the key of a request past consume_code *)
(* is in the store, is held by no other request of the process and was     *)
(* answered by none, and the keys answered in this life are in the store.  *)

Key(x) == code_replay_key(x.code)

Redeeming(w) == pc[w] \in Issuing

OneRedeemer ==
    /\ \A w \in Workers : Redeeming(w) => Key(task[w]) \in consumed[Home[w]]
    /\ \A v, w \in Workers :
          (/\ Redeeming(v) /\ Redeeming(w)
           /\ Home[v] = Home[w] /\ Key(task[v]) = Key(task[w])) => v = w
    /\ \A w \in Workers, g \in granted :
          (/\ Redeeming(w)
           /\ g.server = Home[w] /\ g.epoch = epoch[Home[w]])
          => Key(g.exchange) # Key(task[w])
    /\ \A g \in granted :
          /\ g.epoch =< epoch[g.server]
          /\ g.epoch = epoch[g.server] => Key(g.exchange) \in consumed[g.server]
    /\ RedeemedOncePerProcess

\* A step that neither consumes, answers nor restarts, and after which no
\* request is past consume_code that was not before.
Quiet ==
    /\ UNCHANGED <<epoch, consumed, granted>>
    /\ \A v \in Workers :
          Redeeming(v)' => Redeeming(v) /\ Key(task[v])' = Key(task[v])

\* Quiet steps keep the invariant.
LEMMA QuietKeeps == OneRedeemer /\ Quiet => OneRedeemer'
BY DEF OneRedeemer, Quiet, RedeemedOncePerProcess

\* Which steps are quiet.
LEMMA QuietSteps ==
    ASSUME TypeOK, NEW w \in Workers,
           \/ ReceiveAuthorize(w) \/ ReceiveToken(w) \/ ReceiveUserinfo(w)
           \/ authorize_handler(w) \/ VerifyCode(w) \/ SigningFails(w) \/ RecordPanics(w)
           \/ SignIdToken(w) \/ SignAccessToken(w) \/ RecordToken(w)
           \/ VerifyBearer(w) \/ LookupToken(w)
    PROVE  Quiet
<1> USE DEF process, store, flow, world
<1>1. UNCHANGED <<epoch, consumed, granted>>
  BY DEF ReceiveAuthorize, ReceiveToken, ReceiveUserinfo, Receive,
         authorize_handler, VerifyCode, SigningFails, RecordPanics, SignIdToken,
         SignAccessToken, RecordToken, VerifyBearer, LookupToken
<1>2. ASSUME NEW to \in PCs \ Issuing, NEW x, Goto(w, to, x)
      PROVE  Quiet
  BY <1>1, <1>2, GotoMoves DEF Quiet, Redeeming
<1>3. ASSUME NEW to \in Issuing, NEW x, Goto(w, to, x),
             Redeeming(w), Key(x) = Key(task[w])
      PROVE  Quiet
  <2>1. to \in PCs
    BY DEF Issuing, Signed, PCs, Exchanging, Issuing, Signed
  <2> QED
    BY <1>1, <1>3, <2>1, GotoMoves DEF Quiet, Redeeming, Key
<1>4. ASSUME NEW r, Respond(w, r) PROVE Quiet
  BY <1>2, <1>4 DEF Respond, PCs, Issuing, Signed
<1>5. {"authorize", "token", "userinfo", "consume", "lookup"}
          \subseteq PCs \ Issuing
  BY DEF PCs, Exchanging, Issuing, Signed
<1>6. CASE ReceiveAuthorize(w) \/ ReceiveToken(w) \/ ReceiveUserinfo(w)
  BY <1>2, <1>5, <1>6
  DEF ReceiveAuthorize, ReceiveToken, ReceiveUserinfo, Receive
<1>7. CASE authorize_handler(w) \/ SigningFails(w) \/ RecordPanics(w) \/ LookupToken(w)
  BY <1>4, <1>7 DEF authorize_handler, SigningFails, RecordPanics, LookupToken
<1>8. CASE VerifyCode(w)
  BY <1>2, <1>4, <1>5, <1>8 DEF VerifyCode
<1>9. CASE VerifyBearer(w)
  BY <1>2, <1>4, <1>5, <1>9 DEF VerifyBearer
<1>10. CASE SignIdToken(w)
  <2>1. task[w] \in Exchanges /\ Redeeming(w)
    BY <1>10
    DEF TypeOK, TaskTypeOK, SignIdToken, Exchanging, Issuing, Signed, Redeeming
  <2>2. PICK token : Goto(w, "sign_access", [task[w] EXCEPT !.id_token = token])
    BY <1>10 DEF SignIdToken
  <2>3. [task[w] EXCEPT !.id_token = token].code = task[w].code
    BY <2>1 DEF Exchanges
  <2> QED
    BY <1>3, <2>1, <2>2, <2>3 DEF Key, Issuing, Signed
<1>11. CASE SignAccessToken(w)
  <2>1. task[w] \in Exchanges /\ Redeeming(w)
    BY <1>11
    DEF TypeOK, TaskTypeOK, SignAccessToken, Exchanging, Issuing, Signed, Redeeming
  <2>2. PICK token : Goto(w, "record", [task[w] EXCEPT !.access_token = token])
    BY <1>11 DEF SignAccessToken
  <2>3. [task[w] EXCEPT !.access_token = token].code = task[w].code
    BY <2>1 DEF Exchanges
  <2> QED
    BY <1>3, <2>1, <2>2, <2>3 DEF Key, Issuing, Signed
<1>12. CASE RecordToken(w)
  <2>1. Redeeming(w) /\ Goto(w, "respond", task[w]) /\ "respond" \in Issuing
    BY <1>12 DEF RecordToken, Redeeming, Issuing, Signed
  <2> QED
    BY <1>3, <2>1
<1> QED
  BY <1>6, <1>7, <1>8, <1>9, <1>10, <1>11, <1>12

\* consume_code lets a request pass only with a key that no request of the
\* process has passed with.
LEMMA ConsumeKeeps ==
    ASSUME TypeOK, OneRedeemer, NEW w \in Workers, ConsumeCode(w)
    PROVE  OneRedeemer'
<1> DEFINE s == Home[w]
<1>1. /\ consumed' = [consumed EXCEPT ![s] = @ \cup {Key(task[w])}]
      /\ UNCHANGED <<epoch, granted>>
  BY DEF ConsumeCode, Key, process, world
<1>2. /\ consumed \in [Servers -> SUBSET ReplayKeys]
      /\ \A v \in Workers : Home[v] \in Servers
      /\ \A g \in granted : g.server \in Servers
  BY FlowAssumption DEF TypeOK, Grants
<1>3. /\ \A r \in Servers : consumed[r] \subseteq consumed'[r]
      /\ Key(task[w]) \in consumed'[s]
  BY <1>1, <1>2
<1>4. \A g \in granted : g.epoch = epoch[g.server] =>
          Key(g.exchange) \in consumed'[g.server]
  BY <1>2, <1>3 DEF OneRedeemer
<1>5. CASE Respond(w, Error("invalid_grant"))
  <2>1. \A v \in Workers : Redeeming(v)' =>
            Redeeming(v) /\ Key(task[v])' = Key(task[v])
    BY <1>5, RespondMoves DEF Redeeming, Issuing, Signed, Key
  <2> QED
    BY <1>1, <1>2, <1>3, <1>4, <2>1 DEF OneRedeemer, RedeemedOncePerProcess
<1>6. CASE Key(task[w]) \notin consumed[s] /\ Goto(w, "sign_id", task[w])
  <2>1. /\ Key(task[w])' = Key(task[w])
        /\ \A v \in Workers \ {w} : Redeeming(v)' =>
               Redeeming(v) /\ Key(task[v])' = Key(task[v])
    BY <1>6, GotoMoves DEF Redeeming, Key, PCs, Exchanging, Issuing, Signed
  <2>2. \A v \in Workers : Redeeming(v)' => Key(task[v])' \in consumed'[Home[v]]
    BY <1>2, <1>3, <2>1 DEF OneRedeemer
  <2>3. \A v \in Workers \ {w} : (Redeeming(v)' /\ Home[v] = s) =>
            Key(task[v])' # Key(task[w])'
    BY <1>6, <2>1 DEF OneRedeemer
  <2>4. \A g \in granted : (g.server = s /\ g.epoch = epoch[s]) =>
            Key(g.exchange) # Key(task[w])'
    BY <1>6, <2>1 DEF OneRedeemer
  <2>5. \A u, v \in Workers :
            (/\ Redeeming(u)' /\ Redeeming(v)'
             /\ Home[u] = Home[v] /\ Key(task[u])' = Key(task[v])') => u = v
    BY <2>1, <2>3 DEF OneRedeemer
  <2>6. \A v \in Workers, g \in granted :
            (/\ Redeeming(v)'
             /\ g.server = Home[v] /\ g.epoch = epoch[Home[v]])
            => Key(g.exchange) # Key(task[v])'
    BY <2>1, <2>4 DEF OneRedeemer
  <2> QED
    BY <1>1, <1>4, <2>2, <2>5, <2>6 DEF OneRedeemer, RedeemedOncePerProcess
<1> QED
  BY <1>5, <1>6 DEF ConsumeCode, Key

\* The answer goes to the one request that holds the key.
LEMMA SendKeeps ==
    ASSUME TypeOK, OneRedeemer, NEW w \in Workers, SendTokens(w)
    PROVE  OneRedeemer'
<1> DEFINE s == Home[w]
           n == [server |-> s, epoch |-> epoch[s], config |-> config[s],
                 exchange |-> task[w]]
<1>1. /\ granted' = granted \cup {n}
      /\ UNCHANGED <<epoch, consumed>>
      /\ \E r : Respond(w, r)
      /\ Redeeming(w)
  BY DEF SendTokens, process, store, Redeeming, Issuing, Signed
<1>2. /\ ~Redeeming(w)'
      /\ \A v \in Workers : Redeeming(v)' =>
            v # w /\ Redeeming(v) /\ Key(task[v])' = Key(task[v])
  BY <1>1, RespondMoves DEF Redeeming, Issuing, Signed, Key
<1>3. /\ n.server = s /\ n.epoch = epoch[s] /\ n.exchange = task[w]
      /\ Key(n.exchange) \in consumed[s]
      /\ epoch[s] \in Nat
  BY <1>1, FlowAssumption DEF OneRedeemer, TypeOK, Epochs
<1>4. \A g \in granted : (g.server = s /\ g.epoch = epoch[s]) =>
          Key(g.exchange) # Key(n.exchange)
  BY <1>1, <1>3 DEF OneRedeemer
<1>5. RedeemedOncePerProcess'
  <2>1. \A g, h \in granted :
            (g.server = h.server /\ g.epoch = h.epoch
             /\ Key(g.exchange) = Key(h.exchange)) => g = h
    BY DEF OneRedeemer, RedeemedOncePerProcess, Key
  <2>2. \A g, h \in granted \cup {n} :
            (g.server = h.server /\ g.epoch = h.epoch
             /\ Key(g.exchange) = Key(h.exchange)) => g = h
    BY <1>3, <1>4, <2>1
  <2> QED
    BY <1>1, <2>2 DEF RedeemedOncePerProcess, Key
<1>6. \A v \in Workers, g \in granted' :
          (/\ Redeeming(v)'
           /\ g.server = Home[v] /\ g.epoch = epoch[Home[v]])
          => Key(g.exchange) # Key(task[v])'
  BY <1>1, <1>2, <1>3 DEF OneRedeemer
<1>7. \A g \in granted' :
          /\ g.epoch =< epoch[g.server]
          /\ g.epoch = epoch[g.server] => Key(g.exchange) \in consumed[g.server]
  BY <1>1, <1>3 DEF OneRedeemer
<1> QED
  BY <1>1, <1>2, <1>5, <1>6, <1>7 DEF OneRedeemer

\* A restart empties the store, and with it ends the requests and the life of
\* the process that the keys in it belong to.
LEMMA RestartKeeps ==
    ASSUME TypeOK, OneRedeemer, NEW s \in Servers, Restart(s)
    PROVE  OneRedeemer'
<1>1. /\ epoch' = [epoch EXCEPT ![s] = epoch[s] + 1]
      /\ consumed' = [consumed EXCEPT ![s] = {}]
      /\ granted' = granted
  BY DEF Restart, world
<1>2. /\ epoch \in [Servers -> Nat]
      /\ consumed \in [Servers -> SUBSET ReplayKeys]
      /\ \A v \in Workers : Home[v] \in Servers
      /\ \A g \in granted : g.server \in Servers /\ g.epoch \in Nat
  BY FlowAssumption DEF TypeOK, Grants, Epochs
<1>3. \A v \in Workers : Redeeming(v)' =>
          Home[v] # s /\ Redeeming(v) /\ Key(task[v])' = Key(task[v])
  BY DEF Restart, Redeeming, Issuing, Signed, Key
<1>4. \A r \in Servers \ {s} : epoch'[r] = epoch[r] /\ consumed'[r] = consumed[r]
  BY <1>1, <1>2
<1>5. \A g \in granted : g.server = s => g.epoch < epoch'[s]
  BY <1>1, <1>2 DEF OneRedeemer
<1>6. \A g \in granted :
          /\ g.epoch =< epoch'[g.server]
          /\ g.epoch = epoch'[g.server] => Key(g.exchange) \in consumed'[g.server]
  BY <1>1, <1>2, <1>4, <1>5 DEF OneRedeemer
<1> QED
  BY <1>1, <1>2, <1>3, <1>4, <1>6 DEF OneRedeemer, RedeemedOncePerProcess

\* Every step keeps OneRedeemer.
LEMMA OneRedeemerStep == TypeOK /\ OneRedeemer /\ [Next]_vars => OneRedeemer'
<1> SUFFICES ASSUME TypeOK, OneRedeemer, [Next]_vars PROVE OneRedeemer'
  OBVIOUS
<1>1. ASSUME NEW w \in Workers, ConsumeCode(w) PROVE OneRedeemer'
  BY <1>1, ConsumeKeeps
<1>2. ASSUME NEW w \in Workers, SendTokens(w) PROVE OneRedeemer'
  BY <1>2, SendKeeps
<1>3. ASSUME NEW s \in Servers, Restart(s) PROVE OneRedeemer'
  BY <1>3, RestartKeeps
<1>4. ASSUME NEW s \in Servers, SetClock(s) PROVE OneRedeemer'
  <2>1. Quiet
    BY <1>4 DEF SetClock, Quiet, Redeeming, Key, process, store, flow, world
  <2> QED
    BY <2>1, QuietKeeps
<1>5. CASE UNCHANGED vars
  <2>1. Quiet
    BY <1>5 DEF vars, Quiet, Redeeming, Key, process, store, flow, world
  <2> QED
    BY <2>1, QuietKeeps
<1> QED
  BY <1>1, <1>2, <1>3, <1>4, <1>5, QuietSteps, QuietKeeps
  DEF Next, Serve, Compute, UseRecords

\* OneRedeemer holds in every reachable state.
LEMMA OneRedeemerInvariant == Spec => [](TypeOK /\ OneRedeemer)
<1>1. Init => OneRedeemer
  BY DEF Init, OneRedeemer, RedeemedOncePerProcess, Redeeming, Issuing, Signed
<1> QED
  BY <1>1, TypeCorrect, OneRedeemerStep, PTL DEF Spec

\* One life of a process redeems one text of a code at most once, however many
\* requests present it at a time and whatever fails in between.
THEOREM RedeemedOnce == Spec => []RedeemedOncePerProcess
<1>1. OneRedeemer => RedeemedOncePerProcess
  BY DEF OneRedeemer
<1> QED
  BY <1>1, OneRedeemerInvariant, PTL

-----------------------------------------------------------------------------
(* The promise of OneTimeGrant                                             *)
(*                                                                         *)
(* Besides OneRedeemer, the mapping of a SendTokens step to a Grant step   *)
(* needs that the token identifier is new when it is sent, although it was *)
(* drawn two steps earlier: FreshJtis.                                     *)

Recording(w) == pc[w] \in Signed

FreshJtis ==
    /\ \A v, w \in Workers :
          (/\ Recording(v) /\ Recording(w)
           /\ task[v].access_token.jti = task[w].access_token.jti) => v = w
    /\ \A w \in Workers, g \in granted :
          Recording(w) => g.exchange.access_token.jti # task[w].access_token.jti
    /\ \A g, h \in granted :
          g.exchange.access_token.jti = h.exchange.access_token.jti => g = h

\* Steps that draw no identifier and answer no request.
LEMMA JtiQuietKeeps ==
    ASSUME FreshJtis, granted' = granted,
           \A v \in Workers : Recording(v)' => Recording(v) /\ task'[v] = task[v]
    PROVE  FreshJtis'
BY DEF FreshJtis

\* Which steps those are: all of a worker but signing and sending the token.
LEMMA JtiQuietSteps ==
    ASSUME TypeOK, NEW w \in Workers,
           \/ ReceiveAuthorize(w) \/ ReceiveToken(w) \/ ReceiveUserinfo(w)
           \/ authorize_handler(w) \/ VerifyCode(w) \/ ConsumeCode(w)
           \/ SigningFails(w) \/ RecordPanics(w) \/ SignIdToken(w)
           \/ RecordToken(w) \/ VerifyBearer(w) \/ LookupToken(w)
    PROVE  /\ granted' = granted
           /\ \A v \in Workers : Recording(v)' =>
                  Recording(v) /\ task'[v] = task[v]
<1>1. granted' = granted
  BY DEF ReceiveAuthorize, ReceiveToken, ReceiveUserinfo, Receive,
         authorize_handler, VerifyCode, ConsumeCode, SigningFails, RecordPanics,
         SignIdToken, RecordToken, VerifyBearer, LookupToken, world
<1>2. \/ \E to \in PCs \ Signed : \E x : Goto(w, to, x)
      \/ /\ pc[w] \in Signed
         /\ \E to \in Signed : Goto(w, to, task[w])
  <2>1. {"idle", "authorize", "token", "userinfo", "consume", "sign_id",
         "sign_access", "lookup"} \subseteq PCs \ Signed
    BY DEF PCs, Exchanging, Issuing, Signed
  <2>2. CASE ReceiveAuthorize(w) \/ ReceiveToken(w) \/ ReceiveUserinfo(w)
    BY <2>1, <2>2 DEF ReceiveAuthorize, ReceiveToken, ReceiveUserinfo, Receive
  <2>3. CASE authorize_handler(w) \/ SigningFails(w) \/ RecordPanics(w) \/ LookupToken(w)
    BY <2>1, <2>3
    DEF authorize_handler, SigningFails, RecordPanics, LookupToken, Respond
  <2>4. CASE VerifyCode(w) \/ VerifyBearer(w)
    BY <2>1, <2>4 DEF VerifyCode, VerifyBearer, Respond
  <2>5. CASE ConsumeCode(w) \/ SignIdToken(w)
    BY <2>1, <2>5 DEF ConsumeCode, SignIdToken, Respond
  <2>6. CASE RecordToken(w)
    BY <2>6 DEF RecordToken, Signed
  <2> QED
    BY <2>2, <2>3, <2>4, <2>5, <2>6
<1>3. \A v \in Workers : Recording(v)' => Recording(v) /\ task'[v] = task[v]
  <2>1. CASE \E to \in PCs \ Signed : \E x : Goto(w, to, x)
    BY <2>1, GotoMoves DEF Recording
  <2>2. CASE pc[w] \in Signed /\ \E to \in Signed : Goto(w, to, task[w])
    <3>1. Signed \subseteq PCs
      BY DEF PCs, Exchanging, Issuing, Signed
    <3> QED
      BY <2>2, <3>1, GotoMoves DEF Recording
  <2> QED
    BY <1>2, <2>1, <2>2
<1> QED
  BY <1>1, <1>3

\* Every step keeps FreshJtis.
LEMMA FreshJtisStep == TypeOK /\ FreshJtis /\ [Next]_vars => FreshJtis'
<1> SUFFICES ASSUME TypeOK, FreshJtis, [Next]_vars PROVE FreshJtis'
  OBVIOUS
<1>1. ASSUME NEW w \in Workers, SignAccessToken(w) PROVE FreshJtis'
  <2>1. PICK jti \in random_jti : \E token :
            /\ Goto(w, "record", [task[w] EXCEPT !.access_token = token])
            /\ token.jti = jti
    BY <1>1 DEF SignAccessToken, issue_access_token
  <2> PICK token : /\ Goto(w, "record", [task[w] EXCEPT !.access_token = token])
                   /\ token.jti = jti
    BY <2>1
  <2>2. granted' = granted /\ "record" \in PCs /\ task[w] \in Exchanges
    BY <1>1
    DEF SignAccessToken, world, PCs, Exchanging, Issuing, Signed, TypeOK, TaskTypeOK
  <2>3. /\ \A v \in Workers \ {w} : pc'[v] = pc[v] /\ task'[v] = task[v]
        /\ task'[w].access_token.jti = jti
    BY <2>1, <2>2, GotoMoves DEF Exchanges
  <2>4. /\ \A g \in granted : g.exchange.access_token.jti # jti
        /\ \A v \in Workers : Recording(v) => task[v].access_token.jti # jti
    BY DEF random_jti, Recording
  <2> QED
    BY <2>2, <2>3, <2>4 DEF FreshJtis, Recording
<1>2. ASSUME NEW w \in Workers, SendTokens(w) PROVE FreshJtis'
  <2> DEFINE s == Home[w]
             n == [server |-> s, epoch |-> epoch[s], config |-> config[s],
                   exchange |-> task[w]]
  <2>1. granted' = granted \cup {n} /\ n.exchange = task[w]
    BY <1>2 DEF SendTokens
  <2>2. Recording(w) /\ \E r : Respond(w, r)
    BY <1>2 DEF SendTokens, Recording, Signed
  <2>3. \A v \in Workers : Recording(v)' =>
            v # w /\ Recording(v) /\ task'[v] = task[v]
    BY <2>2, RespondMoves DEF Recording, Signed
  <2> QED
    BY <2>1, <2>2, <2>3 DEF FreshJtis
<1>3. ASSUME NEW s \in Servers, Restart(s) PROVE FreshJtis'
  <2>1. /\ granted' = granted
        /\ \A v \in Workers : Recording(v)' => Recording(v) /\ task'[v] = task[v]
    BY <1>3 DEF Restart, world, Recording, Signed
  <2> QED
    BY <2>1, JtiQuietKeeps
<1>4. ASSUME NEW s \in Servers, SetClock(s) PROVE FreshJtis'
  BY <1>4 DEF SetClock, flow, world, FreshJtis, Recording
<1>5. CASE UNCHANGED vars
  BY <1>5 DEF vars, flow, world, FreshJtis, Recording
<1> QED
  BY <1>1, <1>2, <1>3, <1>4, <1>5, JtiQuietSteps, JtiQuietKeeps
  DEF Next, Serve, Compute, UseRecords

\* FreshJtis holds in every reachable state.
LEMMA FreshJtisInvariant == Spec => []FreshJtis
<1>1. Init => FreshJtis
  BY DEF Init, FreshJtis, Recording, Signed
<1> QED
  BY <1>1, TypeCorrect, FreshJtisStep, PTL DEF Spec

\* The flow implements OneTimeGrant: every answer of the token endpoint is a
\* grant of a new key of its store under a new identifier, and nothing else
\* changes what has been granted.
THEOREM Refinement == Spec => ImplementsOneTimeGrant
<1> DEFINE image(g) == [store |-> <<g.server, g.epoch>>,
                        key   |-> code_replay_key(g.exchange.code),
                        jti   |-> g.exchange.access_token.jti]
           grants == {image(g) : g \in granted}
<1>1. Init => Promise!Init
  BY DEF Init, Promise!Init
<1>2. TypeOK /\ OneRedeemer /\ FreshJtis /\ [Next]_vars => [Promise!Next]_grants
  <2> SUFFICES ASSUME TypeOK, OneRedeemer, FreshJtis, [Next]_vars
               PROVE  [Promise!Next]_grants
    OBVIOUS
  <2>1. ASSUME NEW w \in Workers, SendTokens(w) PROVE Promise!Next
    <3> DEFINE s == Home[w]
               n == [server |-> s, epoch |-> epoch[s], config |-> config[s],
                     exchange |-> task[w]]
               jti == task[w].access_token.jti
    <3>1. granted' = granted \cup {n} /\ Redeeming(w) /\ Recording(w)
      BY <2>1 DEF SendTokens, Redeeming, Recording, Exchanging, Issuing, Signed
    <3>2. grants' = grants \cup {[store |-> <<s, epoch[s]>>,
                                  key |-> Key(task[w]), jti |-> jti]}
      <4>1. image(n) = [store |-> <<s, epoch[s]>>,
                        key |-> Key(task[w]), jti |-> jti]
        BY DEF Key
      <4>2. grants' = {image(g) : g \in granted'}
        OBVIOUS
      <4>3. {image(g) : g \in granted \cup {n}} = grants \cup {image(n)}
        OBVIOUS
      <4> QED
        BY <3>1, <4>1, <4>2, <4>3
    <3>3. \A g \in granted : /\ g.exchange.access_token.jti # jti
                             /\ <<g.server, g.epoch>> = <<s, epoch[s]>> =>
                                    code_replay_key(g.exchange.code) # Key(task[w])
      BY <3>1 DEF OneRedeemer, FreshJtis, Key
    <3>4. \A g \in grants : /\ g.jti # jti
                            /\ g.store = <<s, epoch[s]>> => g.key # Key(task[w])
      BY <3>3
    <3>5. /\ <<s, epoch[s]>> \in Servers \X Epochs
          /\ Key(task[w]) \in ReplayKeys
          /\ jti \in Jtis
      <4>1. task[w] \in Exchanges /\ task[w].access_token \in AccessTokens
        BY <3>1 DEF TypeOK, TaskTypeOK, Recording, Exchanging, Issuing, Signed
      <4> QED
        BY <4>1, AccessTokenShape, HelperTypes, FlowAssumption
        DEF TypeOK, Exchanges, Key
    <3>6. \E st \in Servers \X Epochs, key \in ReplayKeys, j \in Jtis :
              /\ \A g \in grants : g.jti # j /\ (g.store = st => g.key # key)
              /\ grants' = grants \cup {[store |-> st, key |-> key, jti |-> j]}
      <4> HIDE DEF grants, jti, s
      <4> QED
        BY <3>2, <3>4, <3>5
    <3> QED
      BY <3>6 DEF Promise!Next, Promise!Grant
  <2>2. CASE granted' = granted
    BY <2>2
  <2>3. ASSUME NEW w \in Workers, SignAccessToken(w) PROVE granted' = granted
    BY <2>3 DEF SignAccessToken, world
  <2>4. ASSUME NEW s \in Servers, SetClock(s) \/ Restart(s)
        PROVE  granted' = granted
    BY <2>4 DEF SetClock, Restart, world
  <2>5. CASE UNCHANGED vars
    BY <2>5 DEF vars, world
  <2> QED
    BY <2>1, <2>2, <2>3, <2>4, <2>5, JtiQuietSteps
    DEF Next, Serve, Compute, UseRecords
<1> QED
  BY <1>1, <1>2, OneRedeemerInvariant, FreshJtisInvariant, PTL
  DEF Spec, ImplementsOneTimeGrant, Promise!Spec

-----------------------------------------------------------------------------
(* What a step may never do *)

\* While a process lives, a consumed key stays consumed and no request joins
\* the one that consumed it.
THEOREM BurnedStaysBurned == Spec => BurnedForGood
<1>1. Quiet => StaysBurned
  BY DEF Quiet, Redeeming, Key, StaysBurned, Redeemers
<1>2. TypeOK /\ OneRedeemer /\ [Next]_vars => StaysBurned
  <2> SUFFICES ASSUME TypeOK, OneRedeemer, [Next]_vars,
                      NEW s \in Servers, NEW key \in consumed[s],
                      epoch'[s] = epoch[s]
               PROVE  /\ key \in consumed'[s]
                      /\ Redeemers(s, key)' \subseteq Redeemers(s, key)
    BY DEF StaysBurned
  <2> USE DEF Redeemers
  <2>1. CASE Quiet
    BY <1>1, <2>1 DEF StaysBurned
  <2>2. ASSUME NEW w \in Workers, ConsumeCode(w)
        PROVE  /\ key \in consumed'[s]
               /\ Redeemers(s, key)' \subseteq Redeemers(s, key)
    <3>1. /\ consumed' = [consumed EXCEPT ![Home[w]] = @ \cup {Key(task[w])}]
          /\ consumed \in [Servers -> SUBSET ReplayKeys]
      BY <2>2 DEF ConsumeCode, Key, TypeOK
    <3>2. key \in consumed'[s]
      BY <3>1
    <3>3. CASE Respond(w, Error("invalid_grant"))
      BY <3>2, <3>3, RespondMoves DEF Issuing, Signed
    <3>4. CASE Key(task[w]) \notin consumed[Home[w]] /\ Goto(w, "sign_id", task[w])
      <4>1. /\ task'[w] = task[w]
            /\ \A v \in Workers \ {w} : pc'[v] = pc[v] /\ task'[v] = task[v]
        BY <3>4, GotoMoves DEF PCs, Exchanging, Issuing, Signed
      <4>2. w \notin Redeemers(s, key)'
        BY <3>4, <4>1 DEF Key
      <4> QED
        BY <3>2, <4>1, <4>2
    <3> QED
      BY <2>2, <3>3, <3>4 DEF ConsumeCode, Key
  <2>3. ASSUME NEW w \in Workers, SendTokens(w)
        PROVE  /\ key \in consumed'[s]
               /\ Redeemers(s, key)' \subseteq Redeemers(s, key)
    <3>1. consumed' = consumed /\ \E r : Respond(w, r)
      BY <2>3 DEF SendTokens, store
    <3> QED
      BY <3>1, RespondMoves DEF Issuing, Signed
  <2>4. ASSUME NEW r \in Servers, Restart(r)
        PROVE  /\ key \in consumed'[s]
               /\ Redeemers(s, key)' \subseteq Redeemers(s, key)
    <3>1. r # s
      BY <2>4, FlowAssumption DEF Restart, TypeOK, Epochs
    <3>2. consumed'[s] = consumed[s]
      BY <2>4, <3>1 DEF Restart, TypeOK
    <3>3. \A v \in Workers : Home[v] = s => pc'[v] = pc[v] /\ task'[v] = task[v]
      BY <2>4, <3>1 DEF Restart
    <3> QED
      BY <3>2, <3>3
  <2>5. ASSUME NEW r \in Servers, SetClock(r) PROVE Quiet
    BY <2>5 DEF SetClock, Quiet, Redeeming, Key, process, store, flow, world
  <2>6. CASE UNCHANGED vars
    BY <2>1, <2>6 DEF vars, Quiet, Redeeming, Key, process, store, flow, world
  <2> QED
    BY <2>1, <2>2, <2>3, <2>4, <2>5, <2>6, QuietSteps
    DEF Next, Serve, Compute, UseRecords
<1> QED
  BY <1>2, OneRedeemerInvariant, PTL DEF Spec, BurnedForGood

\* A request that is being served has no response yet.
Unanswered == \A w \in Workers : pc[w] # "idle" => reply[w] = None

\* Receiving clears the response, and only answering sets it.
LEMMA UnansweredStep == TypeOK /\ Unanswered /\ [Next]_vars => Unanswered'
<1> SUFFICES ASSUME TypeOK, Unanswered, [Next]_vars PROVE Unanswered'
  OBVIOUS
<1>1. ASSUME NEW w \in Workers, NEW to, NEW x, Goto(w, to, x), pc[w] # "idle",
             UNCHANGED reply
      PROVE  Unanswered'
  BY <1>1 DEF Unanswered, Goto, TypeOK
<1>2. ASSUME NEW w \in Workers, NEW r, Respond(w, r) PROVE Unanswered'
  BY <1>2 DEF Unanswered, Respond, Goto, TypeOK
<1>3. ASSUME NEW w \in Workers, NEW at, NEW x, Receive(w, at, x)
      PROVE  Unanswered'
  BY <1>3 DEF Unanswered, Receive, Goto, TypeOK
<1>4. ASSUME NEW w \in Workers,
             \/ ReceiveAuthorize(w) \/ ReceiveToken(w) \/ ReceiveUserinfo(w)
      PROVE  Unanswered'
  BY <1>3, <1>4 DEF ReceiveAuthorize, ReceiveToken, ReceiveUserinfo
<1>5. ASSUME NEW w \in Workers, Serve(w) PROVE Unanswered'
  <2>1. CASE authorize_handler(w)
    BY <1>2, <2>1 DEF authorize_handler
  <2>2. CASE VerifyCode(w)
    BY <1>1, <1>2, <2>2 DEF VerifyCode
  <2>3. CASE ConsumeCode(w)
    BY <1>1, <1>2, <2>3 DEF ConsumeCode
  <2>4. CASE SigningFails(w) \/ RecordPanics(w)
    BY <1>2, <2>4 DEF SigningFails, RecordPanics
  <2>5. CASE SignIdToken(w)
    BY <1>1, <2>5 DEF SignIdToken
  <2>6. CASE SignAccessToken(w)
    BY <1>1, <2>6 DEF SignAccessToken
  <2>7. CASE RecordToken(w)
    BY <1>1, <2>7 DEF RecordToken
  <2>8. CASE SendTokens(w)
    BY <1>2, <2>8 DEF SendTokens
  <2>9. CASE VerifyBearer(w)
    BY <1>1, <1>2, <2>9 DEF VerifyBearer
  <2>10. CASE LookupToken(w)
    BY <1>2, <2>10 DEF LookupToken
  <2> QED
    BY <1>5, <2>1, <2>2, <2>3, <2>4, <2>5, <2>6, <2>7, <2>8, <2>9, <2>10
    DEF Serve, Compute, UseRecords
<1>6. ASSUME NEW s \in Servers, Restart(s) PROVE Unanswered'
  BY <1>6 DEF Unanswered, Restart
<1>7. ASSUME NEW s \in Servers, SetClock(s) PROVE Unanswered'
  BY <1>7 DEF Unanswered, SetClock, flow
<1>8. CASE UNCHANGED vars
  BY <1>8 DEF Unanswered, vars, flow
<1> QED
  BY <1>4, <1>5, <1>6, <1>7, <1>8 DEF Next

\* A token request that consume_code or a check before it refuses leaves the
\* consumed codes of every process as they were.
THEOREM RefusalsAreHarmless == Spec => RefusalsBurnNothing
<1>1. Init => Unanswered
  BY DEF Init, Unanswered
<1>2. TypeOK /\ Unanswered /\ [Next]_vars => RefusalKeepsCodes
  <2> SUFFICES ASSUME TypeOK, Unanswered, [Next]_vars PROVE RefusalKeepsCodes
    OBVIOUS
  <2>1. CASE UNCHANGED consumed
    BY <2>1 DEF RefusalKeepsCodes
  <2>2. ASSUME NEW w \in Workers, ConsumeCode(w) PROVE RefusalKeepsCodes
    <3>1. CASE code_replay_key(task[w].code) \in consumed[Home[w]]
      <4>1. consumed' = consumed
        BY <2>2, <3>1 DEF ConsumeCode, TypeOK
      <4> QED
        BY <2>1, <4>1
    <3>2. CASE UNCHANGED reply
      BY <3>2 DEF Unanswered, RefusalKeepsCodes, Failed
    <3> QED
      BY <2>2, <3>1, <3>2 DEF ConsumeCode
  <2>3. ASSUME NEW s \in Servers, Restart(s) PROVE RefusalKeepsCodes
    <3>1. \A w \in Workers : pc[w] # "idle" => reply'[w] = None
      BY <2>3 DEF Restart, Unanswered
    <3> QED
      BY <3>1 DEF RefusalKeepsCodes, Failed
  <2>4. ASSUME NEW w \in Workers, Serve(w), ~ConsumeCode(w)
        PROVE  UNCHANGED consumed
    BY <2>4 DEF Serve, Compute, UseRecords, authorize_handler, VerifyCode,
                SigningFails, RecordPanics, SignIdToken, SignAccessToken,
                RecordToken, SendTokens, VerifyBearer, LookupToken, store
  <2>5. ASSUME NEW w \in Workers,
               \/ ReceiveAuthorize(w) \/ ReceiveToken(w) \/ ReceiveUserinfo(w)
        PROVE  UNCHANGED consumed
    BY <2>5 DEF ReceiveAuthorize, ReceiveToken, ReceiveUserinfo, Receive, store
  <2>6. ASSUME NEW s \in Servers, SetClock(s) PROVE UNCHANGED consumed
    BY <2>6 DEF SetClock, store
  <2>7. CASE UNCHANGED vars
    BY <2>1, <2>7 DEF vars, store
  <2> QED
    BY <2>1, <2>2, <2>3, <2>4, <2>5, <2>6, <2>7 DEF Next
<1> QED
  BY <1>1, <1>2, UnansweredStep, TypeCorrect, PTL DEF Spec, RefusalsBurnNothing

=============================================================================
