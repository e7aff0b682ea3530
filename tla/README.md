# openid-tls-connector in TLA+

A TLA+ model of openid-tls-connector, an OpenID provider that authenticates its
users by mTLS client certificates: how its processes start, what they do, step by
step, for each endpoint, how the store they share works under its locks and how the
proxy's header becomes a subject. The model is checked with TLC on small instances;
every safety property that a run finds to hold is also proved by TLAPS, for every
value of the constants.
Paths below are relative to the repository.

## The system

| Component | State | Operations |
|---|---|---|
| Router (`src/oidc/router.rs`) | `AppState`, fixed while the process runs | one handler per endpoint; handlers run in parallel on the threads of the tokio runtime and never wait for each other except for a lock of the store |
| Flow (`src/oidc/protocol.rs`) | HMAC key and maximum age of a code | `authorization_request` signs a code; `access_token_request` checks it, consumes it, issues two JWTs and records the access token |
| Signed code (`src/oidc/code/`) | none: the code is the state, held by the client | sign and encode, decode and verify, freshness, PKCE |
| Token store (`src/oidc/storage.rs`) | two maps, each behind its own lock: records by `jti`, consumed codes | `issue`, `lookup`, `consume_code`; `revoke`, which nothing calls |
| JWT issuer (`src/oidc/token.rs`) | RSA key, issuer text | issue ID and access tokens, verify both, publish the key |
| Client registry (`src/oidc/client.rs`) | the clients of the configuration | duplicate check at startup; redirect URI and secret checks |
| Users (`src/users/mod.rs`) | the DN attribute | subject from the proxy's header; groups of a client |
| Startup (`src/bin/server/`) | none | read configuration and keys, build `AppState` with an empty store, bind |
| Discovery, endpoint paths (`src/oidc/discovery.rs`, `endpoints.rs`) | constant | the discovery document |

How they interact: `main` reads the configuration and then the key file it names,
and builds everything else from them. `/authorize` reads the registry and the user
header and puts a signed code in a redirect. The client brings the code to `/token`,
which reads the registry again, writes the set of consumed codes, then the records,
and answers with tokens. `/userinfo` verifies an access token and reads its record.
Relying parties verify ID tokens with the documents of discovery and `/jwks`.
Nothing is persisted: a restart empties the store, while the keys that validate
codes and tokens stay in the configuration. The shipped deployment runs two
replicas, each with a store of its own.

What is hard: requests with the same code that pass all checks at the same time;
a failure or a panic between consuming a code and answering; codes and tokens that
outlive the process, the configuration or the clock setting under which they were
made; replicas that do not share what they have consumed and recorded; files that
are edited between two steps of a start, and replicas started from different ones;
escaped separators in a text that comes from a certificate. `PROJECT.json` lists
these hazards at their lines.

What makes the components correct:

- flow and store: a code becomes tokens at most once; only a request that passes
  every check uses a code up; what was answered can be looked up; a call of the
  store takes effect at once;
- code: tokens say what one issued code says, to a client that proved it holds
  the verifier; the running configuration, not the one at issue, decides;
- issuer and `/userinfo`: an answer is about the token presented, or a refusal; a
  relying party's verdict does not depend on which replica it asked;
- users: the subject is the certificate's attribute and nobody else's, the groups are
  those configured;
- discovery: the document agrees with the tokens and with the routes;
- router and startup: every request is answered; a host comes back once its files are good.

## Modules

| Module | Models |
|---|---|
| `Option` | Rust's `Option` |
| `Users` | `extract_dn_attribute` over a DN already cut in RDNs, `resolve_groups` |
| `ClientRegistry` | `ClientRegistry` |
| `AuthorizationCode` | `src/oidc/code/` and `code_replay_key`, with symbolic cryptography |
| `JwtIssuer` | `JwtIssuer`: its construction, `kid` and JWKS, issuing and verifying tokens |
| `AuthCodeFlow` | the handlers over all of the above, in processes that can be restarted, and the properties |
| `OneTimeGrant` | the abstract promise of the token endpoint |
| `TokenStore` | the abstract promise of the trait `TokenStore`: every call in one step |
| `InMemoryTokenStore` | its implementation, step by step under the two locks |
| `DnParser` | `split_rdns` and the loop of `extract_dn_attribute` over characters |
| `ProxyHeader` | `DnParser` composed with certificates and a proxy that writes RFC 4514 text |
| `Discovery` | `discovery.rs` and `endpoints.rs` |
| `ServerConfig` | `config.rs` and `hex_to_32_bytes` |
| `Deployment` | `main` and the two document handlers over `Discovery`, `ServerConfig`, `JwtIssuer` and `ClientRegistry`: processes, files, relying parties |
| `AuthCodeFlow_proofs` | theorems: types, one-time use, refinement, what a step may never do |
| `AuthCodeFlow_grants` | theorems: what is granted, what the store knows, what `/userinfo` answers, which groups a code carries |
| `InMemoryTokenStore_proofs`, `DnParser_proofs`, `ProxyHeader_proofs`, `Deployment_proofs` | theorems about these modules |
| `SequenceLemmas` | what these proofs need of naturals and sequences: induction, least elements, concatenation, subsequences, flattening |
| `MCAuthCodeFlow`, `MCProxyHeader`, `MCDeployment` | instances: configurations, files, request menus, symmetry sets |

### `AuthCodeFlow`

`config[s]`, `consumed[s]` and `records[s]` are the `AppState` and the two maps
of process `s`; `clock[s]` is `SystemTime::now()` on its host; `epoch[s]` counts
its restarts. A worker is a request in flight: `pc[w]` is where its handler is,
`task[w]` its local variables, `reply[w]` its last response. `codes` is the set of
signed codes that redirects have carried to clients, `granted` the history of the
token endpoint's successful answers, each with the process, its epoch and its
configuration.

| Action | Code |
|---|---|
| `ReceiveAuthorize`, `ReceiveToken`, `ReceiveUserinfo` | a request arrives. Any client may present any text of any code that was handed out, such a code with its MAC broken, or no code; and any token that was returned. This covers lost responses, repeated, late and reordered requests |
| `authorize_handler` | the whole handler, all errors included |
| `VerifyCode` | `token_handler` and `access_token_request` up to the replay check |
| `ConsumeCode` | `consume_code` and the refusal of a replay |
| `SignIdToken`, `SignAccessToken`, `SigningFails` | the two JWTs, and the error path of each |
| `RecordToken` | `TokenStore::issue` |
| `RecordPanics` | `now() + ttl` beyond the range of `SystemTime`: the connection closes without a response |
| `SendTokens` | the response with both tokens, from which moment the client can use them |
| `VerifyBearer`, `LookupToken` | the two halves of `userinfo_handler` |
| `SetClock` | the wall clock of a host runs or is set, forwards or backwards |
| `Restart` | the process ends with its requests; `main` runs again with any accepted configuration |

A step extends to the next access to the store, reading of the clock or response; that an
access is one step is what `StoreRefinement` below justifies. Handlers have no await
point after extraction, so a client that disconnects does not cut one short; only
the end of the process or a panic does.

### `InMemoryTokenStore`

`maps` are the two hash maps, `guards[m]` who holds which guard of the lock of `m`,
`call[t]`, `step[t]` and `found[t]` the call of thread `t`, how far it is and what its
search has found. `Acquire` is `RwLock::read` or `write`, `Search` and `Update` the
two halves of the map operation, `Release` the end of the guard's scope.
A lock is never poisoned: nothing between lock and unlock panics.

### `DnParser` and `ProxyHeader`

`i`, `start` and `parts` are the variables of `split_rdns`, its loop body the actions
`Escape`, `Cut` and `Skip`; `LastPart` is the push after the loop. `Malformed`,
`Match` and `OtherAttribute` are the body of the loop over the parts, `Exhausted` its
end. `trim` takes away spaces and tabs, the white space that `HeaderValue::to_str` lets
through. `ProxyHeader` adds where the text comes from: either the RFC 4514 text of a
certificate (its RDNs from last to first, with the characters escaped that section 2.4
names, among which tabs are not), or anything at all.

### `Deployment`

`phase[s]` says how far `main` has come and `app[s]` what it has built. `LoadConfig`
reads the configuration and the HMAC key, `BuildState` and `BuildFails` the key file,
the registry and the issuer, `Bind` and `BindFails` end the start; a failed `LoadConfig`
leaves a process as down as it was. `EditConfig` and `EditKey` happen between any two
of these steps; `Kill` ends a process. `discovery_handler`, `jwks_handler` and `SignIn`
(the ID token of an exchange at `/token`, for one fixed user) give a relying party what it verifies ID tokens with.

Abstractions. Keys, identifiers and texts are opaque except where a module is about
their form. A MAC is the key it was made with; BLAKE3 and SHA-256 have no collisions;
a v4 UUID is new. In `AuthCodeFlow` a DN is the sequence of its RDNs, which
`SubjectIsExact` justifies. Scopes and groups are sequences. The OAuth `state` is
echoed. A URL is its origin, of a special scheme, another one with a host, or one
without, and the tokens after it; a configuration file is the
record it denotes. Descriptions of errors, headers and status codes are left out: the
status is a function of the error code. Time stands still in `Deployment`; expiry is
`AuthCodeFlow`'s. Definitions marked in a comment as a mistake for the properties to
notice are no part of the model: they are the mutants listed in `PROJECT.json`.

## Runs

Bounds of `AuthCodeFlow`: `MaxTime` (clock readings `0..MaxTime`), `MaxEpoch` (restarts
per process), `MaxCodes` (distinct codes handed out), and the number of `Jtis` (token
requests that get past receipt). A request that a bound leaves no room for is not
received, so that a bound never stops a handler half way. In `requests` a bound of its own
(`RequestsSpec`) keeps the requests of every kind and the second process apart.
`MaxSystemTime` is no bound but the range of `SystemTime`. `Deployment` bounds the kills (`MaxKills`) and the files;
`ProxyHeader` the length of headers (`MaxLength`) and values (`MaxValue`) and the RDNs of
a certificate (`MaxRdns`); `InMemoryTokenStore` nothing but its sets.

| Run | Instance | Distinct states | Shows |
|---|---|---|---|
| `concurrent` | 1 process, 2 workers, 1 code in 2 texts, right and wrong secret, an ordinary and an overlarge TTL, 1 restart, 2 token identifiers | 33,932 | `TypeOK`; `RedeemedOncePerProcess`; `ReturnedTokensKnown`; `BurnedForGood`; `RefusalsBurnNothing`; `ImplementsOneTimeGrant`; under fairness `RequestsDrain` |
| `requests` | 1 process, 1 worker, 13 authorization and 13 token requests covering every branch, a configuration with overlapping and one with repeated groups, clock `0..2` with codes of age 2; or 2 processes with one worker and a restart each, asked the ordinary | 149,647 | `GrantsFollowCode`, `GroupsExact`, `UserinfoExact` |
| `reconfigured` | 1 process, 1 worker, 8 configurations (one of them refused at startup), 1 restart, clock `0..2`, 2 grants | 1,168,326 | `GrantsUnderRunningConfig`, `ReplayNeedsSharedKey` |
| `store` | 3 threads, 2 keys, all four operations on both maps | 227,664 | `FoundIsCurrent`, `ImplementsTokenStore`, under fairness `CallsDrain` |
| `headers` | every header of up to 5 of 7 characters; every certificate of up to 2 RDNs with values of up to 3 characters, separators and escapes in some and tabs, spaces and number signs in others | 2,399,671 | `CutsExact`, `SubjectExact`, `SubjectFromCertificate`, `SubjectIdentifiesValue` |
| `replica_documents` | 2 replicas, 4 issuer texts, 2 signing keys, 1 relying party, 1 kill | 178,256 | `AcceptedAcrossReplicas` |
| `recovery` | 2 processes that compete for one address; 16 files: issuers of every kind, and one file for each way in which `main` refuses one; 1 kill; keys of 2 bytes | 49,728 | `TypeOK`, `KeyFollowsText`, `IssuerExact`, `EndpointsServed`, under fairness `ServiceRecovers` |

Why the bounds are enough: two requests are enough for a race on one key, and two
texts and a restart allow more than one redemption of a code. A reader, a writer and
a third thread show every order of a lock's owners. Five characters hold a separator,
an escape of an escape and an attribute; for longer texts there is the proof. Two
bytes of a key tell a pair of digits from its neighbour. A restart inside
`code_max_age`, and one after it, fit the three clock readings.
`headers` does not check for deadlock, since a parse ends; the others do.

Runs that end in a violation compare a sentence of the repository with what the
code does; `PROJECT.json` quotes each sentence.

| Run | Sentence | What happens |
|---|---|---|
| `replay_after_restart` | codes are one-time use | redeemed, restarted, redeemed again under the same HMAC key; two replicas redeem it once each |
| `tokens_after_restart` | issued access tokens remain valid | `/userinfo` does not know the `jti` |
| `issuer_mismatch` | `iss` and the discovery `issuer` match exactly; query and fragment of the issuer are preserved | a slash that ends the query is in the claim and not in the document |
| `replay_respelled` | a consumed code cannot be replayed | the MAC covers the decoded data and the replay key the text: another text of the same code is redeemed again, by the same process |
| `duplicate_groups` | the groups are de-duplicated | what `default_groups` repeats stays repeated |

The passing properties do not speak of these cases: `RedeemedOncePerProcess` is about one
text, `GroupsExact` says nothing of order and number of groups when `default_groups`
repeats one, and `IssuerExact` does not compare iss and document when a query or a
fragment ends in a slash.

More disagreements, with no run of their own:

- `client.rs:62-63` says PKCE authenticates public clients. A public client that sends no
  challenge gets tokens with neither a secret nor a verifier; `router.rs:56-58` says as much
  (`GrantsFollowCode` asks for a verifier only of codes with a challenge).
- `main.rs:26` and `README.md:127` ask for hex characters. `from_str_radix` also takes a plus
  sign as the first of a pair, and `main` starts; `KeyFollowsText` is about texts of hex
  digits.
- `router.rs:274-276` says a malformed Basic header will be rejected as
  `invalid_client`; it is ignored and the body decides (`token_handler`'s
  credentials in `AuthCodeFlow`).
- An issuer with a path is accepted, but its document is not served at its well-known
  location, unless the issuer is the URL of the document itself with a query or a
  fragment that takes up the suffix (`EndpointsServed`).

And one thing that is no disagreement but worth knowing: a name in a certificate that
has a tab behind it is the same subject as the name without it, since a proxy leaves the
tab as it is and `trim` takes it away. A space behind a name is escaped and tells the two
apart (`SubjectIdentifiesValue`).

Symmetry: token identifiers (`reconfigured`, `requests`), servers and signing keys
(`replica_documents`) are interchangeable in `Init`, `Next` and every property of these
runs, which check safety only.

Fairness:

- `AuthCodeFlow`: weak fairness of each worker's steps that take no lock (`Compute`): the
  runtime polls an accepted request to completion. Of the steps that take a lock, weak
  fairness of some worker's of the process: `ConsumeCode` for the consumed codes,
  `UseRecords` for the records. A lock that is free and wanted is taken by someone, and
  `std::sync::RwLock` does not say by whom. So a request may be passed over while others keep
  coming, and `RequestsDrain` speaks of the time after the last new request. Nothing is
  assumed of clients, clocks or restarts.
- `InMemoryTokenStore`: whoever holds a guard proceeds; a lock that can be taken is
  taken by some thread that waits for it. The standard library promises no order, so
  nothing is assumed of a particular thread, and `CallsDrain` speaks of the time after
  the last new call.
- `Deployment`: weak fairness of each process's `Start`. The supervisor starts what has
  ended (`deploy/deployment.yaml` is a Deployment, whose pods are always restarted), and `main` waits for nothing.
  `ServiceRecovers` supposes that the files stay good from some time on; the kills are
  bounded.

## Proofs

The theorems hold for all constants that satisfy the named assumptions of the modules,
which TLC evaluates on the instances of the runs:

- `FlowAssumption` and `RecordAssumption`: workers belong to processes; the bounds and
  the lifetimes of codes and access tokens are naturals; clients and groups are lists;
  `None` is neither an error code, a token identifier, an HMAC key nor a record.
- `StoreAssumption`: `None` is no entry, call or answer.
- `ParserAssumption`, `HeaderAssumption`: texts are sequences of characters; an attribute
  type holds no separator and no white space, as RFC 4514 has it; values hold anything.
- `DeploymentAssumption`: normalising an origin twice is normalising it once, and keeps
  the kind of the scheme; a file has the fields of `Config`, each of its type or absent.

| Theorem | States |
|---|---|
| `TypeCorrect` | `Spec => []TypeOK` |
| `RedeemedOnce` | `Spec => []RedeemedOncePerProcess` |
| `Refinement` | `Spec => ImplementsOneTimeGrant` |
| `BurnedStaysBurned` | `Spec => BurnedForGood` |
| `RefusalsAreHarmless` | `Spec => RefusalsBurnNothing` |
| `GrantsFollow` | `Spec => []GrantsFollowCode` |
| `RunningConfigDecides` | `Spec => []GrantsUnderRunningConfig` |
| `ReplayBounded` | `Spec => []ReplayNeedsSharedKey` |
| `TokensKnown` | `Spec => []ReturnedTokensKnown` |
| `UserinfoAnswers` | `Spec => UserinfoExact` |
| `GroupsAreExact` | `Spec => []GroupsExact` |
| `FoundStaysCurrent` | `Spec => []FoundIsCurrent` of the store |
| `StoreRefinement` | `Spec => ImplementsTokenStore` of the store |
| `CutsAreExact` | `Spec => []CutsExact` of the parser |
| `SubjectIsExact` | `Spec => []SubjectExact` of the parser |
| `ReadBehindProxy` | `HeaderSpec => [](CutsExact /\ SubjectExact)` |
| `SubjectIsCertified` | `HeaderSpec => []SubjectFromCertificate` |
| `SubjectsDiffer` | `HeaderSpec => []SubjectIdentifiesValue` |
| `IssuersAreExact` | `Spec => []IssuerExact` of the deployment |
| `ReplicasAgree` | `Spec => []AcceptedAcrossReplicas` of the deployment |
| `DeploymentTypes` | `Spec => []TypeOK` of the deployment |
| `KeysFollowTexts` | `Spec => []KeyFollowsText` of the deployment |
| `EndpointsAreServed` | `Spec => []EndpointsServed` of the deployment |

Few of the properties are inductive as they stand. The invariants behind them:

- `OneRedeemer`, for `RedeemedOnce`: the key of a request past `consume_code` is in
  the store, is held by no other request of the process and has been answered by
  none, and the keys answered in this life of the process are in the store. Most
  actions leave all of that alone (`QuietSteps`); `ConsumeCode`, `SendTokens` and
  `Restart` have a lemma each. The same facts give `BurnedStaysBurned`.
- `FreshJtis`, for `Refinement`: the identifier is new when the tokens are sent, although
  it was drawn two steps earlier. A `SendTokens` step is a `Grant` of the abstract
  specification, every other step a stutter.
- `Unanswered`, for `RefusalsAreHarmless`: a request that is being served has no
  response yet, so that a response is the work of the step at hand.
- `Provenance`, for the theorems about grants: what `VerifyCode` established holds of
  the exchange at every later stage and of the grant, although the clock moves and
  other processes restart in between; each token says what the code says from the
  moment it is signed. `ReplayBounded` then follows from `RedeemedOnce`: equal texts
  have equal MACs, hence the two configurations have equal keys.
- `StoreExact`, for `TokensKnown`: the records of a process are those of the grants of
  its present life and of the requests that are about to be answered, no fewer and no
  more. It needs `FreshJtis` (no record is
  overwritten) and the bound on epochs in `OneRedeemer` (a restart forgets exactly
  the grants of the life it ends).
- `BearersReturned`, for `UserinfoAnswers`: a token that verified was returned by some
  process. By `FreshJtis` the record under its identifier cannot be another's.
- `StoreInv`, for the store: a call between lock and unlock holds its guard, and a write
  guard is the only guard of its map; hence nobody writes between a search and its
  update. `Update` is then the step of the abstract store, every other step a stutter
  of its maps.
- `ScanInv`, for `CutsAreExact`: `split_rdns` always stands behind an even number of
  backslashes, the parts adjoin and end at the unescaped commas before it. The lemmas
  on runs of backslashes carry the parity over a step of one or two characters.
- `ExtractInv`, for `SubjectIsExact`: the parts passed so far are neither malformed nor the
  attribute, so that the part which decides the loop is the first that does.
- `Merged`, for `GroupsAreExact`: after each turn of the loop in `resolve_groups` the list
  has the defaults in front and behind them each addition so far that is no default,
  once. `LoopDefined` shows that the recursive function is what its turns say.
- `CertificateInv`, for `SubjectIsCertified`: the text of a value is a sequence of units, of
  one character or of a backslash and one (`ValueText`), the text of a certificate a
  layout of keys, `=` signs, such units and commas (`CertificateText`). `split_rdns` moves
  from one unit to the next (`UnitStep`), so a comma it cuts at is one the proxy wrote
  between two RDNs, and every part is one RDN (`RdnOfPart`); `extract` has passed only
  RDNs of other names.
- For `SubjectsDiffer`: trimming takes the unescaped white space at the ends (what is left
  is `Bare`) and nothing else from the text of a value but the space of an escape at its
  end (`BareText`), so that what is left can be read unit by unit (`BareReading`). Two
  values with one trimmed text are read in step (`InStep`), and neither is longer than
  the other (`NoLonger`).
- `DeploymentInv`, for the deployment: how far `main` has come says what a process has
  (`Reached`); what it has built, and what a party holds, is determined by an accepted
  issuer text and a key, and these are recorded with it. `CanonicalRest` and
  `IssuerOfDocument` compare the text with what parsing and canonicalising make of it;
  `KeyOfText` ties each byte of a key to its pair of digits; `WellKnownFound` follows the
  suffix through appending, parsing and cutting off query and fragment.

Arguments over data of any length (lists of groups, certificates, values) use `Induction` of
`SequenceLemmas`, which has a set in the place of a predicate and rests on the least
element of a set of naturals; recursive functions and `FlattenSeq` are first shown to
satisfy their equations (`LoopDefined`, `FlattenDefined`).

Only model-checked: liveness (`RequestsDrain`, `CallsDrain`, `ServiceRecovers`), which
is outside the prover's reach. The proofs are about the bounded specifications, for
every value of their bounds.

## Not modelled

- Query and form extraction by axum, HTTP status codes, JSON and URL formatting.
- The syntax of TOML, PEM, base64 and JWTs; dot segments and percent encoding in URLs.
- Characters of more than one byte: a header value has none, and a byte of one is no
  hex digit.
- RDNs of several attributes, joined by plus signs: `extract_dn_attribute` knows none
  (`users/mod.rs:27-29`) and takes one for a single attribute with a longer value.
- Removal of expired entries: the program has none, and the store grows while it runs.
  No document states a limit that a property could compare this with.
- Manifests, integration tests and end-to-end tests: no program code. Their two
  replicas, rollouts and restart policy are the instances and the fairness above.

## Plan

Written so far, in this order: the flow and its proofs, the store and its refinement,
the parser, the deployment, and the proofs about these. Left:

1. One module in which the flow's handlers call `InMemoryTokenStore` itself, instead of
   through `StoreRefinement`.
2. Replicas with skewed clocks: the leeway of access tokens where the clock of the
   second replica is behind.
3. Theorems that tie modules together: the accepted configurations of `Deployment` as the
   `StartConfigs` of `AuthCodeFlow`.
