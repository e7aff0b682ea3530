-------------------------- MODULE AuthorizationCode -------------------------
(***************************************************************************)
(* src/oidc/code/: the stateless, signed authorization code.           *)
(*                                                                         *)
(* Cryptography is symbolic.  A signed code is                             *)
(*   [content, timestamp, mac]                                             *)
(* where mac is the key its BLAKE3 keyed hash was made with (None when no  *)
(* key makes that hash).  The `code' parameter of a request is a text      *)
(*   [signed, spelling]                                                    *)
(* where signed is what the text decodes to (None when it does not decode) *)
(* and spelling tells apart the texts that decode to the same signed code: *)
(* the MAC covers `data' only, not the CBOR container or the base64 text   *)
(* around it, and the CBOR reader accepts more than the one encoding that  *)
(* sign_and_encode writes.                                                 *)
(***************************************************************************)
EXTENDS Integers, Option

CONSTANTS
    S256,        \* the function of a verifier that S256 challenges hold
    Canonical    \* the spelling sign_and_encode writes

\* code_challenge_method = S256 compares base64url(SHA-256(verifier)).
verify_pkce(method, code_challenge, code_verifier) ==
    IF method = "Plain" THEN code_challenge = code_verifier
                        ELSE code_challenge = S256[code_verifier]

\* The timestamp is read from the clock when the code is signed.
sign_and_encode(authorization_code, hmac_key, now) ==
    [signed   |-> [content   |-> authorization_code,
                   timestamp |-> now,
                   mac       |-> hmac_key],
     spelling |-> Canonical]

\* TimestampedContainer::extract: strictly younger than max_age, and not from
\* the future of this clock.
fresh(timestamp, max_age, now) ==
    /\ now >= timestamp
    /\ now - timestamp < max_age

\* A mistake for the properties to notice: the MAC is not compared.
decode_only(encoded, hmac_key, max_age, now) ==
    IF encoded.signed # None /\ fresh(encoded.signed.timestamp, max_age, now)
    THEN encoded.signed.content
    ELSE None

\* The code a text holds, or None for each of the four errors (not base64, not
\* CBOR, wrong MAC, not fresh), all of which become invalid_grant.
decode_and_verify(encoded, hmac_key, max_age, now) ==
    IF /\ encoded.signed # None
       /\ encoded.signed.mac = hmac_key
       /\ fresh(encoded.signed.timestamp, max_age, now)
    THEN encoded.signed.content
    ELSE None

\* Another: a request without a verifier skips PKCE.
validate_token_request_lax(code, client_id, redirect_uri, code_verifier) ==
    /\ code.client_id = client_id
    /\ code.redirect_uri = redirect_uri
    /\ \/ code.code_challenge = None
       \/ code_verifier = None
       \/ verify_pkce(code.code_challenge_method, code.code_challenge,
                      code_verifier)

\* TRUE when the token request matches the code; each of the three errors
\* becomes invalid_grant.  A code without a challenge needs no verifier.
validate_token_request(code, client_id, redirect_uri, code_verifier) ==
    /\ code.client_id = client_id
    /\ code.redirect_uri = redirect_uri
    /\ \/ code.code_challenge = None
       \/ /\ code_verifier # None
          /\ verify_pkce(code.code_challenge_method, code.code_challenge,
                         code_verifier)

\* The key under which a redeemed code is remembered: a digest of the text
\* the client sent, not of the code it decodes to.
code_replay_key(encoded) == [blake3 |-> encoded]

=============================================================================
