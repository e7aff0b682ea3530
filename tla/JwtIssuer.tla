------------------------------ MODULE JwtIssuer -----------------------------
(***************************************************************************)
(* src/oidc/token.rs: the RS256 tokens.  A token is the record of its      *)
(* claims with the kid of its header and the key that signed it; `type'    *)
(* stands for the set of claims it has, which is what deserialisation into *)
(* AccessTokenClaims tells apart.  Keys are symbols: an RSA public key is  *)
(* named by its private key.                                               *)
(***************************************************************************)
EXTENDS Integers, Option

CONSTANT Leeway     \* validation.leeway, in clock units

\* The state of a JwtIssuer.  The kid is a hash of the public key, so that it
\* is the same in every process and every life of one that has the key.
kid_of(key) == [sha256 |-> key]

\* A mistake for the properties to notice: header and JWKS name the key by
\* different hashes.
from_private_key_two_kids(key, issuer) ==
    [issuer |-> issuer, key |-> key, kid |-> kid_of(key),
     jwk |-> [kid |-> [sha1 |-> key], n |-> key]]

from_private_key(key, issuer) ==
    [issuer |-> issuer, key |-> key, kid |-> kid_of(key),
     jwk |-> [kid |-> kid_of(key), n |-> key]]

\* The JWKS document: the one public key of the process.
get_jwks(jwt) == {jwt.jwk}

issue_id_token(jwt, subject, audience, groups, nonce, ttl, now) ==
    [type   |-> "id",
     kid    |-> jwt.kid,
     key    |-> jwt.key,
     iss    |-> jwt.issuer,
     sub    |-> subject,
     aud    |-> audience,
     exp    |-> now + ttl,
     iat    |-> now,
     nonce  |-> nonce,
     groups |-> groups]

issue_access_token(jwt, subject, client_id, groups, scope, jti, ttl, now) ==
    [type      |-> "access",
     kid       |-> jwt.kid,
     key       |-> jwt.key,
     iss       |-> jwt.issuer,
     sub       |-> subject,
     aud       |-> jwt.issuer,
     exp       |-> now + ttl,
     iat       |-> now,
     jti       |-> jti,
     scope     |-> scope,
     groups    |-> groups,
     client_id |-> client_id]

\* The token's claims, or None.  A token is expired when exp lies before
\* now - leeway; an ID token lacks claims that AccessTokenClaims requires.
verify_access_token(jwt, token, now) ==
    IF /\ token # None
       /\ token.type = "access"
       /\ token.key = jwt.key
       /\ token.iss = jwt.issuer
       /\ token.aud = jwt.issuer
       /\ token.exp >= now - Leeway
    THEN token
    ELSE None

\* What makes an ID token good for its audience.  `issuer' and `key' are those
\* of the verifier.
verify_id_token(issuer, key, token, expected_audience, now) ==
    /\ token.type = "id"
    /\ token.key = key
    /\ token.iss = issuer
    /\ token.aud = expected_audience
    /\ token.exp >= now - Leeway

=============================================================================
