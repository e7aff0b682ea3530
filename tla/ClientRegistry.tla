--------------------------- MODULE ClientRegistry ---------------------------
(***************************************************************************)
(* src/oidc/client.rs: the clients of the running configuration.       *)
(*                                                                         *)
(* A registry is a sequence of client configurations                       *)
(*   [client_id, client_secret, redirect_uris, groups]                     *)
(* where client_secret is None for a public client and redirect_uris and   *)
(* groups are sequences.                                                   *)
(***************************************************************************)
EXTENDS Sequences, SequencesExt, Option

\* ClientRegistry::new accepts the list: no client_id occurs twice.
registry_ok(clients) ==
    \A i, j \in DOMAIN clients :
        clients[i].client_id = clients[j].client_id => i = j

find_by_id(clients, client_id) ==
    LET i == SelectInSeq(clients, LAMBDA c : c.client_id = client_id)
    IN IF i = 0 THEN None ELSE clients[i]

validate_redirect_uri(clients, client_id, redirect_uri) ==
    LET client == find_by_id(clients, client_id)
    IN /\ client # None
       /\ Contains(client.redirect_uris, redirect_uri)

\* AuthResult::Allow as TRUE.  A public client is allowed whatever it
\* presents; an unknown client is denied.
validate_client_secret(clients, client_id, presented_secret) ==
    LET client == find_by_id(clients, client_id)
    IN /\ client # None
       /\ \/ client.client_secret = None
          \/ client.client_secret = presented_secret

=============================================================================
