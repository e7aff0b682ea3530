---------------------------- MODULE OneTimeGrant ----------------------------
(***************************************************************************)
(* What the token endpoint promises about replay, without any of its       *)
(* machinery: within one life of a token store (a store is forgotten when  *)
(* its process restarts), a code is turned into tokens at most once, and   *)
(* no two answers carry the same token identifier.                         *)
(***************************************************************************)
CONSTANTS Stores, Keys, Jtis

VARIABLE grants     \* the answers so far: [store, key, jti]

Init == grants = {}

Grant(store, key, jti) ==
    /\ \A g \in grants : /\ g.jti # jti
                         /\ g.store = store => g.key # key
    /\ grants' = grants \cup {[store |-> store, key |-> key, jti |-> jti]}

Next == \E store \in Stores, key \in Keys, jti \in Jtis : Grant(store, key, jti)

Spec == Init /\ [][Next]_grants

=============================================================================
