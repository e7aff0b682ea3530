------------------------------- MODULE Users --------------------------------
(***************************************************************************)
(* src/users/mod.rs: who the mTLS proxy says the user is, and which        *)
(* groups the user's tokens carry.                                         *)
(*                                                                         *)
(* A distinguished name is the sequence of its RDNs, as split_rdns cuts    *)
(* the header.  An RDN is [key, value], key trimmed and in upper case and  *)
(* value trimmed; an RDN with no '=' is None.                              *)
(***************************************************************************)
EXTENDS Integers, Sequences, SequencesExt, Option

\* The first RDN that is malformed or carries the attribute decides: a
\* malformed RDN before the attribute is an error even when the attribute
\* follows, one after it is never looked at.  None stands for both errors.
extract_dn_attribute(dn, attribute) ==
    LET i == SelectInSeq(dn, LAMBDA rdn : \/ rdn = None
                                          \/ rdn.key = attribute)
    IN IF i = 0 \/ dn[i] = None THEN None ELSE dn[i].value

\* A mistake for the properties to notice: the lists are concatenated.
resolve_groups_concat(client_groups, default_groups) ==
    default_groups \o client_groups

\* The default groups, in order, followed by the client's groups that are not
\* there yet: result[n] is the list after n turns of the loop.
resolve_groups(client_groups, default_groups) ==
    LET result[n \in 0 .. Len(client_groups)] ==
            IF n = 0 THEN default_groups
            ELSE IF Contains(result[n - 1], client_groups[n]) THEN result[n - 1]
            ELSE Append(result[n - 1], client_groups[n])
    IN result[Len(client_groups)]

=============================================================================
