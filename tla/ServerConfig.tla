---------------------------- MODULE ServerConfig ----------------------------
(***************************************************************************)
(* src/bin/server/config.rs and hex_to_32_bytes of main.rs: what a process *)
(* reads from its configuration.  The content of config.toml is a record   *)
(* with a value, or None, for every field; None altogether when the file   *)
(* cannot be read or is not TOML.                                          *)
(***************************************************************************)
EXTENDS Integers, Sequences, Functions, Option

CONSTANT KeyBytes       \* 32, the bytes of code_hmac_key

Required ==
    {"issuer", "listen_addr", "code_max_age_seconds", "code_hmac_key",
     "signing_key_path"}

defaults ==
    [user_header |-> "X-Client-Cert-Subject", dn_attribute |-> "CN",
     id_token_ttl_seconds |-> 3600, access_token_ttl_seconds |-> 3600,
     clients |-> <<>>, default_groups |-> <<>>]

\* A mistake for the properties to notice: required fields are optional.
load_unchecked(file) ==
    IF file = None THEN None
    ELSE [field \in DOMAIN file |->
             IF field \in DOMAIN defaults THEN or(file[field], defaults[field])
             ELSE file[field]]

\* Config::load: None when a required field is missing, else the file with the
\* defaults filled in.
load(file) ==
    IF file = None \/ \E field \in Required : file[field] = None THEN None
    ELSE [field \in DOMAIN file |->
             IF field \in DOMAIN defaults THEN or(file[field], defaults[field])
             ELSE file[field]]

-----------------------------------------------------------------------------

Lower == <<"0", "1", "2", "3", "4", "5", "6", "7", "8", "9", "a", "b", "c", "d",
           "e", "f">>
Upper == <<"A", "B", "C", "D", "E", "F">>

\* char::to_digit(16), by the characters that have a value.
to_digit ==
    [ch \in Range(Lower) \cup Range(Upper) |->
        IF ch \in Range(Lower) THEN (CHOOSE d \in 1 .. 16 : Lower[d] = ch) - 1
        ELSE (CHOOSE d \in 1 .. 6 : Upper[d] = ch) + 9]
digit(ch) == IF ch \in DOMAIN to_digit THEN to_digit[ch] ELSE None

\* u8::from_str_radix(ab, 16) of two characters: two digits, or a plus sign
\* and one.
from_str_radix(a, b) ==
    IF digit(b) = None THEN None
    ELSE IF a = "+" THEN digit(b)
    ELSE IF digit(a) = None THEN None
    ELSE 16 * digit(a) + digit(b)

\* A mistake for the properties to notice: the windows overlap.
hex_windows(hex) ==
    LET bytes == [k \in 1 .. KeyBytes |-> from_str_radix(hex[k], hex[k + 1])]
    IN IF Len(hex) # 2 * KeyBytes \/ \E k \in 1 .. KeyBytes : bytes[k] = None
       THEN None ELSE bytes

\* The key, or None, on which main panics.  The text is a sequence of bytes: a
\* byte of a longer character is no digit, and a cut inside one panics too.
hex_to_32_bytes(hex) ==
    LET bytes == [k \in 1 .. KeyBytes |->
                     from_str_radix(hex[2 * k - 1], hex[2 * k])]
    IN IF Len(hex) # 2 * KeyBytes \/ \E k \in 1 .. KeyBytes : bytes[k] = None
       THEN None ELSE bytes

=============================================================================
