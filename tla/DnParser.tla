------------------------------ MODULE DnParser ------------------------------
(***************************************************************************)
(* src/users/mod.rs: how the value of the proxy header becomes a subject.  *)
(* split_rdns scans the text once and cuts it at the commas that are not   *)
(* escaped; extract_dn_attribute then goes through the parts.  A text is a *)
(* sequence of characters, a part the pair of its first and last position. *)
(* (Header values are ASCII, and no byte of a longer character is a comma  *)
(* or a backslash: positions are those of the bytes.)                      *)
(***************************************************************************)
EXTENDS Integers, Users

CONSTANTS
    Chars,          \* the characters of texts, those with a meaning by name
    upper,          \* [Chars -> Chars]: to_uppercase
    Headers,        \* header values to parse
    dn_attribute    \* the configured attribute, a text

ASSUME ParserAssumption ==
    /\ upper \in [Chars -> Chars]
    /\ Headers \subseteq Seq(Chars)
    /\ dn_attribute \in Seq(Chars)
    /\ None \notin Seq(Chars)

VARIABLES
    dn,         \* the text
    i,          \* split_rdns: the position it looks at
    start,      \* split_rdns: where the current part begins
    parts,      \* split_rdns: the parts so far
    n,          \* extract_dn_attribute: the part it looks at
    pc,         \* "split", "extract" or "done"
    result      \* Ok(value) or an error, None before

vars == <<dn, i, start, parts, n, pc, result>>

Ok(value) == [ok |-> value]
InvalidDn == [error |-> "InvalidDn"]
AttributeNotFound == [error |-> "AttributeNotFound"]

\* What str::trim takes for white space and HeaderValue::to_str lets through:
\* the space and the horizontal tab.
Whitespace == {"space", "tab"}

\* A mistake for the properties to notice: backslashes at the ends go too.
trim_backslashes(s) ==
    LET solid == {j \in 1 .. Len(s) : s[j] \notin Whitespace \cup {"backslash"}}
    IN IF solid = {} THEN <<>> ELSE SubSeq(s, Min(solid), Max(solid))

\* str::trim.
trim(s) ==
    LET solid == {j \in 1 .. Len(s) : s[j] \notin Whitespace}
    IN IF solid = {} THEN <<>> ELSE SubSeq(s, Min(solid), Max(solid))

to_uppercase(s) == [j \in 1 .. Len(s) |-> upper[s[j]]]

\* A mistake for the properties to notice: an RDN is split at its last '='.
rdn_rsplit(s) ==
    LET t == trim(s)
        eq == SelectLastInSeq(t, LAMBDA ch : ch = "equals")
    IN IF eq = 0 THEN None
       ELSE [key   |-> to_uppercase(trim(SubSeq(t, 1, eq - 1))),
             value |-> trim(SubSeq(t, eq + 1, Len(t)))]

\* One RDN of Users: the trimmed text split at its first '=', key and value
\* trimmed again; None if it has no '='.
rdn(s) ==
    LET t == trim(s)
        eq == SelectInSeq(t, LAMBDA ch : ch = "equals")
    IN IF eq = 0 THEN None
       ELSE [key   |-> to_uppercase(trim(SubSeq(t, 1, eq - 1))),
             value |-> trim(SubSeq(t, eq + 1, Len(t)))]

Rdn(part) == rdn(SubSeq(dn, part[1], part[2]))

-----------------------------------------------------------------------------

Start(text) ==
    /\ dn = text
    /\ i = 1
    /\ start = 1
    /\ parts = <<>>
    /\ n = 1
    /\ pc = "split"
    /\ result = None

Init == \E text \in Headers : Start(text)

\* A mistake for the properties to notice: only commas can be escaped, so that
\* the second of two backslashes hides the comma after them.
escapes_comma(j) == dn[j] = "backslash" /\ j < Len(dn) /\ dn[j + 1] = "comma"

\* A backslash takes the next character with it, if there is one.
escapes(j) == dn[j] = "backslash" /\ j < Len(dn)

Escape ==
    /\ pc = "split"
    /\ i <= Len(dn)
    /\ escapes(i)
    /\ i' = i + 2
    /\ UNCHANGED <<dn, start, parts, n, pc, result>>

Cut ==
    /\ pc = "split"
    /\ i <= Len(dn)
    /\ dn[i] = "comma"
    /\ parts' = Append(parts, <<start, i - 1>>)
    /\ start' = i + 1
    /\ i' = i + 1
    /\ UNCHANGED <<dn, n, pc, result>>

\* Any other character, and a backslash at the very end.
Skip ==
    /\ pc = "split"
    /\ i <= Len(dn)
    /\ dn[i] # "comma" /\ ~escapes(i)
    /\ i' = i + 1
    /\ UNCHANGED <<dn, start, parts, n, pc, result>>

LastPart ==
    /\ pc = "split"
    /\ i > Len(dn)
    /\ parts' = Append(parts, <<start, Len(dn)>>)
    /\ pc' = "extract"
    /\ UNCHANGED <<dn, i, start, n, result>>

Finish(r) ==
    /\ result' = r
    /\ pc' = "done"
    /\ UNCHANGED <<dn, i, start, parts, n>>

Malformed ==
    /\ pc = "extract"
    /\ n <= Len(parts)
    /\ Rdn(parts[n]) = None
    /\ Finish(InvalidDn)

Match ==
    /\ pc = "extract"
    /\ n <= Len(parts)
    /\ Rdn(parts[n]) # None
    /\ Rdn(parts[n]).key = to_uppercase(dn_attribute)
    /\ Finish(Ok(Rdn(parts[n]).value))

\* A mistake for the properties to notice: a malformed RDN is passed over.
OtherAttributeLax ==
    /\ pc = "extract"
    /\ n <= Len(parts)
    /\ Rdn(parts[n]) # None => Rdn(parts[n]).key # to_uppercase(dn_attribute)
    /\ n' = n + 1
    /\ UNCHANGED <<dn, i, start, parts, pc, result>>

OtherAttribute ==
    /\ pc = "extract"
    /\ n <= Len(parts)
    /\ Rdn(parts[n]) # None
    /\ Rdn(parts[n]).key # to_uppercase(dn_attribute)
    /\ n' = n + 1
    /\ UNCHANGED <<dn, i, start, parts, pc, result>>

Exhausted ==
    /\ pc = "extract"
    /\ n > Len(parts)
    /\ Finish(AttributeNotFound)

split_rdns == Escape \/ Cut \/ Skip \/ LastPart
extract == Malformed \/ Match \/ OtherAttribute \/ Exhausted
Next == split_rdns \/ extract

Spec == Init /\ [][Next]_vars

-----------------------------------------------------------------------------
(* Correctness *)

\* The backslashes in front of position j begin at k: k .. j-1 holds only
\* backslashes, and none comes before.
RunBefore(j, k) ==
    /\ k \in 1 .. j
    /\ \A l \in k .. j - 1 : dn[l] = "backslash"
    /\ k = 1 \/ dn[k - 1] # "backslash"

\* The character at j is escaped: an odd number of backslashes precedes it.
Escaped(j) == \E k \in 1 .. j : RunBefore(j, k) /\ (j - k) % 2 = 1

Commas == {j \in 1 .. Len(dn) : dn[j] = "comma" /\ ~Escaped(j)}

\* The scan that jumps over escaped characters cuts the text exactly at the
\* commas that an even number of backslashes precedes, loses nothing and
\* leaves no part out, empty ones included.
CutsExact ==
    pc # "split" =>
        /\ Len(parts) > 0
        /\ parts[1][1] = 1
        /\ parts[Len(parts)][2] = Len(dn)
        /\ \A k \in 1 .. Len(parts) - 1 : parts[k + 1][1] = parts[k][2] + 2
        /\ {parts[k][2] + 1 : k \in 1 .. Len(parts) - 1} = Commas

\* The outcome is the one that Users, and with it the flow, takes the parser
\* to have on the RDNs of the text: the first RDN that is malformed or names
\* the attribute decides.
SubjectExact ==
    pc = "done" =>
        LET subject == extract_dn_attribute(
                           [k \in 1 .. Len(parts) |-> Rdn(parts[k])],
                           to_uppercase(dn_attribute))
        IN IF subject = None THEN result \in {InvalidDn, AttributeNotFound}
           ELSE result = Ok(subject)

=============================================================================
