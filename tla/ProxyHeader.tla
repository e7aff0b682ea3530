----------------------------- MODULE ProxyHeader ----------------------------
(***************************************************************************)
(* The parser behind a proxy that does what the documentation asks of it:  *)
(* the header is the subject of a client certificate in the string form of *)
(* RFC 4514.  The certificate, a sequence of [key, value], and the proxy   *)
(* are external; the values are what a user can have put in a certificate. *)
(* A header that stems from no certificate (None) is any of Headers.       *)
(* Left out: RDNs of several attributes, which the text joins with plus    *)
(* signs and which the parser takes for one attribute with a longer value. *)
(***************************************************************************)
EXTENDS DnParser

CONSTANTS Keys, Values, MaxRdns     \* bound: RDNs of a certificate

\* RFC 4514, section 2.3: the text of an attribute type is a short name or an
\* OID, letters, digits, hyphens and dots.  A value may hold any character.
ASSUME HeaderAssumption ==
    /\ {"comma", "backslash", "equals"} \subseteq Chars
    /\ Keys \subseteq
           Seq(Chars \ ({"comma", "backslash", "equals"} \cup Whitespace))
    /\ Values \subseteq Seq(Chars)
    /\ MaxRdns \in Nat
    /\ None \notin [key : Seq(Chars), value : Seq(Chars)]

VARIABLE certificate

Certificates == BoundedSeq([key : Keys, value : Values], MaxRdns) \ {<<>>}

\* RFC 4514, section 2.4: these are escaped wherever they stand, a space at
\* either end of the value, and a number sign at its beginning.
Special == {"comma", "backslash", "plus", "semicolon", "less", "greater", "quote"}
Quoted(v, j) ==
    \/ v[j] \in Special
    \/ v[j] = "space" /\ j \in {1, Len(v)}
    \/ v[j] = "hash" /\ j = 1

\* The text of a character of a value, and of the value.
encode_char(v, j) == IF Quoted(v, j) THEN <<"backslash", v[j]>> ELSE <<v[j]>>
encode_value(v) == FlattenSeq([j \in 1 .. Len(v) |-> encode_char(v, j)])

\* The RDNs in the order of the text, separated by commas.
encode_rdn(c, j) ==
    (IF j = 1 THEN <<>> ELSE <<"comma">>)
        \o c[j].key \o <<"equals">> \o encode_value(c[j].value)
encode(c) == FlattenSeq([j \in 1 .. Len(c) |-> encode_rdn(c, j)])

\* RFC 4514, section 2.1: the text begins with the last RDN.
TextOrder == Reverse(certificate)

HeaderInit ==
    \/ /\ certificate \in Certificates
       /\ Start(encode(TextOrder))
    \/ /\ certificate = None
       /\ Init

HeaderSpec ==
    HeaderInit /\ [][Next /\ UNCHANGED certificate]_<<vars, certificate>>

-----------------------------------------------------------------------------

\* The RDN that ought to name the user: the certificate's last attribute of
\* the configured name, which is the first of the text.
Named ==
    SelectInSeq(TextOrder,
                LAMBDA a : to_uppercase(a.key) = to_uppercase(dn_attribute))

\* Nothing that stands inside a value is taken for an RDN of its own: the
\* subject is (the trimmed text of) the value of the certificate's last
\* attribute of the configured name, whatever the other values contain, and
\* a certificate without that attribute names nobody.
SubjectFromCertificate ==
    (pc = "done" /\ certificate # None) =>
        result = IF Named = 0 THEN AttributeNotFound
                 ELSE Ok(trim(encode_value(TextOrder[Named].value)))

\* A value without the white space at its ends that stands there unescaped (a
\* tab, and a space beyond a tab), for trim to take away.
Bare(v) ==
    LET solid == {j \in 1 .. Len(v) : v[j] \notin Whitespace \/ Quoted(v, j)}
    IN IF solid = {} THEN <<>> ELSE SubSeq(v, Min(solid), Max(solid))

\* Users whose names differ in more than white space at the ends are never the
\* same subject: no other value of the attribute has the text that was
\* extracted, although the text is not unescaped and an escaped space at its
\* end is trimmed to a lone backslash.  A name with a tab behind it is the
\* same subject as the name; one with a space behind it is not.
SubjectIdentifiesValue ==
    (pc = "done" /\ certificate # None /\ Named # 0) =>
        \A v \in Values :
            result = Ok(trim(encode_value(v))) =>
                Bare(v) = Bare(TextOrder[Named].value)

=============================================================================
