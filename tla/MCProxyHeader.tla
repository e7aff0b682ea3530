---------------------------- MODULE MCProxyHeader ---------------------------
(***************************************************************************)
(* ProxyHeader for TLC: certificates of up to two RDNs, whose values hold  *)
(* everything the parser gives a meaning to, and every short text.         *)
(***************************************************************************)
EXTENDS ProxyHeader

MaxValue == 3       \* bound: characters of a value
MaxLength == 5      \* bound: characters of a header of another origin
MCChars == {"backslash", "comma", "equals", "space", "tab", "hash", "C", "c"}
MCupper == [ch \in MCChars |-> IF ch = "c" THEN "C" ELSE ch]
MCHeaders == BoundedSeq(MCChars \ {"hash"}, MaxLength)
MCAttribute == <<"c">>
MCKeys == {<<"c">>, <<"C", "C">>}
MCValues ==
    BoundedSeq({"backslash", "comma", "equals", "space", "C"}, MaxValue)
        \cup BoundedSeq({"space", "tab", "hash"}, MaxValue)

=============================================================================
