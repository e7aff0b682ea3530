----------------------------- MODULE TokenStore -----------------------------
(***************************************************************************)
(* The promise of trait TokenStore (src/oidc/storage.rs) to its callers:   *)
(* every call takes effect at once, at some moment between the call and    *)
(* its return.  The flow relies on it, above all on consume_code, which    *)
(* "atomically" marks a code and tells the first caller from the others.   *)
(***************************************************************************)
EXTENDS Option

CONSTANTS
    Threads,        \* threads of the runtime that share the store
    Strings,        \* keys: jtis and code keys
    Payloads        \* what a TokenRecord says besides its jti

Calls ==
    [op : {"issue"}, key : Strings, payload : Payloads]
        \cup [op : {"lookup", "revoke", "consume_code"}, key : Strings]

VARIABLES
    records,        \* [Strings -> Payloads \cup {None}]
    consumed,       \* the code keys that were consumed
    call,           \* [Threads -> Calls \cup {None}]: the call in progress
    answer          \* [Threads -> ...]: its [value] once it has taken effect

vars == <<records, consumed, call, answer>>

Init ==
    /\ records = [k \in Strings |-> None]
    /\ consumed = {}
    /\ call = [t \in Threads |-> None]
    /\ answer = [t \in Threads |-> None]

Invoke(t) ==
    /\ call[t] = None
    /\ \E c \in Calls : call' = [call EXCEPT ![t] = c]
    /\ UNCHANGED <<records, consumed, answer>>

Answers(t, v) == answer' = [answer EXCEPT ![t] = [value |-> v]]

issue(t) ==
    /\ call[t].op = "issue"
    /\ records' = [records EXCEPT ![call[t].key] = call[t].payload]
    /\ Answers(t, "()")
    /\ UNCHANGED consumed

lookup(t) ==
    /\ call[t].op = "lookup"
    /\ Answers(t, records[call[t].key])
    /\ UNCHANGED <<records, consumed>>

\* TRUE if a record was removed.
revoke(t) ==
    /\ call[t].op = "revoke"
    /\ records' = [records EXCEPT ![call[t].key] = None]
    /\ Answers(t, records[call[t].key] # None)
    /\ UNCHANGED consumed

\* TRUE if this is the first time the code is consumed.
consume_code(t) ==
    /\ call[t].op = "consume_code"
    /\ consumed' = consumed \cup {call[t].key}
    /\ Answers(t, call[t].key \notin consumed)
    /\ UNCHANGED records

\* The call of t takes effect.
Perform(t) ==
    /\ call[t] # None
    /\ answer[t] = None
    /\ issue(t) \/ lookup(t) \/ revoke(t) \/ consume_code(t)
    /\ UNCHANGED call

Return(t) ==
    /\ answer[t] # None
    /\ call' = [call EXCEPT ![t] = None]
    /\ answer' = [answer EXCEPT ![t] = None]
    /\ UNCHANGED <<records, consumed>>

Next == \E t \in Threads : Invoke(t) \/ Perform(t) \/ Return(t)

Spec == Init /\ [][Next]_vars

=============================================================================
