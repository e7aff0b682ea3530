------------------------- MODULE InMemoryTokenStore -------------------------
(***************************************************************************)
(* InMemoryTokenStore (src/oidc/storage.rs): two hash maps, each behind a  *)
(* std::sync::RwLock, shared by the threads of the runtime.  A call takes  *)
(* the lock of its map, searches the map for the key, copies, writes or    *)
(* removes the entry, and drops the guard as it returns.  No call takes a  *)
(* second lock, and none panics while it holds one, so that no lock is     *)
(* ever poisoned and `unwrap' passes.                                      *)
(***************************************************************************)
EXTENDS Option

CONSTANTS Threads, Strings, Payloads

Maps == {"records", "consumed_codes"}
Unit == "()"

Calls ==
    [op : {"issue"}, key : Strings, payload : Payloads]
        \cup [op : {"lookup", "revoke", "consume_code"}, key : Strings]

\* None is neither an entry, nor a call, nor an answer.
ASSUME StoreAssumption ==
    /\ None \notin Payloads
    /\ None # Unit
    /\ None \notin Calls
    /\ \A v \in Payloads \cup {None} : None # [value |-> v]
    /\ \A v \in BOOLEAN : None # [value |-> v]
    /\ None # [value |-> Unit]

\* The map a call is about.
map_of(c) == IF c.op = "consume_code" THEN "consumed_codes" ELSE "records"

\* The guard it takes.
guard_of(c) == IF c.op = "lookup" THEN "read" ELSE "write"

\* What it leaves under its key where the map had `old'.
stored(c, old) ==
    CASE c.op = "issue"        -> c.payload
      [] c.op = "revoke"       -> None
      [] c.op = "consume_code" -> Unit
      [] OTHER                 -> old

\* A mistake for the properties to notice: the first use of a code is told
\* that it is not the first.
returned_is_some(c, old) ==
    CASE c.op = "issue"                       -> Unit
      [] c.op = "lookup"                      -> old
      [] c.op \in {"revoke", "consume_code"} -> old # None

\* What the call returns: issue nothing, lookup a clone of the entry, revoke
\* whether there was one, consume_code whether there was none.
returned(c, old) ==
    CASE c.op = "issue"        -> Unit
      [] c.op = "lookup"       -> old
      [] c.op = "revoke"       -> old # None
      [] c.op = "consume_code" -> old = None

VARIABLES
    maps,       \* [Maps -> [Strings -> entry or None]]
    guards,     \* [Maps -> SUBSET (Threads \X {"read", "write"})]
    call,       \* [Threads -> Calls \cup {None}]: the call in progress
    step,       \* [Threads -> Steps]: how far it is
    found,      \* [Threads -> entry or None]: what the search has found
    answer      \* [Threads -> ...]: the [value] to return, None before

vars == <<maps, guards, call, step, found, answer>>

Holding == {"search", "update", "release"}
Steps == {"idle", "lock"} \cup Holding

-----------------------------------------------------------------------------

\* InMemoryTokenStore::new.
Init ==
    /\ maps = [m \in Maps |-> [k \in Strings |-> None]]
    /\ guards = [m \in Maps |-> {}]
    /\ call = [t \in Threads |-> None]
    /\ step = [t \in Threads |-> "idle"]
    /\ found = [t \in Threads |-> None]
    /\ answer = [t \in Threads |-> None]

Goto(t, to) == step' = [step EXCEPT ![t] = to]

Invoke(t) ==
    /\ step[t] = "idle"
    /\ \E c \in Calls : call' = [call EXCEPT ![t] = c]
    /\ Goto(t, "lock")
    /\ UNCHANGED <<maps, guards, found, answer>>

\* A mistake for the properties to notice: a writer does not wait for readers.
AcquireShared(t) ==
    LET m == map_of(call[t])
    IN /\ step[t] = "lock"
       /\ guards' = [guards EXCEPT ![m] = @ \cup {<<t, guard_of(call[t])>>}]
       /\ \A g \in guards[m] : g[2] = "read"
       /\ Goto(t, "search")
       /\ UNCHANGED <<maps, call, found, answer>>

\* RwLock: write() waits until there is no guard, read() until there is no
\* write guard.
Acquire(t) ==
    LET m == map_of(call[t])
        mode == guard_of(call[t])
    IN /\ step[t] = "lock"
       /\ \A g \in guards[m] : mode = "read" /\ g[2] = "read"
       /\ guards' = [guards EXCEPT ![m] = @ \cup {<<t, mode>>}]
       /\ Goto(t, "search")
       /\ UNCHANGED <<maps, call, found, answer>>

Search(t) ==
    /\ step[t] = "search"
    /\ found' = [found EXCEPT ![t] = maps[map_of(call[t])][call[t].key]]
    /\ Goto(t, "update")
    /\ UNCHANGED <<maps, guards, call, answer>>

\* A mistake for the properties to notice: a writer waits, lock in hand, for
\* the key to be free.
UpdateRetrying(t) ==
    LET c == call[t]
        busy == c.op # "lookup" /\ found[t] # None
    IN /\ step[t] = "update"
       /\ Goto(t, IF busy THEN "search" ELSE "release")
       /\ busy => UNCHANGED <<maps, answer>>
       /\ ~busy =>
              /\ maps' = [maps EXCEPT ![map_of(c)][c.key] = stored(c, found[t])]
              /\ answer' = [answer EXCEPT ![t] =
                                [value |-> returned(c, found[t])]]
       /\ UNCHANGED <<guards, call, found>>

Update(t) ==
    LET c == call[t]
    IN /\ step[t] = "update"
       /\ maps' = [maps EXCEPT ![map_of(c)][c.key] = stored(c, found[t])]
       /\ answer' = [answer EXCEPT ![t] = [value |-> returned(c, found[t])]]
       /\ Goto(t, "release")
       /\ UNCHANGED <<guards, call, found>>

\* The guard goes out of scope and the call returns its answer.
Release(t) ==
    /\ step[t] = "release"
    /\ guards' = [guards EXCEPT ![map_of(call[t])] =
                     @ \ {<<t, guard_of(call[t])>>}]
    /\ call' = [call EXCEPT ![t] = None]
    /\ found' = [found EXCEPT ![t] = None]
    /\ answer' = [answer EXCEPT ![t] = None]
    /\ Goto(t, "idle")
    /\ UNCHANGED maps

Proceed(t) == Search(t) \/ Update(t) \/ Release(t)

Next == \E t \in Threads : Invoke(t) \/ Acquire(t) \/ Proceed(t)

Spec == Init /\ [][Next]_vars

\* The standard library leaves open in which order waiting threads get a lock:
\* all it gives is that a lock which can be taken is taken by one of them.
\* Whoever holds a guard keeps running.
FairSpec ==
    /\ Spec
    /\ \A m \in Maps :
           WF_vars(\E t \in Threads : step[t] = "lock" /\ map_of(call[t]) = m
                                      /\ Acquire(t))
    /\ \A t \in Threads : WF_vars(Proceed(t))

-----------------------------------------------------------------------------
(* Correctness *)

\* What a thread has found under its key is still there when it acts on it:
\* the guard that consume_code, revoke, issue and lookup keep from the search
\* to the update keeps every writer of that map out, so test and insert are
\* one.  (This is the reason why of two requests only one redeems a code.)
FoundIsCurrent ==
    \A t \in Threads :
        step[t] = "update" => found[t] = maps[map_of(call[t])][call[t].key]

\* The locked hash maps implement the trait: each call takes effect at once,
\* in its Update step.  A consumed code is a key of the second map.
Trait == INSTANCE TokenStore WITH
    records <- maps["records"],
    consumed <- {k \in Strings : maps["consumed_codes"][k] # None}
ImplementsTokenStore == Trait!Spec

\* Nobody waits for ever on anybody: once no new calls arrive, every call that
\* is waiting for a lock or holding one returns.  (While calls keep coming, a
\* waiting writer can be passed over; RwLock promises no order.)
CallsDrain ==
    <>[][\A t \in Threads : ~Invoke(t)]_vars
        => \A t \in Threads : step[t] # "idle" ~> step[t] = "idle"

=============================================================================
