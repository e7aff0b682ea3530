---------------------- MODULE InMemoryTokenStore_proofs ---------------------
(***************************************************************************)
(* The hash maps under their locks implement TokenStore, for any number of *)
(* threads and keys.                                                       *)
(***************************************************************************)
EXTENDS InMemoryTokenStore, TLAPS

Entries == Payloads \cup {None, Unit}

\* What is in the maps, and what each thread has.
StoreTypeOK ==
    /\ maps \in [Maps -> [Strings -> Entries]]
    /\ guards \in [Maps -> SUBSET (Threads \X {"read", "write"})]
    /\ call \in [Threads -> Calls \cup {None}]
    /\ step \in [Threads -> Steps]
    /\ found \in [Threads -> Entries]
    /\ DOMAIN answer = Threads

\* A call is in progress from its invocation to its release, and has its
\* answer from the update on.
Progress(t) ==
    /\ step[t] = "idle" <=> call[t] = None
    /\ step[t] # "release" => answer[t] = None
    /\ step[t] = "release" => answer[t] # None

\* Who has passed `Acquire' has the guard of the call, and a write guard is
\* the only guard of its map.
Exclusion(t) ==
    step[t] \in Holding =>
        /\ <<t, guard_of(call[t])>> \in guards[map_of(call[t])]
        /\ \A g \in guards[map_of(call[t])] :
               g[1] # t => g[2] = "read" /\ guard_of(call[t]) = "read"

\* The inductive invariant.
StoreInv ==
    /\ StoreTypeOK
    /\ \A t \in Threads : Progress(t) /\ Exclusion(t)
    /\ FoundIsCurrent

-----------------------------------------------------------------------------

\* A call has a map, a key of it and a guard.
LEMMA CallFacts ==
    ASSUME NEW c \in Calls
    PROVE  /\ map_of(c) \in Maps
           /\ c.key \in Strings
           /\ guard_of(c) \in {"read", "write"}
           /\ c # None
           /\ c.op \in {"issue", "lookup", "revoke", "consume_code"}
           /\ c.op = "issue" => c.payload \in Payloads
  BY StoreAssumption DEF Calls, map_of, guard_of, Maps

\* What a call leaves in the map is an entry, and its answer is not None.
LEMMA UpdateFacts ==
    ASSUME NEW c \in Calls, NEW old \in Entries
    PROVE  /\ stored(c, old) \in Entries
           /\ [value |-> returned(c, old)] # None
  <1>1. CASE c.op = "issue"
    BY <1>1, StoreAssumption, CallFacts DEF stored, returned, Entries
  <1>2. CASE c.op = "lookup"
    <2>1. old \in Payloads \cup {None} \/ old = Unit
      BY DEF Entries
    <2> QED  BY <1>2, <2>1, StoreAssumption DEF stored, returned
  <1>3. CASE c.op = "revoke"
    <2>1. (old # None) \in BOOLEAN
      OBVIOUS
    <2> QED  BY <1>3, <2>1, StoreAssumption DEF stored, returned, Entries
  <1>4. CASE c.op = "consume_code"
    <2>1. (old = None) \in BOOLEAN
      OBVIOUS
    <2> QED  BY <1>4, <2>1, StoreAssumption DEF stored, returned, Entries
  <1> QED  BY <1>1, <1>2, <1>3, <1>4, CallFacts

LEMMA StoreInitInv == Init => StoreInv
  BY StoreAssumption DEF Init, StoreInv, StoreTypeOK, Progress, Exclusion,
     FoundIsCurrent, Holding, Steps, Entries

LEMMA InvokeInv ==
    ASSUME StoreInv, NEW t \in Threads, Invoke(t)
    PROVE  StoreInv'
  BY CallFacts DEF StoreInv, StoreTypeOK, Progress, Exclusion, FoundIsCurrent,
     Invoke, Goto, Holding, Steps

\* Acquire: everybody else who holds a guard of the map reads, as t then does.
LEMMA AcquireInv ==
    ASSUME StoreInv, NEW t \in Threads, Acquire(t)
    PROVE  StoreInv'
  <1> USE DEF StoreInv
  <1>1. call[t] \in Calls /\ step[t] = "lock"
    BY DEF Acquire, Progress, StoreTypeOK
  <1>2. StoreTypeOK'
    BY <1>1, CallFacts DEF Acquire, StoreTypeOK, Goto, Steps, Holding
  <1>3. ASSUME NEW u \in Threads PROVE Progress(u)'
    BY <1>1 DEF Acquire, Progress, Goto, StoreTypeOK, Steps
  <1>4. ASSUME NEW u \in Threads PROVE Exclusion(u)'
    <2> DEFINE m == map_of(call[t])
               mode == guard_of(call[t])
    <2>1. /\ guards' = [guards EXCEPT ![m] = @ \cup {<<t, mode>>}]
          /\ m \in Maps
          /\ UNCHANGED call
          /\ step' = [step EXCEPT ![t] = "search"]
          /\ \A g \in guards[m] : mode = "read" /\ g[2] = "read"
      BY <1>1, CallFacts DEF Acquire, Goto
    <2> HIDE DEF m, mode
    <2>2. CASE u = t
      BY <1>1, <2>1, <2>2 DEF Exclusion, StoreTypeOK, m, mode
    <2>3. CASE u # t
      <3>1. SUFFICES ASSUME step[u] \in Holding
                     PROVE  Exclusion(u)'
        BY <2>1, <2>3 DEF Exclusion, StoreTypeOK
      <3>2. call[u] \in Calls
        BY <3>1 DEF Progress, StoreTypeOK, Holding
      <3>3. map_of(call[u]) \in Maps
        BY <3>2, CallFacts
      <3>4. Exclusion(u)
        OBVIOUS
      <3>5. <<u, guard_of(call[u])>> \in guards[map_of(call[u])]
        BY <3>1, <3>4 DEF Exclusion
      <3>6. CASE map_of(call[u]) = m
        <4>1. mode = "read" /\ guard_of(call[u]) = "read"
          BY <2>1, <3>5, <3>6
        <4>2. guards'[m] = guards[m] \cup {<<t, mode>>}
          BY <2>1 DEF StoreTypeOK
        <4> QED  BY <2>1, <3>1, <3>4, <3>5, <3>6, <4>1, <4>2 DEF Exclusion
      <3>7. CASE map_of(call[u]) # m
        BY <2>1, <3>1, <3>3, <3>4, <3>7 DEF Exclusion, StoreTypeOK
      <3> QED  BY <3>6, <3>7
    <2> QED  BY <2>2, <2>3
  <1>5. FoundIsCurrent'
    BY <1>1 DEF Acquire, FoundIsCurrent, Goto, StoreTypeOK
  <1> QED  BY <1>2, <1>3, <1>4, <1>5

LEMMA SearchInv ==
    ASSUME StoreInv, NEW t \in Threads, Search(t)
    PROVE  StoreInv'
  <1> USE DEF StoreInv
  <1>1. call[t] \in Calls /\ step[t] = "search"
    BY DEF Search, Progress, StoreTypeOK
  <1>2. maps[map_of(call[t])][call[t].key] \in Entries
    BY <1>1, CallFacts DEF StoreTypeOK
  <1>3. StoreTypeOK'
    BY <1>1, <1>2 DEF Search, StoreTypeOK, Goto, Steps, Holding
  <1>4. \A u \in Threads : Progress(u)'
    BY <1>1 DEF Search, Progress, Goto, StoreTypeOK
  <1>5. \A u \in Threads : Exclusion(u)'
    BY <1>1 DEF Search, Exclusion, Goto, StoreTypeOK, Holding
  <1>6. FoundIsCurrent'
    BY <1>1 DEF Search, FoundIsCurrent, Goto, StoreTypeOK
  <1> QED  BY <1>3, <1>4, <1>5, <1>6

\* Update: a writer changes the entry of its key under a write guard, so that
\* nobody else stands between search and update on that map; a reader leaves
\* the entry as it found it.
LEMMA UpdateInv ==
    ASSUME StoreInv, NEW t \in Threads, Update(t)
    PROVE  StoreInv'
  <1> USE DEF StoreInv
  <1> DEFINE c == call[t]
             m == map_of(c)
             new == stored(c, found[t])
  <1>1. c \in Calls /\ step[t] = "update"
    BY DEF Update, Progress, StoreTypeOK
  <1>2. /\ m \in Maps
        /\ c.key \in Strings
        /\ new \in Entries
        /\ [value |-> returned(c, found[t])] # None
    BY <1>1, CallFacts, UpdateFacts DEF StoreTypeOK
  <1>3. /\ maps' = [maps EXCEPT ![m][c.key] = new]
        /\ answer' = [answer EXCEPT ![t] = [value |-> returned(c, found[t])]]
        /\ step' = [step EXCEPT ![t] = "release"]
        /\ UNCHANGED <<guards, call, found>>
    BY DEF Update, Goto
  <1>4. StoreTypeOK'
    <2> HIDE DEF c, m, new
    <2>1. maps' \in [Maps -> [Strings -> Entries]]
      BY <1>2, <1>3 DEF StoreTypeOK
    <2> QED  BY <1>3, <2>1 DEF StoreTypeOK, Steps, Holding
  <1>5. \A u \in Threads : Progress(u)'
    BY <1>1, <1>2, <1>3, CallFacts DEF Progress, StoreTypeOK
  <1>6. \A u \in Threads : Exclusion(u)'
    BY <1>1, <1>3 DEF Exclusion, StoreTypeOK, Holding
  <1>7. FoundIsCurrent'
    <2>1. SUFFICES ASSUME NEW u \in Threads, step[u] = "update", u # t
                   PROVE  found[u] = maps'[map_of(call[u])][call[u].key]
      BY <1>3 DEF FoundIsCurrent, StoreTypeOK
    <2>2. found[u] = maps[map_of(call[u])][call[u].key]
      BY <2>1 DEF FoundIsCurrent
    <2>3. call[u] \in Calls
      BY <2>1 DEF Progress, StoreTypeOK
    <2>4. map_of(call[u]) \in Maps /\ call[u].key \in Strings
      BY <2>3, CallFacts
    <2>5. CASE map_of(call[u]) = m
      <3>1. <<u, guard_of(call[u])>> \in guards[m]
        BY <2>1, <2>5 DEF Exclusion, Holding
      <3>2. guard_of(c) = "read"
        BY <1>1, <2>1, <3>1 DEF Exclusion, Holding
      <3>3. c.op = "lookup"
        BY <3>2 DEF guard_of
      <3>4. new = maps[m][c.key]
        BY <1>1, <3>3 DEF stored, FoundIsCurrent
      <3>5. maps' = maps
        <4> HIDE DEF c, m, new
        <4> QED  BY <1>2, <1>3, <3>4 DEF StoreTypeOK
      <3> QED  BY <2>2, <3>5
    <2>6. CASE map_of(call[u]) # m
      <3> HIDE DEF c, m, new
      <3> QED  BY <1>2, <1>3, <2>2, <2>4, <2>6 DEF StoreTypeOK
    <2> QED  BY <2>5, <2>6
  <1> QED  BY <1>4, <1>5, <1>6, <1>7

LEMMA ReleaseInv ==
    ASSUME StoreInv, NEW t \in Threads, Release(t)
    PROVE  StoreInv'
  <1> USE DEF StoreInv
  <1>1. call[t] \in Calls /\ step[t] = "release"
    BY DEF Release, Progress, StoreTypeOK
  <1>2. StoreTypeOK'
    BY <1>1, CallFacts DEF Release, StoreTypeOK, Goto, Steps, Entries
  <1>3. \A u \in Threads : Progress(u)'
    BY <1>1 DEF Release, Progress, Goto, StoreTypeOK
  <1>4. ASSUME NEW u \in Threads PROVE Exclusion(u)'
    <2>1. CASE u = t
      BY <2>1, <1>1 DEF Release, Exclusion, Goto, Holding, StoreTypeOK
    <2>2. CASE u # t
      <3>1. /\ guards' = [guards EXCEPT ![map_of(call[t])] =
                             @ \ {<<t, guard_of(call[t])>>}]
            /\ call'[u] = call[u]
            /\ step'[u] = step[u]
            /\ map_of(call[t]) \in Maps
        BY <1>1, <2>2, CallFacts DEF Release, Goto, StoreTypeOK
      <3>2. SUFFICES ASSUME step[u] \in Holding
                     PROVE  Exclusion(u)'
        BY <3>1 DEF Exclusion
      <3>3. map_of(call[u]) \in Maps
        <4>1. call[u] \in Calls
          BY <3>2 DEF Progress, StoreTypeOK, Holding
        <4> QED  BY <4>1, CallFacts
      <3>4. guards'[map_of(call[u])] \subseteq guards[map_of(call[u])]
        BY <3>1, <3>3 DEF StoreTypeOK
      <3>5. <<u, guard_of(call[u])>> \in guards'[map_of(call[u])]
        BY <2>2, <3>1, <3>2, <3>3 DEF StoreTypeOK, Exclusion
      <3> QED  BY <3>1, <3>2, <3>4, <3>5 DEF Exclusion
    <2> QED  BY <2>1, <2>2
  <1>5. FoundIsCurrent'
    BY <1>1 DEF Release, FoundIsCurrent, Goto, StoreTypeOK
  <1> QED  BY <1>2, <1>3, <1>4, <1>5

LEMMA StoreStepInv == StoreInv /\ [Next]_vars => StoreInv'
  <1>1. ASSUME StoreInv, NEW t \in Threads,
               Invoke(t) \/ Acquire(t) \/ Proceed(t)
        PROVE  StoreInv'
    BY <1>1, InvokeInv, AcquireInv, SearchInv, UpdateInv, ReleaseInv DEF Proceed
  <1>2. ASSUME StoreInv, UNCHANGED vars
        PROVE  StoreInv'
    BY <1>2 DEF vars, StoreInv, StoreTypeOK, Progress, Exclusion, FoundIsCurrent
  <1> QED  BY <1>1, <1>2 DEF Next

LEMMA StoreInvariant == Spec => []StoreInv
  BY StoreInitInv, StoreStepInv, PTL DEF Spec

\* What a thread found is still in the map when it acts on it, for any number
\* of threads: the guards make search and update one (storage.rs, all four
\* operations).
THEOREM FoundStaysCurrent == Spec => []FoundIsCurrent
  BY StoreInvariant, PTL DEF StoreInv

-----------------------------------------------------------------------------
(* The refinement *)

\* The consumed codes, as the promise sees them.
ConsumedCodes == {k \in Strings : maps["consumed_codes"][k] # None}

\* Update is the moment at which a call takes effect.
LEMMA UpdatePerforms ==
    ASSUME StoreInv, NEW t \in Threads, Update(t)
    PROVE  Trait!Perform(t)
  <1> USE DEF StoreInv
  <1> DEFINE c == call[t]
             old == maps[map_of(c)][c.key]
  <1>1. c \in Calls /\ step[t] = "update" /\ found[t] = old
    BY DEF Update, Progress, StoreTypeOK, FoundIsCurrent
  <1>2. /\ maps' = [maps EXCEPT ![map_of(c)][c.key] = stored(c, old)]
        /\ answer' = [answer EXCEPT ![t] = [value |-> returned(c, old)]]
        /\ UNCHANGED call
    BY <1>1 DEF Update
  <1>3. /\ "records" \in Maps /\ "consumed_codes" \in Maps
        /\ maps["records"] \in [Strings -> Entries]
        /\ maps["consumed_codes"] \in [Strings -> Entries]
        /\ c.key \in Strings
        /\ c # None
        /\ answer[t] = None
    BY <1>1, CallFacts DEF StoreTypeOK, Maps, Progress
  <1> HIDE DEF c
  <1>4. CASE c.op = "issue"
    <2>1. /\ maps' = [maps EXCEPT !["records"][c.key] = c.payload]
          /\ answer' = [answer EXCEPT ![t] = [value |-> "()"]]
      BY <1>2, <1>4 DEF map_of, stored, returned, Unit
    <2>2. /\ maps'["records"] = [maps["records"] EXCEPT ![c.key] = c.payload]
          /\ maps'["consumed_codes"] = maps["consumed_codes"]
      BY <1>3, <2>1 DEF StoreTypeOK
    <2>3. Trait!issue(t)
      BY <1>2, <1>4, <2>1, <2>2 DEF Trait!issue, Trait!Answers, c
    <2> QED  BY <1>2, <1>3, <2>3 DEF Trait!Perform, c
  <1>5. CASE c.op = "lookup"
    <2>1. /\ maps' = [maps EXCEPT !["records"][c.key] = maps["records"][c.key]]
          /\ answer' = [answer EXCEPT ![t] = [value |-> maps["records"][c.key]]]
      BY <1>2, <1>5 DEF map_of, stored, returned
    <2>2. maps' = maps
      BY <1>3, <2>1 DEF StoreTypeOK
    <2>3. Trait!lookup(t)
      BY <1>2, <1>5, <2>1, <2>2 DEF Trait!lookup, Trait!Answers, c
    <2> QED  BY <1>2, <1>3, <2>3 DEF Trait!Perform, c
  <1>6. CASE c.op = "revoke"
    <2>1. /\ maps' = [maps EXCEPT !["records"][c.key] = None]
          /\ answer' = [answer EXCEPT ![t] =
                           [value |-> maps["records"][c.key] # None]]
      BY <1>2, <1>6 DEF map_of, stored, returned
    <2>2. /\ maps'["records"] = [maps["records"] EXCEPT ![c.key] = None]
          /\ maps'["consumed_codes"] = maps["consumed_codes"]
      BY <1>3, <2>1 DEF StoreTypeOK
    <2>3. Trait!revoke(t)
      BY <1>2, <1>6, <2>1, <2>2 DEF Trait!revoke, Trait!Answers, c
    <2> QED  BY <1>2, <1>3, <2>3 DEF Trait!Perform, c
  <1>7. CASE c.op = "consume_code"
    <2>1. /\ maps' = [maps EXCEPT !["consumed_codes"][c.key] = Unit]
          /\ answer' = [answer EXCEPT ![t] =
                           [value |-> maps["consumed_codes"][c.key] = None]]
      BY <1>2, <1>7 DEF map_of, stored, returned
    <2>2. /\ maps'["records"] = maps["records"]
          /\ maps'["consumed_codes"] =
                 [maps["consumed_codes"] EXCEPT ![c.key] = Unit]
      BY <1>3, <2>1 DEF StoreTypeOK
    <2>3. ConsumedCodes' = ConsumedCodes \cup {c.key}
      BY <1>3, <2>2, StoreAssumption DEF ConsumedCodes
    <2>4. (maps["consumed_codes"][c.key] = None) <=> c.key \notin ConsumedCodes
      BY <1>3 DEF ConsumedCodes
    <2>5. Trait!consume_code(t)
      BY <1>2, <1>7, <2>1, <2>2, <2>3, <2>4
         DEF Trait!consume_code, Trait!Answers, c, ConsumedCodes
    <2> QED  BY <1>2, <1>3, <2>5 DEF Trait!Perform, c
  <1> QED  BY <1>1, <1>4, <1>5, <1>6, <1>7, CallFacts DEF c

LEMMA TraitInit == Init => Trait!Init
  BY DEF Init, Trait!Init, Maps

LEMMA TraitStep == StoreInv /\ [Next]_vars => [Trait!Next]_(Trait!vars)
  <1> SUFFICES ASSUME StoreInv, [Next]_vars
               PROVE  [Trait!Next]_(Trait!vars)
    OBVIOUS
  <1>1. ASSUME NEW t \in Threads, Invoke(t)
        PROVE  Trait!Invoke(t)
    BY <1>1 DEF StoreInv, Progress, Invoke, Trait!Invoke, Calls, Trait!Calls
  <1>2. ASSUME NEW t \in Threads, Acquire(t) \/ Search(t)
        PROVE  UNCHANGED Trait!vars
    BY <1>2 DEF Acquire, Search, Trait!vars
  <1>3. ASSUME NEW t \in Threads, Update(t)
        PROVE  Trait!Perform(t)
    BY <1>3, UpdatePerforms
  <1>4. ASSUME NEW t \in Threads, Release(t)
        PROVE  Trait!Return(t)
    BY <1>4 DEF StoreInv, Progress, Release, Trait!Return
  <1>5. CASE UNCHANGED vars
    BY <1>5 DEF vars, Trait!vars
  <1> QED
    BY <1>1, <1>2, <1>3, <1>4, <1>5 DEF Next, Proceed, Trait!Next

\* InMemoryTokenStore implements trait TokenStore: for any number of threads
\* each of its calls takes effect at once, so that consume_code is the atomic
\* test-and-set which access_token_request takes it for.
THEOREM StoreRefinement == Spec => ImplementsTokenStore
  <1>1. Spec => []StoreInv
    BY StoreInvariant
  <1> QED
    BY <1>1, TraitInit, TraitStep, PTL DEF Spec, ImplementsTokenStore, Trait!Spec

=============================================================================
