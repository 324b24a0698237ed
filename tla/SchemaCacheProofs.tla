-------------------------- MODULE SchemaCacheProofs --------------------------
(***************************************************************************)
(* Proofs about SchemaCache, for any calls, tables, expiry and latency.    *)
(***************************************************************************)
EXTENDS SchemaCache, TLAPS

\* An entry is of its table, and was read no longer than a request before it
\* was put.
CacheInv ==
    \A t \in Table : cache[t] # NoEntry =>
        /\ cache[t].schema.table = t
        /\ cache[t].at <= cache[t].schema.readAt + MaxLatency

\* An answer of Graph that waits to be received is of the table asked for,
\* and is not old.
FetchInv ==
    \A c \in Call : fetch[c].state = "read" =>
        /\ fetch[c].schema.table = fetch[c].table
        /\ now <= fetch[c].schema.readAt + MaxLatency

IInv == TypeOK /\ CacheInv /\ FetchInv /\ SchemaAge

-----------------------------------------------------------------------------

LEMMA EntryType ==
    ASSUME TypeOK, NEW t \in Table, cache[t] # NoEntry
    PROVE  cache[t] \in Entry
  BY DEF TypeOK

LEMMA ReadType ==
    ASSUME TypeOK, NEW c \in Call, fetch[c].state = "read"
    PROVE  fetch[c] \in [state : {"read"}, table : Table, schema : Schema]
  BY DEF TypeOK, Fetch, NoFetch

\* An answer with a schema that is young enough keeps what is promised.
LEMMA GivenSchema ==
    ASSUME IInv, NEW c \in Call, NEW t \in Table, NEW schema \in Schema,
           GiveSchema(c, t, schema), schema.table = t,
           now < TTL + MaxLatency + schema.readAt
    PROVE  /\ answer' \in [Call -> Answer]
           /\ SchemaAge'
  <1> DEFINE given == [kind |-> "schema", asked |-> t, schema |-> schema,
                       at |-> now]
  <1>1. given \in Answer
    BY DEF IInv, TypeOK, Answer
  <1>2. answer' = [answer EXCEPT ![c] = given]
    BY DEF GiveSchema, Give
  <1>3. answer' \in [Call -> Answer]
    BY <1>1, <1>2 DEF IInv, TypeOK
  <1>4. given.at - given.schema.readAt < TTL + MaxLatency
    BY CacheAssumption DEF IInv, TypeOK, Schema
  <1>5. SchemaAge'
    BY <1>2, <1>4 DEF IInv, TypeOK, SchemaAge
  <1>6. QED
    BY <1>3, <1>5

\* An answer without a schema promises nothing.
LEMMA GivenOther ==
    ASSUME IInv, NEW c \in Call, NEW a \in {NoAnswer, [kind |-> "error"]},
           Give(c, a)
    PROVE  /\ answer' \in [Call -> Answer]
           /\ SchemaAge'
  BY DEF Give, IInv, TypeOK, SchemaAge, Answer, NoAnswer

\* What is put keeps the cache's promise.
LEMMA PutKeeps ==
    ASSUME IInv, NEW t \in Table, NEW schema \in Schema, Put(t, schema),
           schema.table = t, now <= schema.readAt + MaxLatency
    PROVE  /\ cache' \in [Table -> Entry \cup {NoEntry}]
           /\ CacheInv'
  <1>1. [at |-> now, schema |-> schema] \in Entry
    BY DEF IInv, TypeOK, Entry
  <1>2. cache' \in [Table -> Entry \cup {NoEntry}]
    BY <1>1 DEF Put, IInv, TypeOK
  <1>3. ASSUME NEW u \in Table, cache'[u] # NoEntry
        PROVE  /\ cache'[u].schema.table = u
               /\ cache'[u].at <= cache'[u].schema.readAt + MaxLatency
    BY <1>3 DEF Put, IInv, CacheInv, TypeOK, Fresh
  <1>4. QED
    BY <1>2, <1>3 DEF CacheInv

LEMMA Step == IInv /\ [Next]_vars => IInv'
  <1> SUFFICES ASSUME IInv, [Next]_vars PROVE IInv'
    OBVIOUS
  <1>1. ASSUME NEW c \in Call, NEW t \in Table, Hit(c, t) PROVE IInv'
    <2>1. /\ cache[t] \in Entry
          /\ cache[t].schema.table = t
          /\ now < TTL + MaxLatency + cache[t].schema.readAt
      BY <1>1, EntryType, CacheAssumption
         DEF Hit, Fresh, IInv, CacheInv, TypeOK, Entry, Schema
    <2>2. answer' \in [Call -> Answer] /\ SchemaAge'
      BY <1>1, <2>1, GivenSchema DEF Hit, Entry
    <2>3. QED
      BY <1>1, <2>2 DEF Hit, IInv, TypeOK, CacheInv, FetchInv
  <1>2. ASSUME NEW c \in Call, NEW t \in Table, Miss(c, t) PROVE IInv'
    <2>1. answer' \in [Call -> Answer] /\ SchemaAge'
      BY <1>2, GivenOther DEF Miss
    <2>2. QED
      BY <1>2, <2>1 DEF Miss, IInv, TypeOK, CacheInv, FetchInv, Fetch
  <1>3. ASSUME NEW c \in Call, GraphReads(c) PROVE IInv'
    <2>1. fetch[c] \in [state : {"sent"}, table : Table]
      BY <1>3 DEF GraphReads, IInv, TypeOK, Fetch, NoFetch
    <2>2. [table |-> fetch[c].table, readAt |-> now] \in Schema
      BY <2>1 DEF IInv, TypeOK, Schema
    <2>3. fetch' \in [Call -> Fetch]
      BY <1>3, <2>1, <2>2 DEF GraphReads, IInv, TypeOK, Fetch
    <2>4. FetchInv'
      BY <1>3, CacheAssumption DEF GraphReads, IInv, TypeOK, FetchInv
    <2>5. QED
      BY <1>3, <2>3, <2>4 DEF GraphReads, IInv, TypeOK, CacheInv, SchemaAge
  <1>4. ASSUME NEW c \in Call, Receive(c) PROVE IInv'
    <2> DEFINE t == fetch[c].table
               schema == fetch[c].schema
    <2>1. /\ t \in Table /\ schema \in Schema /\ schema.table = t
          /\ now <= schema.readAt + MaxLatency
      BY <1>4, ReadType DEF Receive, IInv, FetchInv
    <2>2. now < TTL + MaxLatency + schema.readAt
      BY <2>1, CacheAssumption DEF IInv, TypeOK, Schema
    <2>3. answer' \in [Call -> Answer] /\ SchemaAge'
      BY <1>4, <2>1, <2>2, GivenSchema DEF Receive
    <2>4. cache' \in [Table -> Entry \cup {NoEntry}] /\ CacheInv'
      BY <1>4, <2>1, PutKeeps DEF Receive
    <2>5. QED
      BY <1>4, <2>3, <2>4 DEF Receive, IInv, TypeOK, FetchInv, Fetch, NoFetch
  <1>5. ASSUME NEW c \in Call, Fail(c) PROVE IInv'
    <2>1. answer' \in [Call -> Answer] /\ SchemaAge'
      BY <1>5, GivenOther DEF Fail
    <2>2. QED
      BY <1>5, <2>1 DEF Fail, IInv, TypeOK, CacheInv, FetchInv, Fetch, NoFetch
  <1>6. ASSUME Tick PROVE IInv'
    <2>1. FetchInv'
      BY <1>6, ReadType, CacheAssumption
         DEF Tick, IInv, TypeOK, FetchInv, Schema
    <2>2. QED
      BY <1>6, <2>1 DEF Tick, IInv, TypeOK, CacheInv, SchemaAge
  <1>7. CASE UNCHANGED vars
    BY <1>7 DEF vars, IInv, TypeOK, CacheInv, FetchInv, SchemaAge
  <1>8. QED
    BY <1>1, <1>2, <1>3, <1>4, <1>5, <1>6, <1>7 DEF Next, Return

\* The cache's state is well typed, and its entries and the answers under way
\* are of their tables and not old.
THEOREM Invariance == Spec => []IInv
  <1>1. Init => IInv
    BY DEF Init, IInv, TypeOK, CacheInv, FetchInv, SchemaAge, NoEntry, NoFetch,
           NoAnswer, Fetch, Answer
  <1>2. QED
    BY <1>1, Step, PTL DEF Spec

\* No schema is served that was read an hour and a request or more before, or
\* that is of another table, however many fetches of one table overtake each
\* other.
THEOREM SchemasAreYoung == Spec => []SchemaAge
  <1>1. IInv => SchemaAge
    BY DEF IInv
  <1>2. QED
    BY <1>1, Invariance, PTL
====
