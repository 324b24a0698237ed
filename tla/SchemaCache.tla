----------------------------- MODULE SchemaCache -----------------------------
(***************************************************************************)
(* The table schemas of Advanced Hunting (SchemaCache of hunting/mod.rs    *)
(* and hunting_schema of server.rs): a cache all calls share.              *)
(*                                                                         *)
(* Calls are tokio tasks and interleave; nothing keeps two fetches of one  *)
(* table apart, and the cache's mutex is not held over a fetch.  Microsoft *)
(* Graph is external.                                                      *)
(***************************************************************************)
EXTENDS Integers

CONSTANTS
    Call,          \* the schema calls that can be in progress at once
    Table,         \* table names that pass is_table_name
    TTL,           \* SCHEMA_TTL, in ticks
    MaxLatency,    \* ticks between Graph's reading and the receipt
    MaxTime        \* bound on the clock

ASSUME CacheAssumption ==
    /\ TTL \in Nat \ {0}
    /\ MaxLatency \in Nat
    /\ MaxTime \in Nat

VARIABLES
    now,     \* the monotonic clock, in ticks
    cache,   \* the entry of each table, or NoEntry
    fetch,   \* what each call has asked Graph for, or NoFetch
    answer   \* what each call was answered, until it is made again

vars == <<now, cache, fetch, answer>>

-----------------------------------------------------------------------------

\* Of a schema all that matters is which table it is of, and when Graph read it.
Schema == [table : Table, readAt : Nat]

Entry == [at : Nat, schema : Schema]

NoEntry == [at |-> "never"]

NoFetch == [state |-> "none"]

Fetch ==
    {NoFetch}
        \cup [state : {"sent"}, table : Table]
        \cup [state : {"read"}, table : Table, schema : Schema]

NoAnswer == [kind |-> "none"]

Answer ==
    {NoAnswer, [kind |-> "error"]}
        \cup [kind : {"schema"}, asked : Table, schema : Schema, at : Nat]

TypeOK ==
    /\ now \in Nat
    /\ cache \in [Table -> Entry \cup {NoEntry}]
    /\ fetch \in [Call -> Fetch]
    /\ answer \in [Call -> Answer]

Init ==
    /\ now = 0
    /\ cache = [t \in Table |-> NoEntry]
    /\ fetch = [c \in Call |-> NoFetch]
    /\ answer = [c \in Call |-> NoAnswer]

-----------------------------------------------------------------------------

Fresh(entry) == entry # NoEntry /\ now - entry.at < TTL

\* put drops what has expired and counts from the receipt.
Put(t, schema) ==
    cache' = [u \in Table |->
                IF u = t THEN [at |-> now, schema |-> schema]
                ELSE IF Fresh(cache[u]) THEN cache[u] ELSE NoEntry]

Give(c, a) == answer' = [answer EXCEPT ![c] = a]

GiveSchema(c, t, schema) ==
    Give(c, [kind |-> "schema", asked |-> t, schema |-> schema, at |-> now])

\* Mutant: an entry that is served starts its hour again.
HitRenews(c, t) ==
    /\ fetch[c] = NoFetch
    /\ Fresh(cache[t])
    /\ GiveSchema(c, t, cache[t].schema)
    /\ Put(t, cache[t].schema)
    /\ UNCHANGED <<now, fetch>>

\* A name that is not a table's is a protocol error and changes nothing.
Hit(c, t) ==
    /\ fetch[c] = NoFetch
    /\ Fresh(cache[t])
    /\ GiveSchema(c, t, cache[t].schema)
    /\ UNCHANGED <<now, cache, fetch>>

Miss(c, t) ==
    /\ fetch[c] = NoFetch
    /\ ~Fresh(cache[t])
    /\ fetch' = [fetch EXCEPT ![c] = [state |-> "sent", table |-> t]]
    /\ Give(c, NoAnswer)
    /\ UNCHANGED <<now, cache>>

\* External: Graph reads the columns of the table.
GraphReads(c) ==
    /\ fetch[c].state = "sent"
    /\ fetch' = [fetch EXCEPT ![c] =
                   [state |-> "read", table |-> fetch[c].table,
                    schema |-> [table |-> fetch[c].table, readAt |-> now]]]
    /\ UNCHANGED <<now, cache, answer>>

\* The answer replaces whatever the cache has by now, also if that is newer.
Receive(c) ==
    /\ fetch[c].state = "read"
    /\ Put(fetch[c].table, fetch[c].schema)
    /\ GiveSchema(c, fetch[c].table, fetch[c].schema)
    /\ fetch' = [fetch EXCEPT ![c] = NoFetch]
    /\ UNCHANGED now

\* Mutant: a fetch that fails is sent again.
FetchAgain(c) ==
    /\ fetch[c] # NoFetch
    /\ fetch' = [fetch EXCEPT ![c] =
                   [state |-> "sent", table |-> fetch[c].table]]
    /\ UNCHANGED <<now, cache, answer>>

\* No token, no connection, an error of Graph, or REQUEST_TIMEOUT_SECS pass.
\* Nothing is cached, and what was cached stays.
Fail(c) ==
    /\ fetch[c] # NoFetch
    /\ Give(c, [kind |-> "error"])
    /\ fetch' = [fetch EXCEPT ![c] = NoFetch]
    /\ UNCHANGED <<now, cache>>

\* A schema is received within MaxLatency of its reading.
Tick ==
    /\ now < MaxTime
    /\ \A c \in Call :
         fetch[c].state = "read" => now < fetch[c].schema.readAt + MaxLatency
    /\ now' = now + 1
    /\ UNCHANGED <<cache, fetch, answer>>

Return(c) == Receive(c) \/ Fail(c)

Next ==
    \/ \E c \in Call :
        \/ \E t \in Table : Hit(c, t) \/ Miss(c, t)
        \/ GraphReads(c)
        \/ Return(c)
    \/ Tick

Spec == Init /\ [][Next]_vars

\* tokio polls a call whose answer is there, and the HTTP client's timeout
\* ends every other.  Graph need not answer, and nobody need call.
Fairness == \A c \in Call : WF_vars(Return(c))

FairSpec == Spec /\ Fairness

-----------------------------------------------------------------------------
(***************************************************************************)
(* What the cache promises.                                                *)
(***************************************************************************)

\* "cached in the process for an hour": a schema is of the table asked for and
\* was read from Graph less than the hour, and one request, before it is
\* served: also when the answers of two fetches arrive in the wrong order and
\* the older is what stays in the cache.
SchemaAge ==
    \A c \in Call : answer[c].kind = "schema" =>
        /\ answer[c].schema.table = answer[c].asked
        /\ answer[c].at - answer[c].schema.readAt < TTL + MaxLatency

\* Every call is answered, whether or not Graph ever answers.
FetchEnds == \A c \in Call : fetch[c] # NoFetch ~> fetch[c] = NoFetch
====
