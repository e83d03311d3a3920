--------------------------- MODULE SecurityCache ---------------------------
(***************************************************************************)
(* FailClosedDatabaseCache: the bounded table that holds replay claims and *)
(* rate counters, as operators on its rows.  A row is its expiry time; the *)
(* values are of no interest, every caller of add stores True.             *)
(*                                                                         *)
(* Times are ticks of a clock with Second ticks per second.  The table and *)
(* the statements of cache_backends.py know whole seconds only; the get of *)
(* Django's DatabaseCache compares with the clock as it is.                *)
(***************************************************************************)
EXTENDS Integers, FiniteSets

CONSTANTS
    CacheKeys,    \* the keys that callers may store
    Second,       \* ticks per second
    MaxEntries    \* CACHE_MAX_ENTRIES

ASSUME CacheAssumption ==
    Second \in Nat \ {0} /\ MaxEntries \in Nat /\ IsFiniteSet(CacheKeys)

NoRow == 0
Tables == [CacheKeys -> Nat]

\* replace(microsecond=0)
WholeSecond(t) == Second * (t \div Second)

Stored(rows) == {k \in CacheKeys : rows[k] # NoRow}

\* Mutant: the comparison with the clock is <=.
ExpiredOrDue(rows, t) == {k \in Stored(rows) : rows[k] <= WholeSecond(t)}

\* WHERE expires < now.
Expired(rows, t) == {k \in Stored(rows) : rows[k] < WholeSecond(t)}
Without(rows, ks) == [k \in CacheKeys |-> IF k \in ks THEN NoRow ELSE rows[k]]

\* The DELETE of _can_store and _cull.
Purge(rows, t) == Without(rows, Expired(rows, t))

\* _can_store leaves the table like this: it deletes expired rows before it counts, and
\* deletes none if the key has a row.
Reserved(rows, key, t) == IF rows[key] # NoRow THEN rows ELSE Purge(rows, t)

\* Mutant: the count is compared with <=.
CanStoreOneMore(rows, key, t) ==
    rows[key] # NoRow \/ Cardinality(Stored(Purge(rows, t))) <= MaxEntries

CanStore(rows, key, t) ==
    rows[key] # NoRow \/ Cardinality(Stored(Purge(rows, t))) < MaxEntries

\* Mutant: the culling of DatabaseCache itself, which makes room among the live rows.
CulledLive(rows, t) ==
    IF Cardinality(Stored(rows)) > MaxEntries THEN [k \in CacheKeys |-> NoRow] ELSE rows

\* _cull, which DatabaseCache calls before it writes into an overfull table.
Culled(rows, t) ==
    IF Cardinality(Stored(rows)) > MaxEntries THEN Purge(rows, t) ELSE rows

\* Mutant: the row is written as set would write it.
AddStoresAlways(rows, key, t) == TRUE

\* Mutant: the timeout is lost, and the claim expires at once.
AddedWithoutTimeout(rows, key, t, timeout) ==
    [Culled(rows, t) EXCEPT ![key] = WholeSecond(t)]

\* DatabaseCache._base_set("add", ...) inserts, or replaces an expired row; it answers
\* False if the key has a live row.
AddStores(rows, key, t) == rows[key] = NoRow \/ key \in Expired(rows, t)
Added(rows, key, t, timeout) ==
    [Culled(rows, t) EXCEPT ![key] = WholeSecond(t + timeout)]

\* DatabaseCache.get, with which add looks at a collision, reads a row, and deletes by its
\* key what it has read past its expiry.
Overdue(rows, key, t) == rows[key] # NoRow /\ rows[key] < t
Deleted(rows, key) == [rows EXCEPT ![key] = NoRow]
=============================================================================
