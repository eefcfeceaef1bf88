------------------------------- MODULE LRUCache -------------------------------
(***************************************************************************)
(* The LRU+TTL cache that the tenant-injector and the license-check plugin *)
(* each have a copy of, as operators on its value: a list of keys, most    *)
(* recently used first, and a map from keys to entries that expire.  Each  *)
(* operator is one critical section of the plugin's mutex.                 *)
(***************************************************************************)
EXTENDS Integers, SequencesExt

Empty == [order |-> <<>>, entry |-> <<>>]

Held(c) == DOMAIN c.entry

\* time.Now().After(expiresAt) is strict: an entry lives to its last tick.
Live(c, k, now) == k \in Held(c) /\ now <= c.entry[k].expires

\* MoveToFront or PushFront: the list holds a key once.
ToFront(s, k) == <<k>> \o RemoveFirst(s, k)

Without(f, ks) == Restrict(f, DOMAIN f \ ks)

\* cacheGet on a live entry.
Hit(c, k) == [c EXCEPT !.order = ToFront(@, k)]

\* cacheGet on a miss: an expired entry leaves the list and the map.
Forget(c, k) == [order |-> RemoveFirst(c.order, k), entry |-> Without(c.entry, {k})]

\* Mutant: the limit is tested as if the new key were there already.
VictimsOffByOne(c, k, max) ==
    IF k \notin Held(c) /\ Len(c.order) > max THEN {c.order[Len(c.order)]} ELSE {}

\* The tail of the list, when a new key finds the cache full.
Victims(c, k, max) ==
    IF k \notin Held(c) /\ Len(c.order) >= max THEN {c.order[Len(c.order)]} ELSE {}

Updated(f, k, e) == [q \in DOMAIN f \cup {k} |-> IF q = k THEN e ELSE f[q]]

\* Mutant: an entry that is there already is left as it is.
PutOnce(c, k, e, max) ==
    LET gone == Victims(c, k, max)
        kept == IF gone = {} THEN c.order ELSE Front(c.order)
    IN IF k \in Held(c) THEN c
       ELSE [order |-> ToFront(kept, k), entry |-> Updated(Without(c.entry, gone), k, e)]

\* cacheSet: update in place, or evict and insert; in front either way.
Put(c, k, e, max) ==
    LET gone == Victims(c, k, max)
        kept == IF gone = {} THEN c.order ELSE Front(c.order)
    IN [order |-> ToFront(kept, k), entry |-> Updated(Without(c.entry, gone), k, e)]

\* The list and the map hold the same keys, each once, and at most max of them.
Coherent(c, max) ==
    /\ IsInjective(c.order)
    /\ ToSet(c.order) = Held(c)
    /\ Len(c.order) <= max
=============================================================================
