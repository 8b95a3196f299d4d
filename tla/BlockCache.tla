----------------------------- MODULE BlockCache -----------------------------
(***************************************************************************)
(* core/caching.js (BlockchainCache): one of its caches, a Map in the      *)
(* order of use, with a size and a time to live that may change.           *)
(*                                                                         *)
(* `loaded` and `answer` are kept for the property: when the value of an   *)
(* entry was set, and what the last get gave.  warmup_cache is `set` for   *)
(* each key the cache has no entry for, expired or not.  Left out: values  *)
(* and the counts of hits and misses.                                      *)
(***************************************************************************)
EXTENDS Integers, Sequences, FiniteSets, SequencesExt

CONSTANTS
    CacheKeys,
    Sizes, Ttls,  \* sizes and times to live a cache is given
    MaxCacheTime  \* bound on the clock

ASSUME BlockCacheAssumption ==
    /\ Sizes \subseteq Nat \ {0} /\ Ttls \subseteq Nat \ {0} /\ MaxCacheTime \in Nat

VARIABLES
    cache,          \* key, timestamp and loaded of each entry
    max_size, ttl,  \* the configuration
    cache_time,     \* Date.now()
    answer          \* age of the value of the last get, and ttl then

cacheVars == <<cache, max_size, ttl, cache_time, answer>>

CacheInit ==
    /\ cache = <<>> /\ max_size \in Sizes /\ ttl \in Ttls
    /\ cache_time = 0 /\ answer = [age |-> 0, ttl |-> 0]

\* Where the Map has the entry of k, 0 when it has none.
Place(k) == SelectInSeq(cache, LAMBDA e : e.key = k)
Cached(k) == Place(k) # 0
EntryOf(k) == cache[Place(k)]
Without(k) == IF Cached(k) THEN RemoveAt(cache, Place(k)) ELSE cache
Expired(e) == cache_time - e.timestamp > ttl

\* Mutant: a hit makes the entry young again.
Used_Renewed(e) == [e EXCEPT !.timestamp = cache_time]

\* A hit moves the entry to the end and keeps its timestamp.
Used(e) == e

Cache_get(k) ==
    /\ Cached(k)
    /\ LET e == EntryOf(k) IN
       IF Expired(e) THEN cache' = Without(k) /\ UNCHANGED answer
       ELSE /\ cache' = Append(Without(k), Used(e))
            /\ answer' = [age |-> cache_time - e.loaded, ttl |-> ttl]
    /\ UNCHANGED <<max_size, ttl, cache_time>>

\* The entry used longest ago makes room, although others may have expired.
Cache_set(k) ==
    /\ LET others == Without(k)
           room   == IF Len(others) >= max_size THEN Tail(others) ELSE others
       IN cache' = Append(room, [key |-> k, timestamp |-> cache_time, loaded |-> cache_time])
    /\ UNCHANGED <<max_size, ttl, cache_time, answer>>

Cache_delete(k) ==
    /\ Cached(k) /\ cache' = Without(k)
    /\ UNCHANGED <<max_size, ttl, cache_time, answer>>

clear_cache ==
    /\ cache # <<>> /\ cache' = <<>>
    /\ UNCHANGED <<max_size, ttl, cache_time, answer>>

\* A cache that is too large loses what was used longest ago.
set_cache_config(size, time) ==
    /\ max_size' = size /\ ttl' = time
    /\ cache' = IF Len(cache) > size
                THEN SubSeq(cache, Len(cache) - size + 1, Len(cache)) ELSE cache
    /\ UNCHANGED <<cache_time, answer>>

\* Places of the Map, in its order.
InTurn(places) ==
    CHOOSE s \in [1 .. Cardinality(places) -> places] : \A i, j \in DOMAIN s : i < j => s[i] < s[j]

\* What has not expired stays as it stands.
purge_expired_items ==
    /\ LET young == InTurn({i \in DOMAIN cache : ~Expired(cache[i])})
       IN cache' = [n \in DOMAIN young |-> cache[young[n]]]
    /\ UNCHANGED <<max_size, ttl, cache_time, answer>>

CacheTick ==
    /\ cache_time < MaxCacheTime /\ cache_time' = cache_time + 1
    /\ UNCHANGED <<cache, max_size, ttl, answer>>

CacheNext ==
    \/ \E k \in CacheKeys : Cache_get(k) \/ Cache_set(k) \/ Cache_delete(k)
    \/ \E size \in Sizes, time \in Ttls : set_cache_config(size, time)
    \/ clear_cache \/ purge_expired_items \/ CacheTick

CacheSpec == CacheInit /\ [][CacheNext]_cacheVars

-----------------------------------------------------------------------------
(* Properties *)

\* However often an entry is used and the configuration changes, what get answers was
\* set no longer ago than the time to live, every key has one entry, and there are no
\* more than the size (get, set, set_cache_config).
CacheIsFresh ==
    /\ answer.age <= answer.ttl
    /\ Len(cache) <= max_size
    /\ \A i, j \in DOMAIN cache : cache[i].key = cache[j].key => i = j
=============================================================================
