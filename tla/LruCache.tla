------------------------------ MODULE LruCache ------------------------------
(***************************************************************************)
(* container/lru.h: a list of nodes, the one used last in front, and a     *)
(* hash map from keys to iterators into the list. The nodes are addresses, *)
(* which the allocator may reuse; splice() moves a node without changing   *)
(* its address.                                                            *)
(***************************************************************************)
EXTENDS Integers, SequencesExt, FiniteSetsExt

CONSTANTS Keys, Values,
          Nodes,       \* addresses of list nodes
          Capacities,  \* the capacities that a cache is constructed with
          None         \* end() of the map, or nullopt

\* A full cache of capacity 0 has no last element to evict; the class leaves it
\* to its caller to ask for one entry at least.
ASSUME LruAssumption ==
    /\ IsFiniteSet(Nodes)
    /\ \A c \in Capacities : c \in 1 .. Cardinality(Nodes)
    /\ None \notin Keys \cup Values \cup Nodes

VARIABLES m_capacity,
          m_cache,  \* the list, a sequence of nodes
          pair,     \* the contents of the nodes in the list
          m_map,    \* the node of each key, or None
          call,     \* the last call of get() or put(), with its result
          recent,   \* ghost: all keys ever used, the last one in front
          latest    \* ghost: the last value put for each key

vars == <<m_capacity, m_cache, pair, m_map, call, recent, latest>>

NoPair == [key |-> None, value |-> None]

Init ==
    /\ m_capacity \in Capacities
    /\ m_cache = <<>>
    /\ pair = [n \in Nodes |-> NoPair]
    /\ m_map = [k \in Keys |-> None]
    /\ call = [op |-> "none", key |-> None, result |-> None]
    /\ recent = <<>>
    /\ latest = [k \in Keys |-> None]

\* the key was used: it moves to the front of the history
Use(k) == recent' = <<k>> \o RemoveFirst(recent, k)

\* (mutation) the node keeps its place
Stay(list, n) == list

splice(list, n) == <<n>> \o RemoveFirst(list, n)

Return(o, k, r) == call' = [op |-> o, key |-> k, result |-> r]

\* get() of a key that is cached, and of one that is not
Hit(k) ==
    /\ m_map[k] # None
    /\ m_cache' = splice(m_cache, m_map[k])
    /\ Return("get", k, pair[m_map[k]].value)
    /\ Use(k)
    /\ UNCHANGED <<m_capacity, pair, m_map, latest>>

Miss(k) ==
    /\ m_map[k] = None
    /\ Return("get", k, None)
    /\ UNCHANGED <<m_capacity, m_cache, pair, m_map, recent, latest>>

SetValue(n, v) == [pair EXCEPT ![n].value = v]

\* put() of a key that is cached
Update(k, v) ==
    /\ m_map[k] # None
    /\ pair' = SetValue(m_map[k], v)
    /\ m_cache' = splice(m_cache, m_map[k])
    /\ Return("put", k, None)
    /\ Use(k)
    /\ latest' = [latest EXCEPT ![k] = v]
    /\ UNCHANGED <<m_capacity, m_map>>

\* (mutation) the evicted key stays in the map
EraseNothing(k) == m_map

Full     == Len(m_cache) = m_capacity
erase(k) == [m_map EXCEPT ![k] = None]

\* put() of a new key, at an address n that is free after the eviction
Insert(k, v, n) ==
    LET last == IF Full THEN {Last(m_cache)} ELSE {}
        kept == IF Full THEN Front(m_cache) ELSE m_cache
        map  == IF Full THEN erase(pair[Last(m_cache)].key) ELSE m_map
    IN  /\ m_map[k] = None
        /\ n \notin Range(kept)
        /\ m_cache' = <<n>> \o kept
        /\ pair' = [o \in Nodes |-> IF o = n THEN [key |-> k, value |-> v]
                                    ELSE IF o \in last THEN NoPair ELSE pair[o]]
        /\ m_map' = [map EXCEPT ![k] = n]
        /\ Return("put", k, None)
        /\ Use(k)
        /\ latest' = [latest EXCEPT ![k] = v]
        /\ UNCHANGED m_capacity

get(k)    == Hit(k) \/ Miss(k)
put(k, v) == Update(k, v) \/ \E n \in Nodes : Insert(k, v, n)

Next == \E k \in Keys : get(k) \/ \E v \in Values : put(k, v)

Spec == Init /\ [][Next]_vars

-----------------------------------------------------------------------------
(* Properties.                                                             *)

TypeOK ==
    /\ m_capacity \in Capacities
    /\ m_cache \in Seq(Nodes) /\ Len(m_cache) <= m_capacity
    /\ pair \in [Nodes -> [key : Keys, value : Values] \cup {NoPair}]
    /\ m_map \in [Keys -> Nodes \cup {None}]
    /\ call \in [op : {"none", "get", "put"}, key : Keys \cup {None},
                 result : Values \cup {None}]
    /\ recent \in Seq(Keys)
    /\ latest \in [Keys -> Values \cup {None}]

\* The map holds exactly the keys of the list, each with an iterator to its own
\* node: none dangles after an eviction, none is left out, and no address is
\* in the list twice; the list never exceeds its capacity.
MapExact ==
    /\ TypeOK
    /\ IsInjective(m_cache)
    /\ \A k \in Keys, n \in Nodes :
           m_map[k] = n <=> n \in Range(m_cache) /\ pair[n].key = k

Kept == SubSeq(recent, 1, Min({m_capacity, Len(recent)}))

\* After any sequence of calls the list holds the m_capacity keys used last, in
\* the order of their last use, each with the value last put: eviction never
\* takes any other, and get() finds these and no others.
CacheIsRecent ==
    /\ [i \in DOMAIN m_cache |-> pair[m_cache[i]]] =
           [i \in DOMAIN Kept |-> [key |-> Kept[i], value |-> latest[Kept[i]]]]
    /\ call.op = "get" =>
           call.result = IF call.key \in Range(Kept) THEN latest[call.key] ELSE None

=============================================================================
