------------------------------ MODULE KVStore -------------------------------
(***************************************************************************)
(* What the server promises its clients: a map from keys to strings and    *)
(* sorted sets, in which a key may carry a deadline and vanishes at some   *)
(* time after it. The request is part of the interface: the map changes    *)
(* and is answered as the request in hand says, once, and between requests *)
(* only deadlines change it. There are no entries, timers, threads or      *)
(* batches here; module Keyspace, which has them, implements this.         *)
(***************************************************************************)
EXTENDS Integers

CONSTANTS Keys, Strings,
          Members,   \* names in sorted sets
          Scores,
          Ttls,      \* the TTLs given to pexpire; a negative one removes the TTL
          MaxTime,   \* bound: the last value of the clock
          None       \* no value, no request, no reply

VARIABLES now, store, expire,
          request,   \* the request in hand, or None
          reply      \* the reply to the last request, or None

vars == <<now, store, expire, request, reply>>

NoDeadline == -1

Str(s)  == <<"str", s>>
ZSet(z) == <<"zset", z>>
IsStr(v)  == v[1] = "str"
IsZSet(v) == v[1] = "zset"

Nil    == <<"nil">>
Num(n) == <<"int", n>>
Dbl(d) == <<"dbl", d>>
Arr(s) == <<"arr", s>>
Err(e) == <<"err", e>>

Requests ==
    {<<"get", k>> : k \in Keys} \cup {<<"del", k>> : k \in Keys} \cup {<<"pttl", k>> : k \in Keys}
    \cup ({"set"} \X Keys \X Strings) \cup ({"pexpire"} \X Keys \X Ttls)
    \cup ({"zadd"} \X Keys \X Scores \X Members)
    \cup ({"zrem", "zscore"} \X Keys \X Members)
    \cup {<<"keys">>, <<"malformed">>, <<"unknown">>}

\* the request r, and no other, is answered
Asked(r)   == request = r /\ request' = None
Replied(r) == reply' = r

Exists(k)  == store[k] # None
Deleted(k) == /\ store' = [store EXCEPT ![k] = None]
              /\ expire' = [expire EXCEPT ![k] = NoDeadline]
Stored(k, v) == store' = [store EXCEPT ![k] = v] /\ UNCHANGED expire
ReadOnly == UNCHANGED <<now, store, expire>>

Init ==
    /\ now = 0
    /\ store = [k \in Keys |-> None]
    /\ expire = [k \in Keys |-> NoDeadline]
    /\ request = None /\ reply = None

Receive(r) ==
    /\ request = None
    /\ request' = r /\ reply' = None
    /\ ReadOnly

Get(k) ==
    /\ Asked(<<"get", k>>)
    /\ Replied(IF ~Exists(k) THEN Nil
               ELSE IF IsStr(store[k]) THEN store[k] ELSE Err("BAD_TYP"))
    /\ ReadOnly

\* unlike in other stores, overwriting a value keeps its deadline
Set(k, s) ==
    /\ Asked(<<"set", k, s>>)
    /\ \/ /\ Exists(k) => IsStr(store[k])
          /\ Stored(k, Str(s))
          /\ Replied(Nil)
          /\ UNCHANGED now
       \/ /\ Exists(k) /\ IsZSet(store[k])
          /\ Replied(Err("BAD_TYP"))
          /\ ReadOnly

Del(k) ==
    /\ Asked(<<"del", k>>)
    /\ Deleted(k)
    /\ Replied(Num(IF Exists(k) THEN 1 ELSE 0))
    /\ UNCHANGED now

PExpire(k, ttl) ==
    /\ Asked(<<"pexpire", k, ttl>>)
    /\ expire' = IF Exists(k)
                 THEN [expire EXCEPT ![k] = IF ttl < 0 THEN NoDeadline ELSE now + ttl]
                 ELSE expire
    /\ Replied(Num(IF Exists(k) THEN 1 ELSE 0))
    /\ UNCHANGED <<now, store>>

PTtl(k) ==
    /\ Asked(<<"pttl", k>>)
    /\ Replied(Num(IF ~Exists(k) THEN -2
                   ELSE IF expire[k] = NoDeadline THEN -1
                   ELSE IF expire[k] > now THEN expire[k] - now ELSE 0))
    /\ ReadOnly

AllKeys == Asked(<<"keys">>) /\ Replied(Arr({k \in Keys : Exists(k)})) /\ ReadOnly

\* the sorted set under k; a missing key is an empty one
Scored(k) == IF Exists(k) THEN store[k][2] ELSE [m \in {} |-> 0]
NotAZSet(k) == Exists(k) /\ ~IsZSet(store[k])

ZAdd(k, m, s) ==
    LET z == Scored(k)
    IN  /\ Asked(<<"zadd", k, s, m>>)
        /\ \/ /\ ~NotAZSet(k)
              /\ Stored(k, ZSet([n \in DOMAIN z \cup {m} |-> IF n = m THEN s ELSE z[n]]))
              /\ Replied(Num(IF m \in DOMAIN z THEN 0 ELSE 1))
              /\ UNCHANGED now
           \/ NotAZSet(k) /\ Replied(Err("BAD_TYP")) /\ ReadOnly

\* a sorted set that loses its last member stays, empty
ZRem(k, m) ==
    LET z == Scored(k)
    IN  /\ Asked(<<"zrem", k, m>>)
        /\ \/ /\ ~NotAZSet(k) /\ m \in DOMAIN z
              /\ Stored(k, ZSet([n \in DOMAIN z \ {m} |-> z[n]]))
              /\ Replied(Num(1))
              /\ UNCHANGED now
           \/ ~NotAZSet(k) /\ m \notin DOMAIN z /\ Replied(Num(0)) /\ ReadOnly
           \/ NotAZSet(k) /\ Replied(Err("BAD_TYP")) /\ ReadOnly

ZScore(k, m) ==
    LET z == Scored(k)
    IN  /\ Asked(<<"zscore", k, m>>)
        /\ Replied(IF NotAZSet(k) THEN Err("BAD_TYP")
                   ELSE IF m \in DOMAIN z THEN Dbl(z[m]) ELSE Nil)
        /\ ReadOnly

Refuse(r, e) == Asked(r) /\ Replied(Err(e)) /\ ReadOnly

\* the deadline has passed; when after it is left open
Expire(k) ==
    /\ Exists(k)
    /\ expire[k] # NoDeadline /\ expire[k] < now
    /\ Deleted(k)
    /\ UNCHANGED <<now, request, reply>>

Tick ==
    /\ now < MaxTime
    /\ now' = now + 1
    /\ UNCHANGED <<store, expire, request, reply>>

KeyCommand(k) ==
    \/ Get(k) \/ Del(k) \/ PTtl(k)
    \/ \E s \in Strings : Set(k, s)
    \/ \E ttl \in Ttls : PExpire(k, ttl)
    \/ \E m \in Members : ZRem(k, m) \/ ZScore(k, m) \/ \E s \in Scores : ZAdd(k, m, s)

Next ==
    \/ \E k \in Keys : KeyCommand(k) \/ Expire(k)
    \/ AllKeys \/ Refuse(<<"malformed">>, "BAD_ARG") \/ Refuse(<<"unknown">>, "UNKNOWN")
    \/ \E r \in Requests : Receive(r)
    \/ Tick

Spec == Init /\ [][Next]_vars

=============================================================================
