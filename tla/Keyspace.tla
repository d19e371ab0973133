------------------------------ MODULE Keyspace ------------------------------
(***************************************************************************)
(* The database of server/main.cc: entries in memory, the hash table that  *)
(* finds them by key, the heap of TTL timers that points back into them,   *)
(* the commands, the expiry loop of process_timers(), and the thread pool  *)
(* that frees large sorted sets while the loop goes on.                    *)
(*                                                                         *)
(* The hash table is the map it implements and the heap the deadlines it   *)
(* holds; the thread pool is a FIFO queue with workers (module ThreadPool).*)
(* The commands of one loop iteration run in phase "requests"; a request   *)
(* is first parsed, then executed and answered in one step.                *)
(***************************************************************************)
EXTENDS Integers, Sequences, FiniteSets

CONSTANTS Keys, Strings,
          Members,    \* names in sorted sets
          Scores,
          Ttls,       \* the TTLs given to pexpire; a negative one removes the TTL
          Entries,    \* bound: addresses that new Entry() may return
          Workers,    \* threads of g_data.thread_pool
          LargeSize,  \* k_large_container_size
          MaxWorks,   \* k_max_works
          MaxTime,    \* bound: the last value of the clock
          None        \* a null pointer; no request, no reply

ASSUME KeyspaceAssumption ==
    /\ Ttls \subseteq Int
    /\ LargeSize \in Nat /\ MaxWorks \in Nat /\ MaxTime \in Nat
    /\ None \notin Entries

NoTtl == -1   \* Entry::heap_idx = -1

ZSet == UNION {[names -> Scores] : names \in SUBSET Members}

\* struct Entry; None stands for the empty string of a sorted set's entry
Entry == [key : Keys, type : {"T_STR", "T_ZSET"}, str : Strings \cup {None},
          zset : ZSet]

ASSUME NoneAssumption ==
    /\ None \notin Entry
    /\ None \notin ({"str"} \X (Strings \cup {None})) \cup ({"zset"} \X ZSet)

VARIABLES now,      \* the monotonic clock
          memory,   \* the entry at each address, or None when it is free
          db,       \* g_data.db: the entry of each key
          heap,     \* g_data.heap: the deadline of each entry, or NoTtl
          pool,     \* entries queued for entry_del_func()
          freeing,  \* the entry each worker is destroying
          request,  \* the command that try_one_request() has parsed, or None
          reply,    \* its response once do_request() has returned, or None
          phase,    \* "requests", or "ttl" within process_timers()
          now_ms,   \* the clock as read by process_timers()
          nworks    \* entries deleted by this process_timers()

vars == <<now, memory, db, heap, pool, freeing, request, reply, phase, now_ms, nworks>>
threads == <<pool, freeing>>
client  == <<request, reply>>
timing  == <<phase, now_ms, nworks>>

Init ==
    /\ now = 0
    /\ memory = [e \in Entries |-> None]
    /\ db = [k \in Keys |-> None]
    /\ heap = [e \in Entries |-> NoTtl]
    /\ pool = <<>>
    /\ freeing = [w \in Workers |-> None]
    /\ request = None /\ reply = None
    /\ phase = "requests"
    /\ now_ms = 0
    /\ nworks = 0

Tick ==
    /\ now < MaxTime
    /\ now' = now + 1
    /\ UNCHANGED <<memory, db, heap, threads, client, timing>>

-----------------------------------------------------------------------------
(* Replies, sorted sets and entries.                                       *)

Nil    == <<"nil">>
Str(s) == <<"str", s>>
Int64(n) == <<"int", n>>
Double(d) == <<"dbl", d>>
Array(s) == <<"arr", s>>
Error(e) == <<"err", e>>

EmptyZSet == [m \in {} |-> 0]
zset_insert(z, m, score) ==
    [n \in DOMAIN z \cup {m} |-> IF n = m THEN score ELSE z[n]]
zset_delete(z, m) == [n \in DOMAIN z \ {m} |-> z[n]]

IsFree(e) == memory[e] = None
Found(k)  == db[k] # None
Ent(k)    == memory[db[k]]

\* entry_new() and db.insert()
NewEntry(e, ent) ==
    /\ IsFree(e)
    /\ memory' = [memory EXCEPT ![e] = ent]
    /\ db' = [db EXCEPT ![ent.key] = e]

\* (mutation) a large set is queued, and then freed here as well
EntryDelTwice(e) ==
    /\ heap' = [heap EXCEPT ![e] = NoTtl]
    /\ pool' = IF memory[e].type = "T_ZSET" /\ Cardinality(DOMAIN memory[e].zset) > LargeSize
               THEN Append(pool, e) ELSE pool
    /\ memory' = [memory EXCEPT ![e] = None]

\* (mutation) the timer stays
EntryDelKeepsTimer(e) ==
    /\ IF memory[e].type = "T_ZSET" /\ Cardinality(DOMAIN memory[e].zset) > LargeSize
       THEN pool' = Append(pool, e) /\ UNCHANGED memory
       ELSE memory' = [memory EXCEPT ![e] = None] /\ UNCHANGED pool
    /\ UNCHANGED heap

\* entry_del() of an entry that has left db: its timer goes, and it is freed
\* here or, when it is large, queued for the thread pool
entry_del(e) ==
    /\ heap' = [heap EXCEPT ![e] = NoTtl]
    /\ IF memory[e].type = "T_ZSET" /\ Cardinality(DOMAIN memory[e].zset) > LargeSize
       THEN pool' = Append(pool, e) /\ UNCHANGED memory
       ELSE memory' = [memory EXCEPT ![e] = None] /\ UNCHANGED pool

\* do_request() runs the command in hand and returns
Command == phase = "requests" /\ request' = None /\ UNCHANGED <<now, timing, freeing>>
ReadOnly == Command /\ UNCHANGED <<memory, db, heap, pool>>

-----------------------------------------------------------------------------
(* The commands.                                                           *)

do_get(k) ==
    /\ reply' = IF ~Found(k) THEN Nil
                ELSE IF Ent(k).type # "T_STR" THEN Error("BAD_TYP")
                ELSE Str(Ent(k).str)
    /\ ReadOnly

do_set(k, s) ==
    \/ /\ Found(k) /\ Ent(k).type = "T_STR"
       /\ memory' = [memory EXCEPT ![db[k]].str = s]
       /\ reply' = Nil
       /\ Command /\ UNCHANGED <<db, heap, pool>>
    \/ /\ Found(k) /\ Ent(k).type # "T_STR"
       /\ reply' = Error("BAD_TYP")
       /\ ReadOnly
    \/ /\ ~Found(k)
       /\ \E e \in Entries : NewEntry(e, [key |-> k, type |-> "T_STR", str |-> s,
                                          zset |-> EmptyZSet])
       /\ reply' = Nil
       /\ Command /\ UNCHANGED <<heap, pool>>

do_del(k) ==
    \/ /\ Found(k)
       /\ db' = [db EXCEPT ![k] = None]
       /\ entry_del(db[k])
       /\ reply' = Int64(1)
       /\ Command
    \/ ~Found(k) /\ reply' = Int64(0) /\ ReadOnly

\* entry_set_ttl() on the entry that was found
do_expire(k, ttl_ms) ==
    \/ /\ Found(k)
       /\ heap' = [heap EXCEPT ![db[k]] = IF ttl_ms < 0 THEN NoTtl ELSE now + ttl_ms]
       /\ reply' = Int64(1)
       /\ Command /\ UNCHANGED <<memory, db, pool>>
    \/ ~Found(k) /\ reply' = Int64(0) /\ ReadOnly

do_ttl(k) ==
    /\ reply' = IF ~Found(k) THEN Int64(-2)
                ELSE LET expire_at == heap[db[k]]
                     IN  IF expire_at = NoTtl THEN Int64(-1)
                         ELSE Int64(IF expire_at > now THEN expire_at - now ELSE 0)
    /\ ReadOnly

\* the keys of the entries that foreach() meets
do_keys == reply' = Array({memory[db[k]].key : k \in {l \in Keys : Found(l)}}) /\ ReadOnly

do_zadd(k, score, name) ==
    \/ /\ ~Found(k)
       /\ \E e \in Entries :
             NewEntry(e, [key |-> k, type |-> "T_ZSET", str |-> None,
                          zset |-> zset_insert(EmptyZSet, name, score)])
       /\ reply' = Int64(1)
       /\ Command /\ UNCHANGED <<heap, pool>>
    \/ /\ Found(k) /\ Ent(k).type # "T_ZSET"
       /\ reply' = Error("BAD_TYP")
       /\ ReadOnly
    \/ /\ Found(k) /\ Ent(k).type = "T_ZSET"
       /\ memory' = [memory EXCEPT ![db[k]].zset = zset_insert(@, name, score)]
       /\ reply' = Int64(IF name \in DOMAIN Ent(k).zset THEN 0 ELSE 1)
       /\ Command /\ UNCHANGED <<db, heap, pool>>

\* expect_zset(): a missing key is an empty set, another type is an error
expect_zset(k) == IF Found(k) THEN Ent(k).zset ELSE EmptyZSet
WrongType(k) == Found(k) /\ Ent(k).type # "T_ZSET"

\* (mutation) a sorted set that loses a member takes its key with it
DoZRemErases(k, name) ==
    \/ WrongType(k) /\ reply' = Error("BAD_TYP") /\ ReadOnly
    \/ ~WrongType(k) /\ name \notin DOMAIN expect_zset(k) /\ reply' = Int64(0) /\ ReadOnly
    \/ /\ ~WrongType(k) /\ name \in DOMAIN expect_zset(k)
       /\ db' = [db EXCEPT ![k] = None]
       /\ entry_del(db[k])
       /\ reply' = Int64(1)
       /\ Command

do_zrem(k, name) ==
    \/ WrongType(k) /\ reply' = Error("BAD_TYP") /\ ReadOnly
    \/ ~WrongType(k) /\ name \notin DOMAIN expect_zset(k) /\ reply' = Int64(0) /\ ReadOnly
    \/ /\ ~WrongType(k) /\ name \in DOMAIN expect_zset(k)
       /\ memory' = [memory EXCEPT ![db[k]].zset = zset_delete(@, name)]
       /\ reply' = Int64(1)
       /\ Command /\ UNCHANGED <<db, heap, pool>>

do_zscore(k, name) ==
    /\ reply' = IF WrongType(k) THEN Error("BAD_TYP")
                ELSE LET z == expect_zset(k)
                     IN  IF name \in DOMAIN z THEN Double(z[name]) ELSE Nil
    /\ ReadOnly

Refuse(e) == reply' = Error(e) /\ ReadOnly

\* "malformed" stands for the commands with a number that str2int() or
\* str2dbl() rejects, before any lookup, and "unknown" for all those that
\* do_request() does not know
Requests ==
    {<<"get", k>> : k \in Keys} \cup {<<"del", k>> : k \in Keys} \cup {<<"pttl", k>> : k \in Keys}
    \cup ({"set"} \X Keys \X Strings) \cup ({"pexpire"} \X Keys \X Ttls)
    \cup ({"zadd"} \X Keys \X Scores \X Members)
    \cup ({"zrem", "zscore"} \X Keys \X Members)
    \cup {<<"keys">>, <<"malformed">>, <<"unknown">>}

\* a complete request was parsed into a command
try_one_request ==
    /\ phase = "requests" /\ request = None
    /\ request' \in Requests /\ reply' = None
    /\ UNCHANGED <<now, memory, db, heap, threads, timing>>

OnKey(k) ==
    \/ request = <<"get", k>> /\ do_get(k)
    \/ request = <<"del", k>> /\ do_del(k)
    \/ request = <<"pttl", k>> /\ do_ttl(k)
    \/ \E s \in Strings : request = <<"set", k, s>> /\ do_set(k, s)
    \/ \E ttl_ms \in Ttls : request = <<"pexpire", k, ttl_ms>> /\ do_expire(k, ttl_ms)
    \/ \E name \in Members :
          \/ request = <<"zrem", k, name>> /\ do_zrem(k, name)
          \/ request = <<"zscore", k, name>> /\ do_zscore(k, name)
          \/ \E score \in Scores : request = <<"zadd", k, score, name>> /\ do_zadd(k, score, name)

do_request ==
    \/ \E k \in Keys : OnKey(k)
    \/ request = <<"keys">> /\ do_keys
    \/ request = <<"malformed">> /\ Refuse("BAD_ARG")
    \/ request = <<"unknown">> /\ Refuse("UNKNOWN")

-----------------------------------------------------------------------------
(* process_timers().                                                       *)

BeginTimers ==
    /\ phase = "requests" /\ request = None
    /\ phase' = "ttl"
    /\ now_ms' = now
    /\ nworks' = 0
    /\ UNCHANGED <<now, memory, db, heap, threads, client>>

\* entries heap[0] may point to
Timed == {e \in Entries : heap[e] # NoTtl}
Tops  == {e \in Timed : \A f \in Timed : heap[e] <= heap[f]}

\* one turn of the loop; the entry is found again through its key
ExpireTop ==
    /\ phase = "ttl"
    /\ \E e \in Tops :
          /\ heap[e] < now_ms
          /\ db' = [db EXCEPT ![memory[e].key] = None]
          /\ entry_del(e)
    /\ nworks' = nworks + 1
    /\ phase' = IF nworks >= MaxWorks THEN "requests" ELSE "ttl"
    /\ UNCHANGED <<now, freeing, client, now_ms>>

ExpireDone ==
    /\ phase = "ttl"
    /\ \A e \in Tops : heap[e] >= now_ms
    /\ phase' = "requests"
    /\ UNCHANGED <<now, memory, db, heap, threads, client, now_ms, nworks>>

-----------------------------------------------------------------------------
(* The workers.                                                            *)

WorkerTake(w) ==
    /\ freeing[w] = None /\ pool # <<>>
    /\ freeing' = [freeing EXCEPT ![w] = Head(pool)]
    /\ pool' = Tail(pool)
    /\ UNCHANGED <<now, memory, db, heap, client, timing>>

\* (mutation) the members are freed, the entry is not
WorkerFreeMembers(w) ==
    /\ freeing[w] # None
    /\ memory' = [memory EXCEPT ![freeing[w]].zset = EmptyZSet]
    /\ freeing' = [freeing EXCEPT ![w] = None]
    /\ UNCHANGED <<now, db, heap, pool, client, timing>>

\* entry_del_func(): zset_clear() and delete
WorkerFree(w) ==
    /\ freeing[w] # None
    /\ memory' = [memory EXCEPT ![freeing[w]] = None]
    /\ freeing' = [freeing EXCEPT ![w] = None]
    /\ UNCHANGED <<now, db, heap, pool, client, timing>>

WorkerStep(w) == WorkerTake(w) \/ WorkerFree(w)

-----------------------------------------------------------------------------
Next ==
    \/ Tick
    \/ try_one_request \/ do_request
    \/ BeginTimers \/ ExpireTop \/ ExpireDone
    \/ \E w \in Workers : WorkerStep(w)

Spec == Init /\ [][Next]_vars

\* the workers run (see EveryTaskRuns of module ThreadPool)
FairSpec == Spec /\ \A w \in Workers : WF_vars(WorkerStep(w))

-----------------------------------------------------------------------------
(* Properties.                                                             *)

\* Every variable stays within the values its C++ counterpart can take.
TypeOK ==
    /\ now \in Nat
    /\ memory \in [Entries -> Entry \cup {None}]
    /\ db \in [Keys -> Entries \cup {None}]
    /\ heap \in [Entries -> Nat \cup {NoTtl}]
    /\ pool \in Seq(Entries)
    /\ freeing \in [Workers -> Entries \cup {None}]
    /\ request \in Requests \cup {None}
    /\ phase \in {"requests", "ttl"}
    /\ now_ms \in Nat /\ nworks \in Nat

InDb(e)      == \E k \in Keys : db[k] = e
InPool(e)    == \E i \in DOMAIN pool : pool[i] = e
BeingFreed(e) == \E w \in Workers : freeing[w] = e

\* Every entry that is allocated has exactly one owner: the hash table, under
\* the entry's own key, the pool's queue, once, or one worker. So no entry
\* leaks, is freed twice or is used after it was freed, although it moves from
\* the loop's thread to the workers.
OneOwner ==
    /\ \A k \in Keys : Found(k) => ~IsFree(db[k]) /\ Ent(k).key = k
    /\ \A i, j \in DOMAIN pool : pool[i] = pool[j] => i = j
    /\ \A v, w \in Workers : freeing[v] = freeing[w] /\ freeing[v] # None => v = w
    /\ \A e \in Entries :
          /\ IsFree(e) <=> ~InDb(e) /\ ~InPool(e) /\ ~BeingFreed(e)
          /\ ~(InDb(e) /\ InPool(e))
          /\ ~(InDb(e) /\ BeingFreed(e))
          /\ ~(InPool(e) /\ BeingFreed(e))

\* The heap points only to entries of the hash table: heap[0].ref_pos never
\* dangles, and process_timers() finds the entry it removes (its assert).
TimersAreInDb == \A e \in Timed : InDb(e)

\* the value of an entry as a client sees it
Value(ent) == IF ent.type = "T_STR" THEN <<"str", ent.str>> ELSE <<"zset", ent.zset>>

Store    == [k \in Keys |-> IF Found(k) THEN Value(Ent(k)) ELSE None]
Deadline == [k \in Keys |-> IF Found(k) THEN heap[db[k]] ELSE NoTtl]

KV == INSTANCE KVStore WITH store <- Store, expire <- Deadline

\* To its clients the database is a map with deadlines: whatever the order of
\* deletions, expiries and asynchronous frees, each request changes its own key
\* and is answered as KVStore says for that request and the values of the
\* moment, and between requests a key changes only by vanishing after its
\* deadline.
ImplementsKVStore == KV!Spec

\* An entry handed to the thread pool is freed.
QueuedEntriesFreed == \A e \in Entries : InPool(e) ~> IsFree(e)

=============================================================================
