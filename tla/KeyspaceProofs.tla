--------------------------- MODULE KeyspaceProofs ---------------------------
(***************************************************************************)
(* Proofs about module Keyspace: the ownership of entries, the timers, and *)
(* the refinement of KVStore.                                              *)
(***************************************************************************)
EXTENDS Keyspace, TLAPS

\* The inductive invariant. Ownership and timers need each other: an expiry
\* deletes the entry a timer points to, and finds it in db because of
\* TimersAreInDb; and a key leaves through its own entry because of OneOwner.
Inv ==
    /\ TypeOK
    /\ OneOwner
    /\ TimersAreInDb
    /\ now_ms <= now

-----------------------------------------------------------------------------
(* Sorted sets.                                                            *)

LEMMA EmptyZSetType == EmptyZSet \in ZSet
<1>1. EmptyZSet \in [{} -> Scores]
  BY DEF EmptyZSet
<1> QED
  BY <1>1 DEF ZSet

LEMMA InsertType ==
    ASSUME NEW z \in ZSet, NEW m \in Members, NEW s \in Scores
    PROVE  zset_insert(z, m, s) \in ZSet
<1>1. PICK names \in SUBSET Members : z \in [names -> Scores]
  BY DEF ZSet
<1>2. zset_insert(z, m, s) \in [names \cup {m} -> Scores]
  BY <1>1 DEF zset_insert
<1> QED
  BY <1>2 DEF ZSet

LEMMA DeleteType ==
    ASSUME NEW z \in ZSet, NEW m
    PROVE  zset_delete(z, m) \in ZSet
<1>1. PICK names \in SUBSET Members : z \in [names -> Scores]
  BY DEF ZSet
<1>2. zset_delete(z, m) \in [names \ {m} -> Scores]
  BY <1>1 DEF zset_delete
<1> QED
  BY <1>2 DEF ZSet

-----------------------------------------------------------------------------
(* The four things a step can do to entries.                               *)

Owners == <<memory, db, heap, pool, freeing>>

\* Nothing.
LEMMA KeepOwners ==
    ASSUME Inv, UNCHANGED Owners
    PROVE  OneOwner' /\ TimersAreInDb'
BY DEF Inv, Owners, OneOwner, TimersAreInDb, Timed, InDb, InPool, BeingFreed,
       Found, IsFree, Ent

\* Change the value of an entry that is in db.
LEMMA UpdateEntry ==
    ASSUME Inv, NEW k \in Keys, Found(k),
           NEW ent \in Entry, ent.key = k,
           memory' = [memory EXCEPT ![db[k]] = ent],
           UNCHANGED <<db, heap, pool, freeing>>
    PROVE  /\ memory' \in [Entries -> Entry \cup {None}]
           /\ OneOwner' /\ TimersAreInDb'
<1> USE KeyspaceAssumption, NoneAssumption
<1>1. db[k] \in Entries
  BY DEF Inv, TypeOK, Found
<1>2. memory' \in [Entries -> Entry \cup {None}]
  BY <1>1 DEF Inv, TypeOK
<1>3. \A e \in Entries : IsFree(e)' <=> IsFree(e)
  BY <1>1 DEF Inv, TypeOK, OneOwner, IsFree, Found
<1>4. \A l \in Keys : Found(l) => ~IsFree(db[l])' /\ Ent(l)'.key = l
  BY <1>1, <1>3 DEF Inv, TypeOK, OneOwner, IsFree, Found, Ent
<1>5. OneOwner'
  BY <1>3, <1>4 DEF Inv, TypeOK, OneOwner, Found, InDb, InPool, BeingFreed, IsFree
<1>6. TimersAreInDb'
  BY DEF Inv, TimersAreInDb, Timed, InDb
<1> QED
  BY <1>2, <1>5, <1>6

\* Allocate an entry and put it into db.
LEMMA InsertEntry ==
    ASSUME Inv, NEW k \in Keys, ~Found(k),
           NEW e \in Entries, NEW ent \in Entry, ent.key = k,
           NewEntry(e, ent),
           UNCHANGED <<heap, pool, freeing>>
    PROVE  /\ memory' \in [Entries -> Entry \cup {None}]
           /\ db' \in [Keys -> Entries \cup {None}]
           /\ OneOwner' /\ TimersAreInDb'
<1> USE KeyspaceAssumption, NoneAssumption DEF NewEntry
<1>1. /\ memory' \in [Entries -> Entry \cup {None}]
      /\ db' \in [Keys -> Entries \cup {None}]
  BY DEF Inv, TypeOK
<1>2. ~InDb(e) /\ ~InPool(e) /\ ~BeingFreed(e)
  BY DEF Inv, OneOwner
<1>3. \A f \in Entries : /\ IsFree(f)' <=> IsFree(f) /\ f # e
                         /\ InDb(f)' <=> InDb(f) \/ f = e
  <2>1. \A f \in Entries : IsFree(f)' <=> IsFree(f) /\ f # e
    BY DEF Inv, TypeOK, IsFree
  <2>2. \A f \in Entries : InDb(f)' <=> InDb(f) \/ f = e
    BY DEF Inv, TypeOK, InDb, Found
  <2> QED
    BY <2>1, <2>2
<1>4. \A l \in Keys : Found(l)' => ~IsFree(db[l])' /\ Ent(l)'.key = l
  BY <1>2 DEF Inv, TypeOK, OneOwner, IsFree, Found, Ent, InDb
<1>5. OneOwner'
  BY <1>2, <1>3, <1>4 DEF Inv, OneOwner, InPool, BeingFreed
<1>6. TimersAreInDb'
  BY <1>3 DEF Inv, TimersAreInDb, Timed
<1> QED
  BY <1>1, <1>5, <1>6

\* Take an entry out of db and delete it.
LEMMA RemoveEntry ==
    ASSUME Inv, NEW k \in Keys, Found(k),
           db' = [db EXCEPT ![k] = None],
           entry_del(db[k]),
           UNCHANGED freeing
    PROVE  /\ memory' \in [Entries -> Entry \cup {None}]
           /\ db' \in [Keys -> Entries \cup {None}]
           /\ heap' \in [Entries -> Nat \cup {NoTtl}]
           /\ pool' \in Seq(Entries)
           /\ OneOwner' /\ TimersAreInDb'
<1> USE KeyspaceAssumption, NoneAssumption
<1> DEFINE e == db[k]
<1>1. e \in Entries /\ e # None
  BY DEF Inv, TypeOK, Found
<1>2. InDb(e) /\ ~InPool(e) /\ ~BeingFreed(e) /\ ~IsFree(e)
  BY <1>1 DEF Inv, OneOwner, InDb
<1>3. \A l \in Keys : db[l] = e => l = k
  BY <1>1 DEF Inv, OneOwner, Found, Ent
<1>4. heap' = [heap EXCEPT ![e] = NoTtl]
  BY DEF entry_del
<1>5. /\ db' \in [Keys -> Entries \cup {None}]
      /\ heap' \in [Entries -> Nat \cup {NoTtl}]
  BY <1>4 DEF Inv, TypeOK
<1>6. \A f \in Entries : InDb(f)' <=> InDb(f) /\ f # e
  BY <1>3, <1>1 DEF Inv, TypeOK, InDb
<1>7. TimersAreInDb'
  BY <1>4, <1>6, <1>1 DEF Inv, TypeOK, TimersAreInDb, Timed
<1>8. CASE pool' = Append(pool, e) /\ UNCHANGED memory
  <2>1. pool' \in Seq(Entries)
    BY <1>8, <1>1 DEF Inv, TypeOK
  <2>2. \A f \in Entries : InPool(f)' <=> InPool(f) \/ f = e
    <3>1. DOMAIN pool' = DOMAIN pool \cup {Len(pool) + 1}
      BY <1>8, <1>1 DEF Inv, TypeOK
    <3>2. /\ \A i \in DOMAIN pool : pool'[i] = pool[i]
          /\ pool'[Len(pool) + 1] = e
      BY <1>8, <1>1 DEF Inv, TypeOK
    <3> QED
      BY <3>1, <3>2 DEF InPool
  <2>3. \A i, j \in DOMAIN pool' : pool'[i] = pool'[j] => i = j
    BY <1>8, <1>1, <1>2 DEF Inv, TypeOK, OneOwner, InPool
  <2>4. \A l \in Keys : Found(l)' => ~IsFree(db[l])' /\ Ent(l)'.key = l
    BY <1>8 DEF Inv, TypeOK, OneOwner, IsFree, Found, Ent
  <2>5. OneOwner'
    BY <1>8, <1>2, <1>6, <2>2, <2>3, <2>4 DEF Inv, OneOwner, BeingFreed, IsFree
  <2> QED
    BY <1>8, <1>5, <1>7, <2>1, <2>5 DEF Inv, TypeOK
<1>9. CASE memory' = [memory EXCEPT ![e] = None] /\ UNCHANGED pool
  <2>1. memory' \in [Entries -> Entry \cup {None}]
    BY <1>9 DEF Inv, TypeOK
  <2>2. \A f \in Entries : IsFree(f)' <=> IsFree(f) \/ f = e
    BY <1>9, <1>1 DEF Inv, TypeOK, IsFree
  <2>3. \A l \in Keys : Found(l)' => ~IsFree(db[l])' /\ Ent(l)'.key = l
    BY <1>9, <1>3, <1>1 DEF Inv, TypeOK, OneOwner, IsFree, Found, Ent
  <2>4. OneOwner'
    BY <1>9, <1>2, <1>6, <2>2, <2>3 DEF Inv, OneOwner, BeingFreed, InPool
  <2> QED
    BY <1>9, <1>5, <1>7, <2>1, <2>4 DEF Inv, TypeOK
<1> QED
  BY <1>8, <1>9 DEF entry_del

-----------------------------------------------------------------------------
(* The invariant.                                                          *)

LEMMA InitInv == Init => Inv
<1> SUFFICES ASSUME Init PROVE Inv
  OBVIOUS
<1> USE KeyspaceAssumption DEF Init
<1>1. TypeOK
  BY DEF TypeOK, NoTtl
<1>2. \A e \in Entries : ~InDb(e) /\ ~InPool(e) /\ ~BeingFreed(e)
  BY DEF InDb, InPool, BeingFreed
<1>3. OneOwner
  BY <1>2 DEF OneOwner, Found, IsFree
<1>4. TimersAreInDb
  BY DEF TimersAreInDb, Timed
<1> QED
  BY <1>1, <1>3, <1>4 DEF Inv

\* A command that answers without changing the database.
LEMMA ReadOnlyInv ==
    ASSUME Inv, ReadOnly
    PROVE  Inv'
<1>1. OneOwner' /\ TimersAreInDb'
  BY KeepOwners DEF ReadOnly, Command, Owners
<1> QED
  BY <1>1 DEF Inv, TypeOK, ReadOnly, Command, timing

LEMMA FoundEntry ==
    ASSUME Inv, NEW k \in Keys, Found(k)
    PROVE  db[k] \in Entries /\ Ent(k) \in Entry /\ Ent(k).key = k
BY DEF Inv, TypeOK, OneOwner, Found, IsFree, Ent

LEMMA SetInv ==
    ASSUME Inv, NEW k \in Keys, NEW s \in Strings, do_set(k, s)
    PROVE  Inv'
<1>1. CASE ReadOnly
  BY <1>1, ReadOnlyInv
<1>2. CASE /\ Found(k) /\ memory' = [memory EXCEPT ![db[k]].str = s]
           /\ Command /\ UNCHANGED <<db, heap, pool>>
  <2> DEFINE ent == [Ent(k) EXCEPT !.str = s]
  <2>1. ent \in Entry /\ ent.key = k
    BY <1>2, FoundEntry DEF Entry
  <2>2. memory' = [memory EXCEPT ![db[k]] = ent]
    BY <1>2, FoundEntry DEF Ent
  <2>3. UNCHANGED <<db, heap, pool, freeing>>
    BY <1>2 DEF Command
  <2> HIDE DEF ent
  <2>4. /\ memory' \in [Entries -> Entry \cup {None}]
        /\ OneOwner' /\ TimersAreInDb'
    BY <1>2, <2>1, <2>2, <2>3, UpdateEntry
  <2> QED
    BY <1>2, <2>4 DEF Inv, TypeOK, Command, timing
<1>3. CASE /\ ~Found(k) /\ Command /\ UNCHANGED <<heap, pool>>
           /\ \E e \in Entries : NewEntry(e, [key |-> k, type |-> "T_STR", str |-> s,
                                              zset |-> EmptyZSet])
  <2> DEFINE ent == [key |-> k, type |-> "T_STR", str |-> s, zset |-> EmptyZSet]
  <2>1. ent \in Entry /\ ent.key = k
    BY EmptyZSetType DEF Entry
  <2>2. PICK e \in Entries : NewEntry(e, ent)
    BY <1>3
  <2>3. UNCHANGED <<heap, pool, freeing>>
    BY <1>3 DEF Command
  <2> HIDE DEF ent
  <2>4. /\ memory' \in [Entries -> Entry \cup {None}]
        /\ db' \in [Keys -> Entries \cup {None}]
        /\ OneOwner' /\ TimersAreInDb'
    BY <1>3, <2>1, <2>2, <2>3, InsertEntry
  <2> QED
    BY <1>3, <2>4 DEF Inv, TypeOK, Command, timing
<1> QED
  BY <1>1, <1>2, <1>3 DEF do_set

LEMMA ZAddInv ==
    ASSUME Inv, NEW k \in Keys, NEW score \in Scores, NEW name \in Members,
           do_zadd(k, score, name)
    PROVE  Inv'
<1>1. CASE ReadOnly
  BY <1>1, ReadOnlyInv
<1>2. CASE /\ Found(k) /\ Command /\ UNCHANGED <<db, heap, pool>>
           /\ memory' = [memory EXCEPT ![db[k]].zset = zset_insert(@, name, score)]
  <2> DEFINE ent == [Ent(k) EXCEPT !.zset = zset_insert(Ent(k).zset, name, score)]
  <2>0. Ent(k).zset \in ZSet
    BY <1>2, FoundEntry DEF Entry
  <2>1. ent \in Entry /\ ent.key = k
    BY <1>2, <2>0, FoundEntry, InsertType DEF Entry
  <2>2. memory' = [memory EXCEPT ![db[k]] = ent]
    BY <1>2, FoundEntry DEF Ent
  <2>3. UNCHANGED <<db, heap, pool, freeing>>
    BY <1>2 DEF Command
  <2> HIDE DEF ent
  <2>4. /\ memory' \in [Entries -> Entry \cup {None}]
        /\ OneOwner' /\ TimersAreInDb'
    BY <1>2, <2>1, <2>2, <2>3, UpdateEntry
  <2> QED
    BY <1>2, <2>4 DEF Inv, TypeOK, Command, timing
<1>3. CASE /\ ~Found(k) /\ Command /\ UNCHANGED <<heap, pool>>
           /\ \E e \in Entries :
                 NewEntry(e, [key |-> k, type |-> "T_ZSET", str |-> None,
                              zset |-> zset_insert(EmptyZSet, name, score)])
  <2> DEFINE ent == [key |-> k, type |-> "T_ZSET", str |-> None,
                     zset |-> zset_insert(EmptyZSet, name, score)]
  <2>1. ent \in Entry /\ ent.key = k
    BY EmptyZSetType, InsertType DEF Entry
  <2>2. PICK e \in Entries : NewEntry(e, ent)
    BY <1>3
  <2>3. UNCHANGED <<heap, pool, freeing>>
    BY <1>3 DEF Command
  <2> HIDE DEF ent
  <2>4. /\ memory' \in [Entries -> Entry \cup {None}]
        /\ db' \in [Keys -> Entries \cup {None}]
        /\ OneOwner' /\ TimersAreInDb'
    BY <1>3, <2>1, <2>2, <2>3, InsertEntry
  <2> QED
    BY <1>3, <2>4 DEF Inv, TypeOK, Command, timing
<1> QED
  BY <1>1, <1>2, <1>3 DEF do_zadd

LEMMA ZRemInv ==
    ASSUME Inv, NEW k \in Keys, NEW name \in Members, do_zrem(k, name)
    PROVE  Inv'
<1>1. CASE ReadOnly
  BY <1>1, ReadOnlyInv
<1>2. CASE /\ name \in DOMAIN expect_zset(k)
           /\ memory' = [memory EXCEPT ![db[k]].zset = zset_delete(@, name)]
           /\ Command /\ UNCHANGED <<db, heap, pool>>
  <2> DEFINE ent == [Ent(k) EXCEPT !.zset = zset_delete(Ent(k).zset, name)]
  <2>0. Found(k)
    BY <1>2 DEF expect_zset, EmptyZSet
  <2>1. ent \in Entry /\ ent.key = k
    <3>1. Ent(k).zset \in ZSet
      BY <2>0, FoundEntry DEF Entry
    <3> QED
      BY <2>0, <3>1, FoundEntry, DeleteType DEF Entry
  <2>2. memory' = [memory EXCEPT ![db[k]] = ent]
    BY <1>2, <2>0, FoundEntry DEF Ent
  <2>3. UNCHANGED <<db, heap, pool, freeing>>
    BY <1>2 DEF Command
  <2> HIDE DEF ent
  <2>4. /\ memory' \in [Entries -> Entry \cup {None}]
        /\ OneOwner' /\ TimersAreInDb'
    BY <2>0, <2>1, <2>2, <2>3, UpdateEntry
  <2> QED
    BY <1>2, <2>4 DEF Inv, TypeOK, Command, timing
<1> QED
  BY <1>1, <1>2 DEF do_zrem

LEMMA DelInv ==
    ASSUME Inv, NEW k \in Keys, do_del(k)
    PROVE  Inv'
<1>1. CASE ReadOnly
  BY <1>1, ReadOnlyInv
<1>2. CASE /\ Found(k) /\ db' = [db EXCEPT ![k] = None]
           /\ entry_del(db[k]) /\ Command
  BY <1>2, RemoveEntry DEF Inv, TypeOK, Command, timing
<1> QED
  BY <1>1, <1>2 DEF do_del

LEMMA PExpireInv ==
    ASSUME Inv, NEW k \in Keys, NEW ttl_ms \in Ttls, do_expire(k, ttl_ms)
    PROVE  Inv'
<1> USE KeyspaceAssumption
<1>1. CASE ReadOnly
  BY <1>1, ReadOnlyInv
<1>2. CASE /\ Found(k) /\ Command /\ UNCHANGED <<memory, db, pool>>
           /\ heap' = [heap EXCEPT ![db[k]] = IF ttl_ms < 0 THEN NoTtl ELSE now + ttl_ms]
  <2>0. (IF ttl_ms < 0 THEN NoTtl ELSE now + ttl_ms) \in Nat \cup {NoTtl}
    BY DEF Inv, TypeOK
  <2>1. heap' \in [Entries -> Nat \cup {NoTtl}]
    BY <1>2, <2>0 DEF Inv, TypeOK
  <2>2. OneOwner'
    BY <1>2 DEF Inv, OneOwner, Command, InDb, InPool, BeingFreed, Found, IsFree, Ent
  <2>3. TimersAreInDb'
    BY <1>2 DEF Inv, TypeOK, TimersAreInDb, Timed, InDb
  <2> QED
    BY <1>2, <2>1, <2>2, <2>3 DEF Inv, TypeOK, Command, timing
<1> QED
  BY <1>1, <1>2 DEF do_expire

\* The entry that heap[0] points to is the one db holds under its key.
LEMMA TimedEntry ==
    ASSUME Inv, NEW e \in Timed
    PROVE  /\ memory[e].key \in Keys
           /\ Found(memory[e].key) /\ db[memory[e].key] = e
<1>1. PICK k \in Keys : db[k] = e
  BY DEF Inv, TimersAreInDb, InDb
<1>2. Found(k)
  BY <1>1, KeyspaceAssumption DEF Timed, Found
<1> QED
  BY <1>1, <1>2, FoundEntry DEF Ent

LEMMA ExpireTopInv ==
    ASSUME Inv, ExpireTop
    PROVE  Inv'
<1>1. PICK e \in Tops : /\ heap[e] < now_ms
                        /\ db' = [db EXCEPT ![memory[e].key] = None]
                        /\ entry_del(e)
  BY DEF ExpireTop
<1> DEFINE k == memory[e].key
<1>2. k \in Keys /\ Found(k) /\ db[k] = e
  BY TimedEntry DEF Tops
<1>3. UNCHANGED freeing
  BY DEF ExpireTop
<1>4. db' = [db EXCEPT ![k] = None] /\ entry_del(db[k])
  BY <1>1, <1>2
<1>5. /\ memory' \in [Entries -> Entry \cup {None}]
      /\ db' \in [Keys -> Entries \cup {None}]
      /\ heap' \in [Entries -> Nat \cup {NoTtl}]
      /\ pool' \in Seq(Entries)
      /\ OneOwner' /\ TimersAreInDb'
  <2> HIDE DEF k
  <2> QED
    BY <1>2, <1>3, <1>4, RemoveEntry
<1> QED
  BY <1>5 DEF Inv, TypeOK, ExpireTop, client

LEMMA WorkerTakeInv ==
    ASSUME Inv, NEW w \in Workers, WorkerTake(w)
    PROVE  Inv'
<1> USE KeyspaceAssumption DEF WorkerTake
<1> DEFINE e == Head(pool)
<1>1. /\ e \in Entries /\ pool[1] = e
      /\ pool' \in Seq(Entries)
      /\ Len(pool') = Len(pool) - 1 /\ Len(pool) \in Nat \ {0}
      /\ DOMAIN pool = 1 .. Len(pool) /\ DOMAIN pool' = 1 .. (Len(pool) - 1)
      /\ \A i \in DOMAIN pool' : pool'[i] = pool[i + 1]
  BY DEF Inv, TypeOK
<1>2. freeing' \in [Workers -> Entries \cup {None}]
  BY <1>1 DEF Inv, TypeOK
<1>3. InPool(e) /\ ~BeingFreed(e)
  BY <1>1 DEF Inv, OneOwner, InPool
<1>4. \A f \in Entries : BeingFreed(f)' <=> BeingFreed(f) \/ f = e
  BY <1>1 DEF Inv, TypeOK, BeingFreed
<1>5. \A i, j \in DOMAIN pool : pool[i] = pool[j] => i = j
  BY DEF Inv, OneOwner
<1>6. \A i, j \in DOMAIN pool' : pool'[i] = pool'[j] => i = j
  BY <1>1, <1>5
<1>7. \A f \in Entries : InPool(f)' <=> InPool(f) /\ f # e
  <2> SUFFICES ASSUME NEW f \in Entries
               PROVE  InPool(f)' <=> InPool(f) /\ f # e
    OBVIOUS
  <2>1. ASSUME InPool(f)' PROVE InPool(f) /\ f # e
    BY <2>1, <1>1, <1>5 DEF InPool
  <2>2. ASSUME InPool(f), f # e PROVE InPool(f)'
    <3>1. PICK i \in DOMAIN pool : pool[i] = f
      BY <2>2 DEF InPool
    <3>2. i - 1 \in DOMAIN pool' /\ pool'[i - 1] = f
      BY <3>1, <2>2, <1>1
    <3> QED
      BY <3>2 DEF InPool
  <2> QED
    BY <2>1, <2>2
<1>8. \A u, v \in Workers :
         freeing'[u] = freeing'[v] /\ freeing'[u] # None => u = v
  BY <1>3 DEF Inv, TypeOK, OneOwner, BeingFreed
<1> HIDE DEF e
<1>9. OneOwner'
  <2>1. /\ \A k \in Keys : Found(k)' => ~IsFree(db[k])' /\ Ent(k)'.key = k
        /\ \A f \in Entries : (InDb(f)' <=> InDb(f)) /\ (IsFree(f)' <=> IsFree(f))
    BY DEF Inv, OneOwner, Found, Ent, InDb, IsFree
  <2>2. \A f \in Entries :
          /\ IsFree(f)' <=> ~InDb(f)' /\ ~InPool(f)' /\ ~BeingFreed(f)'
          /\ ~(InDb(f)' /\ InPool(f)')
          /\ ~(InDb(f)' /\ BeingFreed(f)')
          /\ ~(InPool(f)' /\ BeingFreed(f)')
    BY <2>1, <1>1, <1>3, <1>4, <1>7 DEF Inv, OneOwner
  <2> QED
    BY <1>6, <1>8, <2>1, <2>2 DEF OneOwner
<1>10. TimersAreInDb'
  BY DEF Inv, TimersAreInDb, Timed, InDb
<1> QED
  BY <1>1, <1>2, <1>9, <1>10 DEF Inv, TypeOK, timing, client

LEMMA WorkerFreeInv ==
    ASSUME Inv, NEW w \in Workers, WorkerFree(w)
    PROVE  Inv'
<1> USE KeyspaceAssumption DEF WorkerFree
<1> DEFINE e == freeing[w]
<1>1. e \in Entries /\ BeingFreed(e) /\ ~InDb(e) /\ ~InPool(e)
  BY DEF Inv, TypeOK, OneOwner, BeingFreed
<1>2. /\ memory' \in [Entries -> Entry \cup {None}]
      /\ freeing' \in [Workers -> Entries \cup {None}]
  BY DEF Inv, TypeOK
<1>3. \A f \in Entries : IsFree(f)' <=> IsFree(f) \/ f = e
  BY <1>1 DEF Inv, TypeOK, IsFree
<1>4. \A f \in Entries : BeingFreed(f)' <=> BeingFreed(f) /\ f # e
  BY <1>1 DEF Inv, TypeOK, OneOwner, BeingFreed
<1>5. \A k \in Keys : Found(k)' => ~IsFree(db[k])' /\ Ent(k)'.key = k
  BY <1>1 DEF Inv, TypeOK, OneOwner, IsFree, Found, Ent, InDb
<1>6. \A u, v \in Workers :
         freeing'[u] = freeing'[v] /\ freeing'[u] # None => u = v
  BY DEF Inv, TypeOK, OneOwner
<1> HIDE DEF e
<1>7. OneOwner'
  BY <1>1, <1>3, <1>4, <1>5, <1>6 DEF Inv, OneOwner, InDb, InPool
<1>8. TimersAreInDb'
  BY DEF Inv, TimersAreInDb, Timed, InDb
<1> QED
  BY <1>2, <1>7, <1>8 DEF Inv, TypeOK, timing, client

LEMMA NextInv == Inv /\ [Next]_vars => Inv'
<1> SUFFICES ASSUME Inv, [Next]_vars PROVE Inv'
  OBVIOUS
<1>1. CASE Tick
  BY <1>1, KeepOwners DEF Inv, TypeOK, Tick, threads, client, timing, Owners
<1>2. ASSUME NEW k \in Keys, OnKey(k) PROVE Inv'
  <2>1. CASE do_get(k)
    BY <2>1, ReadOnlyInv DEF do_get
  <2>2. CASE do_del(k)
    BY <2>2, DelInv
  <2>3. CASE do_ttl(k)
    BY <2>3, ReadOnlyInv DEF do_ttl
  <2>4. ASSUME NEW s \in Strings, do_set(k, s) PROVE Inv'
    BY <2>4, SetInv
  <2>5. ASSUME NEW ttl_ms \in Ttls, do_expire(k, ttl_ms) PROVE Inv'
    BY <2>5, PExpireInv
  <2>6. ASSUME NEW name \in Members, do_zrem(k, name) PROVE Inv'
    BY <2>6, ZRemInv
  <2>7. ASSUME NEW name \in Members, do_zscore(k, name) PROVE Inv'
    BY <2>7, ReadOnlyInv DEF do_zscore
  <2>8. ASSUME NEW name \in Members, NEW score \in Scores, do_zadd(k, score, name)
        PROVE  Inv'
    BY <2>8, ZAddInv
  <2> QED
    BY <1>2, <2>1, <2>2, <2>3, <2>4, <2>5, <2>6, <2>7, <2>8 DEF OnKey
<1>3. CASE do_keys \/ Refuse("BAD_ARG") \/ Refuse("UNKNOWN")
  BY <1>3, ReadOnlyInv DEF do_keys, Refuse
<1>4. CASE BeginTimers
  BY <1>4, KeepOwners DEF Inv, TypeOK, BeginTimers, threads, client, Owners
<1>5. CASE ExpireTop
  BY <1>5, ExpireTopInv
<1>6. CASE ExpireDone
  BY <1>6, KeepOwners DEF Inv, TypeOK, ExpireDone, threads, client, Owners
<1>7. ASSUME NEW w \in Workers, WorkerStep(w) PROVE Inv'
  BY <1>7, WorkerTakeInv, WorkerFreeInv DEF WorkerStep
<1>8. CASE UNCHANGED vars
  BY <1>8, KeepOwners DEF Inv, TypeOK, vars, Owners
<1>9. CASE try_one_request
  BY <1>9, KeepOwners DEF Inv, TypeOK, try_one_request, threads, timing, Owners
<1> QED
  BY <1>1, <1>2, <1>3, <1>4, <1>5, <1>6, <1>7, <1>8, <1>9 DEF Next, do_request

\* The inductive invariant Inv holds in every reachable state of the database:
\* ownership, timers and the loop's clock agree whatever commands are run.
THEOREM InvHolds == Spec => []Inv
BY InitInv, NextInv, PTL DEF Spec

\* Type correctness of the database (see TypeOK).
THEOREM TypeCorrect == Spec => []TypeOK
<1>1. Inv => TypeOK
  BY DEF Inv
<1> QED
  BY <1>1, InvHolds, PTL

\* For every number of keys, entries and workers: an allocated entry belongs to
\* the hash table, to the pool's queue or to one worker, and to one only.
THEOREM Ownership == Spec => []OneOwner
<1>1. Inv => OneOwner
  BY DEF Inv
<1> QED
  BY <1>1, InvHolds, PTL

\* The assert of process_timers(): what heap[0] points to is in the hash table.
THEOREM NoDanglingTimer == Spec => []TimersAreInDb
<1>1. Inv => TimersAreInDb
  BY DEF Inv
<1> QED
  BY <1>1, InvHolds, PTL

-----------------------------------------------------------------------------
(* What the four kinds of steps do to the client's view.                   *)

LEMMA ViewOf ==
    ASSUME Inv, NEW k \in Keys
    PROVE  /\ KV!Exists(k) <=> Found(k)
           /\ Found(k) => /\ Store[k] = Value(Ent(k))
                          /\ Deadline[k] = heap[db[k]]
                          /\ Ent(k).type \in {"T_STR", "T_ZSET"}
                          /\ KV!IsStr(Store[k]) <=> Ent(k).type = "T_STR"
                          /\ KV!IsZSet(Store[k]) <=> Ent(k).type = "T_ZSET"
                          /\ Ent(k).type = "T_STR" => Store[k] = <<"str", Ent(k).str>>
                          /\ Ent(k).type = "T_ZSET" => Store[k][2] = Ent(k).zset
           /\ ~Found(k) => Store[k] = None /\ Deadline[k] = NoTtl
<1>1. ASSUME Found(k) PROVE Value(Ent(k)) # None
  <2>1. /\ Ent(k).str \in Strings \cup {None} /\ Ent(k).zset \in ZSet
        /\ Ent(k).type \in {"T_STR", "T_ZSET"}
    BY <1>1, FoundEntry DEF Entry
  <2> QED
    BY <2>1, NoneAssumption DEF Value
<1>2. ASSUME Found(k) PROVE Ent(k).type \in {"T_STR", "T_ZSET"}
  BY <1>2, FoundEntry DEF Entry
<1>3. Store[k] = (IF Found(k) THEN Value(Ent(k)) ELSE None)
  BY DEF Store
<1>4. Deadline[k] = (IF Found(k) THEN heap[db[k]] ELSE NoTtl)
  BY DEF Deadline
<1> QED
  BY <1>1, <1>2, <1>3, <1>4 DEF KV!Exists, KV!IsStr, KV!IsZSet, Value

LEMMA KeepView ==
    ASSUME UNCHANGED <<memory, db, heap>>
    PROVE  UNCHANGED <<Store, Deadline>>
BY DEF Store, Deadline, Found, Ent, Value

LEMMA UpdateView ==
    ASSUME Inv, NEW k \in Keys, Found(k),
           NEW ent, memory' = [memory EXCEPT ![db[k]] = ent],
           UNCHANGED <<db, heap>>
    PROVE  Store' = [Store EXCEPT ![k] = Value(ent)] /\ UNCHANGED Deadline
<1>1. \A l \in Keys : Found(l) /\ l # k => db[l] # db[k] /\ db[l] \in Entries
  BY DEF Inv, TypeOK, OneOwner, Found, Ent
<1>2. db[k] \in Entries
  BY FoundEntry
<1>3. \A l \in Keys : /\ Found(l)' <=> Found(l)
                      /\ Found(l) /\ l # k => Ent(l)' = Ent(l)
                      /\ l = k => Ent(l)' = ent
  BY <1>1, <1>2 DEF Inv, TypeOK, Found, Ent
<1>4. UNCHANGED Deadline
  BY DEF Deadline, Found
<1>5. Store' = [l \in Keys |-> IF Found(l)' THEN Value(Ent(l)') ELSE None]
  BY DEF Store, Value
<1> QED
  BY <1>3, <1>4, <1>5 DEF Store

LEMMA InsertView ==
    ASSUME Inv, NEW k \in Keys, ~Found(k),
           NEW e \in Entries, NEW ent, ent.key = k,
           NewEntry(e, ent), UNCHANGED heap
    PROVE  Store' = [Store EXCEPT ![k] = Value(ent)] /\ UNCHANGED Deadline
<1> USE KeyspaceAssumption DEF NewEntry
<1>1. ~InDb(e)
  BY DEF Inv, OneOwner
<1>2. heap[e] = NoTtl
  BY <1>1 DEF Inv, TimersAreInDb, Timed
<1>3. \A l \in Keys : /\ Found(l)' <=> Found(l) \/ l = k
                      /\ Found(l) => db'[l] = db[l] /\ Ent(l)' = Ent(l)
                      /\ l = k => db'[l] = e /\ Ent(l)' = ent
  BY <1>1 DEF Inv, TypeOK, Found, Ent, InDb
<1>4. UNCHANGED Deadline
  BY <1>2, <1>3 DEF Deadline
<1>5. Store' = [l \in Keys |-> IF Found(l)' THEN Value(Ent(l)') ELSE None]
  BY DEF Store, Value
<1> QED
  BY <1>3, <1>4, <1>5 DEF Store

LEMMA RemoveView ==
    ASSUME Inv, NEW k \in Keys, Found(k),
           db' = [db EXCEPT ![k] = None],
           entry_del(db[k])
    PROVE  /\ Store' = [Store EXCEPT ![k] = None]
           /\ Deadline' = [Deadline EXCEPT ![k] = NoTtl]
<1> USE KeyspaceAssumption
<1>1. \A l \in Keys : Found(l) /\ l # k => db[l] # db[k] /\ db[l] \in Entries
  BY DEF Inv, TypeOK, OneOwner, Found, Ent
<1>2. \A f \in Entries : f # db[k] => memory'[f] = memory[f] /\ heap'[f] = heap[f]
  BY DEF Inv, TypeOK, entry_del
<1>3. \A l \in Keys : /\ Found(l)' <=> Found(l) /\ l # k
                      /\ Found(l) /\ l # k => /\ Ent(l)' = Ent(l)
                                              /\ heap'[db'[l]] = heap[db[l]]
  BY <1>1, <1>2 DEF Inv, TypeOK, Found, Ent
<1>4. Store' = [l \in Keys |-> IF Found(l)' THEN Value(Ent(l)') ELSE None]
  BY DEF Store, Value
<1>5. Deadline' = [l \in Keys |-> IF Found(l)' THEN heap'[db'[l]] ELSE NoTtl]
  BY DEF Deadline
<1> QED
  BY <1>3, <1>4, <1>5 DEF Store, Deadline

-----------------------------------------------------------------------------
(* The refinement: one step per command.                                   *)

LEMMA ReadOnlyView ==
    ASSUME ReadOnly
    PROVE  UNCHANGED <<now, Store, Deadline>>
BY KeepView DEF ReadOnly, Command

LEMMA RefineGet ==
    ASSUME Inv, NEW k \in Keys, KV!Asked(<<"get", k>>), do_get(k)
    PROVE  KV!Get(k)
<1>1. UNCHANGED <<now, Store, Deadline>>
  BY ReadOnlyView DEF do_get
<1> QED
  BY <1>1, ViewOf DEF do_get, KV!Get, KV!Replied, KV!ReadOnly, Nil, Error, Str,
     KV!Nil, KV!Err

LEMMA RefineSet ==
    ASSUME Inv, NEW k \in Keys, NEW s \in Strings, KV!Asked(<<"set", k, s>>), do_set(k, s)
    PROVE  KV!Set(k, s)
<1>1. CASE /\ Found(k) /\ Ent(k).type = "T_STR"
           /\ memory' = [memory EXCEPT ![db[k]].str = s]
           /\ reply' = Nil
           /\ Command /\ UNCHANGED <<db, heap, pool>>
  <2> DEFINE ent == [Ent(k) EXCEPT !.str = s]
  <2>1. memory' = [memory EXCEPT ![db[k]] = ent]
    BY <1>1, FoundEntry DEF Ent
  <2>2. Value(ent) = <<"str", s>>
    BY <1>1, FoundEntry DEF Value, Entry
  <2> HIDE DEF ent
  <2>0. Found(k) /\ UNCHANGED <<db, heap>>
    BY <1>1
  <2>3. Store' = [Store EXCEPT ![k] = Value(ent)] /\ UNCHANGED Deadline
    BY <2>0, <2>1, UpdateView
  <2> QED
    BY <1>1, <2>2, <2>3, ViewOf DEF KV!Set, KV!Stored, KV!Str, KV!Replied, KV!Nil, Nil, Command
<1>2. CASE /\ Found(k) /\ Ent(k).type # "T_STR"
           /\ reply' = Error("BAD_TYP") /\ ReadOnly
  BY <1>2, ReadOnlyView, ViewOf DEF KV!Set, KV!Replied, KV!Err, Error, KV!ReadOnly
<1>3. CASE /\ ~Found(k) /\ reply' = Nil /\ Command /\ UNCHANGED <<heap, pool>>
           /\ \E e \in Entries : NewEntry(e, [key |-> k, type |-> "T_STR", str |-> s,
                                              zset |-> EmptyZSet])
  <2> DEFINE ent == [key |-> k, type |-> "T_STR", str |-> s, zset |-> EmptyZSet]
  <2>1. PICK e \in Entries : NewEntry(e, ent)
    BY <1>3
  <2>2. Value(ent) = <<"str", s>> /\ ent.key = k
    BY DEF Value
  <2> HIDE DEF ent
  <2>3. Store' = [Store EXCEPT ![k] = <<"str", s>>] /\ UNCHANGED Deadline
    BY <1>3, <2>1, <2>2, InsertView
  <2> QED
    BY <1>3, <2>3, ViewOf DEF KV!Set, KV!Stored, KV!Str, KV!Replied, KV!Nil, Nil, Command
<1> QED
  BY <1>1, <1>2, <1>3 DEF do_set

LEMMA RefineDel ==
    ASSUME Inv, NEW k \in Keys, KV!Asked(<<"del", k>>), do_del(k)
    PROVE  KV!Del(k)
<1>1. CASE /\ Found(k) /\ db' = [db EXCEPT ![k] = None] /\ entry_del(db[k])
           /\ reply' = Int64(1) /\ Command
  BY <1>1, RemoveView, ViewOf
     DEF KV!Del, KV!Deleted, KV!NoDeadline, NoTtl, KV!Replied, KV!Num, Int64, Command
<1>2. CASE ~Found(k) /\ reply' = Int64(0) /\ ReadOnly
  <2>1. UNCHANGED <<now, Store, Deadline>>
    BY <1>2, ReadOnlyView
  <2>2. Store = [Store EXCEPT ![k] = None] /\ Deadline = [Deadline EXCEPT ![k] = NoTtl]
    BY <1>2, ViewOf DEF Store, Deadline
  <2> QED
    BY <1>2, <2>1, <2>2, ViewOf
       DEF KV!Del, KV!Deleted, KV!NoDeadline, NoTtl, KV!Replied, KV!Num, Int64
<1> QED
  BY <1>1, <1>2 DEF do_del

LEMMA RefineExpire ==
    ASSUME Inv, NEW k \in Keys, NEW ttl_ms \in Ttls, KV!Asked(<<"pexpire", k, ttl_ms>>), do_expire(k, ttl_ms)
    PROVE  KV!PExpire(k, ttl_ms)
<1>1. CASE /\ Found(k)
           /\ heap' = [heap EXCEPT ![db[k]] = IF ttl_ms < 0 THEN NoTtl ELSE now + ttl_ms]
           /\ reply' = Int64(1)
           /\ Command /\ UNCHANGED <<memory, db, pool>>
  <2> DEFINE at == IF ttl_ms < 0 THEN NoTtl ELSE now + ttl_ms
  <2>1. \A l \in Keys : Found(l) /\ l # k => db[l] # db[k]
    BY <1>1 DEF Inv, TypeOK, OneOwner, Found, Ent
  <2>2. db[k] \in Entries
    BY <1>1, FoundEntry
  <2>3. UNCHANGED Store
    BY <1>1 DEF Store, Found, Ent, Value
  <2>4. heap' = [heap EXCEPT ![db[k]] = at]
    BY <1>1
  <2> HIDE DEF at
  <2>5. Deadline' = [l \in Keys |-> IF Found(l) THEN heap'[db[l]] ELSE NoTtl]
    BY <1>1 DEF Deadline, Found
  <2>6. Deadline' = [Deadline EXCEPT ![k] = at]
    <3>1. heap'[db[k]] = at
      BY <2>2, <2>4 DEF Inv, TypeOK
    <3>2. \A l \in Keys : Found(l) /\ l # k => heap'[db[l]] = heap[db[l]]
      BY <2>1, <2>4 DEF Inv, TypeOK, Found
    <3> QED
      BY <1>1, <2>5, <3>1, <3>2 DEF Deadline
  <2> QED
    BY <1>1, <2>3, <2>6, ViewOf
       DEF at, KV!PExpire, KV!NoDeadline, NoTtl, KV!Replied, KV!Num, Int64, Command
<1>2. CASE ~Found(k) /\ reply' = Int64(0) /\ ReadOnly
  BY <1>2, ReadOnlyView, ViewOf DEF KV!PExpire, KV!Replied, KV!Num, Int64
<1> QED
  BY <1>1, <1>2 DEF do_expire

LEMMA RefineTtl ==
    ASSUME Inv, NEW k \in Keys, KV!Asked(<<"pttl", k>>), do_ttl(k)
    PROVE  KV!PTtl(k)
<1>1. UNCHANGED <<now, Store, Deadline>>
  BY ReadOnlyView DEF do_ttl
<1> QED
  BY <1>1, ViewOf DEF do_ttl, KV!PTtl, KV!Replied, KV!ReadOnly, KV!Num, Int64,
     KV!NoDeadline, NoTtl

LEMMA RefineKeys ==
    ASSUME Inv, KV!Asked(<<"keys">>), do_keys
    PROVE  KV!AllKeys
<1>1. UNCHANGED <<now, Store, Deadline>>
  BY ReadOnlyView DEF do_keys
<1>2. {memory[db[k]].key : k \in {l \in Keys : Found(l)}} = {k \in Keys : KV!Exists(k)}
  <2>1. \A k \in Keys : Found(k) => memory[db[k]].key = k
    BY FoundEntry DEF Ent
  <2>2. \A k \in Keys : KV!Exists(k) <=> Found(k)
    BY ViewOf
  <2> QED
    BY <2>1, <2>2
<1> QED
  BY <1>1, <1>2 DEF do_keys, KV!AllKeys, KV!Replied, KV!ReadOnly, KV!Arr, Array

\* The sorted set both specifications look at, and the type error.
LEMMA ScoredView ==
    ASSUME Inv, NEW k \in Keys
    PROVE  /\ KV!NotAZSet(k) <=> WrongType(k)
           /\ ~WrongType(k) => KV!Scored(k) = expect_zset(k)
BY ViewOf DEF KV!NotAZSet, WrongType, KV!Scored, expect_zset, EmptyZSet

LEMMA RefineZAdd ==
    ASSUME Inv, NEW k \in Keys, NEW score \in Scores, NEW name \in Members,
           KV!Asked(<<"zadd", k, score, name>>), do_zadd(k, score, name)
    PROVE  KV!ZAdd(k, name, score)
<1> DEFINE z == expect_zset(k)
<1>1. CASE /\ ~Found(k) /\ reply' = Int64(1) /\ Command /\ UNCHANGED <<heap, pool>>
           /\ \E e \in Entries :
                 NewEntry(e, [key |-> k, type |-> "T_ZSET", str |-> None,
                              zset |-> zset_insert(EmptyZSet, name, score)])
  <2> DEFINE ent == [key |-> k, type |-> "T_ZSET", str |-> None,
                     zset |-> zset_insert(EmptyZSet, name, score)]
  <2>1. PICK e \in Entries : NewEntry(e, ent)
    BY <1>1
  <2>2. Value(ent) = <<"zset", zset_insert(EmptyZSet, name, score)>> /\ ent.key = k
    BY DEF Value
  <2>3. ~Found(k) /\ UNCHANGED heap
    BY <1>1
  <2> HIDE DEF ent
  <2>4. Store' = [Store EXCEPT ![k] = Value(ent)] /\ UNCHANGED Deadline
    BY <2>1, <2>2, <2>3, InsertView
  <2>5. ~WrongType(k) /\ expect_zset(k) = EmptyZSet /\ name \notin DOMAIN EmptyZSet
    BY <1>1 DEF WrongType, expect_zset, EmptyZSet
  <2> QED
    BY <1>1, <2>2, <2>4, <2>5, ScoredView
       DEF KV!ZAdd, KV!Stored, KV!ZSet, KV!Replied, KV!Num, Int64, zset_insert, Command
<1>2. CASE /\ Found(k) /\ Ent(k).type # "T_ZSET"
           /\ reply' = Error("BAD_TYP") /\ ReadOnly
  BY <1>2, ReadOnlyView, ScoredView
     DEF KV!ZAdd, WrongType, KV!Replied, KV!Err, Error, KV!ReadOnly
<1>3. CASE /\ Found(k) /\ Ent(k).type = "T_ZSET"
           /\ memory' = [memory EXCEPT ![db[k]].zset = zset_insert(@, name, score)]
           /\ reply' = Int64(IF name \in DOMAIN Ent(k).zset THEN 0 ELSE 1)
           /\ Command /\ UNCHANGED <<db, heap, pool>>
  <2> DEFINE ent == [Ent(k) EXCEPT !.zset = zset_insert(Ent(k).zset, name, score)]
  <2>1. memory' = [memory EXCEPT ![db[k]] = ent]
    BY <1>3, FoundEntry DEF Ent
  <2>2. Value(ent) = <<"zset", zset_insert(Ent(k).zset, name, score)>>
    BY <1>3, FoundEntry DEF Value, Entry
  <2>3. Found(k) /\ UNCHANGED <<db, heap>>
    BY <1>3
  <2> HIDE DEF ent
  <2>4. Store' = [Store EXCEPT ![k] = Value(ent)] /\ UNCHANGED Deadline
    BY <2>1, <2>3, UpdateView
  <2>5. ~WrongType(k) /\ expect_zset(k) = Ent(k).zset
    BY <1>3 DEF WrongType, expect_zset
  <2> QED
    BY <1>3, <2>2, <2>4, <2>5, ScoredView
       DEF KV!ZAdd, KV!Stored, KV!ZSet, KV!Replied, KV!Num, Int64, zset_insert, Command
<1> QED
  BY <1>1, <1>2, <1>3 DEF do_zadd

LEMMA RefineZRem ==
    ASSUME Inv, NEW k \in Keys, NEW name \in Members, KV!Asked(<<"zrem", k, name>>), do_zrem(k, name)
    PROVE  KV!ZRem(k, name)
<1>1. CASE WrongType(k) /\ reply' = Error("BAD_TYP") /\ ReadOnly
  BY <1>1, ReadOnlyView, ScoredView
     DEF KV!ZRem, KV!Replied, KV!Err, Error, KV!ReadOnly
<1>2. CASE ~WrongType(k) /\ name \notin DOMAIN expect_zset(k) /\ reply' = Int64(0)
           /\ ReadOnly
  BY <1>2, ReadOnlyView, ScoredView
     DEF KV!ZRem, KV!Replied, KV!Num, Int64, KV!ReadOnly
<1>3. CASE /\ ~WrongType(k) /\ name \in DOMAIN expect_zset(k)
           /\ memory' = [memory EXCEPT ![db[k]].zset = zset_delete(@, name)]
           /\ reply' = Int64(1)
           /\ Command /\ UNCHANGED <<db, heap, pool>>
  <2> DEFINE ent == [Ent(k) EXCEPT !.zset = zset_delete(Ent(k).zset, name)]
  <2>0. Found(k)
    BY <1>3 DEF expect_zset, EmptyZSet
  <2>1. memory' = [memory EXCEPT ![db[k]] = ent]
    BY <1>3, <2>0, FoundEntry DEF Ent
  <2>2. Value(ent) = <<"zset", zset_delete(Ent(k).zset, name)>>
    BY <1>3, <2>0, FoundEntry DEF Value, Entry, WrongType
  <2>3. UNCHANGED <<db, heap>>
    BY <1>3
  <2> HIDE DEF ent
  <2>4. Store' = [Store EXCEPT ![k] = Value(ent)] /\ UNCHANGED Deadline
    BY <2>0, <2>1, <2>3, UpdateView
  <2>5. expect_zset(k) = Ent(k).zset
    BY <2>0 DEF expect_zset
  <2> QED
    BY <1>3, <2>2, <2>4, <2>5, ScoredView
       DEF KV!ZRem, KV!Stored, KV!ZSet, KV!Replied, KV!Num, Int64, zset_delete, Command
<1> QED
  BY <1>1, <1>2, <1>3 DEF do_zrem

LEMMA RefineZScore ==
    ASSUME Inv, NEW k \in Keys, NEW name \in Members, KV!Asked(<<"zscore", k, name>>), do_zscore(k, name)
    PROVE  KV!ZScore(k, name)
<1>1. UNCHANGED <<now, Store, Deadline>>
  BY ReadOnlyView DEF do_zscore
<1> QED
  BY <1>1, ScoredView DEF do_zscore, KV!ZScore, KV!Replied, KV!ReadOnly, KV!Err, Error,
     KV!Dbl, Double, KV!Nil, Nil

LEMMA RefineExpireTop ==
    ASSUME Inv, ExpireTop
    PROVE  \E k \in Keys : KV!Expire(k)
<1>1. PICK e \in Tops : /\ heap[e] < now_ms
                        /\ db' = [db EXCEPT ![memory[e].key] = None]
                        /\ entry_del(e)
  BY DEF ExpireTop
<1>2. PICK k \in Keys : k = memory[e].key /\ Found(k) /\ db[k] = e
  BY TimedEntry DEF Tops
<1>3. /\ Store' = [Store EXCEPT ![k] = None]
      /\ Deadline' = [Deadline EXCEPT ![k] = NoTtl]
  BY <1>1, <1>2, RemoveView
<1>4. heap[e] # NoTtl /\ heap[e] < now
  <2>1. heap[e] # NoTtl /\ heap[e] \in Nat /\ now \in Nat /\ now_ms \in Nat
    BY DEF Tops, Timed, Inv, TypeOK
  <2> QED
    BY <1>1, <2>1 DEF Inv
<1>5. KV!Expire(k)
  BY <1>2, <1>3, <1>4, ViewOf
     DEF KV!Expire, KV!Deleted, KV!NoDeadline, NoTtl, ExpireTop, client
<1> QED
  BY <1>5

\* A worker frees an entry no client can see.
LEMMA FreeView ==
    ASSUME Inv, NEW w \in Workers, WorkerFree(w)
    PROVE  UNCHANGED <<Store, Deadline>>
<1>1. freeing[w] \in Entries /\ ~InDb(freeing[w])
  BY DEF WorkerFree, Inv, TypeOK, OneOwner, BeingFreed
<1>2. \A k \in Keys : Found(k) => Ent(k)' = Ent(k)
  BY <1>1 DEF WorkerFree, Inv, TypeOK, Found, Ent, InDb
<1>3. Store' = [k \in Keys |-> IF Found(k)' THEN Value(Ent(k)') ELSE None]
  BY DEF Store, Value
<1> QED
  BY <1>2, <1>3 DEF WorkerFree, Store, Deadline, Found

LEMMA RefineNext == Inv /\ [Next]_vars => [KV!Next]_(KV!vars)
<1> SUFFICES ASSUME Inv, [Next]_vars PROVE KV!Next \/ UNCHANGED KV!vars
  OBVIOUS
<1>1. CASE Tick
  <2>1. UNCHANGED <<Store, Deadline>>
    BY <1>1, KeepView DEF Tick
  <2> QED
    BY <1>1, <2>1 DEF Tick, client, KV!Next, KV!Tick
<1> USE DEF Command, ReadOnly, KV!Asked
<1>2. ASSUME NEW k \in Keys, OnKey(k) PROVE KV!Next
  <2> SUFFICES KV!KeyCommand(k)
    BY DEF KV!Next
  <2> USE DEF KV!KeyCommand
  <2>1. ASSUME request = <<"get", k>>, do_get(k) PROVE KV!KeyCommand(k)
    <3>1. KV!Asked(<<"get", k>>)
      BY <2>1 DEF do_get
    <3> QED
      BY <2>1, <3>1, RefineGet
  <2>2. ASSUME request = <<"del", k>>, do_del(k) PROVE KV!KeyCommand(k)
    <3>1. KV!Asked(<<"del", k>>)
      BY <2>2 DEF do_del
    <3> QED
      BY <2>2, <3>1, RefineDel
  <2>3. ASSUME request = <<"pttl", k>>, do_ttl(k) PROVE KV!KeyCommand(k)
    <3>1. KV!Asked(<<"pttl", k>>)
      BY <2>3 DEF do_ttl
    <3> QED
      BY <2>3, <3>1, RefineTtl
  <2>4. ASSUME NEW s \in Strings, request = <<"set", k, s>>, do_set(k, s) PROVE KV!KeyCommand(k)
    <3>1. KV!Asked(<<"set", k, s>>)
      BY <2>4 DEF do_set
    <3> QED
      BY <2>4, <3>1, RefineSet
  <2>5. ASSUME NEW ttl_ms \in Ttls, request = <<"pexpire", k, ttl_ms>>, do_expire(k, ttl_ms)
        PROVE  KV!KeyCommand(k)
    <3>1. KV!Asked(<<"pexpire", k, ttl_ms>>)
      BY <2>5 DEF do_expire
    <3> QED
      BY <2>5, <3>1, RefineExpire
  <2>6. ASSUME NEW name \in Members, request = <<"zrem", k, name>>, do_zrem(k, name)
        PROVE  KV!KeyCommand(k)
    <3>1. KV!Asked(<<"zrem", k, name>>)
      BY <2>6 DEF do_zrem
    <3> QED
      BY <2>6, <3>1, RefineZRem
  <2>7. ASSUME NEW name \in Members, request = <<"zscore", k, name>>, do_zscore(k, name)
        PROVE  KV!KeyCommand(k)
    <3>1. KV!Asked(<<"zscore", k, name>>)
      BY <2>7 DEF do_zscore
    <3> QED
      BY <2>7, <3>1, RefineZScore
  <2>8. ASSUME NEW name \in Members, NEW score \in Scores,
               request = <<"zadd", k, score, name>>, do_zadd(k, score, name)
        PROVE  KV!KeyCommand(k)
    <3>1. KV!Asked(<<"zadd", k, score, name>>)
      BY <2>8 DEF do_zadd
    <3> QED
      BY <2>8, <3>1, RefineZAdd
  <2> QED
    BY <1>2, <2>1, <2>2, <2>3, <2>4, <2>5, <2>6, <2>7, <2>8 DEF OnKey
<1>3. CASE request = <<"keys">> /\ do_keys
  <2>1. KV!Asked(<<"keys">>)
    BY <1>3 DEF do_keys
  <2> QED
    BY <1>3, <2>1, RefineKeys DEF KV!Next
<1>4. CASE \/ request = <<"malformed">> /\ Refuse("BAD_ARG")
           \/ request = <<"unknown">> /\ Refuse("UNKNOWN")
  <2>1. UNCHANGED <<now, Store, Deadline>>
    BY <1>4, ReadOnlyView DEF Refuse
  <2> QED
    BY <1>4, <2>1 DEF Refuse, Error, KV!Next, KV!Refuse, KV!Replied, KV!Err, KV!ReadOnly
<1>5. CASE BeginTimers \/ ExpireDone
  BY <1>5, KeepView DEF BeginTimers, ExpireDone, client, KV!vars
<1>6. CASE ExpireTop
  BY <1>6, RefineExpireTop DEF KV!Next
<1>7. ASSUME NEW w \in Workers, WorkerStep(w) PROVE UNCHANGED KV!vars
  BY <1>7, KeepView, FreeView DEF WorkerStep, WorkerTake, WorkerFree, client, KV!vars
<1>8. CASE UNCHANGED vars
  BY <1>8, KeepView DEF vars, KV!vars
<1>9. CASE try_one_request
  <2>1. UNCHANGED <<Store, Deadline>>
    BY <1>9, KeepView DEF try_one_request
  <2>2. request = None /\ request' \in KV!Requests /\ reply' = None /\ UNCHANGED now
    BY <1>9 DEF try_one_request, Requests, KV!Requests
  <2> QED
    BY <2>1, <2>2 DEF KV!Next, KV!Receive, KV!ReadOnly
<1> QED
  BY <1>1, <1>2, <1>3, <1>4, <1>5, <1>6, <1>7, <1>8, <1>9 DEF Next, do_request

LEMMA RefineInit == Init => KV!Init
BY KeyspaceAssumption DEF Init, KV!Init, Store, Deadline, Found, NoTtl,
   KV!NoDeadline, KV!Nil

\* The server's database implements the map with deadlines, for every number of
\* keys, entries and workers and every expiry budget: each request is answered,
\* and changes its key, as KVStore says for that very request.
THEOREM Refinement == Spec => ImplementsKVStore
<1>1. Spec => KV!Init /\ [][KV!Next]_(KV!vars)
  BY RefineInit, RefineNext, InvHolds, PTL DEF Spec
<1> QED
  BY <1>1 DEF ImplementsKVStore, KV!Spec

=============================================================================
