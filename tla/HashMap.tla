------------------------------ MODULE HashMap -------------------------------
(***************************************************************************)
(* The hash table of container/hash_table.cc: chaining, and a resize that  *)
(* is spread over the operations that follow it. While it lasts there are  *)
(* two tables; every operation first moves up to RehashWork nodes from the *)
(* older to the newer one, resuming at migrate_pos.                        *)
(*                                                                         *)
(* A node is identified with its key. An operation starts with one action, *)
(* turns the loop of rehashing() once per step, and ends with its search.  *)
(***************************************************************************)
EXTENDS Integers, SequencesExt, FiniteSetsExt

CONSTANTS Keys,
          Hash,        \* hash_code of each key
          InitSlots,   \* slots of the first table (4)
          MaxLoad,     \* k_max_load_factor
          RehashWork,  \* k_rehashing_work
          Null         \* a null HashTab pointer; no key

ASSUME HashMapAssumption ==
    /\ IsFiniteSet(Keys) /\ Hash \in [Keys -> Nat]
    /\ InitSlots \in Nat /\ InitSlots > 1 /\ \E n \in 1 .. InitSlots : InitSlots = 2 ^ n
    /\ MaxLoad \in Nat \ {0} /\ RehashWork \in Nat \ {0}
    /\ Null \notin Keys

\* Null is no table either: none that a resize can put in the place of older,
\* which has no more slots than there are keys
ASSUME NullAssumption ==
    \A m \in 0 .. Cardinality(Keys) :
        Null \notin [mask : Nat, size : Nat, tab : [0 .. m -> Seq(Keys)]]

VARIABLES newer, older,  \* HashTab: mask, size, and the chain of each slot
          migrate_pos,   \* the slot of older where rehashing() resumes
          pc,            \* "idle", or where the operation in progress is
          op, key,       \* that operation and its key
          nwork,         \* nodes moved by this rehashing()
          found          \* whether the last lookup or remove found its key

vars == <<newer, older, migrate_pos, pc, op, key, nwork, found>>
tables == <<newer, older, migrate_pos>>

-----------------------------------------------------------------------------
(* One table.                                                              *)

ht_make(n) == [mask |-> n - 1, size |-> 0, tab |-> [i \in 0 .. n - 1 |-> <<>>]]

\* hash_code & mask, for a mask of the form 2^n - 1
Pos(ht, k) == Hash[k] % (ht.mask + 1)

\* a node becomes the first of its chain
ht_insert(ht, k) ==
    [ht EXCEPT !.tab[Pos(ht, k)] = <<k>> \o @, !.size = @ + 1]

ht_lookup(ht, k) == \E i \in DOMAIN ht.tab[Pos(ht, k)] : ht.tab[Pos(ht, k)][i] = k

\* ht_detach() of the node that ht_lookup() found in slot pos
ht_detach(ht, pos, k) ==
    [ht EXCEPT !.tab[pos] = RemoveFirst(@, k), !.size = @ - 1]

\* the nodes in the order of ht_foreach()
Walk(ht) == FlattenSeq([i \in 1 .. ht.mask + 1 |-> ht.tab[i - 1]])

\* the part of it up to the key at which the callback returns false
ht_foreach(ht, stop) ==
    LET all  == Walk(ht)
        hits == {i \in DOMAIN all : all[i] = stop}
    IN  IF ht.mask = 0 THEN <<>>
        ELSE IF hits = {} THEN all ELSE SubSeq(all, 1, Min(hits))

ToKeys(ht) == {k \in Keys : \E i \in 0 .. ht.mask : k \in ToSet(ht.tab[i])}

Content == ToKeys(newer) \cup (IF older = Null THEN {} ELSE ToKeys(older))

size == newer.size + (IF older = Null THEN 0 ELSE older.size)

Init ==
    /\ newer = ht_make(InitSlots)
    /\ older = Null
    /\ migrate_pos = 0
    /\ pc = "idle" /\ op = "none" /\ key = Null
    /\ nwork = 0
    /\ found = FALSE

-----------------------------------------------------------------------------
(* The operations.                                                         *)

Start(o, k) ==
    /\ pc = "idle" /\ pc' = "rehash"
    /\ op' = o /\ key' = k
    /\ nwork' = 0
    /\ UNCHANGED found

\* inspect_rehashing(), where ht is the newer table
inspect_rehashing(ht) ==
    IF older = Null /\ ht.size >= (ht.mask + 1) * MaxLoad
    THEN older' = ht /\ newer' = ht_make((ht.mask + 1) * 2) /\ migrate_pos' = 0
    ELSE newer' = ht /\ UNCHANGED <<older, migrate_pos>>

\* (mutation) an insertion migrates nothing
InsertNoRehash(k) ==
    /\ pc = "idle"
    /\ k \notin Content
    /\ inspect_rehashing(ht_insert(newer, k))
    /\ UNCHANGED <<pc, op, key, nwork, found>>

\* the callers have looked the key up and not found it
insert(k) ==
    /\ k \notin Content
    /\ inspect_rehashing(ht_insert(newer, k))
    /\ Start("insert", k)

lookup(k) == Start("lookup", k) /\ UNCHANGED tables
remove(k) == Start("remove", k) /\ UNCHANGED tables

-----------------------------------------------------------------------------
(* rehashing().                                                            *)

Migrating == pc = "rehash" /\ older # Null /\ nwork < RehashWork /\ older.size > 0

\* (mutation) the cursor stays
SkipNothing ==
    /\ Migrating
    /\ older.tab[migrate_pos] = <<>>
    /\ UNCHANGED vars

SkipEmptySlot ==
    /\ Migrating
    /\ older.tab[migrate_pos] = <<>>
    /\ migrate_pos' = migrate_pos + 1
    /\ UNCHANGED <<newer, older, pc, op, key, nwork, found>>

\* (mutation) the node stays in the older table
CopyNode ==
    /\ Migrating
    /\ older.tab[migrate_pos] # <<>>
    /\ LET k == older.tab[migrate_pos][1]
       IN  /\ newer' = ht_insert(newer, k)
           /\ older' = [older EXCEPT !.size = @ - 1]
    /\ nwork' = nwork + 1
    /\ UNCHANGED <<migrate_pos, pc, op, key, found>>

\* the first node of the chain moves to the newer table
MoveNode ==
    /\ Migrating
    /\ older.tab[migrate_pos] # <<>>
    /\ LET k == older.tab[migrate_pos][1]
       IN  /\ newer' = ht_insert(newer, k)
           /\ older' = ht_detach(older, migrate_pos, k)
    /\ nwork' = nwork + 1
    /\ UNCHANGED <<migrate_pos, pc, op, key, found>>

\* (mutation) the older table goes when the work is done, not when it is empty
EndRehashDrop ==
    /\ pc = "rehash" /\ ~Migrating
    /\ older' = Null /\ migrate_pos' = 0
    /\ pc' = IF op = "insert" THEN "idle" ELSE "search"
    /\ UNCHANGED <<newer, op, key, nwork, found>>

\* the end of the loop: an older table that is empty is discarded
EndRehash ==
    /\ pc = "rehash" /\ ~Migrating
    /\ IF older # Null /\ older.size = 0
       THEN older' = Null /\ migrate_pos' = 0
       ELSE UNCHANGED <<older, migrate_pos>>
    /\ pc' = IF op = "insert" THEN "idle" ELSE "search"
    /\ UNCHANGED <<newer, op, key, nwork, found>>

-----------------------------------------------------------------------------
(* The searches, and foreach(), which does no rehashing.                   *)

InNewer == ht_lookup(newer, key)
InOlder == older # Null /\ ht_lookup(older, key)

LookupEnd ==
    /\ pc = "search" /\ op = "lookup"
    /\ found' = (InNewer \/ InOlder)
    /\ pc' = "idle"
    /\ UNCHANGED <<tables, op, key, nwork>>

RemoveEnd ==
    /\ pc = "search" /\ op = "remove"
    /\ newer' = IF InNewer THEN ht_detach(newer, Pos(newer, key), key) ELSE newer
    /\ older' = IF ~InNewer /\ InOlder
                THEN ht_detach(older, Pos(older, key), key) ELSE older
    /\ found' = (InNewer \/ InOlder)
    /\ pc' = "idle"
    /\ UNCHANGED <<migrate_pos, op, key, nwork>>

\* (mutation) only the newer table is visited
ForeachNewer(stop) == ht_foreach(newer, stop)

\* foreach() changes nothing: the keys it gives to a callback that returns
\* false at the key stop, if any
foreach(stop) ==
    ht_foreach(newer, stop) \o (IF older = Null THEN <<>> ELSE ht_foreach(older, stop))

-----------------------------------------------------------------------------
Continue == SkipEmptySlot \/ MoveNode \/ EndRehash \/ LookupEnd \/ RemoveEnd

Next ==
    \/ \E k \in Keys : insert(k) \/ lookup(k) \/ remove(k)
    \/ Continue

Spec == Init /\ [][Next]_vars

\* an operation that was called runs on
FairSpec == Spec /\ WF_vars(Continue)

-----------------------------------------------------------------------------
(* Properties.                                                             *)

HashTab(ht) ==
    /\ ht.mask \in Nat /\ ht.size \in Nat
    /\ DOMAIN ht.tab = 0 .. ht.mask
    /\ \A i \in 0 .. ht.mask : ht.tab[i] \in Seq(Keys)

\* Every variable stays within the values its C++ counterpart can take.
TypeOK ==
    /\ HashTab(newer) /\ (older # Null => HashTab(older))
    /\ migrate_pos \in Nat /\ nwork \in 0 .. RehashWork
    /\ pc \in {"idle", "rehash", "search"}
    /\ op \in {"none", "insert", "lookup", "remove"} /\ key \in Keys \cup {Null}
    /\ found \in BOOLEAN

WellFormed(ht) ==
    /\ \A i \in 0 .. ht.mask : /\ \A k \in ToSet(ht.tab[i]) : Pos(ht, k) = i
                              /\ IsInjective(ht.tab[i])
    /\ ht.size = Cardinality(ToKeys(ht))

\* Every key is in the slot its hash selects, once, in one of the tables, and
\* both size fields are exact, however the operations interleave with a
\* resize: size() is what do_keys announces before it sends the keys. And
\* rehashing() resumes where it stopped: the slots behind migrate_pos are empty,
\* so that the search for a non-empty slot ends within the array.
TablesWellFormed ==
    /\ TypeOK
    /\ WellFormed(newer)
    /\ older # Null => /\ WellFormed(older)
                       /\ ToKeys(newer) \cap ToKeys(older) = {}
                       /\ migrate_pos <= older.mask
                       /\ \A i \in 0 .. migrate_pos - 1 : older.tab[i] = <<>>

\* A resize is over before the next one is due: at k_rehashing_work nodes per
\* operation the older table is gone by the time the newer one reaches the
\* load factor, so that the load factor is never exceeded.
ResizeEndsInTime ==
    /\ size <= MaxLoad * (newer.mask + 1)
    /\ pc = "idle" /\ older = Null => size < MaxLoad * (newer.mask + 1)
    /\ older # Null => newer.mask + 1 = 2 * (older.mask + 1)

\* A foreach() whose callback never stops it visits every node once, in the
\* middle of a resize too, and as many nodes as size() says.
ForeachComplete ==
    pc = "idle" => LET visited == foreach(Null)
                   IN  /\ ToSet(visited) = Content /\ IsInjective(visited)
                       /\ Len(visited) = size

\* "invoke the callback on each node until it returns false" (hash_table.h:45):
\* the node for which it returned false is the last one visited.
ForeachStops ==
    pc = "idle" => \A k \in Content : LET visited == foreach(k)
                                     IN  visited[Len(visited)] = k

InCall == IF pc = "idle" THEN Null ELSE <<op, key>>

KS == INSTANCE KeySet WITH content <- Content, call <- InCall

\* To its users the table is a set: every call has the effect and the answer of
\* that operation on that key, and a resize in progress neither hides nor
\* resurrects a key.
ImplementsKeySet == KS!Spec

\* Every operation returns: rehashing() does not search for a non-empty slot
\* for ever.
OperationsReturn == pc # "idle" ~> pc = "idle"

=============================================================================
