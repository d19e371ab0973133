--------------------------- MODULE HashMapProofs ----------------------------
(***************************************************************************)
(* Proofs about the hash table, for every set of keys, every hash function *)
(* and every load factor and amount of work per operation. What makes the  *)
(* tables well formed is inductive nearly by itself; that a resize ends in *)
(* time needs the account that predicate Load keeps of it. The order in    *)
(* which foreach() visits the nodes is defined by recursion over the slots *)
(* and takes an induction over them.                                       *)
(***************************************************************************)
EXTENDS HashMap, FiniteSetTheorems, SequenceTheorems, TLAPS

\* a HashTab, as a record
IsTab(ht) == ht \in [mask : Nat, size : Nat, tab : [0 .. ht.mask -> Seq(Keys)]]

Good(ht) == IsTab(ht) /\ WellFormed(ht)

\* The older table, which is no larger than the keys it held, its keys apart from
\* those of the newer one, and the slots that rehashing() has left behind.
Apart ==
    older # Null => /\ Good(older)
                    /\ ToKeys(newer) \cap ToKeys(older) = {}
                    /\ older.mask \in 0 .. Cardinality(Keys)
                    /\ migrate_pos \in 0 .. older.mask
                    /\ \A i \in 0 .. migrate_pos - 1 : older.tab[i] = <<>>

\* The operation in progress has a key.
Busy ==
    /\ migrate_pos \in Nat /\ nwork \in 0 .. RehashWork
    /\ pc \in {"idle", "rehash", "search"}
    /\ op \in {"none", "insert", "lookup", "remove"} /\ key \in Keys \cup {Null}
    /\ found \in BOOLEAN
    /\ pc # "idle" => key \in Keys /\ op # "none"
    /\ pc = "search" => op \in {"lookup", "remove"}

AtLeastOne(n) == IF n = 0 THEN 1 ELSE n

\* Where a resize stands: a node that waits in the older table counts twice, and
\* the total stays below twice the load at which the resize began. An insertion
\* adds one to it before rehashing() takes at least one off.
Load ==
    /\ older = Null => newer.size < MaxLoad * (newer.mask + 1)
    /\ older # Null =>
          LET cap   == MaxLoad * (older.mask + 1)
              total == newer.size + older.size
          IN  /\ newer.mask + 1 = 2 * (older.mask + 1)
              /\ pc # "rehash" => total + AtLeastOne(older.size) <= 2 * cap - 1
              /\ pc = "rehash" /\ nwork = 0 => total + AtLeastOne(older.size) <= 2 * cap
              /\ pc = "rehash" /\ nwork > 0 => total + older.size <= 2 * cap - 1

Inv == Good(newer) /\ Apart /\ Busy /\ Load

-----------------------------------------------------------------------------
(* Chains.                                                                 *)

LEMMA RemoveAtIs ==
    ASSUME NEW A, NEW s \in Seq(A), NEW i \in 1 .. Len(s)
    PROVE  /\ RemoveAt(s, i) \in Seq(A) /\ Len(RemoveAt(s, i)) = Len(s) - 1
           /\ \A j \in 1 .. Len(s) - 1 :
                 RemoveAt(s, i)[j] = IF j < i THEN s[j] ELSE s[j + 1]
<1> DEFINE a == SubSeq(s, 1, i - 1)
           b == SubSeq(s, i + 1, Len(s))
<1>1. Len(s) \in Nat /\ i \in Nat /\ i <= Len(s)
  OBVIOUS
<1>2. a \in Seq(A) /\ Len(a) = i - 1 /\ \A j \in 1 .. i - 1 : a[j] = s[j]
  BY <1>1
<1>3. b \in Seq(A) /\ Len(b) = Len(s) - i /\ \A j \in 1 .. Len(s) - i : b[j] = s[i + j]
  <2>1. \A j \in i + 1 .. Len(s) : s[j] \in A
    BY <1>1
  <2>2. /\ b \in Seq(A) /\ Len(b) = IF i + 1 <= Len(s) THEN Len(s) - (i + 1) + 1 ELSE 0
        /\ \A j \in 1 .. Len(s) - (i + 1) + 1 : b[j] = s[i + 1 + j - 1]
    BY <1>1, <2>1, SubSeqProperties
  <2>3. Len(s) - (i + 1) + 1 = Len(s) - i /\ (~(i + 1 <= Len(s)) => Len(s) - i = 0)
    BY <1>1
  <2>4. \A j \in 1 .. Len(s) - i : i + 1 + j - 1 = i + j
    BY <1>1
  <2> QED
    BY <2>2, <2>3, <2>4
<1> DEFINE c == a \o b
<1> HIDE DEF a, b
<1>4. /\ c \in Seq(A) /\ Len(c) = Len(s) - 1
      /\ \A j \in 1 .. Len(s) - 1 : c[j] = IF j <= i - 1 THEN a[j] ELSE b[j - (i - 1)]
  <2>1. Len(a) + Len(b) = Len(s) - 1
    BY <1>1, <1>2, <1>3
  <2>2. a \in Seq(A) /\ b \in Seq(A)
    BY <1>2, <1>3
  <2>3. /\ c \in Seq(A) /\ Len(c) = Len(a) + Len(b)
        /\ \A j \in 1 .. Len(a) + Len(b) : c[j] = IF j <= Len(a) THEN a[j] ELSE b[j - Len(a)]
    BY <2>2, ConcatProperties
  <2>4. Len(a) = i - 1
    BY <1>2
  <2> HIDE DEF c
  <2> QED
    BY <2>1, <2>3, <2>4
<1> HIDE DEF c
<1>5. ASSUME NEW j \in 1 .. Len(s) - 1
      PROVE  c[j] = IF j < i THEN s[j] ELSE s[j + 1]
  <2>1. CASE j < i
    <3>1. j <= i - 1 /\ j \in 1 .. i - 1
      BY <1>1, <2>1
    <3> QED
      BY <1>2, <1>4, <2>1, <3>1
  <2>2. CASE ~(j < i)
    <3>1. ~(j <= i - 1) /\ j - (i - 1) \in 1 .. Len(s) - i /\ i + (j - (i - 1)) = j + 1
      BY <1>1, <2>2
    <3>2. c[j] = b[j - (i - 1)]
      BY <1>4, <3>1
    <3>3. b[j - (i - 1)] = s[j + 1]
      BY <1>3, <3>1
    <3> QED
      BY <2>2, <3>2, <3>3
  <2> QED
    BY <2>1, <2>2
<1> QED
  BY <1>4, <1>5 DEF RemoveAt, a, b, c

LEMMA RemoveFirstIs ==
    ASSUME NEW A, NEW s \in Seq(A), NEW i \in 1 .. Len(s),
           \A j \in 1 .. Len(s) : s[j] = s[i] => j = i
    PROVE  RemoveFirst(s, s[i]) = RemoveAt(s, i)
<1>1. {j \in 1 .. Len(s) : s[j] = s[i]} = {i}
  OBVIOUS
<1>2. Min({i}) = i
  BY DEF Min
<1>3. \E j \in 1 .. Len(s) : s[j] = s[i]
  OBVIOUS
<1> QED
  BY <1>1, <1>2, <1>3 DEF RemoveFirst, SelectInSeq

LEMMA ConsIs ==
    ASSUME NEW A, NEW s \in Seq(A), NEW x \in A
    PROVE  /\ <<x>> \o s \in Seq(A) /\ Len(<<x>> \o s) = Len(s) + 1
           /\ (<<x>> \o s)[1] = x
           /\ \A j \in 2 .. Len(s) + 1 : (<<x>> \o s)[j] = s[j - 1]
<1>1. <<x>> \in Seq(A) /\ Len(<<x>>) = 1 /\ <<x>>[1] = x
  OBVIOUS
<1>2. <<x>> \o s \in Seq(A) /\ Len(<<x>> \o s) = Len(s) + 1
  BY <1>1
<1>3. (<<x>> \o s)[1] = x
  BY <1>1
<1>4. ASSUME NEW j \in 2 .. Len(s) + 1 PROVE (<<x>> \o s)[j] = s[j - 1]
  BY <1>1
<1> QED
  BY <1>2, <1>3, <1>4

LEMMA ChainInsert ==
    ASSUME NEW s \in Seq(Keys), NEW k \in Keys, IsInjective(s), k \notin ToSet(s)
    PROVE  /\ <<k>> \o s \in Seq(Keys) /\ IsInjective(<<k>> \o s)
           /\ ToSet(<<k>> \o s) = ToSet(s) \cup {k}
<1> DEFINE t == <<k>> \o s
<1>1. /\ t \in Seq(Keys) /\ Len(t) = Len(s) + 1 /\ t[1] = k
      /\ \A j \in 2 .. Len(s) + 1 : t[j] = s[j - 1]
  BY ConsIs
<1> HIDE DEF t
<1>2. /\ Len(s) \in Nat /\ DOMAIN s = 1 .. Len(s) /\ DOMAIN t = 1 .. Len(s) + 1
  BY <1>1
<1>3. \A j \in 1 .. Len(s) + 1 : j = 1 \/ (j \in 2 .. Len(s) + 1 /\ j - 1 \in 1 .. Len(s))
  BY <1>2
<1>4. \A j \in 1 .. Len(s) : j + 1 \in 2 .. Len(s) + 1 /\ j + 1 \in 1 .. Len(s) + 1 /\ (j + 1) - 1 = j
  BY <1>2
<1>5. 1 \in 1 .. Len(s) + 1
  BY <1>2
<1>6. \A j \in 1 .. Len(s) : s[j] # k /\ s[j] \in ToSet(s)
  BY <1>2 DEF ToSet
<1>7. ToSet(t) = ToSet(s) \cup {k}
  <2>1. ASSUME NEW x \in ToSet(t) PROVE x \in ToSet(s) \cup {k}
    <3>1. PICK j \in 1 .. Len(s) + 1 : x = t[j]
      BY <1>2 DEF ToSet
    <3> QED
      BY <1>1, <1>3, <1>6, <3>1
  <2>2. ASSUME NEW x \in ToSet(s) PROVE x \in ToSet(t)
    <3>1. PICK j \in 1 .. Len(s) : x = s[j]
      BY <1>2 DEF ToSet
    <3>2. t[j + 1] = x /\ j + 1 \in DOMAIN t
      BY <1>1, <1>2, <1>4, <3>1
    <3> QED
      BY <3>2 DEF ToSet
  <2>3. k \in ToSet(t)
    BY <1>1, <1>2, <1>5 DEF ToSet
  <2> QED
    BY <2>1, <2>2, <2>3
<1>8. IsInjective(t)
  <2> SUFFICES ASSUME NEW a \in 1 .. Len(s) + 1, NEW b \in 1 .. Len(s) + 1, t[a] = t[b]
               PROVE  a = b
    BY <1>2 DEF IsInjective
  <2>1. CASE a = 1 \/ b = 1
    BY <1>1, <1>3, <1>6, <2>1
  <2>2. CASE a # 1 /\ b # 1
    <3>1. /\ a - 1 \in 1 .. Len(s) /\ b - 1 \in 1 .. Len(s)
          /\ t[a] = s[a - 1] /\ t[b] = s[b - 1]
      BY <1>1, <1>3, <2>2
    <3>2. a - 1 = b - 1
      BY <1>2, <3>1 DEF IsInjective
    <3> QED
      BY <3>2
  <2> QED
    BY <2>1, <2>2
<1> QED
  BY <1>1, <1>7, <1>8 DEF t

LEMMA ChainRemove ==
    ASSUME NEW s \in Seq(Keys), NEW k \in ToSet(s), IsInjective(s)
    PROVE  /\ RemoveFirst(s, k) \in Seq(Keys) /\ IsInjective(RemoveFirst(s, k))
           /\ ToSet(RemoveFirst(s, k)) = ToSet(s) \ {k}
<1>1. Len(s) \in Nat /\ DOMAIN s = 1 .. Len(s)
  OBVIOUS
<1>2. PICK i \in 1 .. Len(s) : s[i] = k
  BY <1>1 DEF ToSet
<1>3. \A a, b \in 1 .. Len(s) : s[a] = s[b] => a = b
  BY <1>1 DEF IsInjective
<1> DEFINE r == RemoveAt(s, i)
           sk(j) == IF j < i THEN j ELSE j + 1
<1>4. RemoveFirst(s, k) = r
  <2>1. \A j \in 1 .. Len(s) : s[j] = s[i] => j = i
    BY <1>3
  <2> QED
    BY <1>2, <2>1, RemoveFirstIs
<1>5. /\ r \in Seq(Keys) /\ Len(r) = Len(s) - 1
      /\ \A j \in 1 .. Len(s) - 1 : r[j] = IF j < i THEN s[j] ELSE s[j + 1]
  BY RemoveAtIs
<1> HIDE DEF r
<1>6. DOMAIN r = 1 .. Len(s) - 1 /\ \A j \in 1 .. Len(s) - 1 : r[j] = s[sk(j)]
  BY <1>5
<1>7. /\ \A j \in 1 .. Len(s) - 1 : sk(j) \in 1 .. Len(s) /\ sk(j) # i
      /\ \A a, b \in 1 .. Len(s) - 1 : sk(a) = sk(b) => a = b
  BY <1>1
<1>8. ASSUME NEW j \in 1 .. Len(s), j # i PROVE \E a \in 1 .. Len(s) - 1 : sk(a) = j
  <2>1. CASE j < i
    BY <1>1, <2>1
  <2>2. CASE j > i
    <3>1. j - 1 \in 1 .. Len(s) - 1 /\ sk(j - 1) = j
      BY <1>1, <2>2
    <3> QED
      BY <3>1
  <2> QED
    BY <1>8, <2>1, <2>2
<1> HIDE DEF sk
<1>9. IsInjective(r)
  BY <1>3, <1>6, <1>7 DEF IsInjective
<1>10. ToSet(r) = ToSet(s) \ {k}
  <2>1. ASSUME NEW x \in ToSet(r) PROVE x \in ToSet(s) \ {k}
    <3>1. PICK j \in 1 .. Len(s) - 1 : x = s[sk(j)]
      BY <1>6 DEF ToSet
    <3> QED
      BY <1>1, <1>2, <1>3, <1>7, <3>1 DEF ToSet
  <2>2. ASSUME NEW x \in ToSet(s) \ {k} PROVE x \in ToSet(r)
    <3>1. PICK j \in 1 .. Len(s) : x = s[j]
      BY <1>1 DEF ToSet
    <3>2. PICK a \in 1 .. Len(s) - 1 : sk(a) = j
      BY <1>2, <1>8, <3>1
    <3> QED
      BY <1>6, <3>1, <3>2 DEF ToSet
  <2> QED
    BY <2>1, <2>2
<1> QED
  BY <1>4, <1>5, <1>9, <1>10

-----------------------------------------------------------------------------
(* One table.                                                              *)

LEMMA PosIs ==
    ASSUME NEW ht, IsTab(ht), NEW k \in Keys
    PROVE  Pos(ht, k) \in 0 .. ht.mask
<1>1. ht.mask \in Nat /\ Hash[k] \in Nat
  BY HashMapAssumption DEF IsTab
<1>2. \A h \in Nat, n \in Nat : n > 0 => h % n \in 0 .. n - 1
  OBVIOUS
<1> QED
  BY <1>1, <1>2 DEF Pos

LEMMA KeysFinite ==
    ASSUME NEW ht
    PROVE  ToKeys(ht) \subseteq Keys /\ IsFiniteSet(ToKeys(ht))
<1>1. ToKeys(ht) \subseteq Keys
  BY DEF ToKeys
<1> QED
  BY <1>1, HashMapAssumption, FS_Subset

\* A key of the table is in the slot that its hash selects, and in no other.
LEMMA KeysAre ==
    ASSUME NEW ht, Good(ht)
    PROVE  /\ \A k \in Keys : k \in ToKeys(ht) <=> k \in ToSet(ht.tab[Pos(ht, k)])
           /\ \A i \in 0 .. ht.mask : \A k \in ToSet(ht.tab[i]) :
                 k \in Keys /\ k \in ToKeys(ht) /\ Pos(ht, k) = i
           /\ \A k \in Keys : k \in ToKeys(ht) <=> ht_lookup(ht, k)
<1>1. IsTab(ht) /\ WellFormed(ht)
  BY DEF Good
<1>2. \A i \in 0 .. ht.mask : ht.tab[i] \in Seq(Keys)
  BY <1>1 DEF IsTab
<1>3. \A i \in 0 .. ht.mask : ToSet(ht.tab[i]) \subseteq Keys
  BY <1>2 DEF ToSet
<1>4. \A i \in 0 .. ht.mask : \A k \in ToSet(ht.tab[i]) :
          k \in Keys /\ k \in ToKeys(ht) /\ Pos(ht, k) = i
  BY <1>1, <1>3 DEF WellFormed, ToKeys
<1>5. \A k \in Keys : k \in ToKeys(ht) <=> k \in ToSet(ht.tab[Pos(ht, k)])
  <2>1. ASSUME NEW k \in Keys, k \in ToKeys(ht) PROVE k \in ToSet(ht.tab[Pos(ht, k)])
    <3>1. PICK i \in 0 .. ht.mask : k \in ToSet(ht.tab[i])
      BY <2>1 DEF ToKeys
    <3> QED
      BY <1>4, <3>1
  <2>2. ASSUME NEW k \in Keys, k \in ToSet(ht.tab[Pos(ht, k)]) PROVE k \in ToKeys(ht)
    BY <1>1, <1>4, <2>2, PosIs
  <2> QED
    BY <2>1, <2>2
<1>6. \A k \in Keys : k \in ToSet(ht.tab[Pos(ht, k)]) <=> ht_lookup(ht, k)
  BY DEF ToSet, ht_lookup
<1> QED
  BY <1>4, <1>5, <1>6

LEMMA MakeIs ==
    ASSUME NEW n \in Nat, n > 0
    PROVE  /\ Good(ht_make(n)) /\ ToKeys(ht_make(n)) = {}
           /\ ht_make(n).mask = n - 1 /\ ht_make(n).size = 0
<1> DEFINE ht == ht_make(n)
<1>1. /\ ht.mask = n - 1 /\ ht.size = 0 /\ n - 1 \in Nat
      /\ ht.tab = [i \in 0 .. n - 1 |-> <<>>]
  BY DEF ht_make
<1>2. <<>> \in Seq(Keys) /\ ToSet(<<>>) = {} /\ IsInjective(<<>>)
  BY DEF ToSet, IsInjective
<1>3. IsTab(ht)
  <2>1. [i \in 0 .. n - 1 |-> <<>>] \in [0 .. n - 1 -> Seq(Keys)]
    BY <1>2
  <2> QED
    BY <1>1, <2>1 DEF ht_make, IsTab
<1> HIDE DEF ht
<1>4. \A i \in 0 .. ht.mask : ht.tab[i] = <<>>
  BY <1>1
<1>5. ToKeys(ht) = {}
  BY <1>2, <1>4 DEF ToKeys
<1>6. WellFormed(ht)
  <2>1. ht.size = Cardinality(ToKeys(ht))
    BY <1>1, <1>5, FS_EmptySet
  <2> QED
    BY <1>2, <1>4, <2>1 DEF WellFormed
<1> QED
  BY <1>1, <1>3, <1>5, <1>6 DEF Good, ht

\* One chain of a table is replaced, and its size with it.
LEMMA ChangeChain ==
    ASSUME NEW ht, Good(ht), NEW new, IsTab(new), new.mask = ht.mask, NEW p \in 0 .. ht.mask,
           \A i \in 0 .. ht.mask : i # p => new.tab[i] = ht.tab[i],
           IsInjective(new.tab[p]),
           \A k \in ToSet(new.tab[p]) : k \in Keys /\ Pos(ht, k) = p
    PROVE  /\ \A i \in 0 .. new.mask : /\ \A k \in ToSet(new.tab[i]) : Pos(new, k) = i
                                       /\ IsInjective(new.tab[i])
           /\ \A k \in Keys : Pos(ht, k) # p => (k \in ToKeys(new) <=> k \in ToKeys(ht))
           /\ \A k \in Keys : Pos(ht, k) = p => (k \in ToKeys(new) <=> k \in ToSet(new.tab[p]))
<1>1. \A k \in Keys : Pos(new, k) = Pos(ht, k) /\ Pos(ht, k) \in 0 .. ht.mask
  BY PosIs DEF Good, Pos
<1>2. \A i \in 0 .. ht.mask : \A k \in ToSet(ht.tab[i]) : k \in Keys /\ Pos(ht, k) = i
  BY KeysAre
<1>3. \A i \in 0 .. ht.mask : \A k \in ToSet(new.tab[i]) : k \in Keys /\ Pos(ht, k) = i
  BY <1>2
<1>4. \A i \in 0 .. new.mask : /\ \A k \in ToSet(new.tab[i]) : Pos(new, k) = i
                               /\ IsInjective(new.tab[i])
  BY <1>1, <1>3 DEF Good, WellFormed
<1>5. \A k \in Keys : k \in ToKeys(new) <=> k \in ToSet(new.tab[Pos(ht, k)])
  BY <1>1, <1>3 DEF ToKeys
<1>6. \A k \in Keys : k \in ToKeys(ht) <=> k \in ToSet(ht.tab[Pos(ht, k)])
  BY KeysAre
<1> QED
  BY <1>1, <1>4, <1>5, <1>6

\* the assignments to a slot and to the size of a table
Update(ht, p, t, n) == [ht EXCEPT !.tab[p] = t, !.size = n]

LEMMA UpdateIs ==
    ASSUME NEW ht, IsTab(ht), NEW p \in 0 .. ht.mask, NEW t \in Seq(Keys), NEW n \in Nat,
           NEW new, new = Update(ht, p, t, n)
    PROVE  /\ IsTab(new) /\ new.mask = ht.mask /\ new.size = n /\ new.tab[p] = t
           /\ \A i \in 0 .. ht.mask : i # p => new.tab[i] = ht.tab[i]
<1> DEFINE T == [0 .. ht.mask -> Seq(Keys)]
<1>1. ht \in [mask : Nat, size : Nat, tab : T]
  BY DEF IsTab
<1>2. [ht.tab EXCEPT ![p] = t] \in T
  BY <1>1
<1> HIDE DEF T
<1>3. new.mask = ht.mask /\ new.size = n /\ new.tab = [ht.tab EXCEPT ![p] = t]
  BY <1>1 DEF Update
<1>4. new \in [mask : Nat, size : Nat, tab : T]
  BY <1>1, <1>2 DEF Update
<1>5. IsTab(new)
  BY <1>3, <1>4 DEF IsTab, T
<1>6. new.tab[p] = t /\ \A i \in 0 .. ht.mask : i # p => new.tab[i] = ht.tab[i]
  BY <1>1, <1>3 DEF T
<1> QED
  BY <1>3, <1>5, <1>6

LEMMA InsertIs ==
    ASSUME NEW ht, Good(ht), NEW k \in Keys, k \notin ToKeys(ht)
    PROVE  LET new == ht_insert(ht, k)
           IN  /\ Good(new) /\ ToKeys(new) = ToKeys(ht) \cup {k}
               /\ new.mask = ht.mask /\ new.size = ht.size + 1
<1> DEFINE p   == Pos(ht, k)
           new == ht_insert(ht, k)
           t   == <<k>> \o ht.tab[p]
<1>1. /\ p \in 0 .. ht.mask /\ IsTab(ht) /\ WellFormed(ht)
      /\ ht.mask \in Nat /\ ht.size \in Nat /\ ht.tab \in [0 .. ht.mask -> Seq(Keys)]
  BY PosIs DEF Good, IsTab
<1>2. ht.tab[p] \in Seq(Keys) /\ IsInjective(ht.tab[p]) /\ k \notin ToSet(ht.tab[p])
  BY <1>1, KeysAre DEF WellFormed
<1> HIDE DEF p
<1>3. t \in Seq(Keys) /\ IsInjective(t) /\ ToSet(t) = ToSet(ht.tab[p]) \cup {k}
  BY <1>2, ChainInsert
<1>4. new = Update(ht, p, t, ht.size + 1) /\ ht.size + 1 \in Nat
  BY <1>1 DEF ht_insert, p, Update
<1> HIDE DEF new, t
<1>5. /\ new.tab[p] = t /\ new.mask = ht.mask /\ new.size = ht.size + 1
      /\ \A i \in 0 .. ht.mask : i # p => new.tab[i] = ht.tab[i]
      /\ IsTab(new)
  <2> DEFINE n == ht.size + 1
  <2>1. n \in Nat /\ new = Update(ht, p, t, n)
    BY <1>4
  <2> HIDE DEF n
  <2>2. IsTab(ht) /\ p \in 0 .. ht.mask /\ t \in Seq(Keys)
    BY <1>1, <1>3
  <2>3. /\ IsTab(new) /\ new.mask = ht.mask /\ new.size = n /\ new.tab[p] = t
        /\ \A i \in 0 .. ht.mask : i # p => new.tab[i] = ht.tab[i]
    BY ONLY <2>1, <2>2, UpdateIs
  <2> QED
    BY <2>3 DEF n
<1>6. IsTab(new)
  BY <1>5
<1>7. \A j \in ToSet(t) : j \in Keys /\ Pos(ht, j) = p
  BY <1>1, <1>3, KeysAre DEF p
<1>8. /\ \A i \in 0 .. new.mask : /\ \A j \in ToSet(new.tab[i]) : Pos(new, j) = i
                                  /\ IsInjective(new.tab[i])
      /\ \A j \in Keys : Pos(ht, j) # p => (j \in ToKeys(new) <=> j \in ToKeys(ht))
      /\ \A j \in Keys : Pos(ht, j) = p => (j \in ToKeys(new) <=> j \in ToSet(new.tab[p]))
  <2>1. IsInjective(new.tab[p]) /\ \A j \in ToSet(new.tab[p]) : j \in Keys /\ Pos(ht, j) = p
    BY <1>3, <1>5, <1>7
  <2>2. new.mask = ht.mask /\ Good(ht)
    BY <1>5
  <2> QED
    BY ONLY <1>1, <1>5, <1>6, <2>1, <2>2, ChangeChain
<1>9. ToKeys(new) = ToKeys(ht) \cup {k}
  <2>1. ToKeys(new) \subseteq Keys /\ ToKeys(ht) \subseteq Keys
    BY KeysFinite
  <2>2. \A j \in Keys : j \in ToKeys(ht) <=> j \in ToSet(ht.tab[Pos(ht, j)])
    BY KeysAre
  <2>3. \A j \in Keys : j \in ToKeys(new) <=> j \in ToKeys(ht) \cup {k}
    BY <1>3, <1>5, <1>8, <2>2 DEF p
  <2> QED
    BY <2>1, <2>3
<1>10. new.size = Cardinality(ToKeys(new))
  <2>1. Cardinality(ToKeys(ht) \cup {k}) = Cardinality(ToKeys(ht)) + 1
    BY KeysFinite, FS_AddElement
  <2> QED
    BY <1>1, <1>5, <1>9, <2>1 DEF WellFormed
<1> QED
  BY <1>5, <1>6, <1>8, <1>9, <1>10 DEF Good, WellFormed, new

LEMMA DetachIs ==
    ASSUME NEW ht, Good(ht), NEW p \in 0 .. ht.mask, NEW k \in ToSet(ht.tab[p])
    PROVE  LET new == ht_detach(ht, p, k)
           IN  /\ Good(new) /\ ToKeys(new) = ToKeys(ht) \ {k}
               /\ new.mask = ht.mask /\ new.size = ht.size - 1 /\ ht.size > 0
               /\ \A i \in 0 .. ht.mask : i # p => new.tab[i] = ht.tab[i]
<1> DEFINE new == ht_detach(ht, p, k)
           t   == RemoveFirst(ht.tab[p], k)
<1>1. /\ IsTab(ht) /\ WellFormed(ht)
      /\ ht.mask \in Nat /\ ht.size \in Nat /\ ht.tab \in [0 .. ht.mask -> Seq(Keys)]
  BY DEF Good, IsTab
<1>2. /\ ht.tab[p] \in Seq(Keys) /\ IsInjective(ht.tab[p]) /\ k \in Keys /\ k \in ToKeys(ht)
      /\ Pos(ht, k) = p
  BY <1>1, KeysAre DEF WellFormed
<1>3. t \in Seq(Keys) /\ IsInjective(t) /\ ToSet(t) = ToSet(ht.tab[p]) \ {k}
  BY <1>2, ChainRemove
<1>4. Cardinality(ToKeys(ht) \ {k}) = Cardinality(ToKeys(ht)) - 1 /\ ht.size > 0
  <2>1. Cardinality(ToKeys(ht) \ {k}) = Cardinality(ToKeys(ht)) - 1
    BY <1>2, KeysFinite, FS_RemoveElement
  <2>2. Cardinality(ToKeys(ht) \ {k}) \in Nat
    BY KeysFinite, FS_RemoveElement, FS_CardinalityType
  <2> QED
    BY <1>1, <2>1, <2>2 DEF WellFormed
<1>5. new = Update(ht, p, t, ht.size - 1) /\ ht.size - 1 \in Nat
  BY <1>1, <1>4 DEF ht_detach, Update
<1> HIDE DEF new, t
<1>6. /\ new.tab[p] = t /\ new.mask = ht.mask /\ new.size = ht.size - 1
      /\ \A i \in 0 .. ht.mask : i # p => new.tab[i] = ht.tab[i]
      /\ IsTab(new)
  <2> DEFINE n == ht.size - 1
  <2>1. n \in Nat /\ new = Update(ht, p, t, n)
    BY <1>5
  <2> HIDE DEF n
  <2>2. IsTab(ht) /\ p \in 0 .. ht.mask /\ t \in Seq(Keys)
    BY <1>1, <1>3
  <2>3. /\ IsTab(new) /\ new.mask = ht.mask /\ new.size = n /\ new.tab[p] = t
        /\ \A i \in 0 .. ht.mask : i # p => new.tab[i] = ht.tab[i]
    BY ONLY <2>1, <2>2, UpdateIs
  <2> QED
    BY <2>3 DEF n
<1>7. IsTab(new)
  BY <1>6
<1>8. /\ \A i \in 0 .. new.mask : /\ \A j \in ToSet(new.tab[i]) : Pos(new, j) = i
                                  /\ IsInjective(new.tab[i])
      /\ \A j \in Keys : Pos(ht, j) # p => (j \in ToKeys(new) <=> j \in ToKeys(ht))
      /\ \A j \in Keys : Pos(ht, j) = p => (j \in ToKeys(new) <=> j \in ToSet(new.tab[p]))
  <2>1. IsInjective(new.tab[p]) /\ \A j \in ToSet(new.tab[p]) : j \in Keys /\ Pos(ht, j) = p
    BY <1>3, <1>6, KeysAre
  <2>2. new.mask = ht.mask /\ Good(ht) /\ p \in 0 .. ht.mask
    BY <1>6
  <2> QED
    BY ONLY <1>6, <1>7, <2>1, <2>2, ChangeChain
<1>9. ToKeys(new) = ToKeys(ht) \ {k}
  <2>1. ToKeys(new) \subseteq Keys /\ ToKeys(ht) \subseteq Keys
    BY KeysFinite
  <2>2. \A j \in Keys : j \in ToKeys(ht) <=> j \in ToSet(ht.tab[Pos(ht, j)])
    BY KeysAre
  <2>3. \A j \in Keys : j \in ToKeys(new) <=> j \in ToKeys(ht) \ {k}
    BY <1>2, <1>3, <1>6, <1>8, <2>2
  <2> QED
    BY <2>1, <2>3
<1>10. new.size = Cardinality(ToKeys(new))
  BY <1>1, <1>4, <1>6, <1>9 DEF WellFormed
<1> QED
  BY <1>4, <1>5, <1>6, <1>7, <1>8, <1>9, <1>10 DEF Good, WellFormed, new

-----------------------------------------------------------------------------
(* The invariant holds initially and is preserved by every action, and     *)
(* every action does to the content what the set of module KeySet does.    *)

LEMMA CapIs ==
    ASSUME NEW n \in Nat
    PROVE  /\ MaxLoad * (n + 1) \in Nat /\ MaxLoad * (n + 1) >= n + 1
           /\ MaxLoad * (2 * (n + 1)) = 2 * (MaxLoad * (n + 1))
           /\ (n + 1) * MaxLoad = MaxLoad * (n + 1)
<1>1. MaxLoad \in Nat /\ MaxLoad >= 1
  BY HashMapAssumption
<1>2. MaxLoad * (n + 1) \in Nat /\ (n + 1) * MaxLoad = MaxLoad * (n + 1)
  BY <1>1
<1>3. MaxLoad * (n + 1) >= n + 1
  BY <1>1
<1>4. MaxLoad * (2 * (n + 1)) = 2 * (MaxLoad * (n + 1))
  BY <1>1
<1> QED
  BY <1>2, <1>3, <1>4

LEMMA GoodTypes ==
    ASSUME NEW ht, Good(ht)
    PROVE  /\ ht.mask \in Nat /\ ht.size \in Nat /\ HashTab(ht) /\ WellFormed(ht)
           /\ ht.tab \in [0 .. ht.mask -> Seq(Keys)]
<1>1. ht.mask \in Nat /\ ht.size \in Nat /\ ht.tab \in [0 .. ht.mask -> Seq(Keys)]
  BY DEF Good, IsTab
<1>2. HashTab(ht)
  BY <1>1 DEF HashTab
<1> QED
  BY <1>1, <1>2 DEF Good

LEMMA TableIsNotNull ==
    ASSUME NEW ht, Good(ht), ht.mask \in 0 .. Cardinality(Keys)
    PROVE  ht # Null
BY NullAssumption DEF Good, IsTab

LEMMA InitInv == Init => Inv /\ Content = {}
<1> SUFFICES ASSUME Init PROVE Inv /\ Content = {}
  OBVIOUS
<1>1. /\ Good(newer) /\ ToKeys(newer) = {} /\ newer.mask = InitSlots - 1 /\ newer.size = 0
      /\ InitSlots - 1 \in Nat
  BY MakeIs, HashMapAssumption DEF Init
<1>2. newer.size < MaxLoad * (newer.mask + 1)
  BY <1>1, CapIs
<1>3. Busy
  <2>1. 0 \in 0 .. RehashWork /\ 0 \in Nat
    BY HashMapAssumption
  <2> QED
    BY <2>1 DEF Init, Busy
<1> QED
  BY <1>1, <1>2, <1>3 DEF Init, Inv, Apart, Load, Content

\* A table with a size has a slot that is not empty.
LEMMA SomeSlot ==
    ASSUME NEW ht, Good(ht), ht.size > 0
    PROVE  \E i \in 0 .. ht.mask : ht.tab[i] # <<>>
<1> SUFFICES ASSUME \A i \in 0 .. ht.mask : ht.tab[i] = <<>> PROVE FALSE
  OBVIOUS
<1>1. ToKeys(ht) = {}
  BY DEF ToKeys, ToSet
<1>2. ht.size = 0
  BY <1>1, FS_EmptySet DEF Good, WellFormed
<1> QED
  BY <1>2

LEMMA StartInv ==
    ASSUME Inv, NEW k \in Keys, lookup(k) \/ remove(k)
    PROVE  Inv' /\ Content' = Content /\ found' = found
<1>1. /\ pc = "idle" /\ pc' = "rehash" /\ op' \in {"lookup", "remove"} /\ key' = k /\ nwork' = 0
      /\ UNCHANGED <<newer, older, migrate_pos, found>>
  BY DEF lookup, remove, Start, tables
<1>2. Good(newer)' /\ Apart' /\ Content' = Content
  BY <1>1 DEF Inv, Apart, Content
<1>3. Busy'
  BY <1>1, HashMapAssumption DEF Inv, Busy
<1>4. Load'
  <2>1. CASE older = Null
    BY <1>1, <2>1 DEF Inv, Load
  <2>2. CASE older # Null
    <3>1. older.mask \in Nat /\ older.size \in Nat /\ newer.size \in Nat
      BY <2>2, GoodTypes DEF Inv, Apart
    <3>2. MaxLoad * (older.mask + 1) \in Nat
      BY <3>1, CapIs
    <3> QED
      BY <1>1, <2>2, <3>1, <3>2 DEF Inv, Load, AtLeastOne
  <2> QED
    BY <2>1, <2>2
<1> QED
  BY <1>1, <1>2, <1>3, <1>4 DEF Inv

LEMMA InsertInv ==
    ASSUME Inv, NEW k \in Keys, insert(k)
    PROVE  Inv' /\ Content' = Content \cup {k} /\ k \notin Content /\ found' = found
<1> DEFINE h == ht_insert(newer, k)
<1>1. /\ k \notin Content /\ inspect_rehashing(h) /\ pc = "idle" /\ pc' = "rehash"
      /\ op' = "insert" /\ key' = k /\ nwork' = 0 /\ found' = found
  BY DEF insert, Start
<1>2. k \notin ToKeys(newer) /\ (older # Null => k \notin ToKeys(older))
  BY <1>1 DEF Content
<1>3. /\ Good(h) /\ ToKeys(h) = ToKeys(newer) \cup {k}
      /\ h.mask = newer.mask /\ h.size = newer.size + 1
  BY <1>2, InsertIs DEF Inv
<1> HIDE DEF h
<1>4. /\ newer.mask \in Nat /\ newer.size \in Nat /\ h.mask \in Nat
      /\ (older # Null => older.mask \in Nat /\ older.size \in Nat)
  BY <1>3, GoodTypes DEF Inv, Apart
<1>5. CASE older = Null /\ h.size >= (h.mask + 1) * MaxLoad
  <2>1. older' = h /\ newer' = ht_make((h.mask + 1) * 2) /\ migrate_pos' = 0
    BY <1>1, <1>5 DEF inspect_rehashing
  <2>2. (h.mask + 1) * 2 \in Nat /\ (h.mask + 1) * 2 > 0
    BY <1>4
  <2>3. Good(newer') /\ ToKeys(newer') = {} /\ newer'.mask = (h.mask + 1) * 2 - 1 /\ newer'.size = 0
    BY <2>1, <2>2, MakeIs
  <2> DEFINE cap == MaxLoad * (h.mask + 1)
  <2>4. /\ cap \in Nat /\ cap >= h.mask + 1 /\ (h.mask + 1) * MaxLoad = cap
    BY <1>4, CapIs
  <2>5. newer.size < MaxLoad * (newer.mask + 1)
    BY <1>5 DEF Inv, Load
  <2>6. newer.size < cap
    BY <1>3, <2>5
  <2> HIDE DEF cap
  <2>7. h.size = cap
    BY <1>3, <1>4, <1>5, <2>4, <2>6
  <2>8. h.mask \in 0 .. Cardinality(Keys)
    <3>1. h.size = Cardinality(ToKeys(h))
      BY <1>3 DEF Good, WellFormed
    <3>2. Cardinality(ToKeys(h)) <= Cardinality(Keys) /\ Cardinality(Keys) \in Nat
      BY HashMapAssumption, KeysFinite, FS_Subset, FS_CardinalityType
    <3> QED
      BY <1>4, <2>4, <2>7, <3>1, <3>2
  <2>9. h # Null
    BY <1>3, <2>8, TableIsNotNull
  <2>10. Apart'
    <3>1. \A i \in 0 .. 0 - 1 : FALSE
      OBVIOUS
    <3>2. 0 \in 0 .. h.mask
      BY <1>4
    <3> QED
      BY <1>3, <2>1, <2>3, <2>8, <3>1, <3>2 DEF Apart
  <2>11. Busy'
    BY <1>1, <2>1, HashMapAssumption DEF Inv, Busy
  <2>12. Load'
    <3>1. newer'.mask + 1 = 2 * (h.mask + 1)
      BY <1>4, <2>3
    <3>2. newer'.size + h.size + AtLeastOne(h.size) <= 2 * cap
      BY <1>4, <2>3, <2>4, <2>7 DEF AtLeastOne
    <3> QED
      BY <1>1, <2>1, <2>9, <3>1, <3>2 DEF Load, cap
  <2>13. Content' = Content \cup {k}
    BY <1>3, <1>5, <2>1, <2>3, <2>9 DEF Content
  <2> QED
    BY <1>1, <2>3, <2>10, <2>11, <2>12, <2>13 DEF Inv
<1>6. CASE ~(older = Null /\ h.size >= (h.mask + 1) * MaxLoad)
  <2>1. newer' = h /\ older' = older /\ migrate_pos' = migrate_pos
    BY <1>1, <1>6 DEF inspect_rehashing
  <2>2. Apart'
    BY <1>2, <1>3, <2>1 DEF Inv, Apart
  <2>3. Busy'
    BY <1>1, <2>1, HashMapAssumption DEF Inv, Busy
  <2>4. Content' = Content \cup {k}
    BY <1>3, <2>1 DEF Content
  <2>5. Load'
    <3>1. CASE older = Null
      <4>1. (h.mask + 1) * MaxLoad = MaxLoad * (h.mask + 1) /\ MaxLoad * (h.mask + 1) \in Nat
        BY <1>4, CapIs
      <4>2. h.size < MaxLoad * (h.mask + 1)
        BY <1>3, <1>4, <1>6, <3>1, <4>1
      <4> QED
        BY <2>1, <3>1, <4>2 DEF Load
    <3>2. CASE older # Null
      <4>1. MaxLoad * (older.mask + 1) \in Nat
        BY <1>4, <3>2, CapIs
      <4>2. /\ newer.mask + 1 = 2 * (older.mask + 1)
            /\ newer.size + older.size + AtLeastOne(older.size) <= 2 * (MaxLoad * (older.mask + 1)) - 1
        BY <1>1, <3>2 DEF Inv, Load
      <4>3. h.size + older.size + AtLeastOne(older.size) <= 2 * (MaxLoad * (older.mask + 1))
        BY <1>3, <1>4, <3>2, <4>1, <4>2 DEF AtLeastOne
      <4> QED
        BY <1>1, <1>3, <2>1, <3>2, <4>2, <4>3 DEF Load
    <3> QED
      BY <3>1, <3>2
  <2> QED
    BY <1>1, <1>3, <2>1, <2>2, <2>3, <2>4, <2>5 DEF Inv
<1> QED
  BY <1>5, <1>6

LEMMA SkipInv == ASSUME Inv, SkipEmptySlot PROVE Inv' /\ Content' = Content /\ found' = found
<1>1. /\ pc = "rehash" /\ older # Null /\ older.size > 0 /\ older.tab[migrate_pos] = <<>>
      /\ migrate_pos' = migrate_pos + 1
      /\ UNCHANGED <<newer, older, pc, op, key, nwork, found>>
  BY DEF SkipEmptySlot, Migrating
<1>2. Good(older) /\ older.mask \in Nat /\ migrate_pos \in 0 .. older.mask
  BY <1>1, GoodTypes DEF Inv, Apart
<1>3. \A i \in 0 .. (migrate_pos + 1) - 1 : i \in 0 .. migrate_pos - 1 \/ i = migrate_pos
  BY <1>2
<1>4. \A i \in 0 .. (migrate_pos + 1) - 1 : older.tab[i] = <<>>
  BY <1>1, <1>3 DEF Inv, Apart
<1>5. migrate_pos + 1 \in 0 .. older.mask
  <2>1. PICK i \in 0 .. older.mask : older.tab[i] # <<>>
    BY <1>1, <1>2, SomeSlot
  <2>2. i \notin 0 .. (migrate_pos + 1) - 1
    BY <1>4, <2>1
  <2> QED
    BY <1>2, <2>2
<1>6. Apart'
  BY <1>1, <1>4, <1>5 DEF Inv, Apart
<1>7. Busy'
  BY <1>1, <1>5 DEF Inv, Busy
<1>8. Load' /\ Content' = Content /\ Good(newer)'
  BY <1>1 DEF Inv, Load, Content
<1> QED
  BY <1>1, <1>6, <1>7, <1>8 DEF Inv

LEMMA MoveInv == ASSUME Inv, MoveNode PROVE Inv' /\ Content' = Content /\ found' = found
<1> DEFINE k == older.tab[migrate_pos][1]
           n == ht_insert(newer, k)
           o == ht_detach(older, migrate_pos, k)
<1>1. /\ pc = "rehash" /\ older # Null /\ older.size > 0 /\ nwork < RehashWork
      /\ older.tab[migrate_pos] # <<>>
      /\ newer' = n /\ older' = o /\ nwork' = nwork + 1
      /\ UNCHANGED <<migrate_pos, pc, op, key, found>>
  BY DEF MoveNode, Migrating
<1>2. /\ Good(older) /\ Good(newer) /\ migrate_pos \in 0 .. older.mask
      /\ ToKeys(newer) \cap ToKeys(older) = {} /\ older.mask \in 0 .. Cardinality(Keys)
      /\ \A i \in 0 .. migrate_pos - 1 : older.tab[i] = <<>>
  BY <1>1 DEF Inv, Apart
<1>3. /\ older.mask \in Nat /\ older.size \in Nat /\ newer.size \in Nat /\ newer.mask \in Nat
      /\ older.tab \in [0 .. older.mask -> Seq(Keys)]
  BY <1>2, GoodTypes
<1>4. k \in ToSet(older.tab[migrate_pos])
  <2>1. older.tab[migrate_pos] \in Seq(Keys)
    BY <1>2, <1>3
  <2>2. 1 \in DOMAIN older.tab[migrate_pos]
    BY <1>1, <2>1
  <2> QED
    BY <2>2 DEF ToSet
<1> HIDE DEF k
<1>5. k \in Keys /\ k \in ToKeys(older) /\ k \notin ToKeys(newer)
  BY <1>2, <1>4, KeysAre
<1>6. Good(n) /\ ToKeys(n) = ToKeys(newer) \cup {k} /\ n.mask = newer.mask /\ n.size = newer.size + 1
  BY <1>2, <1>5, InsertIs
<1>7. /\ Good(o) /\ ToKeys(o) = ToKeys(older) \ {k} /\ o.mask = older.mask /\ o.size = older.size - 1
      /\ \A i \in 0 .. older.mask : i # migrate_pos => o.tab[i] = older.tab[i]
  BY <1>2, <1>4, DetachIs
<1> HIDE DEF n, o
<1>8. o # Null
  BY <1>2, <1>7, TableIsNotNull
<1>9. Apart'
  <2>1. \A i \in 0 .. migrate_pos - 1 : i \in 0 .. older.mask /\ i # migrate_pos
    BY <1>2, <1>3
  <2>2. \A i \in 0 .. migrate_pos - 1 : o.tab[i] = <<>>
    BY <1>2, <1>7, <2>1
  <2>3. ToKeys(n) \cap ToKeys(o) = {}
    BY <1>2, <1>6, <1>7
  <2> QED
    BY <1>1, <1>2, <1>7, <2>2, <2>3 DEF Apart
<1>10. Busy'
  <2>1. nwork + 1 \in 0 .. RehashWork
    BY <1>1, HashMapAssumption DEF Inv, Busy
  <2> QED
    BY <1>1, <2>1 DEF Inv, Busy
<1>11. Load'
  <2> DEFINE cap == MaxLoad * (older.mask + 1)
  <2>1. cap \in Nat
    BY <1>3, CapIs
  <2>2. /\ newer.mask + 1 = 2 * (older.mask + 1)
        /\ nwork = 0 => newer.size + older.size + AtLeastOne(older.size) <= 2 * cap
        /\ nwork > 0 => newer.size + older.size + older.size <= 2 * cap - 1
    BY <1>1 DEF Inv, Load
  <2>3. nwork \in Nat /\ nwork + 1 > 0 /\ nwork + 1 # 0
    BY HashMapAssumption DEF Inv, Busy
  <2> HIDE DEF cap
  <2>4. n.size + o.size + o.size <= 2 * cap - 1
    BY <1>1, <1>3, <1>6, <1>7, <2>1, <2>2, <2>3 DEF AtLeastOne
  <2> QED
    BY <1>1, <1>6, <1>7, <1>8, <2>2, <2>3, <2>4 DEF Load, cap
<1>12. Content' = Content
  BY <1>1, <1>5, <1>6, <1>7, <1>8 DEF Content
<1> QED
  BY <1>1, <1>6, <1>9, <1>10, <1>11, <1>12 DEF Inv

LEMMA EndInv == ASSUME Inv, EndRehash PROVE Inv' /\ Content' = Content /\ found' = found
<1>1. /\ pc = "rehash" /\ ~Migrating /\ pc' = IF op = "insert" THEN "idle" ELSE "search"
      /\ UNCHANGED <<newer, op, key, nwork, found>>
  BY DEF EndRehash
<1>2. /\ nwork \in Nat /\ RehashWork \in Nat /\ RehashWork > 0 /\ key \in Keys
      /\ newer.size \in Nat /\ newer.mask \in Nat /\ pc' # "rehash"
  BY <1>1, HashMapAssumption, GoodTypes DEF Inv, Busy
<1>3. migrate_pos' \in Nat => Busy'
  BY <1>1, <1>2 DEF Inv, Busy
<1>4. CASE older = Null
  <2>1. older' = Null /\ migrate_pos' = migrate_pos
    BY <1>4 DEF EndRehash
  <2> QED
    BY <1>1, <1>3, <1>4, <2>1 DEF Inv, Busy, Apart, Load, Content
<1>5. CASE older # Null
  <2> DEFINE cap == MaxLoad * (older.mask + 1)
  <2>1. older.size \in Nat /\ older.mask \in Nat
    BY <1>5, GoodTypes DEF Inv, Apart
  <2>2. cap \in Nat /\ MaxLoad * (2 * (older.mask + 1)) = 2 * cap
    BY <2>1, CapIs
  <2>3. /\ newer.mask + 1 = 2 * (older.mask + 1)
        /\ nwork = 0 => newer.size + older.size + AtLeastOne(older.size) <= 2 * cap
        /\ nwork > 0 => newer.size + older.size + older.size <= 2 * cap - 1
    BY <1>1, <1>5 DEF Inv, Load
  <2>4. nwork = 0 => older.size = 0
    BY <1>1, <1>2, <1>5, <2>1 DEF Migrating
  <2> HIDE DEF cap
  <2>5. CASE older.size = 0
    <3>1. older' = Null /\ migrate_pos' = 0
      BY <1>5, <2>5 DEF EndRehash
    <3>2. newer.size < MaxLoad * (newer.mask + 1)
      BY <1>2, <2>2, <2>3, <2>5 DEF AtLeastOne
    <3>3. ToKeys(older) = {}
      <4>1. Cardinality(ToKeys(older)) = 0
        BY <1>5, <2>5 DEF Inv, Apart, Good, WellFormed
      <4> QED
        BY <4>1, KeysFinite, FS_EmptySet
    <3>4. Content' = Content
      BY <1>1, <3>1, <3>3 DEF Content
    <3>5. Load' /\ Apart' /\ Good(newer)'
      BY <1>1, <3>1, <3>2 DEF Load, Apart, Inv
    <3> QED
      BY <1>1, <1>3, <3>1, <3>4, <3>5 DEF Inv
  <2>6. CASE older.size # 0
    <3>1. older' = older /\ migrate_pos' = migrate_pos
      BY <1>5, <2>6 DEF EndRehash
    <3>2. newer.size + older.size + AtLeastOne(older.size) <= 2 * cap - 1
      BY <1>2, <2>1, <2>3, <2>4, <2>6 DEF AtLeastOne
    <3>3. Load'
      BY <1>1, <1>2, <1>5, <2>3, <3>1, <3>2 DEF Load, cap
    <3>4. Apart' /\ Good(newer)' /\ Content' = Content
      BY <1>1, <3>1 DEF Inv, Apart, Content
    <3> QED
      BY <1>1, <1>3, <3>1, <3>3, <3>4 DEF Inv, Busy
  <2> QED
    BY <2>5, <2>6
<1> QED
  BY <1>4, <1>5

\* What the searches find.
LEMMA SearchIs ==
    ASSUME Inv, pc = "search"
    PROVE  /\ key \in Keys
           /\ InNewer <=> key \in ToKeys(newer)
           /\ InOlder <=> older # Null /\ key \in ToKeys(older)
           /\ (InNewer \/ InOlder) <=> key \in Content
<1>1. key \in Keys /\ Good(newer) /\ (older # Null => Good(older))
  BY DEF Inv, Busy, Apart
<1>2. InNewer <=> key \in ToKeys(newer)
  BY <1>1, KeysAre DEF InNewer
<1>3. InOlder <=> older # Null /\ key \in ToKeys(older)
  BY <1>1, KeysAre DEF InOlder
<1> QED
  BY <1>1, <1>2, <1>3 DEF Content

LEMMA LookupInv ==
    ASSUME Inv, LookupEnd
    PROVE  Inv' /\ Content' = Content /\ key \in Keys /\ found' = (key \in Content)
<1>1. /\ pc = "search" /\ pc' = "idle" /\ found' = (InNewer \/ InOlder)
      /\ UNCHANGED <<newer, older, migrate_pos, op, key, nwork>>
  BY DEF LookupEnd, tables
<1>2. found' \in BOOLEAN /\ key \in Keys /\ found' = (key \in Content)
  BY <1>1, SearchIs
<1>3. Good(newer)' /\ Apart' /\ Content' = Content
  BY <1>1 DEF Inv, Apart, Content
<1>4. Busy' /\ Load'
  BY <1>1, <1>2 DEF Inv, Busy, Load
<1> QED
  BY <1>2, <1>3, <1>4 DEF Inv

LEMMA RemoveInv ==
    ASSUME Inv, RemoveEnd
    PROVE  Inv' /\ Content' = Content \ {key} /\ key \in Keys /\ found' = (key \in Content)
<1>1. /\ pc = "search" /\ pc' = "idle" /\ found' = (InNewer \/ InOlder)
      /\ newer' = IF InNewer THEN ht_detach(newer, Pos(newer, key), key) ELSE newer
      /\ older' = IF ~InNewer /\ InOlder
                  THEN ht_detach(older, Pos(older, key), key) ELSE older
      /\ UNCHANGED <<migrate_pos, op, key, nwork>>
  BY DEF RemoveEnd
<1>2. /\ found' \in BOOLEAN /\ key \in Keys /\ found' = (key \in Content)
      /\ InNewer <=> key \in ToKeys(newer)
      /\ InOlder <=> older # Null /\ key \in ToKeys(older)
  BY <1>1, SearchIs
<1>3. /\ Good(newer) /\ newer.size \in Nat /\ newer.mask \in Nat
      /\ older # Null => /\ Good(older) /\ older.size \in Nat /\ older.mask \in Nat
                         /\ MaxLoad * (older.mask + 1) \in Nat
                         /\ ToKeys(newer) \cap ToKeys(older) = {}
  BY GoodTypes, CapIs DEF Inv, Apart
<1>4. Busy'
  BY <1>1, <1>2 DEF Inv, Busy
<1>5. CASE InNewer
  <2> DEFINE n == ht_detach(newer, Pos(newer, key), key)
  <2>1. newer' = n /\ older' = older /\ key \in ToKeys(newer)
    BY <1>1, <1>2, <1>5
  <2>2. Pos(newer, key) \in 0 .. newer.mask /\ key \in ToSet(newer.tab[Pos(newer, key)])
    BY <1>2, <1>3, <2>1, PosIs, KeysAre DEF Good
  <2>3. /\ Good(n) /\ ToKeys(n) = ToKeys(newer) \ {key} /\ n.mask = newer.mask
        /\ n.size = newer.size - 1
    BY <1>3, <2>2, DetachIs
  <2> HIDE DEF n
  <2>4. Apart' /\ Content' = Content \ {key}
    BY <1>1, <1>3, <2>1, <2>3 DEF Inv, Apart, Content
  <2>5. Load'
    <3>1. CASE older = Null
      <4>1. MaxLoad * (newer.mask + 1) \in Nat
        BY <1>3, CapIs
      <4>2. n.size < MaxLoad * (n.mask + 1)
        BY <1>3, <2>3, <3>1, <4>1 DEF Inv, Load
      <4> QED
        BY <2>1, <3>1, <4>2 DEF Load
    <3>2. CASE older # Null
      <4> DEFINE cap == MaxLoad * (older.mask + 1)
      <4>1. /\ newer.mask + 1 = 2 * (older.mask + 1)
            /\ newer.size + older.size + AtLeastOne(older.size) <= 2 * cap - 1
        BY <1>1, <3>2 DEF Inv, Load
      <4>2. cap \in Nat
        BY <1>3, <3>2
      <4> HIDE DEF cap
      <4>3. n.size + older.size + AtLeastOne(older.size) <= 2 * cap - 1
        BY <1>3, <2>3, <3>2, <4>1, <4>2 DEF AtLeastOne
      <4> QED
        BY <1>1, <2>1, <2>3, <3>2, <4>1, <4>3 DEF Load, cap
    <3> QED
      BY <3>1, <3>2
  <2> QED
    BY <1>2, <1>4, <2>1, <2>3, <2>4, <2>5 DEF Inv
<1>6. CASE ~InNewer /\ InOlder
  <2> DEFINE p == Pos(older, key)
             o == ht_detach(older, p, key)
  <2>1. newer' = newer /\ older' = o /\ older # Null /\ key \in ToKeys(older) /\ key \notin ToKeys(newer)
    BY <1>1, <1>2, <1>6
  <2>2. p \in 0 .. older.mask /\ key \in ToSet(older.tab[p])
    BY <1>2, <1>3, <2>1, PosIs, KeysAre DEF Good
  <2> HIDE DEF p
  <2>3. /\ Good(o) /\ ToKeys(o) = ToKeys(older) \ {key} /\ o.mask = older.mask
        /\ o.size = older.size - 1 /\ older.size > 0
        /\ \A i \in 0 .. older.mask : i # p => o.tab[i] = older.tab[i]
    BY <1>3, <2>1, <2>2, DetachIs
  <2> HIDE DEF o
  <2>4. o # Null
    BY <2>1, <2>3, TableIsNotNull DEF Inv, Apart
  <2>5. Apart'
    <3>1. /\ migrate_pos \in 0 .. older.mask /\ older.mask \in 0 .. Cardinality(Keys)
          /\ \A i \in 0 .. migrate_pos - 1 : older.tab[i] = <<>>
      BY <2>1 DEF Inv, Apart
    <3>2. ToSet(<<>>) = {}
      BY DEF ToSet
    <3>3. \A i \in 0 .. migrate_pos - 1 : i \in 0 .. older.mask /\ i # p
      BY <1>3, <2>1, <2>2, <3>1, <3>2
    <3>4. \A i \in 0 .. migrate_pos - 1 : o.tab[i] = <<>>
      BY <2>3, <3>1, <3>3
    <3> QED
      BY <1>1, <1>3, <2>1, <2>3, <3>1, <3>4 DEF Apart
  <2>6. Load'
    <3> DEFINE cap == MaxLoad * (older.mask + 1)
    <3>1. /\ newer.mask + 1 = 2 * (older.mask + 1)
          /\ newer.size + older.size + AtLeastOne(older.size) <= 2 * cap - 1
      BY <1>1, <2>1 DEF Inv, Load
    <3>2. cap \in Nat
      BY <1>3, <2>1
    <3> HIDE DEF cap
    <3>3. newer.size + o.size + AtLeastOne(o.size) <= 2 * cap - 1
      BY <1>3, <2>1, <2>3, <3>1, <3>2 DEF AtLeastOne
    <3> QED
      BY <1>1, <2>1, <2>3, <2>4, <3>1, <3>3 DEF Load, cap
  <2>7. Content' = Content \ {key}
    BY <2>1, <2>3, <2>4 DEF Content
  <2> QED
    BY <1>2, <1>3, <1>4, <2>1, <2>5, <2>6, <2>7 DEF Inv
<1>7. CASE ~InNewer /\ ~InOlder
  <2>1. newer' = newer /\ older' = older /\ key \notin Content
    BY <1>1, <1>2, <1>7
  <2>2. Apart' /\ Content' = Content \ {key} /\ Good(newer)'
    BY <1>1, <2>1 DEF Inv, Apart, Content
  <2>3. Load'
    BY <1>1, <2>1 DEF Inv, Load
  <2> QED
    BY <1>2, <1>4, <2>2, <2>3 DEF Inv
<1> QED
  BY <1>5, <1>6, <1>7

LEMMA NextInv == Inv /\ [Next]_vars => Inv'
<1> SUFFICES ASSUME Inv, [Next]_vars PROVE Inv'
  OBVIOUS
<1>1. CASE UNCHANGED vars
  <2>1. UNCHANGED <<newer, older, migrate_pos, pc, op, key, nwork, found>>
    BY <1>1 DEF vars
  <2>2. Good(newer)' /\ Apart' /\ Busy' /\ Load'
    BY <2>1 DEF Inv, Apart, Busy, Load
  <2> QED
    BY <2>2 DEF Inv
<1>2. CASE \E k \in Keys : insert(k) \/ lookup(k) \/ remove(k)
  BY <1>2, InsertInv, StartInv
<1>3. CASE Continue
  BY <1>3, SkipInv, MoveInv, EndInv, LookupInv, RemoveInv DEF Continue
<1> QED
  BY <1>1, <1>2, <1>3 DEF Next

-----------------------------------------------------------------------------
(* The theorems.                                                           *)

\* The invariant holds of every run: both tables, the cursor of rehashing(), the
\* operation in progress, and the account of the resize.
THEOREM InvHolds == Spec => []Inv
<1>1. Init => Inv
  BY InitInv
<1> QED
  BY <1>1, NextInv, PTL DEF Spec

\* For every set of keys and every hash function: each key is in the slot its
\* hash selects, once, in one of the tables; both sizes are exact; and the cursor
\* of rehashing() stays in the array, with nothing left behind it.
THEOREM AlwaysWellFormed == Spec => []TablesWellFormed
<1>1. Inv => TablesWellFormed
  <2> SUFFICES ASSUME Inv PROVE TablesWellFormed
    OBVIOUS
  <2>1. HashTab(newer) /\ WellFormed(newer)
    BY GoodTypes DEF Inv
  <2>2. older # Null => HashTab(older) /\ WellFormed(older)
    BY GoodTypes DEF Inv, Apart
  <2>3. TypeOK
    BY <2>1, <2>2 DEF Inv, Busy, TypeOK
  <2>4. ASSUME older # Null
        PROVE  /\ ToKeys(newer) \cap ToKeys(older) = {} /\ migrate_pos <= older.mask
               /\ \A i \in 0 .. migrate_pos - 1 : older.tab[i] = <<>>
    BY <2>4 DEF Inv, Apart
  <2> QED
    BY <2>1, <2>2, <2>3, <2>4 DEF TablesWellFormed
<1> QED
  BY <1>1, InvHolds, PTL

\* For every load factor and every amount of work per operation, from one node
\* up: a resize is over before the next one is due.
THEOREM ResizesEnd == Spec => []ResizeEndsInTime
<1>1. Inv => ResizeEndsInTime
  <2> SUFFICES ASSUME Inv PROVE ResizeEndsInTime
    OBVIOUS
  <2>1. newer.size \in Nat /\ newer.mask \in Nat /\ MaxLoad * (newer.mask + 1) \in Nat
    BY GoodTypes, CapIs DEF Inv
  <2>2. CASE older = Null
    BY <2>1, <2>2 DEF Inv, Load, ResizeEndsInTime, size
  <2>3. CASE older # Null
    <3> DEFINE cap == MaxLoad * (older.mask + 1)
    <3>1. older.size \in Nat /\ older.mask \in Nat
      BY <2>3, GoodTypes DEF Inv, Apart
    <3>2. cap \in Nat /\ MaxLoad * (2 * (older.mask + 1)) = 2 * cap
      BY <3>1, CapIs
    <3>3. /\ newer.mask + 1 = 2 * (older.mask + 1)
          /\ pc # "rehash" => newer.size + older.size + AtLeastOne(older.size) <= 2 * cap - 1
          /\ pc = "rehash" /\ nwork = 0 =>
                newer.size + older.size + AtLeastOne(older.size) <= 2 * cap
          /\ pc = "rehash" /\ nwork > 0 => newer.size + older.size + older.size <= 2 * cap - 1
      BY <2>3 DEF Inv, Load
    <3>4. nwork = 0 \/ nwork > 0
      BY HashMapAssumption DEF Inv, Busy
    <3> HIDE DEF cap
    <3>5. newer.size + older.size <= MaxLoad * (newer.mask + 1)
      BY <2>1, <3>1, <3>2, <3>3, <3>4 DEF AtLeastOne
    <3> QED
      BY <2>3, <3>3, <3>5 DEF ResizeEndsInTime, size
  <2> QED
    BY <2>2, <2>3
<1> QED
  BY <1>1, InvHolds, PTL

\* The table implements the set of module KeySet: every step of a run begins a
\* call of that set, ends it with the effect and the answer that this operation
\* has on this key, or changes nothing in it; the steps of a resize are among
\* the latter.
THEOREM RefinesKeySet == Spec => ImplementsKeySet
<1>1. Init => KS!Init
  BY InitInv DEF KS!Init, Init, InCall
<1>2. Inv /\ [Next]_vars => [KS!Next]_KS!vars
  <2> SUFFICES ASSUME Inv, [Next]_vars PROVE [KS!Next]_KS!vars
    OBVIOUS
  <2>0. pc # "idle" => key \in Keys
    BY DEF Inv, Busy
  <2>1. CASE UNCHANGED vars
    BY <2>1 DEF vars, KS!vars, Content, InCall
  <2>2. ASSUME NEW k \in Keys, insert(k) PROVE KS!Next
    <3>1. Content' = Content \cup {k} /\ k \notin Content /\ found' = found
      BY <2>2, InsertInv
    <3>2. InCall = Null /\ InCall' = <<"insert", k>>
      BY <2>2 DEF insert, Start, InCall
    <3> QED
      BY <3>1, <3>2 DEF KS!Next, KS!Insert, KS!Begin
  <2>3. ASSUME NEW k \in Keys, lookup(k) \/ remove(k) PROVE KS!Next
    <3>1. Content' = Content /\ found' = found
      BY <2>3, StartInv
    <3>2. InCall = Null /\ (InCall' = <<"lookup", k>> \/ InCall' = <<"remove", k>>)
      BY <2>3 DEF lookup, remove, Start, InCall
    <3> QED
      BY <3>1, <3>2 DEF KS!Next, KS!Ask, KS!Begin
  <2>4. CASE SkipEmptySlot \/ MoveNode
    <3>1. Content' = Content /\ found' = found
      BY <2>4, SkipInv, MoveInv
    <3>2. InCall' = InCall
      BY <2>4 DEF SkipEmptySlot, MoveNode, InCall
    <3> QED
      BY <3>1, <3>2 DEF KS!vars
  <2>5. CASE EndRehash
    <3>1. Content' = Content /\ found' = found
      BY <2>5, EndInv
    <3>2. /\ pc = "rehash" /\ pc' = (IF op = "insert" THEN "idle" ELSE "search")
          /\ op' = op /\ key' = key
      BY <2>5 DEF EndRehash
    <3>3. CASE op = "insert"
      <4>1. InCall = <<"insert", key>> /\ InCall' = Null /\ key \in Keys
        BY <2>0, <3>2, <3>3 DEF InCall
      <4> QED
        BY <3>1, <4>1 DEF KS!Next, KS!Inserted, KS!Return
    <3>4. CASE op # "insert"
      <4>1. InCall' = InCall
        BY <3>2, <3>4 DEF InCall
      <4> QED
        BY <3>1, <4>1 DEF KS!vars
    <3> QED
      BY <3>3, <3>4
  <2>6. CASE LookupEnd
    <3>1. Content' = Content /\ key \in Keys /\ found' = (key \in Content)
      BY <2>6, LookupInv
    <3>2. InCall = <<"lookup", key>> /\ InCall' = Null
      BY <2>6 DEF LookupEnd, InCall
    <3> QED
      BY <3>1, <3>2 DEF KS!Next, KS!Lookup, KS!Return
  <2>7. CASE RemoveEnd
    <3>1. Content' = Content \ {key} /\ key \in Keys /\ found' = (key \in Content)
      BY <2>7, RemoveInv
    <3>2. InCall = <<"remove", key>> /\ InCall' = Null
      BY <2>7 DEF RemoveEnd, InCall
    <3> QED
      BY <3>1, <3>2 DEF KS!Next, KS!Remove, KS!Return
  <2> QED
    BY <2>1, <2>2, <2>3, <2>4, <2>5, <2>6, <2>7 DEF Next, Continue
<1> QED
  BY <1>1, <1>2, InvHolds, PTL DEF Spec, ImplementsKeySet, KS!Spec

-----------------------------------------------------------------------------
(* foreach().                                                              *)

LEMMA LeastElement ==
    ASSUME NEW T, T \subseteq Nat, T # {}
    PROVE  \E m \in T : \A k \in T : m <= k
<1> DEFINE F == {0 .. m : m \in T}
<1>1. F \subseteq FiniteSubsetsOf(Nat) /\ F # {}
  <2>1. \A m \in T : 0 .. m \in SUBSET Nat /\ IsFiniteSet(0 .. m)
    BY FS_Interval
  <2> QED
    BY <2>1 DEF FiniteSubsetsOf
<1>2. IsWellFoundedOn(StrictSubsetOrdering(Nat), FiniteSubsetsOf(Nat))
  BY FS_StrictSubsetOrderingWellFounded
<1>3. PICK x \in F : \A y \in F : <<y, x>> \notin StrictSubsetOrdering(Nat)
  <2> HIDE DEF F
  <2> QED
    BY <1>1, <1>2, WFMin
<1>4. PICK m \in T : x = 0 .. m
  OBVIOUS
<1>5. ASSUME NEW k \in T, k < m PROVE FALSE
  <2>1. 0 .. k \in F /\ 0 .. k \subseteq 0 .. m /\ 0 .. k # 0 .. m /\ m \in Nat
    BY <1>5
  <2>2. <<0 .. k, x>> \in StrictSubsetOrdering(Nat)
    BY <2>1, <1>4 DEF StrictSubsetOrdering
  <2> QED
    BY <2>1, <2>2, <1>3
<1> QED
  BY <1>5

\* Induction over the natural numbers, on a set.
LEMMA Induction ==
    ASSUME NEW S, 0 \in S, \A n \in Nat : n \in S => n + 1 \in S
    PROVE  Nat \subseteq S
<1> DEFINE Bad == Nat \ S
<1> SUFFICES ASSUME Bad # {} PROVE FALSE
  OBVIOUS
<1>1. Bad \subseteq Nat
  OBVIOUS
<1>2. PICK b \in Bad : \A k \in Bad : b <= k
  <2> HIDE DEF Bad
  <2> QED
    BY <1>1, LeastElement
<1>3. b - 1 \in Nat /\ (b - 1) + 1 = b
  BY <1>2
<1>4. b - 1 \in S
  <2> SUFFICES ASSUME b - 1 \notin S PROVE FALSE
    OBVIOUS
  <2>1. b - 1 \in Bad
    BY <1>3
  <2>2. b <= b - 1
    BY <1>2, <2>1
  <2> QED
    BY <1>3, <2>2
<1> QED
  BY <1>3, <1>4

\* The recursive definition of FlattenSeq() has a solution.
LEMMA FlattenWalk ==
    ASSUME NEW n \in Nat, n > 0, NEW c \in [1 .. n -> Seq(Keys)]
    PROVE  \E f : /\ f[1] = c[1]
                  /\ \A i \in 2 .. n : f[i] = f[i - 1] \o c[i]
                  /\ FlattenSeq(c) = f[n]
<1> DEFINE D == 1 .. n
           V == Seq(Keys)
           body(i, f) == IF i = 1 THEN c[i] ELSE f[i - 1] \o c[i]
           Reached == {m \in Nat : \E f \in [D -> V] : \A i \in D : i <= m => f[i] = body(i, f)}
<1>0. c \in [D -> V]
  OBVIOUS
<1>1. 0 \in Reached
  <2>1. c \in [D -> V] /\ \A i \in D : ~(i <= 0)
    OBVIOUS
  <2> QED
    BY <2>1
<1>2. ASSUME NEW m \in Nat, m \in Reached PROVE m + 1 \in Reached
  <2>1. PICK f \in [D -> V] : \A i \in D : i <= m => f[i] = body(i, f)
    BY <1>2
  <2> DEFINE g == [i \in D |-> IF i <= m THEN f[i] ELSE body(i, f)]
  <2>2. \A i \in D : body(i, f) \in V
    <3> SUFFICES ASSUME NEW i \in D PROVE body(i, f) \in V
      OBVIOUS
    <3>1. CASE i = 1
      BY <3>1
    <3>2. CASE i # 1
      <4>1. i - 1 \in D /\ i \in D
        BY <3>2
      <4>2. PICK a, b : a = f[i - 1] /\ b = c[i] /\ a \in Seq(Keys) /\ b \in Seq(Keys)
        <5>1. f[i - 1] \in V /\ c[i] \in V
          <6> HIDE DEF V, D
          <6> QED
            BY <1>0, <4>1
        <5> QED
          BY <5>1
      <4>3. a \o b \in Seq(Keys)
        BY <4>2
      <4> QED
        BY <3>2, <4>2, <4>3
    <3> QED
      BY <3>1, <3>2
  <2>3. g \in [D -> V] /\ \A i \in D : g[i] = IF i <= m THEN f[i] ELSE body(i, f)
    <3> HIDE DEF body, V, D
    <3> QED
      BY <2>2
  <2> HIDE DEF g
  <2>4. ASSUME NEW i \in D, i <= m + 1 PROVE g[i] = body(i, g)
    <3>1. g[i] = body(i, f)
      <4> HIDE DEF body, V
      <4> QED
        BY <2>1, <2>3
    <3>2. i # 1 => g[i - 1] = f[i - 1]
      <4>1. i # 1 => i - 1 \in D /\ i - 1 <= m
        BY <2>4
      <4> HIDE DEF body, V, D
      <4> QED
        BY <2>3, <4>1
    <3> QED
      BY <3>1, <3>2
  <2>5. m + 1 \in Nat
    OBVIOUS
  <2> HIDE DEF body, V, D
  <2> QED
    BY <2>3, <2>4, <2>5
<1>3. Nat \subseteq Reached
  <2> HIDE DEF Reached
  <2> QED
    BY <1>1, <1>2, Induction
<1>4. PICK f \in [D -> V] : \A i \in D : f[i] = body(i, f)
  <2>1. PICK f \in [D -> V] : \A i \in D : i <= n => f[i] = body(i, f)
    BY <1>3
  <2> HIDE DEF body
  <2> QED
    BY <2>1
<1>5. \E g : g = [i \in D |-> body(i, g)]
  <2> HIDE DEF body, D, V
  <2> QED
    BY <1>4
<1> DEFINE w == CHOOSE g : g = [i \in D |-> body(i, g)]
<1>6. w = [i \in D |-> body(i, w)]
  <2> HIDE DEF body, D
  <2> QED
    BY <1>5
<1>7. Len(c) = n /\ Len(c) # 0
  OBVIOUS
<1>8. FlattenSeq(c) = w[n]
  BY <1>7 DEF FlattenSeq
<1> HIDE DEF w
<1>9. \A i \in D : w[i] = body(i, w)
  <2> HIDE DEF body, D
  <2> QED
    BY <1>6
<1>10. w[1] = c[1] /\ \A i \in 2 .. n : w[i] = w[i - 1] \o c[i]
  <2>1. 1 \in D /\ \A i \in 2 .. n : i \in D /\ i # 1
    OBVIOUS
  <2> HIDE DEF D
  <2> QED
    BY <1>9, <2>1
<1> QED
  BY <1>8, <1>10

LEMMA JoinIs ==
    ASSUME NEW A, NEW a \in Seq(A), NEW b \in Seq(A), IsInjective(a), IsInjective(b),
           ToSet(a) \cap ToSet(b) = {}
    PROVE  a \o b \in Seq(A) /\ IsInjective(a \o b) /\ ToSet(a \o b) = ToSet(a) \cup ToSet(b)
<1>1. PICK t, p, q : t = a \o b /\ p = Len(a) /\ q = Len(b)
  OBVIOUS
<1>2. /\ t \in Seq(A) /\ Len(t) = p + q /\ p \in Nat /\ q \in Nat
      /\ \A i \in 1 .. p + q : t[i] = IF i <= p THEN a[i] ELSE b[i - p]
  BY <1>1, ConcatProperties
<1>3. DOMAIN t = 1 .. p + q /\ DOMAIN a = 1 .. p /\ DOMAIN b = 1 .. q
  <2>1. DOMAIN t = 1 .. Len(t)
    BY <1>2
  <2> QED
    BY <1>1, <1>2, <2>1
<1>4. \A i \in 1 .. p + q : i \in 1 .. p \/ i - p \in 1 .. q
  BY <1>2
<1>5. ASSUME NEW i \in 1 .. p + q
      PROVE  \/ i \in 1 .. p /\ t[i] = a[i] /\ t[i] \in ToSet(a)
             \/ i - p \in 1 .. q /\ t[i] = b[i - p] /\ t[i] \in ToSet(b)
  <2>1. CASE i \in 1 .. p
    <3>1. t[i] = a[i]
      BY <1>2, <2>1
    <3> QED
      BY <1>3, <2>1, <3>1 DEF ToSet
  <2>2. CASE i - p \in 1 .. q
    <3>1. t[i] = b[i - p]
      BY <1>2, <2>2
    <3> QED
      BY <1>3, <2>2, <3>1 DEF ToSet
  <2> QED
    BY <1>4, <2>1, <2>2
<1>6. IsInjective(t)
  <2> SUFFICES ASSUME NEW i \in 1 .. p + q, NEW j \in 1 .. p + q, t[i] = t[j] PROVE i = j
    BY <1>3 DEF IsInjective
  <2>1. CASE i \in 1 .. p /\ t[i] = a[i] /\ t[i] \in ToSet(a)
    <3>1. j \in 1 .. p /\ t[j] = a[j]
      BY <1>5, <2>1
    <3> QED
      BY <1>3, <2>1, <3>1 DEF IsInjective
  <2>2. CASE i - p \in 1 .. q /\ t[i] = b[i - p] /\ t[i] \in ToSet(b)
    <3>1. j - p \in 1 .. q /\ t[j] = b[j - p]
      BY <1>5, <2>2
    <3>2. i - p = j - p
      BY <1>3, <2>2, <3>1 DEF IsInjective
    <3> QED
      BY <1>2, <3>2
  <2> QED
    BY <1>5, <2>1, <2>2
<1>7. ToSet(t) \subseteq ToSet(a) \cup ToSet(b)
  BY <1>3, <1>5 DEF ToSet
<1>8. ToSet(a) \subseteq ToSet(t)
  <2> SUFFICES ASSUME NEW i \in 1 .. p PROVE a[i] \in ToSet(t)
    BY <1>3 DEF ToSet
  <2>1. i \in 1 .. p + q /\ t[i] = a[i]
    BY <1>2
  <2> QED
    BY <1>3, <2>1 DEF ToSet
<1>9. ToSet(b) \subseteq ToSet(t)
  <2> SUFFICES ASSUME NEW i \in 1 .. q PROVE b[i] \in ToSet(t)
    BY <1>3 DEF ToSet
  <2>1. PICK j : j = i + p /\ j \in 1 .. p + q /\ ~(j <= p) /\ j - p = i
    BY <1>2
  <2>2. t[j] = b[i]
    BY <1>2, <2>1
  <2> QED
    BY <1>3, <2>1, <2>2 DEF ToSet
<1> QED
  BY <1>1, <1>2, <1>6, <1>7, <1>8, <1>9

\* Chains that are apart from each other are visited one after the other: every
\* node once.
LEMMA FlattenIs ==
    ASSUME NEW n \in Nat, n > 0, NEW c \in [1 .. n -> Seq(Keys)],
           \A i \in 1 .. n : IsInjective(c[i]),
           \A i, j \in 1 .. n : i # j => ToSet(c[i]) \cap ToSet(c[j]) = {}
    PROVE  /\ FlattenSeq(c) \in Seq(Keys) /\ IsInjective(FlattenSeq(c))
           /\ \A k : k \in ToSet(FlattenSeq(c)) <=> \E i \in 1 .. n : k \in ToSet(c[i])
<1>1. PICK f : /\ f[1] = c[1]
               /\ \A i \in 2 .. n : f[i] = f[i - 1] \o c[i]
               /\ FlattenSeq(c) = f[n]
  BY FlattenWalk
<1> DEFINE Fine(m) == /\ f[m] \in Seq(Keys) /\ IsInjective(f[m])
                      /\ \A k : k \in ToSet(f[m]) <=> \E i \in 1 .. m : k \in ToSet(c[i])
           Done == {m \in Nat : m + 1 <= n => Fine(m + 1)}
<1>2. 0 \in Done
  <2>1. 1 \in 1 .. n /\ (\A i \in 1 .. 1 : i = 1) /\ 1 \in 1 .. 1
    OBVIOUS
  <2>2. c[1] \in Seq(Keys) /\ IsInjective(c[1])
    BY <2>1
  <2>3. Fine(1)
    BY <1>1, <2>1, <2>2
  <2> QED
    BY <2>3
<1>3. ASSUME NEW m \in Nat, m \in Done PROVE m + 1 \in Done
  <2> SUFFICES ASSUME (m + 1) + 1 <= n PROVE Fine((m + 1) + 1)
    OBVIOUS
  <2>1. PICK l, j : l = m + 1 /\ j = (m + 1) + 1 /\ l \in 1 .. n /\ j \in 2 .. n /\ j - 1 = l /\ j = l + 1 /\ j \in 1 .. n
    OBVIOUS
  <2>2. Fine(l)
    <3>1. m + 1 <= n => Fine(m + 1)
      <4> HIDE DEF Fine
      <4> QED
        BY <1>3
    <3>2. m + 1 <= n
      OBVIOUS
    <3> HIDE DEF Fine
    <3> QED
      BY <2>1, <3>1, <3>2
  <2>3. PICK a, b : a = f[l] /\ b = c[j]
    OBVIOUS
  <2>4. f[j] = a \o b
    BY <1>1, <2>1, <2>3
  <2>5. /\ a \in Seq(Keys) /\ IsInjective(a) /\ b \in Seq(Keys) /\ IsInjective(b)
    BY <2>1, <2>2, <2>3
  <2>6. \A k : k \in ToSet(a) <=> \E i \in 1 .. l : k \in ToSet(c[i])
    BY <2>2, <2>3
  <2>7. ToSet(a) \cap ToSet(b) = {}
    <3>1. \A i \in 1 .. l : i \in 1 .. n /\ i # j
      BY <2>1
    <3>2. \A i \in 1 .. l : ToSet(c[i]) \cap ToSet(b) = {}
      BY <2>1, <2>3, <3>1
    <3> QED
      BY <2>6, <3>2
  <2>8. a \o b \in Seq(Keys) /\ IsInjective(a \o b) /\ ToSet(a \o b) = ToSet(a) \cup ToSet(b)
    BY ONLY <2>5, <2>7, JoinIs
  <2>9. \A k : k \in ToSet(a \o b) <=> \E i \in 1 .. j : k \in ToSet(c[i])
    <3>1. \A i : i \in 1 .. j <=> i \in 1 .. l \/ i = j
      BY <2>1
    <3> QED
      BY <2>3, <2>6, <2>8, <3>1
  <2>10. Fine(j)
    BY <2>4, <2>8, <2>9
  <2> QED
    BY <2>1, <2>10
<1>4. n - 1 \in Done
  <2>1. Nat \subseteq Done
    <3> HIDE DEF Done
    <3> QED
      BY <1>2, <1>3, Induction
  <2>2. n - 1 \in Nat
    OBVIOUS
  <2> HIDE DEF Done
  <2> QED
    BY <2>1, <2>2
<1>5. Fine(n)
  <2>1. (n - 1) + 1 = n /\ n <= n
    OBVIOUS
  <2>2. (n - 1) + 1 <= n => Fine((n - 1) + 1)
    <3> HIDE DEF Fine
    <3> QED
      BY <1>4
  <2> HIDE DEF Fine
  <2> QED
    BY <2>1, <2>2
<1> QED
  BY <1>1, <1>5

\* A walk visits the nodes of a table, each once.
LEMMA WalkIs ==
    ASSUME NEW ht, Good(ht)
    PROVE  Walk(ht) \in Seq(Keys) /\ IsInjective(Walk(ht)) /\ ToSet(Walk(ht)) = ToKeys(ht)
<1>1. /\ ht.mask \in Nat /\ WellFormed(ht) /\ ht.tab \in [0 .. ht.mask -> Seq(Keys)]
  BY GoodTypes
<1>2. PICK n : n = ht.mask + 1 /\ n \in Nat /\ n > 0 /\ ht.mask = n - 1
  BY <1>1
<1>3. PICK c : c = [i \in 1 .. n |-> ht.tab[i - 1]]
  OBVIOUS
<1>4. Walk(ht) = FlattenSeq(c)
  BY <1>2, <1>3 DEF Walk
<1>5. \A i \in 1 .. n : c[i] = ht.tab[i - 1] /\ i - 1 \in 0 .. ht.mask
  <2>1. \A i \in 1 .. n : c[i] = ht.tab[i - 1]
    BY ONLY <1>3
  <2>2. \A i \in 1 .. n : i - 1 \in 0 .. ht.mask
    BY <1>2
  <2> QED
    BY <2>1, <2>2
<1>6. c \in [1 .. n -> Seq(Keys)]
  <2>1. \A i \in 1 .. n : ht.tab[i - 1] \in Seq(Keys)
    BY <1>1, <1>5
  <2> QED
    BY <1>3, <2>1
<1>7. \A i \in 1 .. n : IsInjective(c[i])
  BY <1>1, <1>5 DEF WellFormed
<1>8. \A i, j \in 1 .. n : i # j => ToSet(c[i]) \cap ToSet(c[j]) = {}
  <2> SUFFICES ASSUME NEW i \in 1 .. n, NEW j \in 1 .. n, NEW k, k \in ToSet(c[i]), k \in ToSet(c[j]) PROVE i = j
    OBVIOUS
  <2>1. Pos(ht, k) = i - 1 /\ Pos(ht, k) = j - 1
    BY <1>1, <1>5 DEF WellFormed
  <2> QED
    BY <2>1
<1>9. /\ FlattenSeq(c) \in Seq(Keys) /\ IsInjective(FlattenSeq(c))
      /\ \A k : k \in ToSet(FlattenSeq(c)) <=> \E i \in 1 .. n : k \in ToSet(c[i])
  BY <1>2, <1>6, <1>7, <1>8, FlattenIs
<1>10. ASSUME NEW k PROVE k \in ToKeys(ht) <=> \E i \in 1 .. n : k \in ToSet(c[i])
  <2>1. ASSUME k \in ToKeys(ht) PROVE \E i \in 1 .. n : k \in ToSet(c[i])
    <3>1. PICK i \in 0 .. ht.mask : k \in ToSet(ht.tab[i])
      BY <2>1 DEF ToKeys
    <3>2. PICK j : j = i + 1 /\ j \in 1 .. n /\ j - 1 = i
      BY <1>2, <3>1
    <3> QED
      BY <1>5, <3>1, <3>2
  <2>2. ASSUME NEW i \in 1 .. n, k \in ToSet(c[i]) PROVE k \in ToKeys(ht)
    <3>1. k \in ToSet(ht.tab[i - 1]) /\ i - 1 \in 0 .. ht.mask
      BY <1>5, <2>2
    <3> QED
      BY <3>1, KeysAre
  <2> QED
    BY <2>1, <2>2
<1> QED
  BY <1>4, <1>9, <1>10

LEMMA CountIs ==
    ASSUME NEW A, NEW s \in Seq(A), IsInjective(s)
    PROVE  Cardinality(ToSet(s)) = Len(s)
<1>1. PICK n : n = Len(s) /\ n \in Nat /\ DOMAIN s = 1 .. n
  OBVIOUS
<1>2. s \in [1 .. n -> A]
  BY <1>1
<1>3. s \in [1 .. n -> ToSet(s)]
  BY <1>1, <1>2 DEF ToSet
<1>4. s \in Bijection(1 .. n, ToSet(s))
  BY <1>1, <1>3 DEF Bijection, Injection, Surjection, IsInjective, ToSet
<1>5. ExistsBijection(1 .. n, ToSet(s))
  BY <1>4 DEF ExistsBijection
<1> QED
  BY <1>1, <1>5, FS_CountingElements

\* ht_foreach() with a callback that never stops it
LEMMA ForeachIs ==
    ASSUME NEW ht, Good(ht), ht.mask # 0
    PROVE  ht_foreach(ht, Null) = Walk(ht)
<1>1. Walk(ht) \in Seq(Keys)
  BY WalkIs
<1>2. PICK all : all = Walk(ht)
  OBVIOUS
<1>3. {i \in DOMAIN all : all[i] = Null} = {}
  BY <1>1, <1>2, HashMapAssumption
<1> QED
  BY <1>2, <1>3 DEF ht_foreach

\* No table has a single slot, at which ht_foreach() would return.
Slots == newer.mask # 0 /\ (older # Null => older.mask # 0)

LEMMA MaskKept ==
    ASSUME NEW ht, Good(ht), NEW k, NEW p
    PROVE  ht_insert(ht, k).mask = ht.mask /\ ht_detach(ht, p, k).mask = ht.mask
BY DEF Good, IsTab, ht_insert, ht_detach

LEMMA SlotsNext == ASSUME Inv, Slots, [Next]_vars PROVE Slots'
<1>1. Good(newer) /\ (older # Null => Good(older)) /\ newer.mask \in Nat
  BY GoodTypes DEF Inv, Apart
<1>2. CASE UNCHANGED vars
  BY <1>2 DEF vars, Slots
<1>3. ASSUME NEW k \in Keys, insert(k) PROVE Slots'
  <2>1. PICK h : h = ht_insert(newer, k) /\ h.mask = newer.mask
    BY <1>1, MaskKept
  <2>2. inspect_rehashing(h)
    BY <1>3, <2>1 DEF insert
  <2>3. CASE older = Null /\ h.size >= (h.mask + 1) * MaxLoad
    <3>1. older' = h /\ newer' = ht_make((h.mask + 1) * 2)
      BY <2>2, <2>3 DEF inspect_rehashing
    <3>2. newer'.mask = (h.mask + 1) * 2 - 1
      BY <3>1 DEF ht_make
    <3> QED
      BY <1>1, <2>1, <3>1, <3>2 DEF Slots
  <2>4. CASE ~(older = Null /\ h.size >= (h.mask + 1) * MaxLoad)
    <3>1. older' = older /\ newer' = h
      BY <2>2, <2>4 DEF inspect_rehashing
    <3> QED
      BY <2>1, <3>1 DEF Slots
  <2> QED
    BY <2>3, <2>4
<1>4. ASSUME NEW k \in Keys, lookup(k) \/ remove(k) PROVE Slots'
  BY <1>4 DEF lookup, remove, tables, Slots
<1>5. CASE SkipEmptySlot
  BY <1>5 DEF SkipEmptySlot, Slots
<1>6. CASE MoveNode
  <2>1. PICK k : older # Null /\ newer' = ht_insert(newer, k) /\ older' = ht_detach(older, migrate_pos, k)
    BY <1>6 DEF MoveNode, Migrating
  <2> QED
    BY <1>1, <2>1, MaskKept DEF Slots
<1>7. CASE EndRehash
  BY <1>7 DEF EndRehash, Slots
<1>8. CASE LookupEnd
  BY <1>8 DEF LookupEnd, tables, Slots
<1>9. CASE RemoveEnd
  <2>1. newer' = newer \/ newer' = ht_detach(newer, Pos(newer, key), key)
    BY <1>9 DEF RemoveEnd
  <2>2. older' = older \/ (older # Null /\ older' = ht_detach(older, Pos(older, key), key))
    BY <1>9 DEF RemoveEnd, InOlder
  <2> QED
    BY <1>1, <2>1, <2>2, MaskKept DEF Slots
<1> QED
  BY <1>2, <1>3, <1>4, <1>5, <1>6, <1>7, <1>8, <1>9 DEF Next, Continue

\* A foreach() whose callback never stops it visits every node once, in the middle
\* of a resize too, and as many nodes as size() says.
THEOREM ForeachVisitsAll == Spec => []ForeachComplete
<1>1. Init => Slots
  <2> SUFFICES ASSUME Init PROVE Slots
    OBVIOUS
  <2>1. newer.mask = InitSlots - 1 /\ older = Null
    BY DEF Init, ht_make
  <2> QED
    BY <2>1, HashMapAssumption DEF Slots
<1>2. Inv /\ Slots => ForeachComplete
  <2> SUFFICES ASSUME Inv, Slots PROVE ForeachComplete
    OBVIOUS
  <2>1. /\ Good(newer) /\ newer.mask # 0
        /\ older # Null => Good(older) /\ older.mask # 0 /\ ToKeys(newer) \cap ToKeys(older) = {}
    BY DEF Inv, Apart, Slots
  <2>2. PICK a : a = ht_foreach(newer, Null)
    OBVIOUS
  <2>3. a \in Seq(Keys) /\ IsInjective(a) /\ ToSet(a) = ToKeys(newer)
    BY <2>1, <2>2, ForeachIs, WalkIs
  <2>4. Len(a) = newer.size
    BY <2>1, <2>3, CountIs DEF Good, WellFormed
  <2>5. CASE older = Null
    <3>1. foreach(Null) = a
      BY <2>2, <2>3, <2>5 DEF foreach
    <3>2. Content = ToKeys(newer) /\ size = newer.size
      <4>1. newer.size \in Nat
        BY <2>1, GoodTypes
      <4> QED
        BY <2>5, <4>1 DEF Content, size
    <3> QED
      BY <2>3, <2>4, <3>1, <3>2 DEF ForeachComplete
  <2>6. CASE older # Null
    <3>1. PICK b : b = ht_foreach(older, Null)
      OBVIOUS
    <3>2. b \in Seq(Keys) /\ IsInjective(b) /\ ToSet(b) = ToKeys(older)
      BY <2>1, <2>6, <3>1, ForeachIs, WalkIs
    <3>3. Len(b) = older.size
      BY <2>1, <2>6, <3>2, CountIs DEF Good, WellFormed
    <3>4. foreach(Null) = a \o b
      BY <2>2, <2>6, <3>1 DEF foreach
    <3>5. ToSet(a) \cap ToSet(b) = {}
      BY <2>1, <2>3, <2>6, <3>2
    <3>6. a \o b \in Seq(Keys) /\ IsInjective(a \o b) /\ ToSet(a \o b) = ToSet(a) \cup ToSet(b)
      BY ONLY <2>3, <3>2, <3>5, JoinIs
    <3>7. Len(a \o b) = Len(a) + Len(b)
      BY <2>3, <3>2
    <3>8. Content = ToSet(a) \cup ToSet(b) /\ size = Len(a) + Len(b)
      BY <2>3, <2>4, <2>6, <3>2, <3>3 DEF Content, size
    <3> QED
      BY <3>4, <3>6, <3>7, <3>8 DEF ForeachComplete
  <2> QED
    BY <2>5, <2>6
<1>3. Inv /\ Slots /\ [Next]_vars => Slots'
  BY SlotsNext
<1>4. Spec => []Slots
  BY <1>1, <1>3, InvHolds, PTL DEF Spec
<1> QED
  BY <1>2, <1>4, InvHolds, PTL

=============================================================================
