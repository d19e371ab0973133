--------------------------- MODULE LruCacheProofs ---------------------------
(***************************************************************************)
(* Proofs about the LRU cache, for every capacity, number of keys and      *)
(* number of addresses. The invariant lays the list beside the history of  *)
(* uses: its i-th node belongs to the i-th key of the history.             *)
(***************************************************************************)
EXTENDS LruCache, FiniteSetTheorems, SequenceTheorems, TLAPS

\* No key is in the history twice.
Distinct == \A i, j \in 1 .. Len(recent) : recent[i] = recent[j] => i = j

\* The list is as long as it can be, and the map leads from the i-th key of
\* the history to the i-th node of the list, which holds the key and its value.
Aligned ==
    /\ Len(m_cache) <= Len(recent)
    /\ Len(m_cache) = m_capacity \/ Len(m_cache) = Len(recent)
    /\ \A i \in 1 .. Len(m_cache) :
          /\ m_map[recent[i]] = m_cache[i]
          /\ pair[m_cache[i]] = [key |-> recent[i], value |-> latest[recent[i]]]
    /\ \A k \in Keys : m_map[k] # None => \E i \in 1 .. Len(m_cache) : recent[i] = k

\* What get() has returned is what the history says.
Answered ==
    call.op = "get" =>
        IF \E i \in 1 .. Len(m_cache) : recent[i] = call.key
        THEN call.result = latest[call.key] ELSE call.result = None

Inv == TypeOK /\ Distinct /\ Aligned /\ Answered

-----------------------------------------------------------------------------
(* Sequences.                                                              *)

LEMMA RemoveAtIs ==
    ASSUME NEW A, NEW s \in Seq(A), NEW i \in 1 .. Len(s)
    PROVE  /\ RemoveAt(s, i) \in Seq(A) /\ Len(RemoveAt(s, i)) = Len(s) - 1
           /\ \A j \in 1 .. Len(s) - 1 :
                 RemoveAt(s, i)[j] = IF j < i THEN s[j] ELSE s[j + 1]
<1> DEFINE a == SubSeq(s, 1, i - 1)
           b == SubSeq(s, i + 1, Len(s))
<1>1. Len(s) \in Nat /\ i \in Nat /\ i <= Len(s)
  OBVIOUS
<1>2. a \in Seq(A) /\ Len(a) = i - 1 /\ \A j \in 1 .. i - 1 : a[j] = s[j]
  BY <1>1
<1>3. b \in Seq(A) /\ Len(b) = Len(s) - i /\ \A j \in 1 .. Len(s) - i : b[j] = s[i + j]
  <2>1. \A j \in i + 1 .. Len(s) : s[j] \in A
    BY <1>1
  <2>2. /\ b \in Seq(A) /\ Len(b) = IF i + 1 <= Len(s) THEN Len(s) - (i + 1) + 1 ELSE 0
        /\ \A j \in 1 .. Len(s) - (i + 1) + 1 : b[j] = s[i + 1 + j - 1]
    BY <1>1, <2>1, SubSeqProperties
  <2>3. Len(s) - (i + 1) + 1 = Len(s) - i /\ (~(i + 1 <= Len(s)) => Len(s) - i = 0)
    BY <1>1
  <2>4. \A j \in 1 .. Len(s) - i : i + 1 + j - 1 = i + j
    BY <1>1
  <2> QED
    BY <2>2, <2>3, <2>4
<1> DEFINE c == a \o b
<1> HIDE DEF a, b
<1>4. /\ c \in Seq(A) /\ Len(c) = Len(s) - 1
      /\ \A j \in 1 .. Len(s) - 1 : c[j] = IF j <= i - 1 THEN a[j] ELSE b[j - (i - 1)]
  <2>1. Len(a) + Len(b) = Len(s) - 1
    BY <1>1, <1>2, <1>3
  <2>2. a \in Seq(A) /\ b \in Seq(A)
    BY <1>2, <1>3
  <2>3. /\ c \in Seq(A) /\ Len(c) = Len(a) + Len(b)
        /\ \A j \in 1 .. Len(a) + Len(b) : c[j] = IF j <= Len(a) THEN a[j] ELSE b[j - Len(a)]
    BY <2>2, ConcatProperties
  <2>4. Len(a) = i - 1
    BY <1>2
  <2> HIDE DEF c
  <2> QED
    BY <2>1, <2>3, <2>4
<1> HIDE DEF c
<1>5. ASSUME NEW j \in 1 .. Len(s) - 1
      PROVE  c[j] = IF j < i THEN s[j] ELSE s[j + 1]
  <2>1. CASE j < i
    <3>1. j <= i - 1 /\ j \in 1 .. i - 1
      BY <1>1, <2>1
    <3> QED
      BY <1>2, <1>4, <2>1, <3>1
  <2>2. CASE ~(j < i)
    <3>1. ~(j <= i - 1) /\ j - (i - 1) \in 1 .. Len(s) - i /\ i + (j - (i - 1)) = j + 1
      BY <1>1, <2>2
    <3>2. c[j] = b[j - (i - 1)]
      BY <1>4, <3>1
    <3>3. b[j - (i - 1)] = s[j + 1]
      BY <1>3, <3>1
    <3> QED
      BY <2>2, <3>2, <3>3
  <2> QED
    BY <2>1, <2>2
<1> QED
  BY <1>4, <1>5 DEF RemoveAt, a, b, c

LEMMA PrefixIs ==
    ASSUME NEW A, NEW s \in Seq(A), NEW n \in Nat, n <= Len(s)
    PROVE  /\ SubSeq(s, 1, n) \in Seq(A) /\ Len(SubSeq(s, 1, n)) = n
           /\ \A j \in 1 .. n : SubSeq(s, 1, n)[j] = s[j]
<1>1. Len(s) \in Nat /\ n \in Int /\ 1 \in Int /\ \A j \in 1 .. n : s[j] \in A
  OBVIOUS
<1>2. /\ SubSeq(s, 1, n) \in Seq(A)
      /\ Len(SubSeq(s, 1, n)) = IF 1 <= n THEN n - 1 + 1 ELSE 0
      /\ \A j \in 1 .. n - 1 + 1 : SubSeq(s, 1, n)[j] = s[1 + j - 1]
  BY <1>1, SubSeqProperties
<1>3. n - 1 + 1 = n /\ (~(1 <= n) => n = 0) /\ \A j \in 1 .. n : 1 + j - 1 = j
  OBVIOUS
<1> QED
  BY <1>2, <1>3

LEMMA RemoveFirstIs ==
    ASSUME NEW A, NEW s \in Seq(A), NEW i \in 1 .. Len(s),
           \A j \in 1 .. Len(s) : s[j] = s[i] => j = i
    PROVE  RemoveFirst(s, s[i]) = RemoveAt(s, i)
<1>1. {j \in 1 .. Len(s) : s[j] = s[i]} = {i}
  OBVIOUS
<1>2. Min({i}) = i
  BY DEF Min
<1>3. \E j \in 1 .. Len(s) : s[j] = s[i]
  OBVIOUS
<1> QED
  BY <1>1, <1>2, <1>3 DEF RemoveFirst, SelectInSeq

LEMMA RemoveNone ==
    ASSUME NEW A, NEW s \in Seq(A), NEW x, \A j \in 1 .. Len(s) : s[j] # x
    PROVE  RemoveFirst(s, x) = s
BY DEF RemoveFirst, SelectInSeq

LEMMA ConsIs ==
    ASSUME NEW A, NEW s \in Seq(A), NEW x \in A
    PROVE  /\ <<x>> \o s \in Seq(A) /\ Len(<<x>> \o s) = Len(s) + 1
           /\ (<<x>> \o s)[1] = x
           /\ \A j \in 2 .. Len(s) + 1 : (<<x>> \o s)[j] = s[j - 1]
<1>1. <<x>> \in Seq(A) /\ Len(<<x>>) = 1 /\ <<x>>[1] = x
  OBVIOUS
<1>2. <<x>> \o s \in Seq(A) /\ Len(<<x>> \o s) = Len(s) + 1
  BY <1>1
<1>3. (<<x>> \o s)[1] = x
  BY <1>1
<1>4. ASSUME NEW j \in 2 .. Len(s) + 1 PROVE (<<x>> \o s)[j] = s[j - 1]
  BY <1>1
<1> QED
  BY <1>2, <1>3, <1>4

\* where the element at j was before the one at i was moved to the front
Before(i, j) == IF j = 1 THEN i ELSE IF j <= i THEN j - 1 ELSE j

LEMMA BeforeIs ==
    ASSUME NEW n \in Nat, NEW i \in 1 .. n
    PROVE  /\ \A j \in 1 .. n : Before(i, j) \in 1 .. n
           /\ \A j, l \in 1 .. n : Before(i, j) = Before(i, l) => j = l
           /\ \A l \in 1 .. n : \E j \in 1 .. n : Before(i, j) = l
<1>1. \A j \in 1 .. n : Before(i, j) \in 1 .. n
  BY DEF Before
<1>2. \A j, l \in 1 .. n : Before(i, j) = Before(i, l) => j = l
  BY DEF Before
<1>3. ASSUME NEW l \in 1 .. n PROVE \E j \in 1 .. n : Before(i, j) = l
  <2>1. CASE l = i
    BY <2>1 DEF Before
  <2>2. CASE l < i
    <3>1. l + 1 \in 1 .. n /\ Before(i, l + 1) = l
      BY <2>2 DEF Before
    <3> QED
      BY <3>1
  <2>3. CASE l > i
    BY <2>3 DEF Before
  <2> QED
    BY <2>1, <2>2, <2>3
<1> QED
  BY <1>1, <1>2, <1>3

LEMMA MoveToFront ==
    ASSUME NEW A, NEW s \in Seq(A), NEW i \in 1 .. Len(s),
           \A j \in 1 .. Len(s) : s[j] = s[i] => j = i
    PROVE  LET t == <<s[i]>> \o RemoveFirst(s, s[i])
           IN  /\ t \in Seq(A) /\ Len(t) = Len(s)
               /\ \A j \in 1 .. Len(s) : t[j] = s[Before(i, j)]
<1> DEFINE r == RemoveAt(s, i)
           t == <<s[i]>> \o r
<1>1. RemoveFirst(s, s[i]) = r
  BY RemoveFirstIs
<1>2. Len(s) \in Nat /\ s[i] \in A
  OBVIOUS
<1>3. /\ r \in Seq(A) /\ Len(r) = Len(s) - 1
      /\ \A j \in 1 .. Len(s) - 1 : r[j] = IF j < i THEN s[j] ELSE s[j + 1]
  BY RemoveAtIs
<1> HIDE DEF r
<1>4. /\ t \in Seq(A) /\ Len(t) = Len(r) + 1 /\ t[1] = s[i]
      /\ \A j \in 2 .. Len(r) + 1 : t[j] = r[j - 1]
  BY <1>2, <1>3, ConsIs
<1> HIDE DEF t
<1>5. ASSUME NEW j \in 1 .. Len(s) PROVE t[j] = s[Before(i, j)]
  <2>1. CASE j = 1
    BY <1>4, <2>1 DEF Before
  <2>2. CASE j > 1
    <3>1. j \in 2 .. Len(r) + 1 /\ j - 1 \in 1 .. Len(s) - 1 /\ (j - 1 < i <=> j <= i)
          /\ j - 1 + 1 = j
      BY <1>2, <1>3, <2>2
    <3>2. t[j] = IF j <= i THEN s[j - 1] ELSE s[j]
      BY <1>3, <1>4, <3>1
    <3> QED
      BY <2>2, <3>2 DEF Before
  <2> QED
    BY <1>2, <2>1, <2>2
<1> QED
  BY <1>1, <1>2, <1>3, <1>4, <1>5 DEF t


-----------------------------------------------------------------------------
(* The invariant holds initially and is preserved by every action.         *)

LEMMA Types ==
    ASSUME TypeOK
    PROVE  /\ m_cache \in Seq(Nodes) /\ Len(m_cache) \in Nat /\ Len(m_cache) <= m_capacity
           /\ recent \in Seq(Keys) /\ Len(recent) \in Nat
           /\ m_capacity \in Nat /\ m_capacity >= 1 /\ m_capacity \in Capacities
           /\ m_map \in [Keys -> Nodes \cup {None}]
           /\ \A i \in 1 .. Len(recent) : recent[i] \in Keys
           /\ \A i \in 1 .. Len(m_cache) : m_cache[i] \in Nodes
           /\ None \notin Keys /\ None \notin Nodes /\ None \notin Values
<1>1. m_cache \in Seq(Nodes) /\ recent \in Seq(Keys) /\ m_capacity \in Capacities
  BY DEF TypeOK
<1>2. m_capacity \in 1 .. Cardinality(Nodes) /\ Cardinality(Nodes) \in Nat
  BY <1>1, LruAssumption, FS_CardinalityType
<1> QED
  BY <1>1, <1>2, LruAssumption DEF TypeOK

LEMMA InitInv == Init => Inv
<1> SUFFICES ASSUME Init PROVE Inv
  OBVIOUS
<1>1. Len(m_cache) = 0 /\ Len(recent) = 0
  BY DEF Init
<1>2. m_capacity \in Nat
  <2>1. m_capacity \in 1 .. Cardinality(Nodes) /\ Cardinality(Nodes) \in Nat
    BY LruAssumption, FS_CardinalityType DEF Init
  <2> QED
    BY <2>1
<1>3. TypeOK
  BY <1>1, <1>2 DEF Init, TypeOK
<1>4. Distinct /\ Answered
  BY <1>1 DEF Init, Distinct, Answered
<1>5. Aligned
  BY <1>1 DEF Init, Aligned
<1> QED
  BY <1>3, <1>4, <1>5 DEF Inv

LEMMA PlaceIs ==
    ASSUME Inv, NEW i \in 1 .. Len(m_cache)
    PROVE  /\ m_map[recent[i]] = m_cache[i] /\ i \in 1 .. Len(recent)
           /\ pair[m_cache[i]] = [key |-> recent[i], value |-> latest[recent[i]]]
           /\ pair[m_cache[i]].key = recent[i]
<1>1. Aligned /\ Len(m_cache) \in Nat /\ Len(recent) \in Nat
  BY Types DEF Inv
<1>2. /\ m_map[recent[i]] = m_cache[i]
      /\ pair[m_cache[i]] = [key |-> recent[i], value |-> latest[recent[i]]]
  BY <1>1 DEF Aligned
<1>3. i \in 1 .. Len(recent)
  BY <1>1 DEF Aligned
<1> QED
  BY <1>2, <1>3

\* The nodes of the list are different, because their keys are.
LEMMA NodesDiffer ==
    ASSUME Inv, NEW i \in 1 .. Len(m_cache), NEW j \in 1 .. Len(m_cache),
           m_cache[i] = m_cache[j]
    PROVE  i = j
<1>1. recent[i] = pair[m_cache[i]].key /\ recent[j] = pair[m_cache[j]].key
      /\ i \in 1 .. Len(recent) /\ j \in 1 .. Len(recent)
  BY PlaceIs
<1>2. recent[i] = recent[j]
  BY <1>1
<1> QED
  BY <1>1, <1>2 DEF Inv, Distinct

\* A key that is cached: its node is found at its place in the history, and
\* both move to the front.
LEMMA SpliceIs ==
    ASSUME Inv, NEW k \in Keys, m_map[k] # None,
           m_cache' = splice(m_cache, m_map[k]), Use(k)
    PROVE  \E i \in 1 .. Len(m_cache) :
             /\ recent[i] = k /\ m_cache[i] = m_map[k]
             /\ m_cache' \in Seq(Nodes) /\ Len(m_cache') = Len(m_cache)
             /\ \A j \in 1 .. Len(m_cache) : m_cache'[j] = m_cache[Before(i, j)]
             /\ recent' \in Seq(Keys) /\ Len(recent') = Len(recent)
             /\ \A j \in 1 .. Len(recent) : recent'[j] = recent[Before(i, j)]
<1>1. /\ m_cache \in Seq(Nodes) /\ Len(m_cache) \in Nat
      /\ recent \in Seq(Keys) /\ Len(recent) \in Nat /\ Len(m_cache) <= Len(recent)
  BY Types DEF Inv, Aligned
<1>2. PICK i \in 1 .. Len(m_cache) : recent[i] = k
  BY DEF Inv, Aligned
<1>3. m_cache[i] = m_map[k] /\ i \in 1 .. Len(recent)
  BY <1>2, PlaceIs
<1>4. \A j \in 1 .. Len(m_cache) : m_cache[j] = m_cache[i] => j = i
  BY NodesDiffer
<1>5. \A j \in 1 .. Len(recent) : recent[j] = recent[i] => j = i
  BY <1>3 DEF Inv, Distinct
<1>6. /\ m_cache' \in Seq(Nodes) /\ Len(m_cache') = Len(m_cache)
      /\ \A j \in 1 .. Len(m_cache) : m_cache'[j] = m_cache[Before(i, j)]
  <2>1. m_cache' = <<m_cache[i]>> \o RemoveFirst(m_cache, m_cache[i])
    BY <1>3 DEF splice
  <2> QED
    BY <1>1, <1>4, <2>1, MoveToFront
<1>7. /\ recent' \in Seq(Keys) /\ Len(recent') = Len(recent)
      /\ \A j \in 1 .. Len(recent) : recent'[j] = recent[Before(i, j)]
  <2>1. recent' = <<recent[i]>> \o RemoveFirst(recent, recent[i])
    BY <1>2 DEF Use
  <2> QED
    BY <1>1, <1>3, <1>5, <2>1, MoveToFront
<1> QED
  BY <1>2, <1>3, <1>6, <1>7

\* What the move leaves of the invariant, for a pair that may have changed.
LEMMA SpliceInv ==
    ASSUME Inv, NEW k \in Keys, m_map[k] # None,
           m_cache' = splice(m_cache, m_map[k]), Use(k),
           UNCHANGED <<m_capacity, m_map>>,
           \A l \in Keys : l # k => latest'[l] = latest[l],
           \A n \in Nodes : n # m_map[k] => pair'[n] = pair[n],
           pair'[m_map[k]] = [key |-> k, value |-> latest'[k]]
    PROVE  /\ m_cache' \in Seq(Nodes) /\ Len(m_cache') = Len(m_cache)
           /\ recent' \in Seq(Keys) /\ Distinct' /\ Aligned'
           /\ Len(m_cache) > 0 /\ recent'[1] = k
<1>1. PICK i \in 1 .. Len(m_cache) :
             /\ recent[i] = k /\ m_cache[i] = m_map[k]
             /\ m_cache' \in Seq(Nodes) /\ Len(m_cache') = Len(m_cache)
             /\ \A j \in 1 .. Len(m_cache) : m_cache'[j] = m_cache[Before(i, j)]
             /\ recent' \in Seq(Keys) /\ Len(recent') = Len(recent)
             /\ \A j \in 1 .. Len(recent) : recent'[j] = recent[Before(i, j)]
  BY SpliceIs
<1>2. /\ Len(m_cache) \in Nat /\ Len(recent) \in Nat /\ Len(m_cache) <= Len(recent)
      /\ i \in 1 .. Len(recent)
      /\ \A j \in 1 .. Len(recent) : recent[j] \in Keys
      /\ \A j \in 1 .. Len(m_cache) : m_cache[j] \in Nodes
  BY Types DEF Inv, Aligned
<1>3. /\ \A j \in 1 .. Len(m_cache) : Before(i, j) \in 1 .. Len(m_cache)
      /\ \A l \in 1 .. Len(m_cache) : \E j \in 1 .. Len(m_cache) : Before(i, j) = l
  BY <1>2, BeforeIs
<1>4. /\ \A j \in 1 .. Len(recent) : Before(i, j) \in 1 .. Len(recent)
      /\ \A j, l \in 1 .. Len(recent) : Before(i, j) = Before(i, l) => j = l
  BY <1>2, BeforeIs
<1>5. Distinct'
  <2>1. \A j, l \in 1 .. Len(recent) : recent[Before(i, j)] = recent[Before(i, l)] => j = l
    BY <1>4 DEF Inv, Distinct
  <2> QED
    BY <1>1, <2>1 DEF Distinct
<1>6. ASSUME NEW l \in 1 .. Len(m_cache)
      PROVE  /\ m_map[recent[l]] = m_cache[l]
             /\ pair'[m_cache[l]] = [key |-> recent[l], value |-> latest'[recent[l]]]
  <2>1. /\ m_map[recent[l]] = m_cache[l] /\ recent[l] \in Keys /\ m_cache[l] \in Nodes
        /\ pair[m_cache[l]] = [key |-> recent[l], value |-> latest[recent[l]]]
    BY <1>2 DEF Inv, Aligned
  <2>2. CASE l = i
    BY <1>1, <2>1, <2>2
  <2>3. CASE l # i
    <3>1. m_cache[l] # m_cache[i] /\ recent[l] # recent[i]
      BY <1>2, <2>3, NodesDiffer DEF Inv, Distinct
    <3> QED
      BY <1>1, <2>1, <3>1
  <2> QED
    BY <2>2, <2>3
<1>7. ASSUME NEW j \in 1 .. Len(m_cache)
      PROVE  /\ m_map'[recent'[j]] = m_cache'[j]
             /\ pair'[m_cache'[j]] = [key |-> recent'[j], value |-> latest'[recent'[j]]]
  <2>1. j \in 1 .. Len(recent) /\ Before(i, j) \in 1 .. Len(m_cache)
    BY <1>2, <1>3
  <2>2. m_cache'[j] = m_cache[Before(i, j)] /\ recent'[j] = recent[Before(i, j)]
    BY <1>1, <2>1
  <2> QED
    BY <1>6, <2>1, <2>2
<1>8. ASSUME NEW l \in Keys, m_map'[l] # None
      PROVE  \E j \in 1 .. Len(m_cache) : recent'[j] = l
  <2>1. PICK o \in 1 .. Len(m_cache) : recent[o] = l
    BY <1>8 DEF Inv, Aligned
  <2>2. PICK j \in 1 .. Len(m_cache) : Before(i, j) = o
    BY <1>3
  <2>3. j \in 1 .. Len(recent)
    BY <1>2
  <2> QED
    BY <1>1, <2>1, <2>2, <2>3
<1>9. Aligned'
  BY <1>1, <1>2, <1>7, <1>8 DEF Aligned, Inv
<1>10. Len(m_cache) > 0 /\ recent'[1] = k
  BY <1>1, <1>2 DEF Before
<1> QED
  BY <1>1, <1>5, <1>9, <1>10

LEMMA HitInv == ASSUME Inv, NEW k \in Keys, Hit(k) PROVE Inv'
<1>1. /\ m_map[k] # None /\ m_cache' = splice(m_cache, m_map[k]) /\ Use(k)
      /\ call' = [op |-> "get", key |-> k, result |-> pair[m_map[k]].value]
      /\ UNCHANGED <<m_capacity, pair, m_map, latest>>
  BY DEF Hit, Return
<1>2. pair[m_map[k]] = [key |-> k, value |-> latest[k]]
  BY <1>1 DEF Inv, Aligned
<1>3. /\ m_cache' \in Seq(Nodes) /\ Len(m_cache') = Len(m_cache)
      /\ recent' \in Seq(Keys) /\ Distinct' /\ Aligned'
      /\ Len(m_cache) > 0 /\ recent'[1] = k
  BY <1>1, <1>2, SpliceInv
<1>4. latest[k] \in Values \cup {None} /\ Len(m_cache) \in Nat
  BY Types DEF Inv, TypeOK
<1>5. TypeOK'
  BY <1>1, <1>2, <1>3, <1>4 DEF Inv, TypeOK
<1>6. Answered'
  <2>1. 1 \in 1 .. Len(m_cache')
    BY <1>3, <1>4
  <2> QED
    BY <1>1, <1>2, <1>3, <2>1 DEF Answered
<1> QED
  BY <1>3, <1>5, <1>6 DEF Inv

LEMMA MissInv == ASSUME Inv, NEW k \in Keys, Miss(k) PROVE Inv'
<1>1. /\ m_map[k] = None /\ call' = [op |-> "get", key |-> k, result |-> None]
      /\ UNCHANGED <<m_capacity, m_cache, pair, m_map, recent, latest>>
  BY DEF Miss, Return
<1>2. TypeOK' /\ Distinct' /\ Aligned'
  BY <1>1 DEF Inv, TypeOK, Distinct, Aligned
<1>3. \A i \in 1 .. Len(m_cache) : recent[i] # k
  <2>1. \A i \in 1 .. Len(m_cache) : m_map[recent[i]] = m_cache[i] /\ m_cache[i] # None
    BY Types DEF Inv, Aligned
  <2> QED
    BY <1>1, <2>1
<1>4. Answered'
  BY <1>1, <1>3 DEF Answered
<1> QED
  BY <1>2, <1>4 DEF Inv

LEMMA UpdateInv ==
    ASSUME Inv, NEW k \in Keys, NEW v \in Values, Update(k, v) PROVE Inv'
<1> DEFINE n == m_map[k]
<1>1. /\ n # None /\ m_cache' = splice(m_cache, n) /\ Use(k)
      /\ pair' = [pair EXCEPT ![n].value = v] /\ latest' = [latest EXCEPT ![k] = v]
      /\ call' = [op |-> "put", key |-> k, result |-> None]
      /\ UNCHANGED <<m_capacity, m_map>>
  BY DEF Update, Return, SetValue
<1>2. n \in Nodes /\ pair[n] = [key |-> k, value |-> latest[k]]
  <2>1. PICK i \in 1 .. Len(m_cache) : recent[i] = k
    BY <1>1 DEF Inv, Aligned
  <2> QED
    BY <1>1, <2>1, Types DEF Inv, Aligned
<1>3. /\ pair \in [Nodes -> [key : Keys, value : Values] \cup {NoPair}]
      /\ latest \in [Keys -> Values \cup {None}]
  BY DEF Inv, TypeOK
<1>4. /\ pair'[n] = [key |-> k, value |-> v] /\ latest'[k] = v
      /\ \A o \in Nodes : o # n => pair'[o] = pair[o]
      /\ \A l \in Keys : l # k => latest'[l] = latest[l]
      /\ pair' \in [Nodes -> [key : Keys, value : Values] \cup {NoPair}]
      /\ latest' \in [Keys -> Values \cup {None}]
  BY <1>1, <1>2, <1>3
<1>5. /\ m_cache' \in Seq(Nodes) /\ Len(m_cache') = Len(m_cache)
      /\ recent' \in Seq(Keys) /\ Distinct' /\ Aligned'
  BY <1>1, <1>4, SpliceInv
<1>6. TypeOK'
  BY <1>1, <1>4, <1>5 DEF Inv, TypeOK
<1>7. Answered'
  BY <1>1 DEF Answered
<1> QED
  BY <1>5, <1>6, <1>7 DEF Inv

\* A key that is not cached comes to the front of the history, from beyond the
\* cached ones or as a new one.
LEMMA UseIs ==
    ASSUME Inv, NEW k \in Keys, m_map[k] = None, Use(k)
    PROVE  /\ recent' \in Seq(Keys) /\ Distinct' /\ Len(recent') >= Len(m_cache) + 1
           /\ Len(m_cache) = Len(recent) => Len(recent') = Len(recent) + 1
           /\ recent'[1] = k
           /\ \A j \in 2 .. Len(m_cache) + 1 : recent'[j] = recent[j - 1]
           /\ \A j \in 1 .. Len(m_cache) : recent[j] # k
<1>1. /\ Len(m_cache) \in Nat /\ recent \in Seq(Keys) /\ Len(recent) \in Nat
      /\ Len(m_cache) <= Len(recent)
  BY Types DEF Inv, Aligned
<1>2. \A j \in 1 .. Len(m_cache) : recent[j] # k
  <2>1. \A j \in 1 .. Len(m_cache) : m_map[recent[j]] = m_cache[j] /\ m_cache[j] # None
    BY Types, PlaceIs DEF Inv
  <2> QED
    BY <2>1
<1>3. recent' = <<k>> \o RemoveFirst(recent, k)
  BY DEF Use
<1>4. CASE \E i \in 1 .. Len(recent) : recent[i] = k
  <2>1. PICK i \in 1 .. Len(recent) : recent[i] = k
    BY <1>4
  <2>2. \A j \in 1 .. Len(recent) : recent[j] = recent[i] => j = i
    BY DEF Inv, Distinct
  <2>3. /\ recent' \in Seq(Keys) /\ Len(recent') = Len(recent)
        /\ \A j \in 1 .. Len(recent) : recent'[j] = recent[Before(i, j)]
    BY <1>1, <1>3, <2>1, <2>2, MoveToFront
  <2>4. i > Len(m_cache)
    BY <1>1, <1>2, <2>1
  <2>5. Distinct'
    <3>1. /\ \A j \in 1 .. Len(recent) : Before(i, j) \in 1 .. Len(recent)
          /\ \A j, l \in 1 .. Len(recent) : Before(i, j) = Before(i, l) => j = l
      BY <1>1, BeforeIs
    <3>2. \A j, l \in 1 .. Len(recent) : recent[Before(i, j)] = recent[Before(i, l)] => j = l
      BY <3>1 DEF Inv, Distinct
    <3> QED
      BY <2>3, <3>2 DEF Distinct
  <2>6. recent'[1] = k
    <3>1. Before(i, 1) = i /\ 1 \in 1 .. Len(recent)
      BY <1>1, <2>1 DEF Before
    <3> QED
      BY <2>1, <2>3, <3>1
  <2>7. \A j \in 2 .. Len(m_cache) + 1 : recent'[j] = recent[j - 1]
    <3>1. \A j \in 2 .. Len(m_cache) + 1 : j \in 1 .. Len(recent) /\ Before(i, j) = j - 1
      BY <1>1, <2>1, <2>4 DEF Before
    <3> QED
      BY <2>3, <3>1
  <2>8. Len(recent') >= Len(m_cache) + 1 /\ Len(m_cache) # Len(recent)
    BY <1>1, <2>1, <2>3, <2>4
  <2> QED
    BY <1>2, <2>3, <2>5, <2>6, <2>7, <2>8
<1>5. CASE \A i \in 1 .. Len(recent) : recent[i] # k
  <2>1. recent' = <<k>> \o recent
    BY <1>1, <1>3, <1>5, RemoveNone
  <2>2. /\ recent' \in Seq(Keys) /\ Len(recent') = Len(recent) + 1 /\ recent'[1] = k
        /\ \A j \in 2 .. Len(recent) + 1 : recent'[j] = recent[j - 1]
    BY <1>1, <2>1, ConsIs
  <2>3. Distinct'
    <3> SUFFICES ASSUME NEW i \in 1 .. Len(recent'), NEW j \in 1 .. Len(recent'),
                        recent'[i] = recent'[j]
                 PROVE  i = j
      BY DEF Distinct
    <3>1. \A l \in 1 .. Len(recent') :
             l # 1 => /\ recent'[l] = recent[l - 1] /\ l - 1 \in 1 .. Len(recent)
                      /\ recent'[l] # k
      <4>1. \A l \in 1 .. Len(recent') :
               l # 1 => l \in 2 .. Len(recent) + 1 /\ l - 1 \in 1 .. Len(recent)
        BY <1>1, <2>2
      <4> QED
        BY <1>5, <2>2, <4>1
    <3>2. CASE i = 1 \/ j = 1
      BY <2>2, <3>1, <3>2
    <3>3. CASE i # 1 /\ j # 1
      <4>1. i - 1 = j - 1
        BY <3>1, <3>3 DEF Inv, Distinct
      <4> QED
        BY <1>1, <2>2, <4>1
    <3> QED
      BY <3>2, <3>3
  <2> QED
    BY <1>1, <1>2, <2>2, <2>3
<1> QED
  BY <1>4, <1>5

LEMMA InsertInv ==
    ASSUME Inv, NEW k \in Keys, NEW v \in Values, NEW n \in Nodes, Insert(k, v, n)
    PROVE  Inv'
<1> DEFINE last == IF Full THEN {Last(m_cache)} ELSE {}
           kept == IF Full THEN Front(m_cache) ELSE m_cache
           map  == IF Full THEN erase(pair[Last(m_cache)].key) ELSE m_map
           K    == IF Full THEN Len(m_cache) - 1 ELSE Len(m_cache)
<1>1. /\ m_map[k] = None /\ n \notin Range(kept) /\ m_cache' = <<n>> \o kept
      /\ pair' = [o \in Nodes |-> IF o = n THEN [key |-> k, value |-> v]
                                  ELSE IF o \in last THEN NoPair ELSE pair[o]]
      /\ m_map' = [map EXCEPT ![k] = n]
      /\ call' = [op |-> "put", key |-> k, result |-> None]
      /\ Use(k) /\ latest' = [latest EXCEPT ![k] = v] /\ m_capacity' = m_capacity
  BY DEF Insert, Return
<1>2. /\ m_cache \in Seq(Nodes) /\ Len(m_cache) \in Nat /\ Len(m_cache) <= m_capacity
      /\ Len(recent) \in Nat /\ m_capacity \in Nat /\ m_capacity >= 1
      /\ m_map \in [Keys -> Nodes \cup {None}]
      /\ \A i \in 1 .. Len(recent) : recent[i] \in Keys
      /\ \A i \in 1 .. Len(m_cache) : m_cache[i] \in Nodes
      /\ None \notin Nodes /\ Len(m_cache) <= Len(recent)
      /\ Len(m_cache) = m_capacity \/ Len(m_cache) = Len(recent)
  BY Types DEF Inv, Aligned
<1>3. /\ recent' \in Seq(Keys) /\ Distinct' /\ Len(recent') >= Len(m_cache) + 1
      /\ Len(m_cache) = Len(recent) => Len(recent') = Len(recent) + 1
      /\ recent'[1] = k
      /\ \A j \in 2 .. Len(m_cache) + 1 : recent'[j] = recent[j - 1]
      /\ \A j \in 1 .. Len(m_cache) : recent[j] # k
  BY <1>1, UseIs
<1>4. /\ K \in Nat /\ K <= Len(m_cache) /\ K + 1 <= m_capacity
      /\ Full => Len(m_cache) >= 1 /\ K = Len(m_cache) - 1 /\ K + 1 = m_capacity
      /\ ~Full => K = Len(m_cache) /\ Len(m_cache) = Len(recent)
  BY <1>2 DEF Full
<1>5. kept \in Seq(Nodes) /\ Len(kept) = K /\ \A j \in 1 .. K : kept[j] = m_cache[j]
  <2>1. CASE Full
    <3>1. kept = SubSeq(m_cache, 1, K) /\ K \in Nat /\ K <= Len(m_cache)
      BY <1>4, <2>1 DEF Front
    <3> HIDE DEF kept, K
    <3> QED
      BY <1>2, <3>1, PrefixIs
  <2>2. CASE ~Full
    BY <1>2, <1>4, <2>2
  <2> QED
    BY <2>1, <2>2
<1>6. ASSUME Full
      PROVE  /\ Last(m_cache) = m_cache[Len(m_cache)]
             /\ pair[Last(m_cache)].key = recent[Len(m_cache)]
             /\ map = [m_map EXCEPT ![recent[Len(m_cache)]] = None]
             /\ Len(m_cache) \in 1 .. Len(m_cache)
  <2>0. Len(m_cache) \in 1 .. Len(m_cache)
    <3>1. Len(m_cache) \in Nat /\ Len(m_cache) >= 1
      BY <1>2, <1>6 DEF Full
    <3> QED
      BY <3>1
  <2>1. Last(m_cache) = m_cache[Len(m_cache)] /\ Len(m_cache) \in 1 .. Len(m_cache)
    BY <2>0 DEF Last
  <2>2. pair[Last(m_cache)].key = recent[Len(m_cache)]
    BY <2>1, PlaceIs
  <2> QED
    BY <1>6, <2>1, <2>2 DEF erase
<1>7. ~Full => map = m_map /\ last = {}
  OBVIOUS
<1>8. Full => last = {m_cache[Len(m_cache)]}
  BY <1>6
<1>9. map \in [Keys -> Nodes \cup {None}]
  BY <1>2, <1>6, <1>7
<1>10. ASSUME NEW j \in 1 .. K
       PROVE  /\ m_cache[j] # n /\ m_cache[j] \in Nodes
              /\ m_cache[j] \notin last /\ recent[j] # k /\ recent[j] \in Keys
              /\ map[recent[j]] = m_cache[j]
              /\ pair[m_cache[j]] = [key |-> recent[j], value |-> latest[recent[j]]]
  <2>1. j \in 1 .. Len(m_cache) /\ j \in 1 .. Len(recent) /\ (Full => j # Len(m_cache))
    BY <1>2, <1>4
  <2>2. m_cache[j] # n
    BY <1>1, <1>5 DEF Range
  <2>3. m_cache[j] \notin last
    BY <1>6, <1>7, <1>8, <2>1, NodesDiffer
  <2>4. /\ m_map[recent[j]] = m_cache[j] /\ recent[j] \in Keys
        /\ pair[m_cache[j]] = [key |-> recent[j], value |-> latest[recent[j]]]
    BY <1>2, <2>1, PlaceIs
  <2>5. map[recent[j]] = m_cache[j]
    <3>1. CASE Full
      <4>1. recent[Len(m_cache)] # recent[j]
        BY <1>6, <2>1, <3>1, PlaceIs DEF Inv, Distinct
      <4> QED
        BY <1>2, <1>6, <2>4, <3>1, <4>1
    <3>2. CASE ~Full
      BY <1>7, <2>4, <3>2
    <3> QED
      BY <3>1, <3>2
  <2> QED
    BY <1>2, <1>3, <2>1, <2>2, <2>3, <2>4, <2>5
<1>11. ASSUME NEW l \in Keys, map[l] # None
       PROVE  \E j \in 1 .. K : recent[j] = l
  <2>1. m_map[l] # None /\ (Full => l # recent[Len(m_cache)])
    BY <1>2, <1>6, <1>7, <1>11
  <2>2. PICK j \in 1 .. Len(m_cache) : recent[j] = l
    BY <2>1 DEF Inv, Aligned
  <2>3. j \in 1 .. K
    BY <1>2, <1>4, <2>1, <2>2
  <2> QED
    BY <2>2, <2>3
<1> HIDE DEF kept, map, last, K
<1>12. /\ m_cache' \in Seq(Nodes) /\ Len(m_cache') = K + 1 /\ m_cache'[1] = n
       /\ \A j \in 2 .. K + 1 : m_cache'[j] = m_cache[j - 1]
  <2>1. /\ m_cache' \in Seq(Nodes) /\ Len(m_cache') = K + 1 /\ m_cache'[1] = n
        /\ \A j \in 2 .. K + 1 : m_cache'[j] = kept[j - 1]
    BY <1>1, <1>5, ConsIs
  <2>2. \A j \in 2 .. K + 1 : j - 1 \in 1 .. K
    BY <1>4
  <2> QED
    BY <1>5, <2>1, <2>2
<1>13. \A j \in 2 .. K + 1 : recent'[j] = recent[j - 1] /\ j - 1 \in 1 .. K
  <2>1. \A j \in 2 .. K + 1 : j \in 2 .. Len(m_cache) + 1 /\ j - 1 \in 1 .. K
    BY <1>2, <1>4
  <2> QED
    BY <1>3, <2>1
<1>14. ASSUME NEW j \in 1 .. K + 1
       PROVE  /\ m_map'[recent'[j]] = m_cache'[j]
              /\ pair'[m_cache'[j]] = [key |-> recent'[j], value |-> latest'[recent'[j]]]
  <2>1. latest \in [Keys -> Values \cup {None}]
    BY DEF Inv, TypeOK
  <2>2. CASE j = 1
    BY <1>1, <1>3, <1>9, <1>12, <2>1, <2>2
  <2>3. CASE j # 1
    <3>1. j \in 2 .. K + 1
      BY <1>4, <2>3
    <3>2. /\ m_cache'[j] = m_cache[j - 1] /\ recent'[j] = recent[j - 1]
          /\ j - 1 \in 1 .. K
      BY <1>12, <1>13, <3>1
    <3> QED
      BY <1>1, <1>9, <1>10, <2>1, <3>2
  <2> QED
    BY <2>2, <2>3
<1>15. ASSUME NEW l \in Keys, m_map'[l] # None
       PROVE  \E j \in 1 .. K + 1 : recent'[j] = l
  <2>1. CASE l = k
    <3>1. 1 \in 1 .. K + 1
      BY <1>4
    <3> QED
      BY <1>3, <2>1, <3>1
  <2>2. CASE l # k
    <3>1. map[l] # None
      BY <1>1, <1>9, <1>15, <2>2
    <3>2. PICK j \in 1 .. K : recent[j] = l
      BY <1>11, <3>1
    <3>3. j + 1 \in 2 .. K + 1 /\ (j + 1) - 1 = j /\ j + 1 \in 1 .. K + 1
      BY <1>4
    <3> QED
      BY <1>13, <3>2, <3>3
  <2> QED
    BY <2>1, <2>2
<1>16. Aligned'
  <2>1. Len(m_cache') <= Len(recent')
    BY <1>2, <1>3, <1>4, <1>12
  <2>2. Len(m_cache') = m_capacity' \/ Len(m_cache') = Len(recent')
    BY <1>1, <1>3, <1>4, <1>12
  <2> QED
    BY <1>12, <1>14, <1>15, <2>1, <2>2 DEF Aligned
<1>17. TypeOK'
  <2>1. pair' \in [Nodes -> [key : Keys, value : Values] \cup {NoPair}]
    BY <1>1 DEF Inv, TypeOK
  <2>2. latest' \in [Keys -> Values \cup {None}] /\ m_map' \in [Keys -> Nodes \cup {None}]
    BY <1>1, <1>9 DEF Inv, TypeOK
  <2>3. call' \in [op : {"none", "get", "put"}, key : Keys \cup {None},
                   result : Values \cup {None}]
    BY <1>1
  <2> QED
    BY <1>1, <1>3, <1>4, <1>12, <2>1, <2>2, <2>3 DEF Inv, TypeOK
<1>18. Answered'
  BY <1>1 DEF Answered
<1> QED
  BY <1>3, <1>16, <1>17, <1>18 DEF Inv

LEMMA NextInv == Inv /\ [Next]_vars => Inv'
<1> SUFFICES ASSUME Inv, [Next]_vars PROVE Inv'
  OBVIOUS
<1>1. CASE UNCHANGED vars
  BY <1>1 DEF vars, Inv, TypeOK, Distinct, Aligned, Answered
<1> QED
  BY <1>1, HitInv, MissInv, UpdateInv, InsertInv DEF Next, get, put

-----------------------------------------------------------------------------
(* The theorems.                                                           *)

\* The invariant holds after any sequence of get() and put(): the list laid beside
\* the history of uses.
THEOREM InvHolds == Spec => []Inv
BY InitInv, NextInv, PTL DEF Spec

\* For every capacity: the map leads to exactly the nodes of the list, after
\* any sequence of get() and put(), also when the address of an evicted node is
\* used again.
THEOREM ExactMap == Spec => []MapExact
<1>1. Inv => MapExact
  <2> SUFFICES ASSUME Inv PROVE MapExact
    OBVIOUS
  <2>1. IsInjective(m_cache)
    <3>1. m_cache \in Seq(Nodes) /\ DOMAIN m_cache = 1 .. Len(m_cache)
      BY Types DEF Inv
    <3> QED
      BY <3>1, NodesDiffer DEF IsInjective
  <2>2. ASSUME NEW k \in Keys, NEW n \in Nodes, m_map[k] = n
        PROVE  n \in Range(m_cache) /\ pair[n].key = k
    <3>1. m_map[k] # None
      BY <2>2, Types DEF Inv
    <3>2. PICK i \in 1 .. Len(m_cache) : recent[i] = k
      BY <3>1 DEF Inv, Aligned
    <3>3. m_cache[i] = n /\ pair[n].key = k
      BY <2>2, <3>2, PlaceIs
    <3>4. i \in DOMAIN m_cache
      BY Types DEF Inv
    <3> QED
      BY <3>3, <3>4 DEF Range
  <2>3. ASSUME NEW k \in Keys, NEW n \in Nodes, n \in Range(m_cache), pair[n].key = k
        PROVE  m_map[k] = n
    <3>1. PICK i \in 1 .. Len(m_cache) : m_cache[i] = n
      BY <2>3, Types DEF Inv, Range
    <3> QED
      BY <2>3, <3>1, PlaceIs
  <2> QED
    BY <2>1, <2>2, <2>3 DEF MapExact, Inv
<1> QED
  BY <1>1, InvHolds, PTL

\* For every capacity: the list holds the keys used last in the order of their
\* use, with the values put last, and get() answers accordingly.
THEOREM MostRecent == Spec => []CacheIsRecent
<1>1. Inv => CacheIsRecent
  <2> SUFFICES ASSUME Inv PROVE CacheIsRecent
    OBVIOUS
  <2>1. /\ m_cache \in Seq(Nodes) /\ Len(m_cache) \in Nat /\ Len(m_cache) <= m_capacity
        /\ recent \in Seq(Keys) /\ Len(recent) \in Nat /\ m_capacity \in Nat
        /\ Len(m_cache) <= Len(recent)
        /\ Len(m_cache) = m_capacity \/ Len(m_cache) = Len(recent)
    BY Types DEF Inv, Aligned
  <2>2. Min({m_capacity, Len(recent)}) = Len(m_cache)
    BY <2>1 DEF Min
  <2>4. /\ Kept \in Seq(Keys) /\ Len(Kept) = Len(m_cache)
        /\ \A i \in 1 .. Len(m_cache) : Kept[i] = recent[i]
    BY <2>1, <2>2, PrefixIs DEF Kept
  <2>5. DOMAIN m_cache = 1 .. Len(m_cache) /\ DOMAIN Kept = 1 .. Len(m_cache)
    BY <2>1, <2>4
  <2>6. [i \in DOMAIN m_cache |-> pair[m_cache[i]]] =
           [i \in DOMAIN Kept |-> [key |-> Kept[i], value |-> latest[Kept[i]]]]
    <3>1. \A i \in 1 .. Len(m_cache) :
             pair[m_cache[i]] = [key |-> Kept[i], value |-> latest[Kept[i]]]
      BY <2>4, PlaceIs
    <3> QED
      BY <2>5, <3>1
  <2>7. call.key \in Range(Kept) <=> \E i \in 1 .. Len(m_cache) : recent[i] = call.key
    BY <2>4, <2>5 DEF Range
  <2> QED
    BY <2>6, <2>7 DEF CacheIsRecent, Inv, Answered
<1> QED
  BY <1>1, InvHolds, PTL
=============================================================================
