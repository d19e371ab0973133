-------------------------- MODULE EventLoopProofs ---------------------------
(***************************************************************************)
(* Proofs about the main loop, for every number of descriptors and keys    *)
(* and every length of a run. The invariant knows the order of the idle    *)
(* list: a sequence of the connections, linked both ways, in which the one *)
(* that has been idle longest comes first.                                 *)
(***************************************************************************)
EXTENDS EventLoop, FiniteSetTheorems, WellFoundedInduction, TLAPS

\* the i-th node of the ring that consists of the head and s[1], ..., s[n]
At(s, n, i) == IF i \in 1 .. n THEN s[i] ELSE idle_head

\* s lists the nodes, each once
Lists(s, n, nodes) ==
    /\ n \in Nat /\ s \in [1 .. n -> nodes]
    /\ \A x \in nodes : \E i \in 1 .. n : s[i] = x
    /\ \A i, j \in 1 .. n : s[i] = s[j] => i = j

\* the pointers lead through s, both ways
Linked(list, s, n) ==
    \A i \in 0 .. n : /\ list[At(s, n, i)].next = At(s, n, i + 1)
                      /\ list[At(s, n, i + 1)].prev = At(s, n, i)

\* the connections are in the order of their last activity, as f has it
Sorted(f, s, n) ==
    \A i, j \in 1 .. n : i <= j => f[s[i]].last_active_ms <= f[s[j]].last_active_ms

\* The idle list is a ring of the connections, the longest idle first.
InOrder ==
    \E n \in Nat : \E s \in [1 .. n -> Live] :
        Lists(s, n, Live) /\ Linked(idle, s, n) /\ Sorted(fd2conn, s, n)

Past == \A fd \in Live : fd2conn[fd].last_active_ms <= now

\* The timers run, and poll() is prepared, when no event waits to be handled.
Quiet == phase \in {"prepare", "idle", "ttl"} => Pending = {}

Inv == TypeOK /\ open = Live /\ InOrder /\ Past /\ Quiet /\ HandledEventsAreWanted

-----------------------------------------------------------------------------
(* The ring.                                                               *)

\* the pointers of all nodes, in a list or not
Pointers == [Nodes -> [prev : Nodes, next : Nodes]]

LEMMA HeadIsNoFd == idle_head \notin Fds /\ idle_head \in Nodes
BY EventLoopAssumption DEF idle_head, Nodes

\* what the nodes of the ring are
Around(s, n, nodes) ==
    /\ n \in Nat
    /\ \A i \in 0 .. n + 1 : At(s, n, i) \in nodes \cup {idle_head}
    /\ \A i \in 1 .. n : At(s, n, i) = s[i] /\ s[i] \in nodes /\ s[i] # idle_head
    /\ At(s, n, 0) = idle_head /\ At(s, n, n + 1) = idle_head
    /\ \A i, j \in 0 .. n : At(s, n, i) = At(s, n, j) => i = j
    /\ \A i, j \in 1 .. n + 1 : At(s, n, i) = At(s, n, j) => i = j

LEMMA AtIs ==
    ASSUME NEW nodes \in SUBSET Fds, NEW n, NEW s, Lists(s, n, nodes)
    PROVE  Around(s, n, nodes)
<1>1. /\ n \in Nat /\ \A i \in 1 .. n : s[i] \in nodes
      /\ \A i, j \in 1 .. n : s[i] = s[j] => i = j
  BY DEF Lists
<1>2. \A i \in 1 .. n : At(s, n, i) = s[i] /\ s[i] \in nodes /\ s[i] # idle_head
  BY <1>1, HeadIsNoFd DEF At
<1>3. At(s, n, 0) = idle_head /\ At(s, n, n + 1) = idle_head
  BY <1>1 DEF At
<1>4. \A i \in 0 .. n + 1 : At(s, n, i) \in nodes \cup {idle_head}
  BY <1>1 DEF At
<1>5. \A i \in 0 .. n + 1 : i \in 1 .. n \/ i = 0 \/ i = n + 1
  BY <1>1
<1>6. ASSUME NEW i \in 0 .. n, NEW j \in 0 .. n, At(s, n, i) = At(s, n, j)
      PROVE  i = j
  <2>1. (i \in 1 .. n \/ i = 0) /\ (j \in 1 .. n \/ j = 0)
    BY <1>1
  <2> QED
    BY <1>1, <1>2, <1>3, <1>6, <2>1
<1>7. ASSUME NEW i \in 1 .. n + 1, NEW j \in 1 .. n + 1, At(s, n, i) = At(s, n, j)
      PROVE  i = j
  <2>1. (i \in 1 .. n \/ i = n + 1) /\ (j \in 1 .. n \/ j = n + 1)
    BY <1>1
  <2> QED
    BY <1>1, <1>2, <1>3, <1>7, <2>1
<1> QED
  BY <1>1, <1>2, <1>3, <1>4, <1>6, <1>7 DEF Around

LEMMA DetachIs ==
    ASSUME NEW list \in Pointers, NEW x \in Nodes,
           list[x].prev # x, list[x].next # x
    PROVE  /\ detach(list, x) \in Pointers
           /\ \A y \in Nodes :
                 /\ y # x => detach(list, x)[y].next =
                       IF y = list[x].prev THEN list[x].next ELSE list[y].next
                 /\ y # x => detach(list, x)[y].prev =
                       IF y = list[x].next THEN list[x].prev ELSE list[y].prev
<1>1. list[x].prev \in Nodes /\ list[x].next \in Nodes /\ Alone(x) \in [prev : Nodes, next : Nodes]
  BY DEF Pointers, Alone
<1> QED
  BY <1>1 DEF detach, Pointers

LEMMA InsertIs ==
    ASSUME NEW list \in Pointers, NEW x \in Nodes, x # idle_head,
           list[idle_head].prev # x
    PROVE  LET new == insert_back(list, idle_head, x)
           IN  /\ new \in Pointers
               /\ new[x] = [prev |-> list[idle_head].prev, next |-> idle_head]
               /\ \A y \in Nodes :
                     /\ y # x => new[y].next =
                           IF y = list[idle_head].prev THEN x ELSE list[y].next
                     /\ y # x => new[y].prev =
                           IF y = idle_head THEN x ELSE list[y].prev
<1>1. list[idle_head].prev \in Nodes /\ idle_head \in Nodes
  BY HeadIsNoFd DEF Pointers
<1> QED
  BY <1>1 DEF insert_back, Pointers

\* the sequence without its m-th element
Without(s, n, m) == [i \in 1 .. n - 1 |-> IF i < m THEN s[i] ELSE s[i + 1]]

LEMMA DetachLinks ==
    ASSUME NEW nodes \in SUBSET Fds, NEW list \in Pointers, NEW n, NEW s,
           Lists(s, n, nodes), Linked(list, s, n), NEW m \in 1 .. n
    PROVE  /\ detach(list, s[m]) \in Pointers
           /\ Lists(Without(s, n, m), n - 1, nodes \ {s[m]})
           /\ Linked(detach(list, s[m]), Without(s, n, m), n - 1)
<1> DEFINE x   == s[m]
           t   == Without(s, n, m)
           new == detach(list, x)
           sk(i) == IF i < m THEN i ELSE i + 1
           at(i) == At(s, n, i)
<1>1. /\ n \in Nat /\ \A i \in 0 .. n + 1 : at(i) \in nodes \cup {idle_head}
      /\ \A i \in 1 .. n : at(i) = s[i] /\ s[i] \in nodes /\ s[i] # idle_head
      /\ at(0) = idle_head /\ at(n + 1) = idle_head
      /\ \A i, j \in 0 .. n : at(i) = at(j) => i = j
      /\ \A i, j \in 1 .. n + 1 : at(i) = at(j) => i = j
  <2>1. Around(s, n, nodes)
    BY AtIs
  <2> QED
    BY <2>1 DEF Around
<1>2. \A i \in 0 .. n : list[at(i)].next = at(i + 1) /\ list[at(i + 1)].prev = at(i)
  BY DEF Linked
<1>3. \A i \in 0 .. n + 1 : at(i) \in Nodes
  BY <1>1 DEF Nodes
<1> HIDE DEF at
<1>4. /\ m \in 0 .. n /\ m - 1 \in 0 .. n /\ m + 1 \in 1 .. n + 1 /\ m \in 1 .. n + 1
      /\ m - 1 # m /\ m + 1 # m /\ (m - 1) + 1 = m /\ m \in Nat
  BY <1>1
<1>5. /\ x = at(m) /\ x \in Nodes /\ list[x].next = at(m + 1) /\ list[x].prev = at(m - 1)
      /\ x \in nodes
  BY <1>1, <1>2, <1>3, <1>4
<1>6. at(m + 1) # x /\ at(m - 1) # x
  BY <1>1, <1>4, <1>5
<1>7. /\ new \in Pointers
      /\ \A y \in Nodes :
            /\ y # x => new[y].next = IF y = at(m - 1) THEN at(m + 1) ELSE list[y].next
            /\ y # x => new[y].prev = IF y = at(m + 1) THEN at(m - 1) ELSE list[y].prev
  BY <1>5, <1>6, DetachIs
<1>8. /\ t \in [1 .. n - 1 -> nodes \ {x}] /\ \A i \in 1 .. n - 1 : t[i] = s[sk(i)]
      /\ \A i \in 1 .. n - 1 : sk(i) \in 1 .. n /\ sk(i) # m
  <2>1. \A i \in 1 .. n - 1 : sk(i) \in 1 .. n /\ sk(i) # m
    BY <1>1
  <2>2. \A i \in 1 .. n - 1 : s[sk(i)] \in nodes /\ s[sk(i)] # x
    BY <2>1 DEF Lists
  <2>3. \A i \in 1 .. n - 1 : t[i] = s[sk(i)]
    BY DEF Without
  <2> QED
    BY <2>1, <2>2, <2>3 DEF Without
<1>9. \A i \in 0 .. n : At(t, n - 1, i) = at(sk(i))
  <2> SUFFICES ASSUME NEW i \in 0 .. n PROVE At(t, n - 1, i) = at(sk(i))
    OBVIOUS
  <2>1. CASE i \in 1 .. n - 1
    BY <1>1, <1>8, <2>1 DEF At
  <2>2. CASE i = 0
    BY <1>1, <1>4, <2>2 DEF At
  <2>3. CASE i = n
    BY <1>1, <1>4, <2>3 DEF At
  <2> QED
    BY <1>1, <2>1, <2>2, <2>3
<1> HIDE DEF t, new, x
<1>10. ASSUME NEW i \in 0 .. n - 1
       PROVE  new[at(sk(i))].next = at(sk(i + 1)) /\ new[at(sk(i + 1))].prev = at(sk(i))
  <2>1. CASE i = m - 1
    <3>1. sk(i) = m - 1 /\ sk(i + 1) = m + 1
      BY <1>4, <2>1
    <3>2. at(m - 1) \in Nodes /\ at(m + 1) \in Nodes
      BY <1>1, <1>3, <1>4
    <3> HIDE DEF sk
    <3> QED
      BY <1>6, <1>7, <3>1, <3>2
  <2>2. CASE i # m - 1
    <3>1. /\ sk(i + 1) = sk(i) + 1 /\ sk(i) \in 0 .. n /\ sk(i) # m /\ sk(i) # m - 1
          /\ sk(i + 1) \in 1 .. n + 1 /\ sk(i + 1) # m /\ sk(i + 1) # m + 1
      BY <1>1, <1>4, <2>2
    <3> HIDE DEF sk
    <3>2. at(sk(i)) # x /\ at(sk(i)) # at(m - 1) /\ at(sk(i)) \in Nodes
      BY <1>1, <1>3, <1>4, <1>5, <3>1
    <3>3. at(sk(i + 1)) # x /\ at(sk(i + 1)) # at(m + 1) /\ at(sk(i + 1)) \in Nodes
      BY <1>1, <1>3, <1>4, <1>5, <3>1
    <3>4. list[at(sk(i))].next = at(sk(i + 1)) /\ list[at(sk(i + 1))].prev = at(sk(i))
      BY <1>2, <3>1
    <3> QED
      BY <1>7, <3>2, <3>3, <3>4
  <2> QED
    BY <2>1, <2>2
<1>11. Linked(new, t, n - 1)
  <2>1. \A i \in 0 .. n - 1 : i \in 0 .. n /\ i + 1 \in 0 .. n
    BY <1>1
  <2> HIDE DEF sk
  <2> QED
    BY <1>9, <1>10, <2>1 DEF Linked
<1>12. Lists(t, n - 1, nodes \ {x})
  <2>1. \A i, j \in 1 .. n - 1 : t[i] = t[j] => i = j
    <3>1. \A i, j \in 1 .. n - 1 : sk(i) = sk(j) => i = j
      BY <1>1, <1>4
    <3> HIDE DEF sk
    <3> QED
      BY <1>8, <3>1 DEF Lists
  <2>2. ASSUME NEW y \in nodes \ {x} PROVE \E i \in 1 .. n - 1 : t[i] = y
    <3>1. PICK j \in 1 .. n : s[j] = y
      BY DEF Lists
    <3>2. j # m
      BY <3>1 DEF x
    <3>3. PICK i \in 1 .. n - 1 : sk(i) = j
      <4>1. CASE j < m
        BY <1>1, <1>4, <4>1
      <4>2. CASE j > m
        <5>1. j - 1 \in 1 .. n - 1 /\ sk(j - 1) = j
          BY <1>1, <1>4, <4>2
        <5> QED
          BY <5>1
      <4> QED
        BY <1>4, <3>2, <4>1, <4>2
    <3> QED
      BY <1>8, <3>1, <3>3
  <2>3. n - 1 \in Nat
    BY <1>1, <1>4
  <2> QED
    BY <1>8, <2>1, <2>2, <2>3 DEF Lists
<1> QED
  BY <1>7, <1>11, <1>12 DEF t, new, x


\* the sequence with one more element
With(s, n, x) == [i \in 1 .. n + 1 |-> IF i <= n THEN s[i] ELSE x]

LEMMA InsertLinks ==
    ASSUME NEW nodes \in SUBSET Fds, NEW list \in Pointers, NEW n, NEW s,
           Lists(s, n, nodes), Linked(list, s, n), NEW x \in Fds \ nodes
    PROVE  /\ insert_back(list, idle_head, x) \in Pointers
           /\ Lists(With(s, n, x), n + 1, nodes \cup {x})
           /\ Linked(insert_back(list, idle_head, x), With(s, n, x), n + 1)
<1>1. /\ n \in Nat /\ \A i \in 0 .. n + 1 : At(s, n, i) \in nodes \cup {idle_head}
      /\ \A i \in 1 .. n : At(s, n, i) = s[i] /\ s[i] \in nodes /\ s[i] # idle_head
      /\ At(s, n, 0) = idle_head /\ At(s, n, n + 1) = idle_head
      /\ \A i, j \in 0 .. n : At(s, n, i) = At(s, n, j) => i = j
      /\ \A i, j \in 1 .. n + 1 : At(s, n, i) = At(s, n, j) => i = j
  <2>1. Around(s, n, nodes)
    BY AtIs
  <2> QED
    BY <2>1 DEF Around
<1> DEFINE t   == With(s, n, x)
           new == insert_back(list, idle_head, x)
<1>2. \A i \in 0 .. n : list[At(s, n, i)].next = At(s, n, i + 1) /\ list[At(s, n, i + 1)].prev = At(s, n, i)
  BY DEF Linked
<1>3. x # idle_head /\ x \in Nodes /\ \A i \in 0 .. n + 1 : At(s, n, i) \in Nodes /\ At(s, n, i) # x
  <2>1. x # idle_head /\ x \in Nodes /\ x \notin nodes
    BY HeadIsNoFd DEF Nodes
  <2>2. nodes \cup {idle_head} \subseteq Nodes
    BY HeadIsNoFd DEF Nodes
  <2> QED
    BY <1>1, <2>1, <2>2
<1>4. list[idle_head].prev = At(s, n, n)
  <2>1. n \in 0 .. n
    BY <1>1
  <2> QED
    BY <1>1, <1>2, <2>1
<1>5. /\ new \in Pointers /\ new[x].prev = At(s, n, n) /\ new[x].next = idle_head
      /\ \A y \in Nodes :
            /\ y # x => new[y].next = IF y = At(s, n, n) THEN x ELSE list[y].next
            /\ y # x => new[y].prev = IF y = idle_head THEN x ELSE list[y].prev
  <2>1. n \in 0 .. n + 1
    BY <1>1
  <2>2. list[idle_head].prev # x
    BY <1>3, <1>4, <2>1
  <2>3. /\ new \in Pointers
        /\ new[x] = [prev |-> list[idle_head].prev, next |-> idle_head]
        /\ \A y \in Nodes :
              /\ y # x => new[y].next =
                    IF y = list[idle_head].prev THEN x ELSE list[y].next
              /\ y # x => new[y].prev = IF y = idle_head THEN x ELSE list[y].prev
    BY <1>3, <2>2, InsertIs
  <2> HIDE DEF new
  <2> QED
    BY <1>4, <2>3
<1>6. /\ t \in [1 .. n + 1 -> nodes \cup {x}] /\ t[n + 1] = x
      /\ \A i \in 1 .. n : t[i] = s[i]
  <2>1. n + 1 \in 1 .. n + 1 /\ ~(n + 1 <= n)
    BY <1>1
  <2>2. \A i \in 1 .. n + 1 : i <= n => i \in 1 .. n
    BY <1>1
  <2>3. \A i \in 1 .. n : i \in 1 .. n + 1 /\ i <= n
    BY <1>1
  <2> QED
    BY <1>1, <2>1, <2>2, <2>3 DEF With
<1> HIDE DEF t, new
<1>7. /\ \A i \in 0 .. n : At(t, n + 1, i) = At(s, n, i)
      /\ At(t, n + 1, n + 1) = x /\ At(t, n + 1, n + 2) = idle_head
  <2>1. At(t, n + 1, n + 1) = x /\ At(t, n + 1, n + 2) = idle_head
    BY <1>1, <1>6 DEF At
  <2>2. ASSUME NEW i \in 0 .. n PROVE At(t, n + 1, i) = At(s, n, i)
    <3>1. CASE i = 0
      BY <1>1, <3>1 DEF At
    <3>2. CASE i \in 1 .. n
      BY <1>1, <1>6, <3>2 DEF At
    <3> QED
      BY <1>1, <3>1, <3>2
  <2> QED
    BY <2>1, <2>2
<1>8. ASSUME NEW i \in 0 .. n + 1
      PROVE  /\ new[At(t, n + 1, i)].next = At(t, n + 1, i + 1)
             /\ new[At(t, n + 1, i + 1)].prev = At(t, n + 1, i)
  <2>1. CASE i = n + 1
    <3>1. i + 1 = n + 2
      BY <1>1, <2>1
    <3> QED
      BY <1>3, <1>5, <1>7, <2>1, <3>1, HeadIsNoFd
  <2>2. CASE i = n
    <3>1. i \in 0 .. n /\ i \in 0 .. n + 1 /\ i + 1 = n + 1
      BY <1>1, <2>2
    <3> QED
      BY <1>3, <1>5, <1>7, <2>2, <3>1
  <2>3. CASE i < n
    <3>1. /\ i \in 0 .. n /\ i + 1 \in 0 .. n /\ i \in 0 .. n + 1 /\ i + 1 \in 0 .. n + 1
          /\ i # n /\ i + 1 \in 1 .. n /\ n \in 0 .. n
      BY <1>1, <2>3
    <3>2. At(s, n, i) # At(s, n, n) /\ At(s, n, i + 1) # idle_head
      BY <1>1, <3>1
    <3>3. new[At(s, n, i)].next = At(s, n, i + 1) /\ new[At(s, n, i + 1)].prev = At(s, n, i)
      BY <1>2, <1>3, <1>5, <3>1, <3>2
    <3> QED
      BY <1>7, <3>1, <3>3
  <2> QED
    BY <1>1, <2>1, <2>2, <2>3
<1>9. Linked(new, t, n + 1)
  BY <1>8 DEF Linked
<1>10. Lists(t, n + 1, nodes \cup {x})
  <2>1. \A i \in 1 .. n + 1 : i \in 1 .. n \/ i = n + 1
    BY <1>1
  <2>2. \A i, j \in 1 .. n + 1 : t[i] = t[j] => i = j
    BY <1>1, <1>6, <2>1 DEF Lists
  <2>3. \A i \in 1 .. n : i \in 1 .. n + 1
    BY <1>1
  <2>4. n + 1 \in 1 .. n + 1 /\ n + 1 \in Nat
    BY <1>1
  <2>5. \A y \in nodes \cup {x} : \E i \in 1 .. n + 1 : t[i] = y
    BY <1>6, <2>3, <2>4 DEF Lists
  <2> QED
    BY <1>6, <2>2, <2>4, <2>5 DEF Lists
<1> QED
  BY <1>5, <1>9, <1>10 DEF t, new

\* The invariant's order is the ring that IsRing asks for.
LEMMA LinkedIsRing ==
    ASSUME NEW nodes \in SUBSET Fds, NEW n, NEW s,
           Lists(s, n, nodes), Linked(idle, s, n)
    PROVE  IsRing(idle, idle_head, nodes)
<1>1. n \in Nat /\ s \in [1 .. n -> nodes] /\ {s[i] : i \in 1 .. n} = nodes
  BY DEF Lists
<1>2. Cardinality(nodes) = n
  <2>1. s \in Bijection(1 .. n, nodes)
    BY <1>1 DEF Lists, Bijection, Injection, Surjection, IsInjective
  <2>2. IsFiniteSet(1 .. n) /\ Cardinality(1 .. n) = n
    <3>1. 1 \in Int /\ n \in Int /\ (IF 1 > n THEN 0 ELSE n - 1 + 1) = n
      BY <1>1
    <3> QED
      BY <3>1, FS_Interval
  <2> QED
    BY <2>1, <2>2, FS_Bijection DEF ExistsBijection
<1>3. \A i \in 0 .. n :
         /\ idle[IF i \in 1 .. n THEN s[i] ELSE idle_head].next =
               IF i + 1 \in 1 .. n THEN s[i + 1] ELSE idle_head
         /\ idle[IF i + 1 \in 1 .. n THEN s[i + 1] ELSE idle_head].prev =
               IF i \in 1 .. n THEN s[i] ELSE idle_head
  BY DEF Linked, At
<1> QED
  BY <1>1, <1>2, <1>3 DEF IsRing

LEMMA SortedWithout ==
    ASSUME NEW nodes, NEW n, NEW s, Lists(s, n, nodes), NEW m \in 1 .. n, NEW f,
           Sorted(f, s, n), NEW g, \A x \in nodes \ {s[m]} : g[x] = f[x]
    PROVE  Sorted(g, Without(s, n, m), n - 1)
<1> DEFINE sk(i) == IF i < m THEN i ELSE i + 1
           t == Without(s, n, m)
<1>1. n \in Nat
  BY DEF Lists
<1>2. \A i \in 1 .. n - 1 : sk(i) \in 1 .. n /\ sk(i) # m
  BY <1>1
<1>3. \A i \in 1 .. n - 1 : t[i] = s[sk(i)]
  BY DEF Without
<1>4. \A i, j \in 1 .. n - 1 : i <= j => sk(i) <= sk(j)
  BY <1>1
<1> HIDE DEF sk, t
<1>5. \A i \in 1 .. n - 1 : t[i] \in nodes \ {s[m]}
  BY <1>2, <1>3 DEF Lists
<1> QED
  BY <1>2, <1>3, <1>4, <1>5 DEF Sorted, t

LEMMA SortedWith ==
    ASSUME NEW nodes, NEW n, NEW s, Lists(s, n, nodes), NEW x, NEW f,
           Sorted(f, s, n), NEW g, \A y \in nodes : g[y] = f[y],
           g[x].last_active_ms \in Nat,
           \A y \in nodes : g[y].last_active_ms <= g[x].last_active_ms
    PROVE  Sorted(g, With(s, n, x), n + 1)
<1> DEFINE t == With(s, n, x)
<1> SUFFICES ASSUME NEW i \in 1 .. n + 1, NEW j \in 1 .. n + 1, i <= j
             PROVE  g[t[i]].last_active_ms <= g[t[j]].last_active_ms
  BY DEF Sorted
<1>1. n \in Nat /\ \A l \in 1 .. n : s[l] \in nodes
  BY DEF Lists
<1>2. \A l \in 1 .. n + 1 : t[l] = IF l <= n THEN s[l] ELSE x
  BY DEF With
<1> HIDE DEF t
<1>3. CASE j <= n
  <2>1. i \in 1 .. n /\ j \in 1 .. n /\ i <= n
    BY <1>1, <1>3
  <2> QED
    BY <1>1, <1>2, <1>3, <2>1 DEF Sorted
<1>4. CASE i <= n /\ ~(j <= n)
  <2>1. i \in 1 .. n
    BY <1>1, <1>4
  <2> QED
    BY <1>1, <1>2, <1>4, <2>1
<1>5. CASE ~(i <= n) /\ ~(j <= n)
  <2>1. g[x].last_active_ms <= g[x].last_active_ms
    OBVIOUS
  <2> QED
    BY <1>2, <1>5, <2>1
<1> QED
  BY <1>1, <1>3, <1>4, <1>5

\* One node leaves the list.
LEMMA DropLinks ==
    ASSUME NEW nodes \in SUBSET Fds, NEW list \in Pointers, NEW n, NEW s,
           Lists(s, n, nodes), Linked(list, s, n), NEW m \in 1 .. n, NEW f,
           Sorted(f, s, n), NEW g, \A x \in nodes \ {s[m]} : g[x] = f[x]
    PROVE  /\ detach(list, s[m]) \in Pointers
           /\ \E k \in Nat : \E t \in [1 .. k -> nodes \ {s[m]}] :
                 /\ Lists(t, k, nodes \ {s[m]}) /\ Linked(detach(list, s[m]), t, k)
                 /\ Sorted(g, t, k)
<1> DEFINE t == Without(s, n, m)
<1>1. /\ detach(list, s[m]) \in Pointers /\ Lists(t, n - 1, nodes \ {s[m]})
      /\ Linked(detach(list, s[m]), t, n - 1)
  BY DetachLinks
<1>2. Sorted(g, t, n - 1)
  BY SortedWithout
<1> HIDE DEF t
<1>3. n - 1 \in Nat /\ t \in [1 .. n - 1 -> nodes \ {s[m]}]
  BY <1>1 DEF Lists
<1> QED
  BY <1>1, <1>2, <1>3

\* A node that was active just now goes to the end.
LEMMA MoveLinks ==
    ASSUME Inv, NEW fd \in Live, NEW g, \A x \in Live \ {fd} : g[x] = fd2conn[x],
           g[fd].last_active_ms = now
    PROVE  /\ MoveToBack(idle, fd) \in Pointers
           /\ \E n \in Nat : \E s \in [1 .. n -> Live] :
                 /\ Lists(s, n, Live) /\ Linked(MoveToBack(idle, fd), s, n)
                 /\ Sorted(g, s, n) /\ n \in 1 .. n /\ s[n] = fd
<1>1. PICK n \in Nat : \E s \in [1 .. n -> Live] :
           Lists(s, n, Live) /\ Linked(idle, s, n) /\ Sorted(fd2conn, s, n)
  BY DEF Inv, InOrder
<1>2. PICK s \in [1 .. n -> Live] :
           Lists(s, n, Live) /\ Linked(idle, s, n) /\ Sorted(fd2conn, s, n)
  BY <1>1
<1>3. PICK m \in 1 .. n : s[m] = fd
  BY <1>2 DEF Lists
<1>4. Live \in SUBSET Fds /\ idle \in Pointers /\ now \in Nat
  BY DEF Live, Inv, TypeOK, Pointers
<1> DEFINE list == detach(idle, fd)
<1>5. /\ list \in Pointers
      /\ \E k \in Nat : \E t \in [1 .. k -> Live \ {fd}] :
            Lists(t, k, Live \ {fd}) /\ Linked(list, t, k) /\ Sorted(g, t, k)
  BY <1>2, <1>3, <1>4, DropLinks
<1>6. PICK k \in Nat : \E t \in [1 .. k -> Live \ {fd}] :
            Lists(t, k, Live \ {fd}) /\ Linked(list, t, k) /\ Sorted(g, t, k)
  BY <1>5
<1>7. PICK t \in [1 .. k -> Live \ {fd}] :
            Lists(t, k, Live \ {fd}) /\ Linked(list, t, k) /\ Sorted(g, t, k)
  BY <1>6
<1> HIDE DEF list
<1> DEFINE u == With(t, k, fd)
           moved == insert_back(list, idle_head, fd)
<1>8. fd \in Fds \ (Live \ {fd}) /\ Live \ {fd} \in SUBSET Fds /\ (Live \ {fd}) \cup {fd} = Live
  BY <1>4
<1>9. moved \in Pointers /\ Lists(u, k + 1, Live) /\ Linked(moved, u, k + 1)
  <2>1. Lists(t, k, Live \ {fd}) /\ Linked(list, t, k)
    BY <1>7
  <2>2. /\ moved \in Pointers /\ Lists(u, k + 1, (Live \ {fd}) \cup {fd})
        /\ Linked(moved, u, k + 1)
    BY ONLY <1>5, <1>8, <2>1, InsertLinks
  <2> QED
    BY <1>8, <2>2
<1>10. Sorted(g, u, k + 1)
  <2>1. \A y \in Live \ {fd} : g[y].last_active_ms <= g[fd].last_active_ms
    BY DEF Inv, Past
  <2> QED
    BY <1>4, <1>7, <2>1, SortedWith
<1>11. u[k + 1] = fd /\ k + 1 \in 1 .. k + 1 /\ k + 1 \in Nat
  BY DEF With
<1> HIDE DEF u
<1>12. u \in [1 .. k + 1 -> Live]
  BY <1>9 DEF Lists
<1>13. MoveToBack(idle, fd) = moved
  BY DEF MoveToBack, list
<1> HIDE DEF moved
<1> QED
  BY <1>9, <1>10, <1>11, <1>12, <1>13

-----------------------------------------------------------------------------
(* What the handlers do to a connection and to the TTL timers.             *)

LEMMA ClosingIs ==
    ASSUME NEW c \in Conn
    PROVE  Closing(c) \in Conn /\ Closing(c).last_active_ms = c.last_active_ms
BY DEF Closing, Conn, Intents

LEMMA SentIs ==
    ASSUME NEW c \in Conn, NEW rv \in 1 .. c.outgoing
    PROVE  Sent(c, rv) \in Conn /\ Sent(c, rv).last_active_ms = c.last_active_ms
<1>1. c.outgoing \in Nat /\ c.want \in SUBSET Intents /\ c.last_active_ms \in Nat
  BY DEF Conn
<1>2. c.outgoing - rv \in Nat
  BY <1>1
<1>3. (c.want \cup {"read"}) \ {"write"} \in SUBSET Intents
  BY <1>1 DEF Intents
<1> QED
  BY <1>1, <1>2, <1>3 DEF Sent, Conn

LEMMA WriteIs ==
    ASSUME NEW c \in Conn, NEW d \in handle_write(c)
    PROVE  d \in Conn /\ d.last_active_ms = c.last_active_ms
BY ClosingIs, SentIs DEF handle_write

LEMMA RespondIs ==
    ASSUME NEW c \in Conn, NEW d \in Respond(c)
    PROVE  d \in Conn /\ d.last_active_ms = c.last_active_ms
<1> DEFINE w == [c EXCEPT !.want = (@ \ {"read"}) \cup {"write"}]
<1>1. w \in Conn /\ w.last_active_ms = c.last_active_ms
  BY DEF Conn, Intents
<1> HIDE DEF w
<1>2. CASE d \in handle_write(w)
  BY <1>1, <1>2, WriteIs
<1>3. CASE d = c
  BY <1>3
<1> QED
  BY <1>2, <1>3 DEF Respond, w

LEMMA ReadIs ==
    ASSUME NEW c \in Conn, NEW r \in handle_read(c)
    PROVE  r[1] \in Conn /\ r[1].last_active_ms = c.last_active_ms /\ r[2] \in Nat
<1>1. CASE r \in {<<c, 0>>, <<Closing(c), 0>>}
  BY <1>1, ClosingIs
<1>2. CASE \E n \in 0 .. MaxBatch, bad \in {{}, {"close"}} :
              r \in {<<d, n>> : d \in Respond(Served(c, n, bad))}
  <2>1. PICK n \in 0 .. MaxBatch, bad \in {{}, {"close"}} :
              \E d \in Respond(Served(c, n, bad)) : r = <<d, n>>
    BY <1>2
  <2>2. Served(c, n, bad) \in Conn /\ Served(c, n, bad).last_active_ms = c.last_active_ms
    <3>1. c.outgoing + n \in Nat
      BY EventLoopAssumption DEF Conn
    <3>2. c.want \cup bad \in SUBSET Intents
      BY DEF Conn, Intents
    <3> QED
      BY <3>1, <3>2 DEF Conn, Served
  <2>3. PICK d \in Respond(Served(c, n, bad)) : r = <<d, n>>
    BY <2>1
  <2>4. d \in Conn /\ d.last_active_ms = c.last_active_ms
    BY <2>2, <2>3, RespondIs
  <2> QED
    BY <2>3, <2>4, EventLoopAssumption
<1>3. \/ r \in {<<c, 0>>, <<Closing(c), 0>>}
      \/ \E n \in 0 .. MaxBatch, bad \in {{}, {"close"}} :
            r \in {<<d, n>> : d \in Respond(Served(c, n, bad))}
  BY DEF handle_read
<1> QED
  BY <1>1, <1>2, <1>3

LEMMA CommandsAre ==
    ASSUME TypeOK, NEW n, Commands(n)
    PROVE  /\ heap' \in [Keys -> Nat \cup {NoTtl}]
           /\ \A k \in Keys : \/ heap'[k] = heap[k] \/ heap'[k] = NoTtl
                              \/ \E ttl \in Ttls : heap'[k] = now + ttl
<1>1. \A k \in Keys : TtlAfter(k) \subseteq Nat \cup {NoTtl}
  BY EventLoopAssumption DEF TtlAfter, TypeOK
<1>2. /\ heap' \in [Keys -> UNION {TtlAfter(k) : k \in Keys}]
      /\ \A k \in Keys : heap'[k] \in TtlAfter(k)
  BY DEF Commands
<1>3. heap' \in [Keys -> Nat \cup {NoTtl}]
  BY <1>1, <1>2
<1> QED
  BY <1>2, <1>3 DEF TtlAfter

-----------------------------------------------------------------------------
(* The invariant holds initially and is preserved by every action.         *)

LEMMA LiveConns == ASSUME TypeOK, NEW fd \in Live PROVE fd2conn[fd] \in Conn /\ fd \in Fds
BY DEF TypeOK, Live

LEMMA InitInv == Init => Inv
<1> SUFFICES ASSUME Init PROVE Inv
  OBVIOUS
<1>1. Live = {} /\ Pending = {}
  BY DEF Init, Live, Pending, Nothing
<1>2. TypeOK
  <2>1. idle \in [Nodes -> [prev : Nodes, next : Nodes]]
    BY DEF Init, Detached, Alone
  <2>2. timeout_ms \in Int
    BY DEF Init
  <2>3. /\ fd2conn \in [Fds -> Conn \cup {Null}]
        /\ heap \in [Keys -> Nat \cup {NoTtl}]
        /\ poll_args \in [Fds -> SUBSET Events]
    BY DEF Init, Nothing
  <2> QED
    BY <2>1, <2>2, <2>3, EventLoopAssumption DEF Init, TypeOK
<1>3. InOrder
  <2> DEFINE s == [i \in 1 .. 0 |-> i]
  <2>1. 1 .. 0 = {} /\ 0 .. 0 = {0} /\ 0 \in Nat
    OBVIOUS
  <2>2. s \in [1 .. 0 -> Live]
    BY <2>1
  <2>3. Lists(s, 0, Live)
    BY <1>1, <2>1, <2>2 DEF Lists
  <2>4. Linked(idle, s, 0)
    <3>1. idle[idle_head].next = idle_head /\ idle[idle_head].prev = idle_head
      BY HeadIsNoFd DEF Init, Detached, Alone
    <3>2. At(s, 0, 0) = idle_head /\ At(s, 0, 0 + 1) = idle_head
      BY <2>1 DEF At
    <3> QED
      BY <2>1, <3>1, <3>2 DEF Linked
  <2>5. Sorted(fd2conn, s, 0)
    BY <2>1 DEF Sorted
  <2> HIDE DEF s
  <2> QED
    BY <2>1, <2>2, <2>3, <2>4, <2>5 DEF InOrder
<1> QED
  BY <1>1, <1>2, <1>3 DEF Inv, Past, Quiet, HandledEventsAreWanted, Init

\* The steps that leave the connections alone.
LEMMA SameConnections ==
    ASSUME Inv, UNCHANGED connections, now' \in Nat, now' >= now
    PROVE  Live' = Live /\ open' = Live' /\ InOrder' /\ Past'
<1>1. Live' = Live /\ UNCHANGED <<open, fd2conn, idle>>
  BY DEF connections, Live
<1>2. InOrder'
  BY <1>1 DEF Inv, InOrder
<1>3. Past'
  BY <1>1, LiveConns DEF Inv, Past, Conn, TypeOK
<1> QED
  BY <1>1, <1>2, <1>3 DEF Inv

LEMMA TickInv == ASSUME Inv, Tick PROVE Inv'
<1>1. /\ now' = now + 1 /\ now \in Nat
      /\ UNCHANGED <<phase, open, fd2conn, idle, heap, listening, poll_args, timeout_ms,
                     wake_at, now_ms, nworks>>
  BY DEF Tick, connections, polling, timing, Inv, TypeOK
<1>2. TypeOK'
  BY <1>1 DEF Inv, TypeOK
<1>3. open' = Live' /\ InOrder' /\ Past'
  BY <1>1, SameConnections DEF connections
<1>4. Quiet' /\ HandledEventsAreWanted'
  BY <1>1 DEF Inv, Quiet, Pending, Live, HandledEventsAreWanted
<1> QED
  BY <1>2, <1>3, <1>4 DEF Inv

LEMMA ModIs ==
    ASSUME NEW n \in Nat
    PROVE  ToInt32(n) \in Int /\ (n < Int32 => ToInt32(n) = n)
<1>1. Int32 \in Nat /\ Int32 > 0 /\ 2 * Int32 \in Nat /\ 2 * Int32 > 0
  BY EventLoopAssumption
<1>2. n % (2 * Int32) \in 0 .. 2 * Int32 - 1
  BY <1>1
<1>3. n < Int32 => n % (2 * Int32) = n
  BY <1>1
<1> QED
  BY <1>1, <1>2, <1>3 DEF ToInt32

\* The least-number principle, which Min needs of an infinite set.
LEMMA LeastElement ==
    ASSUME NEW T, T \subseteq Nat, T # {}
    PROVE  \E m \in T : \A k \in T : m <= k
<1> DEFINE F == {0 .. m : m \in T}
<1>1. F \subseteq FiniteSubsetsOf(Nat) /\ F # {}
  <2>1. \A m \in T : 0 .. m \in SUBSET Nat /\ IsFiniteSet(0 .. m)
    BY FS_Interval
  <2> QED
    BY <2>1 DEF FiniteSubsetsOf
<1>2. IsWellFoundedOn(StrictSubsetOrdering(Nat), FiniteSubsetsOf(Nat))
  BY FS_StrictSubsetOrderingWellFounded
<1>3. PICK x \in F : \A y \in F : <<y, x>> \notin StrictSubsetOrdering(Nat)
  <2> HIDE DEF F
  <2> QED
    BY <1>1, <1>2, WFMin
<1>4. PICK m \in T : x = 0 .. m
  OBVIOUS
<1>5. ASSUME NEW k \in T, k < m PROVE FALSE
  <2>1. 0 .. k \in F /\ 0 .. k \subseteq 0 .. m /\ 0 .. k # 0 .. m /\ m \in Nat
    BY <1>5
  <2>2. <<0 .. k, x>> \in StrictSubsetOrdering(Nat)
    BY <2>1, <1>4 DEF StrictSubsetOrdering
  <2> QED
    BY <2>1, <2>2, <1>3
<1> QED
  BY <1>5

\* The first node of the idle list is the connection that is idle longest.
LEMMA FirstIs ==
    ASSUME Inv
    PROVE  /\ First = idle_head => Live = {}
           /\ First # idle_head =>
                 /\ First \in Live
                 /\ \A fd \in Live : fd2conn[First].last_active_ms <= fd2conn[fd].last_active_ms
<1>1. PICK n \in Nat : \E s \in [1 .. n -> Live] :
           Lists(s, n, Live) /\ Linked(idle, s, n) /\ Sorted(fd2conn, s, n)
  BY DEF Inv, InOrder
<1>2. PICK s \in [1 .. n -> Live] :
           Lists(s, n, Live) /\ Linked(idle, s, n) /\ Sorted(fd2conn, s, n)
  BY <1>1
<1>3. Live \in SUBSET Fds
  BY DEF Live
<1>4. First = At(s, n, 1)
  <2>1. At(s, n, 0) = idle_head /\ 0 \in 0 .. n /\ 0 + 1 = 1
    BY DEF At
  <2> QED
    BY <1>2, <2>1 DEF Linked, First
<1>5. CASE n = 0
  <2>1. 1 .. n = {}
    BY <1>5
  <2>2. First = idle_head /\ Live = {}
    BY <1>2, <1>4, <2>1 DEF At, Lists
  <2> QED
    BY <2>2
<1>6. CASE n # 0
  <2>1. 1 \in 1 .. n /\ \A i \in 1 .. n : 1 <= i
    BY <1>6
  <2>2. First = s[1] /\ s[1] \in Live
    BY <1>4, <2>1 DEF At
  <2>3. \A fd \in Live : fd2conn[First].last_active_ms <= fd2conn[fd].last_active_ms
    BY <1>2, <2>1, <2>2 DEF Lists, Sorted
  <2>4. First # idle_head
    BY <1>3, <2>2, HeadIsNoFd
  <2> QED
    BY <2>2, <2>3, <2>4
<1> QED
  BY <1>5, <1>6

LEMMA DeadlinesAre ==
    ASSUME Inv
    PROVE  /\ Deadlines \subseteq Nat
           /\ Deadlines # {} => /\ Min(Deadlines) \in Deadlines
                                /\ \A d \in Deadlines : Min(Deadlines) <= d
<1>1. TimerAt(First) \subseteq Nat
  <2>1. First # idle_head => fd2conn[First].last_active_ms \in Nat
    BY FirstIs, LiveConns DEF Inv, Conn
  <2> QED
    BY <2>1, EventLoopAssumption DEF TimerAt
<1>2. TtlTimers \subseteq Nat
  BY DEF TtlTimers, Inv, TypeOK
<1>3. Deadlines \subseteq Nat
  BY <1>1, <1>2 DEF Deadlines
<1>4. ASSUME Deadlines # {}
      PROVE  Min(Deadlines) \in Deadlines /\ \A d \in Deadlines : Min(Deadlines) <= d
  <2>1. \E m \in Deadlines : \A k \in Deadlines : m <= k
    BY <1>3, <1>4, LeastElement
  <2> QED
    BY <2>1 DEF Min
<1> QED
  BY <1>3, <1>4

LEMMA TimerType == ASSUME Inv PROVE next_timer_ms \in Int
<1>1. now \in Nat
  BY DEF Inv, TypeOK
<1>2. CASE Deadlines = {}
  BY <1>2 DEF next_timer_ms
<1>3. CASE Deadlines # {}
  <2>1. Min(Deadlines) \in Nat
    BY <1>3, DeadlinesAre
  <2>2. CASE Min(Deadlines) <= now
    BY <1>3, <2>2 DEF next_timer_ms
  <2>3. CASE ~(Min(Deadlines) <= now)
    <3>1. Min(Deadlines) - now \in Nat
      BY <1>1, <2>1, <2>3
    <3> QED
      BY <1>3, <2>3, <3>1, ModIs DEF next_timer_ms
  <2> QED
    BY <2>2, <2>3
<1> QED
  BY <1>2, <1>3

LEMMA PrepareInv == ASSUME Inv, PreparePoll PROVE Inv'
<1>1. /\ phase = "prepare" /\ phase' = "call"
      /\ poll_args' = [fd \in Fds |-> IF fd2conn[fd] = Null THEN {} ELSE PollEvents(fd2conn[fd])]
      /\ timeout_ms' = next_timer_ms /\ now_ms' = now /\ nworks' = 0
      /\ UNCHANGED <<now, open, fd2conn, idle, heap, listening, wake_at>>
  BY DEF PreparePoll, connections
<1>2. now \in Nat
  BY DEF Inv, TypeOK
<1>3. timeout_ms' \in Int
  BY <1>1, TimerType
<1>4. poll_args' \in [Fds -> SUBSET Events]
  BY <1>1 DEF PollEvents, Events
<1>5. TypeOK'
  BY <1>1, <1>3, <1>4 DEF Inv, TypeOK
<1>6. Live' = Live /\ open' = Live' /\ InOrder' /\ Past'
  BY <1>1, <1>2, SameConnections DEF connections
<1>7. HandledEventsAreWanted'
  BY <1>1, <1>6 DEF HandledEventsAreWanted, Pending, Live, PollEvents
<1> QED
  BY <1>1, <1>5, <1>6, <1>7 DEF Inv, Quiet

LEMMA EnterInv == ASSUME Inv, EnterPoll PROVE Inv'
<1>1. /\ phase' = "polling"
      /\ wake_at' = IF timeout_ms < 0 THEN Forever ELSE now + timeout_ms
      /\ UNCHANGED <<now, open, fd2conn, idle, heap, listening, poll_args, timeout_ms,
                     now_ms, nworks>>
  BY DEF EnterPoll, connections, timing
<1>2. now \in Nat /\ timeout_ms \in Int
  BY DEF Inv, TypeOK
<1>3. wake_at' \in Nat \cup {Forever}
  BY <1>1, <1>2
<1>4. TypeOK'
  BY <1>1, <1>3 DEF Inv, TypeOK
<1>5. Live' = Live /\ open' = Live' /\ InOrder' /\ Past'
  BY <1>1, <1>2, SameConnections DEF connections
<1>6. Quiet' /\ HandledEventsAreWanted'
  BY <1>1, <1>5 DEF Inv, Quiet, HandledEventsAreWanted, Pending
<1> QED
  BY <1>4, <1>5, <1>6 DEF Inv

LEMMA PollReturnInv == ASSUME Inv, PollReturn PROVE Inv'
<1>1. /\ phase = "polling" /\ phase' = "accept" /\ listening' \in BOOLEAN
      /\ poll_args' \in [Fds -> SUBSET Events]
      /\ timeout_ms' = -1 /\ wake_at' = Forever /\ now_ms' = 0
      /\ \A fd \in Fds : poll_args'[fd] \subseteq Reports(fd)
      /\ UNCHANGED <<now, open, fd2conn, idle, heap, nworks>>
  BY DEF PollReturn, PollEnds, connections
<1>2. now \in Nat
  BY DEF Inv, TypeOK
<1>3. TypeOK'
  BY <1>1 DEF Inv, TypeOK
<1>4. Live' = Live /\ open' = Live' /\ InOrder' /\ Past'
  BY <1>1, <1>2, SameConnections DEF connections
<1>5. HandledEventsAreWanted'
  <2>1. \A fd \in Pending' : fd \in Pending
    BY <1>1 DEF Pending, Reports
  <2>2. \A fd \in Pending' : fd \in Fds
    BY DEF Pending
  <2>3. \A fd \in Fds : /\ "IN" \in poll_args'[fd] => "IN" \in poll_args[fd]
                        /\ "OUT" \in poll_args'[fd] => "OUT" \in poll_args[fd]
    BY <1>1 DEF Reports
  <2> QED
    BY <1>1, <1>4, <2>1, <2>2, <2>3 DEF HandledEventsAreWanted, Inv
<1> QED
  BY <1>1, <1>3, <1>4, <1>5 DEF Inv, Quiet

LEMMA InterruptedInv == ASSUME Inv, PollInterrupted PROVE Inv'
<1>1. /\ phase' = "prepare" /\ poll_args' = Nothing
      /\ timeout_ms' = -1 /\ wake_at' = Forever /\ now_ms' = 0
      /\ UNCHANGED <<now, open, fd2conn, idle, heap, listening, nworks>>
  BY DEF PollInterrupted, PollEnds, connections
<1>2. now \in Nat /\ Pending' = {}
  BY <1>1 DEF Inv, TypeOK, Pending, Nothing
<1>3. TypeOK'
  BY <1>1 DEF Inv, TypeOK, Nothing
<1>4. open' = Live' /\ InOrder' /\ Past'
  BY <1>1, <1>2, SameConnections DEF connections
<1> QED
  BY <1>2, <1>3, <1>4 DEF Inv, Quiet, HandledEventsAreWanted

LEMMA AcceptInv == ASSUME Inv, handle_accept PROVE Inv'
<1>1. /\ phase = "accept" /\ phase' = "conns" /\ listening' = FALSE
      /\ UNCHANGED <<now, heap, poll_args, timeout_ms, wake_at, now_ms, nworks>>
  BY DEF handle_accept, timing
<1>2. now \in Nat /\ Pending' = Pending /\ open = Live
  BY <1>1 DEF Inv, TypeOK, Pending
<1>3. CASE UNCHANGED connections
  <2>1. UNCHANGED <<open, fd2conn, idle>>
    BY <1>3 DEF connections
  <2>2. TypeOK'
    BY <1>1, <2>1 DEF Inv, TypeOK
  <2>3. Live' = Live /\ open' = Live' /\ InOrder' /\ Past'
    BY <1>1, <1>2, <1>3, SameConnections
  <2>4. HandledEventsAreWanted'
    BY <1>1, <1>2, <2>1, <2>3 DEF Inv, HandledEventsAreWanted
  <2> QED
    BY <1>1, <2>2, <2>3, <2>4 DEF Inv, Quiet
<1>4. ASSUME NEW fd \in Fds \ open, Accept(fd) PROVE Inv'
  <2>1. /\ open' = open \cup {fd} /\ fd2conn' = [fd2conn EXCEPT ![fd] = NewConn]
        /\ idle' = insert_back(idle, idle_head, fd)
    BY <1>4 DEF Accept
  <2>2. /\ fd2conn \in [Fds -> Conn \cup {Null}] /\ idle \in Pointers
        /\ NewConn \in Conn /\ NewConn # Null /\ NewConn.last_active_ms = now
    BY <1>2, NullAssumption DEF Inv, TypeOK, Pointers, NewConn, Conn, Intents
  <2>3. /\ fd \in Fds \ Live /\ Live \in SUBSET Fds
        /\ Live' = Live \cup {fd} /\ fd2conn'[fd] = NewConn
        /\ \A x \in Live : fd2conn'[x] = fd2conn[x]
    BY <1>2, <2>1, <2>2 DEF Live
  <2>4. PICK n \in Nat : \E s \in [1 .. n -> Live] :
             Lists(s, n, Live) /\ Linked(idle, s, n) /\ Sorted(fd2conn, s, n)
    BY DEF Inv, InOrder
  <2>5. PICK s \in [1 .. n -> Live] :
             Lists(s, n, Live) /\ Linked(idle, s, n) /\ Sorted(fd2conn, s, n)
    BY <2>4
  <2> DEFINE t == With(s, n, fd)
  <2>6. /\ idle' \in Pointers /\ Lists(t, n + 1, Live') /\ Linked(idle', t, n + 1)
    <3>1. Lists(s, n, Live) /\ Linked(idle, s, n)
      BY <2>5
    <3>2. /\ insert_back(idle, idle_head, fd) \in Pointers
          /\ Lists(t, n + 1, Live \cup {fd})
          /\ Linked(insert_back(idle, idle_head, fd), t, n + 1)
      BY ONLY <2>2, <2>3, <3>1, InsertLinks
    <3> QED
      BY <2>1, <2>3, <3>2
  <2>7. Past'
    BY <1>1, <1>2, <2>2, <2>3 DEF Inv, Past
  <2>8. Sorted(fd2conn', t, n + 1)
    <3>1. \A y \in Live : fd2conn'[y].last_active_ms <= fd2conn'[fd].last_active_ms
      BY <2>2, <2>3 DEF Inv, Past
    <3> QED
      BY <1>2, <2>2, <2>3, <2>5, <3>1, SortedWith
  <2> HIDE DEF t
  <2>9. InOrder'
    <3>1. n + 1 \in Nat /\ t \in [1 .. n + 1 -> Live']
      BY <2>6 DEF Lists
    <3> QED
      BY <2>6, <2>8, <3>1 DEF InOrder
  <2>10. TypeOK'
    BY <1>1, <2>1, <2>2, <2>6 DEF Inv, TypeOK, Pointers
  <2>11. HandledEventsAreWanted'
    BY <1>1, <1>2, <2>3 DEF Inv, HandledEventsAreWanted
  <2> QED
    BY <1>1, <1>2, <2>1, <2>3, <2>7, <2>9, <2>10, <2>11 DEF Inv, Quiet
<1> QED
  BY <1>3, <1>4 DEF handle_accept

\* A connection leaves: the descriptor, the map and the list forget it.
LEMMA DestroyIs ==
    ASSUME Inv, UNCHANGED now, NEW list \in Pointers, NEW n, NEW s, Lists(s, n, Live),
           Linked(list, s, n), NEW m \in 1 .. n, NEW f, Sorted(f, s, n),
           \A x \in Live \ {s[m]} : f[x] = fd2conn[x], conn_destroy(s[m], list)
    PROVE  /\ fd2conn' \in [Fds -> Conn \cup {Null}] /\ open' \in SUBSET Fds
           /\ idle' \in Pointers /\ Live' = Live \ {s[m]} /\ open' = Live'
           /\ InOrder' /\ Past' /\ \A x \in Live' : fd2conn'[x] = fd2conn[x]
<1> DEFINE fd == s[m]
<1>1. fd \in Live /\ Live \in SUBSET Fds /\ fd \in Fds
  BY DEF Lists, Live
<1>2. /\ open' = open \ {fd} /\ fd2conn' = [fd2conn EXCEPT ![fd] = Null]
      /\ idle' = detach(list, fd)
  BY DEF conn_destroy
<1>3. /\ fd2conn \in [Fds -> Conn \cup {Null}] /\ open = Live
  BY DEF Inv, TypeOK
<1> HIDE DEF fd
<1>4. /\ fd2conn' \in [Fds -> Conn \cup {Null}] /\ Live' = Live \ {fd}
      /\ \A x \in Live \ {fd} : fd2conn'[x] = fd2conn[x]
  BY <1>1, <1>2, <1>3 DEF Live
<1>5. /\ detach(list, fd) \in Pointers
      /\ \E k \in Nat : \E t \in [1 .. k -> Live \ {fd}] :
            /\ Lists(t, k, Live \ {fd}) /\ Linked(detach(list, fd), t, k)
            /\ Sorted(fd2conn', t, k)
  <2>1. \A x \in Live \ {fd} : fd2conn'[x] = f[x]
    BY <1>4 DEF fd
  <2>2. /\ Live \in SUBSET Fds /\ list \in Pointers /\ Lists(s, n, Live)
        /\ Linked(list, s, n) /\ m \in 1 .. n /\ Sorted(f, s, n) /\ s[m] = fd
    BY <1>1 DEF fd
  <2> QED
    BY ONLY <2>1, <2>2, DropLinks
<1>6. InOrder'
  BY <1>2, <1>4, <1>5 DEF InOrder
<1>7. Past'
  BY <1>4 DEF Inv, Past
<1> QED
  BY <1>1, <1>2, <1>3, <1>4, <1>5, <1>6, <1>7 DEF fd

LEMMA HandleConnInv == ASSUME Inv, NEW fd \in Fds, HandleConn(fd) PROVE Inv'
<1> DEFINE c     == [fd2conn[fd] EXCEPT !.last_active_ms = now]
           moved == MoveToBack(idle, fd)
           ready == poll_args[fd]
<1>1. /\ phase = "conns" /\ phase' = phase /\ fd \in Pending
      /\ poll_args' = [poll_args EXCEPT ![fd] = {}]
      /\ UNCHANGED <<now, listening, timeout_ms, wake_at, now_ms, nworks>>
  BY DEF HandleConn, timing
<1>2. PICK r \in (IF "IN" \in ready THEN handle_read(c) ELSE {<<c, 0>>}) :
      \E d \in (IF "OUT" \in ready THEN handle_write(r[1]) ELSE {r[1]}) :
         /\ Commands(r[2])
         /\ IF "ERR" \in ready \/ "close" \in d.want
            THEN conn_destroy(fd, moved)
            ELSE /\ fd2conn' = [fd2conn EXCEPT ![fd] = d]
                 /\ idle' = moved
                 /\ UNCHANGED open
  BY DEF HandleConn
<1>3. PICK d \in (IF "OUT" \in ready THEN handle_write(r[1]) ELSE {r[1]}) :
         /\ Commands(r[2])
         /\ IF "ERR" \in ready \/ "close" \in d.want
            THEN conn_destroy(fd, moved)
            ELSE /\ fd2conn' = [fd2conn EXCEPT ![fd] = d]
                 /\ idle' = moved
                 /\ UNCHANGED open
  BY <1>2
<1>4. /\ fd \in Live /\ fd2conn[fd] \in Conn /\ now \in Nat /\ TypeOK
      /\ fd2conn \in [Fds -> Conn \cup {Null}] /\ Live \in SUBSET Fds
      /\ poll_args \in [Fds -> SUBSET Events]
  BY <1>1, LiveConns DEF Inv, HandledEventsAreWanted, TypeOK, Live
<1>5. c \in Conn /\ c.last_active_ms = now
  BY <1>4 DEF Conn
<1> HIDE DEF c
<1>6. r[1] \in Conn /\ r[1].last_active_ms = now
  <2>1. CASE "IN" \in ready
    BY <1>5, <2>1, ReadIs
  <2>2. CASE "IN" \notin ready
    BY <1>5, <2>2
  <2> QED
    BY <2>1, <2>2
<1>7. d \in Conn /\ d.last_active_ms = now
  <2>1. CASE "OUT" \in ready
    BY <1>6, <2>1, WriteIs
  <2>2. CASE "OUT" \notin ready
    BY <1>6, <2>2
  <2> QED
    BY <2>1, <2>2
<1>8. heap' \in [Keys -> Nat \cup {NoTtl}]
  BY <1>3, <1>4, CommandsAre
<1> DEFINE g == [fd2conn EXCEPT ![fd] = d]
<1>9. /\ \A x \in Live \ {fd} : g[x] = fd2conn[x]
      /\ g[fd] = d /\ g[fd].last_active_ms = now /\ g \in [Fds -> Conn \cup {Null}]
  BY <1>4, <1>7
<1>10. PICK n \in Nat : \E s \in [1 .. n -> Live] :
              /\ moved \in Pointers
              /\ Lists(s, n, Live) /\ Linked(moved, s, n)
              /\ Sorted(g, s, n) /\ n \in 1 .. n /\ s[n] = fd
  <2> HIDE DEF g
  <2> QED
    BY <1>4, <1>9, MoveLinks
<1>11. PICK s \in [1 .. n -> Live] :
              /\ moved \in Pointers
              /\ Lists(s, n, Live) /\ Linked(moved, s, n)
              /\ Sorted(g, s, n) /\ n \in 1 .. n /\ s[n] = fd
  BY <1>10
<1> HIDE DEF moved
<1>12. poll_args' \in [Fds -> SUBSET Events] /\ Pending' = Pending \ {fd}
       /\ \A x \in Fds : x # fd => poll_args'[x] = poll_args[x]
  BY <1>1, <1>4 DEF Pending
<1>13. CASE "ERR" \in ready \/ "close" \in d.want
  <2>1. conn_destroy(s[n], moved)
    BY <1>3, <1>11, <1>13
  <2> HIDE DEF g
  <2>2. /\ fd2conn' \in [Fds -> Conn \cup {Null}] /\ open' \in SUBSET Fds
        /\ idle' \in Pointers /\ Live' = Live \ {fd} /\ open' = Live'
        /\ InOrder' /\ Past' /\ \A x \in Live' : fd2conn'[x] = fd2conn[x]
    BY <1>1, <1>9, <1>11, <2>1, DestroyIs
  <2>3. TypeOK'
    BY <1>1, <1>8, <1>12, <2>2 DEF Inv, TypeOK, Pointers
  <2>4. HandledEventsAreWanted'
    <3>1. \A x \in Pending' : x \in Pending /\ x \in Live' /\ x # fd /\ x \in Fds
      BY <1>12, <2>2 DEF Inv, HandledEventsAreWanted, Pending
    <3> QED
      BY <1>12, <2>2, <3>1 DEF Inv, HandledEventsAreWanted
  <2> QED
    BY <1>1, <2>2, <2>3, <2>4 DEF Inv, Quiet
<1>14. CASE ~("ERR" \in ready \/ "close" \in d.want)
  <2>1. fd2conn' = g /\ idle' = moved /\ open' = open
    BY <1>3, <1>14
  <2>2. Live' = Live
    BY <1>4, <1>7, <1>9, <2>1, NullAssumption DEF Live
  <2> HIDE DEF g
  <2>3. InOrder'
    BY <1>11, <2>1, <2>2 DEF InOrder
  <2>4. Past'
    BY <1>1, <1>4, <1>9, <2>1, <2>2 DEF Inv, Past
  <2>5. TypeOK'
    BY <1>1, <1>8, <1>9, <1>11, <1>12, <2>1 DEF Inv, TypeOK, Pointers
  <2>6. HandledEventsAreWanted'
    <3>1. \A x \in Pending' : x \in Pending /\ x \in Live /\ x # fd /\ x \in Fds
      BY <1>12 DEF Inv, HandledEventsAreWanted, Pending
    <3> QED
      BY <1>9, <1>12, <2>1, <2>2, <3>1 DEF Inv, HandledEventsAreWanted
  <2> QED
    BY <1>1, <2>1, <2>2, <2>3, <2>4, <2>5, <2>6 DEF Inv, Quiet
<1> QED
  BY <1>13, <1>14

LEMMA ReapInv == ASSUME Inv, ReapIdle PROVE Inv'
<1>1. /\ phase = "idle" /\ First # idle_head /\ conn_destroy(First, idle)
      /\ UNCHANGED <<now, phase, heap, listening, poll_args, timeout_ms, wake_at, now_ms, nworks>>
  BY DEF ReapIdle, empty, First, polling, timing
<1>2. First \in Live
  BY <1>1, FirstIs
<1>3. PICK n \in Nat : \E s \in [1 .. n -> Live] :
           Lists(s, n, Live) /\ Linked(idle, s, n) /\ Sorted(fd2conn, s, n)
  BY DEF Inv, InOrder
<1>4. PICK s \in [1 .. n -> Live] :
           Lists(s, n, Live) /\ Linked(idle, s, n) /\ Sorted(fd2conn, s, n)
  BY <1>3
<1>5. PICK m \in 1 .. n : s[m] = First
  BY <1>2, <1>4 DEF Lists
<1>6. idle \in Pointers
  BY DEF Inv, TypeOK, Pointers
<1>7. /\ fd2conn' \in [Fds -> Conn \cup {Null}] /\ open' \in SUBSET Fds
      /\ idle' \in Pointers /\ open' = Live' /\ InOrder' /\ Past'
  <2>1. conn_destroy(s[m], idle)
    BY <1>1, <1>5
  <2> QED
    BY <1>1, <1>4, <1>6, <2>1, DestroyIs
<1>8. TypeOK'
  BY <1>1, <1>7 DEF Inv, TypeOK, Pointers
<1>9. Pending' = {}
  BY <1>1 DEF Inv, Quiet, Pending
<1> QED
  BY <1>7, <1>8, <1>9 DEF Inv, Quiet, HandledEventsAreWanted

\* The steps of process_timers() that leave the connections alone.
LEMMA TimersInv ==
    ASSUME Inv, BeginTimers \/ ReapIdleDone \/ ExpireKey \/ ExpireDone
    PROVE  Inv'
<1>1. /\ Pending = {}
      /\ UNCHANGED <<now, open, fd2conn, idle, listening, poll_args, timeout_ms, wake_at>>
  BY DEF BeginTimers, ReapIdleDone, ExpireKey, ExpireDone, connections, polling, timing,
         Inv, Quiet
<1>2. now \in Nat /\ Pending' = {}
  BY <1>1 DEF Inv, TypeOK, Pending
<1>3. open' = Live' /\ InOrder' /\ Past'
  BY <1>1, <1>2, SameConnections DEF connections
<1>4. /\ phase' \in {"idle", "ttl", "prepare"} /\ now_ms' \in Nat /\ nworks' \in Nat
      /\ heap' \in [Keys -> Nat \cup {NoTtl}]
  <2>1. now \in Nat /\ now_ms \in Nat /\ nworks \in Nat /\ heap \in [Keys -> Nat \cup {NoTtl}]
    BY DEF Inv, TypeOK
  <2>2. CASE BeginTimers
    BY <2>1, <2>2 DEF BeginTimers
  <2>3. CASE ReapIdleDone
    BY <2>1, <2>3 DEF ReapIdleDone
  <2>4. CASE ExpireKey
    <3>1. PICK k \in Tops : heap' = [heap EXCEPT ![k] = NoTtl]
      BY <2>4 DEF ExpireKey
    <3>2. heap' \in [Keys -> Nat \cup {NoTtl}]
      BY <2>1, <3>1 DEF Tops
    <3> QED
      BY <2>1, <2>4, <3>2 DEF ExpireKey
  <2>5. CASE ExpireDone
    BY <2>1, <2>5 DEF ExpireDone, timing
  <2> QED
    BY <2>2, <2>3, <2>4, <2>5
<1>5. TypeOK'
  BY <1>1, <1>4 DEF Inv, TypeOK
<1> QED
  BY <1>2, <1>3, <1>5 DEF Inv, Quiet, HandledEventsAreWanted

LEMMA NextInv == Inv /\ [Next]_vars => Inv'
<1> SUFFICES ASSUME Inv, [Next]_vars PROVE Inv'
  OBVIOUS
<1>1. CASE UNCHANGED vars
  <2>1. UNCHANGED <<now, phase, open, fd2conn, idle, heap, listening, poll_args, timeout_ms,
                    wake_at, now_ms, nworks>>
    BY <1>1 DEF vars
  <2>2. now \in Nat
    BY DEF Inv, TypeOK
  <2>3. Live' = Live /\ open' = Live' /\ InOrder' /\ Past'
    BY <2>1, <2>2, SameConnections DEF connections
  <2>4. TypeOK' /\ Quiet' /\ HandledEventsAreWanted'
    BY <2>1, <2>3 DEF Inv, TypeOK, Quiet, HandledEventsAreWanted, Pending
  <2> QED
    BY <2>3, <2>4 DEF Inv
<1>2. CASE Loop
  BY <1>2, PrepareInv, EnterInv, AcceptInv, HandleConnInv, ReapInv, TimersInv
     DEF Loop, HandleConns
<1> QED
  BY <1>1, <1>2, TickInv, PollReturnInv, InterruptedInv DEF Next

-----------------------------------------------------------------------------
(* The theorems.                                                           *)

\* The invariant holds of every run: types, the map and the descriptors, the idle
\* list as a ring in order of last activity, and the events still to be handled.
THEOREM InvHolds == Spec => []Inv
BY InitInv, NextInv, PTL DEF Spec

\* For any number of connections: descriptors, map and idle list agree after
\* every accept, every handler and every idle timeout, and the list is a ring.
THEOREM ConnectionsConsistent == Spec => []ConnectionsAgree
<1>1. Inv => ConnectionsAgree
  <2> SUFFICES ASSUME Inv PROVE ConnectionsAgree
    OBVIOUS
  <2>1. IsRing(idle, idle_head, Live)
    <3>1. PICK n \in Nat : \E s \in [1 .. n -> Live] :
               Lists(s, n, Live) /\ Linked(idle, s, n) /\ Sorted(fd2conn, s, n)
      BY DEF Inv, InOrder
    <3>2. PICK s \in [1 .. n -> Live] : Lists(s, n, Live) /\ Linked(idle, s, n)
      BY <3>1
    <3>3. Live \in SUBSET Fds
      BY DEF Live
    <3> QED
      BY <3>2, <3>3, LinkedIsRing
  <2> QED
    BY <2>1 DEF ConnectionsAgree, Inv
<1> QED
  BY <1>1, InvHolds, PTL

\* For any number of connections: the loop over poll_args never meets a null
\* pointer, and the asserts on want_read and want_write hold.
THEOREM EventsWanted == Spec => []HandledEventsAreWanted
<1>1. Inv => HandledEventsAreWanted
  BY DEF Inv
<1> QED
  BY <1>1, InvHolds, PTL

-----------------------------------------------------------------------------
(* poll() and its timeout.                                                 *)

\* PEXPIRE is only given TTLs that an int32_t can hold.
TtlsFit == \A ttl \in Ttls : ttl < Int32

\* no key expires later than an int32_t of milliseconds from now
Near == \A k \in Keys : heap[k] # NoTtl => heap[k] < now + Int32

LEMMA NearStep == ASSUME TtlsFit, Inv, Near, [Next]_vars PROVE Near'
<1>1. /\ now \in Nat /\ now' \in Nat /\ now' >= now /\ Int32 \in Nat /\ Ttls \subseteq Nat
      /\ heap \in [Keys -> Nat \cup {NoTtl}]
  <2>1. now' = now \/ now' = now + 1
    BY DEF Next, vars, Tick, Loop, PollReturn, PollInterrupted, PreparePoll, EnterPoll, handle_accept,
           HandleConns, HandleConn, BeginTimers, ReapIdle, ReapIdleDone, ExpireKey, ExpireDone
  <2> QED
    BY <2>1, EventLoopAssumption DEF Inv, TypeOK
<1>2. \/ heap' = heap
      \/ \E k \in Tops : heap' = [heap EXCEPT ![k] = NoTtl]
      \/ \E n : Commands(n) /\ now' = now
  BY DEF Next, vars, Tick, Loop, PollReturn, PollInterrupted, PreparePoll, EnterPoll, handle_accept,
         HandleConns, HandleConn, BeginTimers, ReapIdle, ReapIdleDone, ExpireKey, ExpireDone
<1>3. CASE heap' = heap
  BY <1>1, <1>3 DEF Near
<1>4. CASE \E k \in Tops : heap' = [heap EXCEPT ![k] = NoTtl]
  <2>1. PICK k \in Tops : heap' = [heap EXCEPT ![k] = NoTtl]
    BY <1>4
  <2>2. \A l \in Keys : heap'[l] = heap[l] \/ heap'[l] = NoTtl
    BY <1>1, <2>1
  <2> QED
    BY <1>1, <2>2 DEF Near
<1>5. CASE \E n : Commands(n) /\ now' = now
  <2>1. \A k \in Keys : \/ heap'[k] = heap[k] \/ heap'[k] = NoTtl
                        \/ \E ttl \in Ttls : heap'[k] = now + ttl
    BY <1>5, CommandsAre DEF Inv
  <2> QED
    BY <1>1, <1>5, <2>1 DEF Near, TtlsFit
<1> QED
  BY <1>2, <1>3, <1>4, <1>5

\* The timeout is exact when every timer is near: poll() returns at the first
\* deadline, or at once when that has passed.
LEMMA TimeoutIs ==
    ASSUME Inv, Near, NEW d \in Deadlines
    PROVE  next_timer_ms >= 0 /\ (now + next_timer_ms <= d \/ next_timer_ms = 0)
<1> DEFINE m == Min(Deadlines)
<1>1. /\ now \in Nat /\ Int32 \in Nat /\ IdleTimeout \in Nat /\ IdleTimeout < Int32
      /\ heap \in [Keys -> Nat \cup {NoTtl}]
  BY EventLoopAssumption DEF Inv, TypeOK
<1>2. m \in Deadlines /\ m <= d /\ m \in Nat /\ d \in Nat
  BY DeadlinesAre
<1>3. m < now + Int32
  <2>1. CASE m \in TtlTimers
    BY <1>1, <2>1 DEF TtlTimers, Near
  <2>2. CASE m \in TimerAt(First)
    <3>1. First # idle_head /\ m = fd2conn[First].last_active_ms + IdleTimeout
      BY <2>2 DEF TimerAt
    <3>2. First \in Live
      BY <3>1, FirstIs
    <3>3. fd2conn[First].last_active_ms <= now /\ fd2conn[First].last_active_ms \in Nat
      BY <3>2, LiveConns DEF Inv, Past, Conn
    <3> QED
      BY <1>1, <3>1, <3>3
  <2> QED
    BY <1>2, <2>1, <2>2 DEF Deadlines
<1>4. next_timer_ms = IF m <= now THEN 0 ELSE ToInt32(m - now)
  BY DEF next_timer_ms
<1> HIDE DEF m
<1>5. CASE m <= now
  BY <1>4, <1>5
<1>6. CASE ~(m <= now)
  <2>1. m - now \in Nat /\ m - now < Int32
    BY <1>1, <1>2, <1>3, <1>6
  <2>2. next_timer_ms = m - now
    BY <1>4, <1>6, <2>1, ModIs
  <2> QED
    BY <1>1, <1>2, <2>1, <2>2
<1> QED
  BY <1>5, <1>6

LEMMA PrepareWakes == ASSUME Inv, Near, PreparePoll PROVE WakesInTime'
<1>1. /\ timeout_ms' = next_timer_ms /\ now_ms' = now
      /\ UNCHANGED <<fd2conn, heap>> /\ Live' = Live
  BY DEF PreparePoll, connections, Live
<1>2. now \in Nat /\ next_timer_ms \in Int /\ IdleTimeout \in Nat
  BY TimerType, EventLoopAssumption DEF Inv, TypeOK
<1>3. ASSUME NEW d \in Deadlines
      PROVE  timeout_ms' >= 0 /\ (now_ms' + timeout_ms' <= d \/ timeout_ms' = 0)
  BY <1>1, TimeoutIs
<1>4. \A k \in Keys : heap[k] # NoTtl => heap[k] \in Deadlines
  BY DEF Deadlines, TtlTimers
<1>5. \A k \in Keys : heap'[k] # NoTtl => DueAt(heap[k])'
  BY <1>1, <1>3, <1>4 DEF DueAt
<1>6. ASSUME NEW fd \in Live
      PROVE  DueAt(fd2conn[fd].last_active_ms + IdleTimeout)'
  <2> DEFINE e == fd2conn[First].last_active_ms + IdleTimeout
             d == fd2conn[fd].last_active_ms + IdleTimeout
  <2>1. /\ First # idle_head /\ First \in Live
        /\ fd2conn[First].last_active_ms <= fd2conn[fd].last_active_ms
    BY FirstIs
  <2>2. e \in Deadlines
    BY <2>1 DEF Deadlines, TimerAt
  <2>3. e \in Nat /\ d \in Nat /\ e <= d
    BY <1>2, <2>1, LiveConns DEF Inv, Conn
  <2>4. timeout_ms' >= 0 /\ (now_ms' + timeout_ms' <= e \/ timeout_ms' = 0)
    BY <1>3, <2>2
  <2>5. d' = d
    BY <1>1
  <2> HIDE DEF d, e
  <2>6. now_ms' + timeout_ms' <= d \/ timeout_ms' = 0
    BY <1>1, <1>2, <2>3, <2>4
  <2> QED
    BY <2>4, <2>5, <2>6 DEF DueAt, d
<1> QED
  BY <1>1, <1>5, <1>6 DEF WakesInTime

LEMMA WakesStep ==
    ASSUME Inv, Near, WakesInTime, [Next]_vars PROVE WakesInTime'
<1>1. CASE PreparePoll
  BY <1>1, PrepareWakes
<1>2. CASE /\ UNCHANGED <<fd2conn, heap, timeout_ms, now_ms>>
           /\ phase \in {"call", "polling"} \/ phase' = phase
  <2>1. Live' = Live
    BY <1>2 DEF Live
  <2> QED
    BY <1>2, <2>1 DEF WakesInTime, DueAt
<1>3. CASE phase' \notin {"call", "polling"}
  BY <1>3 DEF WakesInTime
<1>4. CASE Tick \/ EnterPoll \/ UNCHANGED vars
  BY <1>2, <1>4 DEF Tick, EnterPoll, vars, connections, polling, timing
<1>5. CASE Loop /\ ~PreparePoll /\ ~EnterPoll
  BY <1>3, <1>5 DEF Loop, handle_accept, HandleConns, HandleConn, BeginTimers, ReapIdle,
                    ReapIdleDone, ExpireKey, ExpireDone
<1>6. CASE PollReturn \/ PollInterrupted
  BY <1>3, <1>6 DEF PollReturn, PollInterrupted
<1> QED
  BY <1>1, <1>4, <1>5, <1>6 DEF Next

\* For any number of connections and keys: as long as every TTL that PEXPIRE is
\* given fits an int32_t, poll() never sleeps past the timer of a connection or
\* of a key. The hypothesis is needed: the run of EventLoopFar.cfg shows what
\* a longer TTL does.
THEOREM PollWakesInTime == TtlsFit /\ Spec => []WakesInTime
<1> DEFINE I == TtlsFit /\ Inv /\ Near /\ WakesInTime
<1>1. TtlsFit /\ Init => I
  <2> SUFFICES ASSUME TtlsFit, Init PROVE I
    OBVIOUS
  <2>1. Inv
    BY InitInv
  <2>2. Near /\ WakesInTime
    BY DEF Init, Near, WakesInTime
  <2> QED
    BY <2>1, <2>2
<1>2. I /\ [Next]_vars => I'
  <2> SUFFICES ASSUME I, [Next]_vars PROVE I'
    OBVIOUS
  <2>1. Inv'
    BY NextInv
  <2>2. Near' /\ WakesInTime'
    BY NearStep, WakesStep
  <2>3. TtlsFit'
    BY DEF TtlsFit
  <2> QED
    BY <2>1, <2>2, <2>3
<1>3. I => WakesInTime
  OBVIOUS
<1> QED
  BY <1>1, <1>2, <1>3, PTL DEF Spec

\* a poll() that was given a timeout ends at some time
Ends == phase = "polling" /\ timeout_ms >= 0 => wake_at # Forever

LEMMA EndsStep == ASSUME Inv, Ends, [Next]_vars PROVE Ends'
<1>1. CASE EnterPoll
  <2>1. now \in Nat /\ timeout_ms \in Int
    BY DEF Inv, TypeOK
  <2> QED
    BY <1>1, <2>1 DEF EnterPoll, Ends, Forever
<1>2. CASE Tick \/ UNCHANGED vars
  BY <1>2 DEF Tick, vars, polling, Ends
<1>3. CASE Loop /\ ~EnterPoll
  BY <1>3 DEF Loop, PreparePoll, handle_accept, HandleConns, HandleConn, BeginTimers,
              ReapIdle, ReapIdleDone, ExpireKey, ExpireDone, Ends
<1>4. CASE PollReturn \/ PollInterrupted
  BY <1>4 DEF PollReturn, PollInterrupted, Ends
<1> QED
  BY <1>1, <1>2, <1>3, <1>4 DEF Next

\* With TTLs that fit an int32_t, poll() blocks without a timeout only when there
\* is neither a connection nor a key with a TTL: the conversion of the timeout is
\* the only thing that ever makes "no timers, no timeouts" (main.cc:683) untrue.
THEOREM TimeoutsUnlessFar == TtlsFit /\ Spec => []NoTimersNoTimeouts
<1>1. WakesInTime /\ Ends => NoTimersNoTimeouts
  BY DEF WakesInTime, NoTimersNoTimeouts, DueAt, Ends
<1>2. Init => Ends
  BY DEF Init, Ends
<1>3. Inv /\ Ends /\ [Next]_vars => Ends'
  BY EndsStep
<1> QED
  BY <1>1, <1>2, <1>3, InvHolds, PollWakesInTime, PTL DEF Spec

=============================================================================
