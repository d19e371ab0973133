-------------------------- MODULE SortedSetProofs ---------------------------
(***************************************************************************)
(* Proofs about the sorted set and its AVL tree, for every set of names    *)
(* and of scores.                                                          *)
(*                                                                         *)
(* The inductive invariant has no recursion in it. It says that there is a *)
(* function sub that gives every node of the tree the nodes below it, such *)
(* that children, parents and the order agree with it (Shape), and that    *)
(* the height and the count of each node fit those of its children, but    *)
(* for the node that avl_fix() works on (Sound).                           *)
(*                                                                         *)
(* What the recursive functions of module SortedSet compute is proved by   *)
(* induction on a rank: the least-number principle (LeastElement) gives an *)
(* induction on sets (RankInduction), and that gives the existence of a    *)
(* function with a recursive definition in which the rank decreases        *)
(* (Recursion). For a walk down the tree the rank is the size of the       *)
(* subtree, for avl_offset() see Level, for do_zquery() it is the room     *)
(* that is left.                                                           *)
(***************************************************************************)
EXTENDS SortedSet, FiniteSetTheorems, SequenceTheorems, WellFoundedInduction, TLAPS

-----------------------------------------------------------------------------
(* Recursion.                                                              *)

LEMMA LeastElement ==
    ASSUME NEW T, T \subseteq Nat, T # {}
    PROVE  \E m \in T : \A k \in T : m <= k
<1> DEFINE F == {0 .. m : m \in T}
<1>1. F \subseteq FiniteSubsetsOf(Nat) /\ F # {}
  <2>1. \A m \in T : 0 .. m \in SUBSET Nat /\ IsFiniteSet(0 .. m)
    BY FS_Interval
  <2> QED
    BY <2>1 DEF FiniteSubsetsOf
<1>2. IsWellFoundedOn(StrictSubsetOrdering(Nat), FiniteSubsetsOf(Nat))
  BY FS_StrictSubsetOrderingWellFounded
<1>3. PICK x \in F : \A y \in F : <<y, x>> \notin StrictSubsetOrdering(Nat)
  <2> HIDE DEF F
  <2> QED
    BY <1>1, <1>2, WFMin
<1>4. PICK m \in T : x = 0 .. m
  OBVIOUS
<1>5. ASSUME NEW k \in T, k < m PROVE FALSE
  <2>1. 0 .. k \in F /\ 0 .. k \subseteq 0 .. m /\ 0 .. k # 0 .. m /\ m \in Nat
    BY <1>5
  <2>2. <<0 .. k, x>> \in StrictSubsetOrdering(Nat)
    BY <2>1, <1>4 DEF StrictSubsetOrdering
  <2> QED
    BY <2>1, <2>2, <1>3
<1> QED
  BY <1>5

\* What holds of an element if it holds of all elements of lower rank holds of
\* every element.
LEMMA RankInduction ==
    ASSUME NEW S, NEW rank \in [S -> Nat], NEW Good,
           \A m \in S : (\A k \in S : rank[k] < rank[m] => k \in Good) => m \in Good
    PROVE  S \subseteq Good
<1> DEFINE Bad == {rank[m] : m \in S \ Good}
<1> SUFFICES ASSUME Bad # {} PROVE FALSE
  OBVIOUS
<1>1. PICK b \in Bad : \A k \in Bad : b <= k
  <2>1. Bad \subseteq Nat
    OBVIOUS
  <2> HIDE DEF Bad
  <2> QED
    BY <2>1, LeastElement
<1>2. PICK m \in S \ Good : b = rank[m]
  OBVIOUS
<1>3. \A k \in S : rank[k] < rank[m] => k \in Good
  <2> SUFFICES ASSUME NEW k \in S, rank[k] < rank[m], k \notin Good PROVE FALSE
    OBVIOUS
  <2>1. rank[k] \in Bad
    OBVIOUS
  <2>2. rank[m] <= rank[k]
    BY <1>1, <1>2, <2>1
  <2>3. rank[k] \in Nat /\ rank[m] \in Nat
    OBVIOUS
  <2> QED
    BY ONLY rank[k] < rank[m], <2>2, <2>3
<1> QED
  BY <1>2, <1>3

\* A recursive definition of a function from S to V whose step G reads only
\* values of lower rank
WellRanked(S, V, N, rank, G) ==
    /\ V # {} /\ N \in Nat /\ rank \in [S -> Nat]
    /\ \A m \in S : rank[m] < N
    /\ G \in [S -> [[S -> V] -> V]]
    /\ \A m \in S, f, g \in [S -> V] :
          (\A k \in S : rank[k] < rank[m] => f[k] = g[k]) => G[m][f] = G[m][g]

\* has a solution.
LEMMA Recursion ==
    ASSUME NEW S, NEW V, NEW N, NEW rank, NEW G, WellRanked(S, V, N, rank, G)
    PROVE  \E f \in [S -> V] : \A m \in S : f[m] = G[m][f]
<1>0. /\ V # {} /\ N \in Nat /\ rank \in [S -> Nat]
      /\ \A m \in S : rank[m] < N
      /\ G \in [S -> [[S -> V] -> V]]
      /\ \A m \in S, f, g \in [S -> V] :
            (\A k \in S : rank[k] < rank[m] => f[k] = g[k]) => G[m][f] = G[m][g]
  BY DEF WellRanked
<1> DEFINE Solves(f, n) == \A m \in S : rank[m] < n => f[m] = G[m][f]
           Good == {n \in Nat : \E f \in [S -> V] : Solves(f, n)}
           id == [n \in Nat |-> n]
<1>1. 0 \in Good
  <2>1. PICK v : v \in V
    BY <1>0
  <2>2. [m \in S |-> v] \in [S -> V] /\ Solves([m \in S |-> v], 0)
    BY <1>0, <2>1
  <2> QED
    BY <2>2
<1>2. ASSUME NEW n \in Nat, n \in Good PROVE n + 1 \in Good
  <2>1. PICK f \in [S -> V] : Solves(f, n)
    BY <1>2
  <2> DEFINE g == [m \in S |-> G[m][f]]
  <2>2. g \in [S -> V]
    BY <1>0
  <2>3. ASSUME NEW m \in S, rank[m] < n + 1 PROVE g[m] = G[m][g]
    <3>1. \A k \in S : rank[k] < rank[m] => f[k] = g[k]
      <4>1. \A k \in S : rank[k] < rank[m] => rank[k] < n
        BY <1>0, <2>3
      <4> QED
        BY <2>1, <4>1
    <3>2. G[m][f] = G[m][g]
      <4> HIDE DEF g
      <4> QED
        BY <1>0, <2>2, <3>1
    <3> QED
      BY <3>2
  <2>4. Solves(g, n + 1) /\ n + 1 \in Nat
    BY <2>3
  <2> HIDE DEF g, Solves
  <2> QED
    BY <2>2, <2>4
<1>3. \A n \in Nat : (\A k \in Nat : id[k] < id[n] => k \in Good) => n \in Good
  <2> SUFFICES ASSUME NEW n \in Nat, \A k \in Nat : id[k] < id[n] => k \in Good
               PROVE  n \in Good
    OBVIOUS
  <2>1. CASE n = 0
    BY <1>1, <2>1
  <2>2. CASE n # 0
    <3>1. n - 1 \in Nat /\ id[n - 1] < id[n] /\ (n - 1) + 1 = n
      BY <2>2
    <3>2. n - 1 \in Good
      BY <3>1
    <3> HIDE DEF Good
    <3> QED
      BY <1>2, <3>1, <3>2
  <2> QED
    BY <2>1, <2>2
<1>4. Nat \subseteq Good
  <2>1. id \in [Nat -> Nat]
    OBVIOUS
  <2> HIDE DEF id, Good
  <2> QED
    BY ONLY <1>3, <2>1, RankInduction
<1>5. PICK f \in [S -> V] : Solves(f, N)
  BY <1>0, <1>4
<1> QED
  BY <1>0, <1>5

-----------------------------------------------------------------------------
(* The shape of a tree.                                                    *)

\* x comes on side s of m in the order of (score, name)
On(sc, s, x, m) == IF s = "left" THEN zless(<<sc[x], x>>, <<sc[m], m>>)
                   ELSE zless(<<sc[m], m>>, <<sc[x], x>>)

\* The nodes of T are in a total order, the same seen from either side.
Ordered(sc, T) ==
    /\ \A x \in T, s \in Sides : ~On(sc, s, x, x)
    /\ \A x, y \in T, s \in Sides : On(sc, s, x, y) <=> On(sc, Other(s), y, x)
    /\ \A x, y \in T, s \in Sides : x # y => (On(sc, s, x, y) <=> ~On(sc, Other(s), x, y))
    /\ \A x, y, z \in T, s \in Sides : On(sc, s, x, y) /\ On(sc, s, y, z) => On(sc, s, x, z)

\* sub[m] is the set of nodes of the subtree at m. What is in it on one side of
\* m is the subtree of the child on that side.
KidsFit(t, sc, T, sub) ==
    \A m \in T, s \in Sides :
        /\ t[m].kid[s] = Null => \A x \in sub[m] : ~On(sc, s, x, m)
        /\ t[m].kid[s] # Null =>
              /\ t[m].kid[s] \in T
              /\ t[t[m].kid[s]].parent = m
              /\ \A x \in T : x \in sub[t[m].kid[s]] <=> x \in sub[m] /\ On(sc, s, x, m)

\* A node without a parent is the root, another is a child of its parent.
ParentsFit(t, r, T) ==
    \A m \in T :
        /\ t[m].parent = Null <=> m = r
        /\ t[m].parent # Null => /\ t[m].parent \in T
                                 /\ \E s \in Sides : t[t[m].parent].kid[s] = m

\* A subtree contains the subtrees of its nodes, and their parents up to its top.
Nested(t, T, sub) ==
    /\ sub \in [T -> SUBSET T]
    /\ \A m \in T : m \in sub[m]
    /\ \A m \in T : \A x \in sub[m] : sub[x] \subseteq sub[m]
    /\ \A m \in T : \A x \in sub[m] : x # m => t[x].parent \in sub[m]

RootFits(r, T, sub) == IF r = Null THEN T = {} ELSE r \in T /\ sub[r] = T

Shape(t, r, sc, T, sub) ==
    /\ t \in [Names -> AVLNode] /\ T \subseteq Names
    /\ Ordered(sc, T)
    /\ KidsFit(t, sc, T, sub)
    /\ ParentsFit(t, r, T)
    /\ Nested(t, T, sub)
    /\ RootFits(r, T, sub)

LEMMA SidesAre == /\ Sides = {"left", "right"}
                  /\ \A s \in Sides : /\ Other(s) \in Sides /\ Other(s) # s /\ Other(Other(s)) = s
                                      /\ \A d \in Sides : d = s \/ d = Other(s)
BY DEF Sides, Other

LEMMA NullIsNoName == Null \notin Names
BY SortedSetAssumption

\* Scores are numbers and names are numbers, so the order is total.
LEMMA OrderIs ==
    ASSUME NEW T, T \subseteq Names, NEW sc, \A x \in T : sc[x] \in Int
    PROVE  Ordered(sc, T)
<1>1. T \subseteq Int
  BY SortedSetAssumption
<1> QED
  BY <1>1 DEF Ordered, On, zless, Sides, Other

LEMMA KidType ==
    ASSUME NEW t \in [Names -> AVLNode], NEW m \in Names, NEW s \in Sides
    PROVE  /\ t[m].kid[s] \in Names \cup {Null}
           /\ t[m].kid \in [Sides -> Names \cup {Null}]
           /\ t[m].parent \in Names \cup {Null}
           /\ t[m].aux \in [height : Nat, cnt : Nat]
           /\ t[m].aux.height \in Nat /\ t[m].aux.cnt \in Nat
BY DEF AVLNode

\* The two children of a node differ, and none is the node or its parent.
LEMMA Kin ==
    ASSUME NEW t, NEW r, NEW sc, NEW T, NEW sub, Shape(t, r, sc, T, sub),
           NEW n \in T, NEW s \in Sides, t[n].kid[s] # Null
    PROVE  LET c == t[n].kid[s]
           IN  /\ c \in T /\ c # n /\ t[c].parent = n
               /\ On(sc, s, c, n)
               /\ t[n].kid[Other(s)] # c
               /\ n \notin sub[c] /\ c \in sub[n] /\ sub[c] \subseteq sub[n]
<1> DEFINE c == t[n].kid[s]
<1>1. c \in T /\ t[c].parent = n /\ c \in sub[c] /\ (\A x \in T : x \in sub[c] <=> x \in sub[n] /\ On(sc, s, x, n))
  BY DEF Shape, KidsFit, Nested
<1> HIDE DEF c
<1>2. On(sc, s, c, n) /\ c \in sub[n] /\ sub[c] \subseteq sub[n]
  BY <1>1 DEF Shape, Nested
<1>3. ~On(sc, s, n, n) /\ Other(s) \in Sides
  BY SidesAre DEF Shape, Ordered
<1>4. c # n
  BY <1>2, <1>3
<1>5. ~On(sc, Other(s), c, n)
  BY <1>1, <1>2, <1>4 DEF Shape, Ordered
<1>6. t[n].kid[Other(s)] # c
  <2> SUFFICES ASSUME t[n].kid[Other(s)] = c PROVE FALSE
    OBVIOUS
  <2>1. c # Null
    BY <1>1, NullIsNoName DEF Shape
  <2>2. c \in sub[t[n].kid[Other(s)]] <=> c \in sub[n] /\ On(sc, Other(s), c, n)
    BY <1>1, <1>3, <2>1 DEF Shape, KidsFit
  <2> QED
    BY <1>1, <1>5, <2>2
<1> QED
  BY <1>1, <1>2, <1>3, <1>4, <1>6 DEF c

\* Of two nodes that are each in the subtree of the other there is only one.
LEMMA Antisymmetric ==
    ASSUME NEW t, NEW r, NEW sc, NEW T, NEW sub, Shape(t, r, sc, T, sub),
           NEW m \in T, NEW x \in sub[m], m \in sub[x]
    PROVE  x = m
<1> SUFFICES ASSUME x # m PROVE FALSE
  OBVIOUS
<1>1. x \in T
  BY DEF Shape, Nested
<1>2. PICK s \in Sides : On(sc, s, x, m)
  BY <1>1, SidesAre DEF Shape, Ordered
<1>3. t[m].kid[s] # Null
  BY <1>2 DEF Shape, KidsFit
<1>4. t[m].kid[s] \in T /\ x \in sub[t[m].kid[s]] /\ m \notin sub[t[m].kid[s]]
  BY <1>1, <1>2, <1>3, Kin DEF Shape, KidsFit
<1> QED
  BY <1>4 DEF Shape, Nested

\* u is the tree t after a rotation of the node n to side s, with the pointer of
\* its parent set to the new top.
Rotated(t, u, n, s) ==
    LET top   == t[n].kid[Other(s)]
        inner == t[top].kid[s]
    IN  /\ u \in [Names -> AVLNode]
        /\ \A m \in Names, d \in Sides :
              u[m].kid[d] = IF m = n /\ d = Other(s) THEN inner
                            ELSE IF m = top /\ d = s THEN n
                            ELSE IF m = t[n].parent /\ t[m].kid[d] = n THEN top
                            ELSE t[m].kid[d]
        /\ \A m \in Names :
              u[m].parent = IF m = n THEN top
                            ELSE IF m = top THEN t[n].parent
                            ELSE IF m = inner THEN n
                            ELSE t[m].parent

\* the subtrees after it
RotatedSub(t, sc, sub, T, n, s) ==
    LET top == t[n].kid[Other(s)]
    IN  [m \in T |-> IF m = top THEN sub[n]
                     ELSE IF m = n THEN {x \in sub[n] : On(sc, s, x, top)}
                     ELSE sub[m]]

\* A rotation keeps the shape: no subtree is lost, and the order is kept.
LEMMA RotateShape ==
    ASSUME NEW t, NEW r, NEW sc, NEW T, NEW sub, Shape(t, r, sc, T, sub),
           NEW n \in T, NEW s \in Sides, t[n].kid[Other(s)] # Null,
           NEW u, Rotated(t, u, n, s)
    PROVE  Shape(u, IF t[n].parent = Null THEN t[n].kid[Other(s)] ELSE r, sc, T,
                 RotatedSub(t, sc, sub, T, n, s))
<1> DEFINE o == Other(s)
           top == t[n].kid[o]
           inner == t[top].kid[s]
           p == t[n].parent
           sub2 == RotatedSub(t, sc, sub, T, n, s)
           r2 == IF p = Null THEN top ELSE r
<1>0. o \in Sides /\ o # s /\ Other(o) = s /\ \A d \in Sides : d = s \/ d = o
  BY SidesAre
<1>1. /\ t \in [Names -> AVLNode] /\ T \subseteq Names /\ Ordered(sc, T)
      /\ KidsFit(t, sc, T, sub) /\ ParentsFit(t, r, T) /\ Nested(t, T, sub)
      /\ RootFits(r, T, sub)
  BY DEF Shape
<1>2. /\ top \in T /\ top # n /\ t[top].parent = n /\ On(sc, o, top, n)
      /\ t[n].kid[s] # top /\ n \notin sub[top] /\ top \in sub[n] /\ sub[top] \subseteq sub[n]
  <2>1. LET c == t[n].kid[o]
        IN  /\ c \in T /\ c # n /\ t[c].parent = n
            /\ On(sc, o, c, n)
            /\ t[n].kid[Other(o)] # c
            /\ n \notin sub[c] /\ c \in sub[n] /\ sub[c] \subseteq sub[n]
    BY <1>0, Kin
  <2> QED
    BY <1>0, <2>1
<1>3. On(sc, s, n, top) /\ ~On(sc, s, top, n) /\ ~On(sc, o, n, top)
  BY <1>0, <1>1, <1>2 DEF Ordered
<1>4. inner # Null =>
        /\ inner \in T /\ inner # top /\ inner # n /\ t[inner].parent = top
        /\ On(sc, s, inner, top) /\ On(sc, o, inner, n)
        /\ inner \in sub[top]
        /\ t[top].kid[o] # inner
        /\ n \notin sub[inner] /\ top \notin sub[inner]
  <2> SUFFICES ASSUME inner # Null PROVE inner \in T /\ inner # top /\ inner # n /\ t[inner].parent = top
        /\ On(sc, s, inner, top) /\ On(sc, o, inner, n)
        /\ inner \in sub[top] /\ t[top].kid[o] # inner
        /\ n \notin sub[inner] /\ top \notin sub[inner]
    OBVIOUS
  <2>1. LET c == t[top].kid[s]
        IN  /\ c \in T /\ c # top /\ t[c].parent = top
            /\ On(sc, s, c, top)
            /\ t[top].kid[Other(s)] # c
            /\ top \notin sub[c] /\ c \in sub[top] /\ sub[c] \subseteq sub[top]
    <3>1. Shape(t, r, sc, T, sub) /\ top \in T /\ s \in Sides /\ t[top].kid[s] # Null
      BY <1>2
    <3> HIDE DEF top
    <3> QED
      BY ONLY <3>1, Kin
  <2>2. inner # n /\ n \notin sub[inner]
    BY <1>2, <2>1
  <2>3. On(sc, o, inner, n)
    BY <1>0, <1>1, <1>2, <2>1 DEF KidsFit
  <2> QED
    BY <2>1, <2>2, <2>3
<1>5. p # Null => /\ p \in T /\ p # n /\ p # top /\ n \in sub[p]
                  /\ p \notin sub[n]
                  /\ \E d \in Sides : t[p].kid[d] = n /\ \A e \in Sides : t[p].kid[e] = n => e = d
  <2> SUFFICES ASSUME p # Null
               PROVE  /\ p \in T /\ p # n /\ p # top /\ n \in sub[p]
                      /\ p \notin sub[n]
                      /\ \E d \in Sides : t[p].kid[d] = n /\ \A e \in Sides : t[p].kid[e] = n => e = d
    OBVIOUS
  <2>1. p \in T /\ \E d \in Sides : t[p].kid[d] = n
    BY <1>1 DEF ParentsFit
  <2>2. PICK d \in Sides : t[p].kid[d] = n
    BY <2>1
  <2>3. t[p].kid[d] # Null
    BY <1>1, <2>2, NullIsNoName
  <2>4. /\ n # p /\ t[p].kid[Other(d)] # n
        /\ p \notin sub[n] /\ n \in sub[p]
    BY <2>1, <2>2, <2>3, Kin
  <2>5. p # top
    BY <1>2, <2>4
  <2>6. \A e \in Sides : t[p].kid[e] = n => e = d
    BY <2>4, SidesAre
  <2> QED
    BY <2>1, <2>2, <2>4, <2>5, <2>6
<1>6. /\ u \in [Names -> AVLNode]
      /\ \A m \in Names, d \in Sides :
              u[m].kid[d] = IF m = n /\ d = o THEN inner
                            ELSE IF m = top /\ d = s THEN n
                            ELSE IF m = p /\ t[m].kid[d] = n THEN top
                            ELSE t[m].kid[d]
      /\ \A m \in Names :
              u[m].parent = IF m = n THEN top
                            ELSE IF m = top THEN p
                            ELSE IF m = inner THEN n
                            ELSE t[m].parent
  BY DEF Rotated
<1>7. /\ sub2 \in [T -> SUBSET T]
      /\ sub2[top] = sub[n]
      /\ sub2[n] = {x \in sub[n] : On(sc, s, x, top)}
      /\ \A m \in T : m # top /\ m # n => sub2[m] = sub[m]
  BY <1>1, <1>2 DEF RotatedSub, Nested
<1> HIDE DEF sub2, top, inner, p, o
<1>8. n \in Names /\ top \in Names /\ (\A m \in T : m # Null) /\ n \in sub[n]
  BY <1>1, <1>2, NullIsNoName DEF Nested
<1>9. ParentsFit(u, r2, T)
  <2> SUFFICES ASSUME NEW m \in T
               PROVE  /\ u[m].parent = Null <=> m = r2
                      /\ u[m].parent # Null => /\ u[m].parent \in T
                                               /\ \E d \in Sides : u[u[m].parent].kid[d] = m
    BY DEF ParentsFit
  <2>1. CASE m = n
    BY <1>0, <1>1, <1>2, <1>5, <1>6, <1>8, <2>1 DEF ParentsFit, p
  <2>2. CASE m = top
    <3>1. u[m].parent = p
      BY <1>2, <1>6, <1>8, <2>2
    <3>2. p = Null <=> m = r2
      BY <1>1, <1>2, <1>5, <1>8, <2>2 DEF ParentsFit
    <3>3. ASSUME p # Null PROVE p \in T /\ \E d \in Sides : u[p].kid[d] = m
      <4>1. PICK d \in Sides : t[p].kid[d] = n
        BY <1>5, <3>3
      <4>2. u[p].kid[d] = top
        BY <1>1, <1>5, <1>6, <3>3, <4>1
      <4> QED
        BY <1>5, <2>2, <3>3, <4>1, <4>2
    <3> QED
      BY <3>1, <3>2, <3>3
  <2>3. CASE m = inner /\ m # n /\ m # top
    <3>1. u[m].parent = n /\ u[n].kid[o] = m
      BY <1>1, <1>6, <1>8, <2>3, <1>0
    <3>2. t[m].parent # Null
      BY <1>2, <1>4, <1>8, <2>3
    <3>3. m # r /\ m # r2
      BY <1>1, <2>3, <3>2 DEF ParentsFit
    <3> QED
      BY <1>0, <1>8, <3>1, <3>3
  <2>4. CASE m # n /\ m # top /\ m # inner
    <3>1. u[m].parent = t[m].parent
      BY <1>1, <1>6, <2>4
    <3>2. u[m].parent = Null <=> m = r2
      BY <1>1, <3>1, <2>4 DEF ParentsFit, p
    <3>3. ASSUME t[m].parent # Null
          PROVE  t[m].parent \in T /\ \E d \in Sides : u[t[m].parent].kid[d] = m
      <4>1. PICK d \in Sides : t[t[m].parent].kid[d] = m
        BY <1>1, <3>3 DEF ParentsFit
      <4>2. t[m].parent \in T
        BY <1>1, <3>3 DEF ParentsFit
      <4>3. ~(t[m].parent = n /\ d = o) /\ ~(t[m].parent = top /\ d = s)
        BY <2>4, <4>1 DEF top, inner
      <4>4. u[t[m].parent].kid[d] = m
        BY <1>1, <1>6, <2>4, <4>1, <4>2, <4>3
      <4> QED
        BY <4>2, <4>4
    <3> QED
      BY <3>1, <3>2, <3>3
  <2> QED
    BY <2>1, <2>2, <2>3, <2>4
<1>10. RootFits(r2, T, sub2)
  <2>1. CASE p = Null
    BY <1>1, <1>2, <1>7, <1>8, <2>1 DEF RootFits, ParentsFit, p
  <2>2. CASE p # Null
    <3>1. r # n /\ r # top /\ r # Null
      BY <1>1, <1>2, <1>8, <2>2 DEF ParentsFit, p, RootFits
    <3> QED
      BY <1>1, <1>7, <2>2, <3>1 DEF RootFits
  <2> QED
    BY <2>1, <2>2
<1>11. Nested(u, T, sub2)
  <2>1. \A m \in T : m \in sub2[m]
    BY <1>1, <1>2, <1>3, <1>7, <1>8 DEF Nested
  <2>2. \A m \in T : m # top => sub2[m] \subseteq sub[m]
    BY <1>7
  <2>3. ASSUME NEW m \in T, NEW x \in sub2[m] PROVE sub2[x] \subseteq sub2[m]
    <3>0. x \in T
      BY <1>7
    <3>1. CASE m = top
      <4>1. sub[x] \subseteq sub[n] /\ sub2[m] = sub[n]
        BY <1>1, <1>7, <3>1 DEF Nested
      <4> QED
        BY <1>7, <2>2, <3>0, <4>1
    <3>2. CASE m = n
      <4>1. x \in sub[n] /\ On(sc, s, x, top) /\ x # top
        BY <1>1, <1>2, <1>7, <3>2 DEF Ordered
      <4>2. CASE x = n
        BY <3>2, <4>2
      <4>3. CASE x # n
        <5>1. sub2[x] = sub[x] /\ sub[x] \subseteq sub[n]
          BY <1>1, <1>7, <3>0, <4>1, <4>3 DEF Nested
        <5>2. CASE On(sc, o, x, n)
          <6>1. x \in sub[top]
            BY <1>0, <1>1, <1>2, <1>8, <3>0, <4>1, <5>2 DEF KidsFit, top
          <6>2. inner # Null /\ x \in sub[inner]
            BY <1>1, <1>2, <3>0, <4>1, <6>1 DEF KidsFit, inner
          <6>3. sub[x] \subseteq sub[inner]
            BY <1>1, <1>4, <6>2 DEF Nested
          <6>4. \A y \in sub[inner] : y \in T /\ On(sc, s, y, top)
            BY <1>1, <1>2, <1>4, <6>2 DEF KidsFit, inner, Nested
          <6> QED
            BY <1>7, <3>2, <5>1, <6>3, <6>4
        <5>3. CASE ~On(sc, o, x, n)
          <6>1. On(sc, s, x, n)
            BY <1>0, <1>1, <3>0, <4>3, <5>3 DEF Ordered
          <6>2. t[n].kid[s] # Null /\ x \in sub[t[n].kid[s]] /\ t[n].kid[s] \in T
            BY <1>1, <3>0, <4>1, <6>1 DEF KidsFit
          <6>3. \A y \in sub[x] : y \in T /\ On(sc, s, y, n)
            BY <1>1, <6>2, <3>0 DEF Nested, KidsFit
          <6>4. \A y \in sub[x] : On(sc, s, y, top)
            BY <1>1, <1>2, <1>3, <6>3 DEF Ordered
          <6> QED
            BY <1>7, <3>2, <5>1, <6>4
        <5> QED
          BY <5>2, <5>3
      <4> QED
        BY <4>2, <4>3
    <3>3. CASE m # top /\ m # n
      <4>1. sub2[m] = sub[m] /\ sub[x] \subseteq sub[m]
        BY <1>1, <1>7, <3>3 DEF Nested
      <4>2. CASE x = top
        <5>1. n \in sub[m]
          BY <1>1, <1>2, <3>3, <4>1, <4>2 DEF Nested
        <5> QED
          BY <1>1, <1>7, <4>1, <4>2, <5>1 DEF Nested
      <4>3. CASE x # top
        BY <2>2, <3>0, <4>1, <4>3
      <4> QED
        BY <4>2, <4>3
    <3> QED
      BY <3>1, <3>2, <3>3
  <2>4. ASSUME NEW m \in T, NEW x \in sub2[m], x # m PROVE u[x].parent \in sub2[m]
    <3>0. x \in T /\ x \in Names
      BY <1>1, <1>7
    <3>1. CASE x = n
      <4>1. u[x].parent = top
        BY <1>6, <1>8, <3>1
      <4>2. m = top \/ (m # top /\ top \in sub[m])
        BY <1>1, <1>2, <1>7, <2>4, <3>1 DEF Nested
      <4> QED
        BY <1>2, <1>7, <2>4, <3>1, <4>1, <4>2
    <3>2. CASE x = top
      <4>1. m # n
        BY <1>1, <1>2, <1>7, <3>2 DEF Ordered
      <4>2. n \in sub[m] /\ sub2[m] = sub[m]
        BY <1>1, <1>2, <1>7, <2>4, <3>2, <4>1 DEF Nested
      <4>3. p \in sub[m]
        BY <1>1, <4>1, <4>2 DEF Nested, p
      <4> QED
        BY <1>2, <1>6, <1>8, <3>2, <4>2, <4>3
    <3>3. CASE x # n /\ x # top /\ x = inner
      <4>1. u[x].parent = n
        BY <1>6, <3>0, <3>3
      <4>2. CASE m = top \/ m = n
        BY <1>3, <1>7, <1>8, <4>1, <4>2
      <4>3. CASE m # top /\ m # n
        <5>1. x \in sub[m] /\ top \in sub[m]
          BY <1>1, <1>4, <1>7, <1>8, <2>4, <3>0, <3>3, <4>3 DEF Nested
        <5>2. n \in sub[m]
          BY <1>1, <1>2, <4>3, <5>1 DEF Nested
        <5> QED
          BY <1>7, <4>1, <4>3, <5>2
      <4> QED
        BY <4>2, <4>3
    <3>4. CASE x # n /\ x # top /\ x # inner
      <4>1. u[x].parent = t[x].parent
        BY <1>6, <3>0, <3>4
      <4>2. CASE m = top
        BY <1>1, <1>7, <3>4, <4>1, <4>2 DEF Nested
      <4>3. CASE m = n
        <5>1. x \in sub[n] /\ On(sc, s, x, top) /\ t[x].parent \in sub[n]
          BY <1>1, <1>7, <2>4, <4>3 DEF Nested
        <5>2. CASE On(sc, o, x, n)
          <6>1. x \in sub[top]
            BY <1>0, <1>1, <1>2, <1>8, <3>0, <5>1, <5>2 DEF KidsFit, top
          <6>2. inner # Null /\ x \in sub[inner]
            BY <1>1, <1>2, <3>0, <5>1, <6>1 DEF KidsFit, inner
          <6>3. t[x].parent \in sub[inner]
            BY <1>1, <1>4, <3>4, <6>2 DEF Nested
          <6>4. \A y \in sub[inner] : y \in T /\ On(sc, s, y, top)
            BY <1>1, <1>2, <1>4, <6>2 DEF KidsFit, inner, Nested
          <6> QED
            BY <1>7, <4>1, <4>3, <5>1, <6>3, <6>4
        <5>3. CASE ~On(sc, o, x, n)
          <6>1. On(sc, s, x, n)
            BY <1>0, <1>1, <3>0, <3>4, <5>3 DEF Ordered
          <6> DEFINE k == t[n].kid[s]
          <6>2. k # Null /\ x \in sub[k] /\ k \in T /\ t[k].parent = n
            BY <1>1, <3>0, <5>1, <6>1 DEF KidsFit
          <6>3. \A y \in sub[k] : y \in T /\ On(sc, s, y, n)
            BY <1>1, <6>2 DEF Nested, KidsFit
          <6> HIDE DEF k
          <6>4. t[x].parent = n \/ t[x].parent \in sub[k]
            BY <1>1, <6>2 DEF Nested
          <6>5. \A y \in sub[k] : On(sc, s, y, top)
            BY <1>1, <1>2, <1>3, <6>3 DEF Ordered
          <6> QED
            BY <1>3, <1>7, <4>1, <4>3, <5>1, <6>4, <6>5
        <5> QED
          BY <5>2, <5>3
      <4>4. CASE m # top /\ m # n
        BY <1>1, <1>7, <2>4, <4>1, <4>4 DEF Nested
      <4> QED
        BY <4>2, <4>3, <4>4
    <3> QED
      BY <3>1, <3>2, <3>3, <3>4
  <2> QED
    BY <1>7, <2>1, <2>3, <2>4 DEF Nested
<1>12. KidsFit(u, sc, T, sub2)
  <2> SUFFICES ASSUME NEW m \in T, NEW d \in Sides
               PROVE  /\ u[m].kid[d] = Null => \A x \in sub2[m] : ~On(sc, d, x, m)
                      /\ u[m].kid[d] # Null =>
                            /\ u[m].kid[d] \in T
                            /\ u[u[m].kid[d]].parent = m
                            /\ \A x \in T : x \in sub2[u[m].kid[d]] <=> x \in sub2[m] /\ On(sc, d, x, m)
    BY DEF KidsFit
  <2>0. m \in Names
    BY <1>1
  <2>1. CASE m = n /\ d = o
    <3>1. u[m].kid[d] = inner
      BY <1>6, <1>8, <2>1
    <3>2. \A x \in T : x \in sub2[m] /\ On(sc, d, x, m) <=> x \in sub[top] /\ On(sc, s, x, top)
      <4>1. \A x \in T : x \in sub[top] <=> x \in sub[n] /\ On(sc, o, x, n)
        BY <1>0, <1>1, <1>2, <1>8 DEF KidsFit, top
      <4> QED
        BY <1>7, <2>1, <4>1
    <3>3. CASE inner = Null
      <4>1. \A x \in sub[top] : ~On(sc, s, x, top)
        BY <1>1, <1>2, <3>3 DEF KidsFit, inner
      <4> QED
        BY <1>7, <3>1, <3>2, <3>3, <4>1
    <3>4. CASE inner # Null
      <4>1. \A x \in T : x \in sub[inner] <=> x \in sub[top] /\ On(sc, s, x, top)
        BY <1>1, <1>2, <3>4 DEF KidsFit, inner
      <4>2. sub2[inner] = sub[inner] /\ u[inner].parent = n /\ inner \in T
        BY <1>1, <1>4, <1>6, <1>7, <3>4
      <4>3. \A x \in T : x \in sub2[inner] <=> x \in sub2[m] /\ On(sc, d, x, m)
        BY <3>2, <4>1, <4>2
      <4> QED
        BY <2>1, <3>1, <4>2, <4>3, <3>4
    <3> QED
      BY <3>3, <3>4
  <2>2. CASE m = top /\ d = s
    <3>1. u[m].kid[d] = n /\ u[n].parent = top
      BY <1>2, <1>6, <1>8, <2>2
    <3> QED
      BY <1>1, <1>7, <1>8, <2>2, <3>1 DEF Nested
  <2>3. CASE m = p /\ t[p].kid[d] = n /\ m # n /\ m # top
    <3>1. u[m].kid[d] = top /\ u[top].parent = p
      BY <1>2, <1>6, <1>8, <2>0, <2>3
    <3>2. \A x \in T : x \in sub[n] <=> x \in sub[p] /\ On(sc, d, x, p)
      BY <1>1, <1>8, <2>3 DEF KidsFit
    <3> QED
      BY <1>2, <1>7, <1>8, <2>3, <3>1, <3>2
  <2>4. CASE m = n /\ d # o
    <3>0. d = s
      BY <1>0, <2>4
    <3>1. u[m].kid[d] = t[n].kid[s]
      BY <1>0, <1>2, <1>5, <1>6, <1>8, <2>4, <3>0
    <3>2. \A x \in T : x \in sub2[n] /\ On(sc, s, x, n) <=> x \in sub[n] /\ On(sc, s, x, n)
      BY <1>1, <1>2, <1>3, <1>7 DEF Ordered
    <3>3. CASE t[n].kid[s] = Null
      BY <1>1, <1>7, <2>4, <3>0, <3>1, <3>2, <3>3 DEF KidsFit
    <3>4. CASE t[n].kid[s] # Null
      <4> DEFINE k == t[n].kid[s]
      <4>1. /\ k \in T /\ t[k].parent = n
            /\ \A x \in T : x \in sub[k] <=> x \in sub[n] /\ On(sc, s, x, n)
        BY <1>1, <3>4 DEF KidsFit
      <4>2. k # n /\ k # top
        BY <1>2, <3>4, Kin
      <4>3. k # inner
        BY <1>2, <1>4, <1>8, <4>1
      <4> HIDE DEF k
      <4>4. u[k].parent = n /\ sub2[k] = sub[k]
        BY <1>1, <1>6, <1>7, <4>1, <4>2, <4>3
      <4>5. u[m].kid[d] = k
        BY <3>1 DEF k
      <4>6. \A x \in T : x \in sub2[k] <=> x \in sub2[m] /\ On(sc, d, x, m)
        BY <2>4, <3>0, <3>2, <4>1, <4>4
      <4> QED
        BY <1>8, <2>4, <4>1, <4>4, <4>5, <4>6
    <3> QED
      BY <3>3, <3>4
  <2>5. CASE m = top /\ d # s
    <3>0. d = o
      BY <1>0, <2>5
    <3>1. u[m].kid[d] = t[top].kid[o]
      BY <1>0, <1>2, <1>5, <1>6, <1>8, <2>5, <3>0
    <3>2. \A x \in T : x \in sub[n] /\ On(sc, o, x, top) <=> x \in sub[top] /\ On(sc, o, x, top)
      <4>1. \A x \in T : x \in sub[top] <=> x \in sub[n] /\ On(sc, o, x, n)
        BY <1>0, <1>1, <1>2, <1>8 DEF KidsFit, top
      <4>2. \A x \in T : On(sc, o, x, top) => On(sc, o, x, n)
        BY <1>0, <1>1, <1>2 DEF Ordered
      <4> QED
        BY <4>1, <4>2
    <3>3. CASE t[top].kid[o] = Null
      <4>1. \A x \in sub[top] : ~On(sc, o, x, top)
        BY <1>0, <1>1, <1>2, <3>3 DEF KidsFit
      <4> QED
        BY <1>1, <1>7, <2>5, <3>0, <3>1, <3>2, <3>3, <4>1 DEF Nested
    <3>4. CASE t[top].kid[o] # Null
      <4> DEFINE k == t[top].kid[o]
      <4>1. /\ k \in T /\ t[k].parent = top
            /\ \A x \in T : x \in sub[k] <=> x \in sub[top] /\ On(sc, o, x, top)
        BY <1>0, <1>1, <1>2, <3>4 DEF KidsFit
      <4>2. k # top /\ k \in sub[top]
        BY <1>0, <1>2, <3>4, Kin
      <4>3. k # n /\ k # inner
        <5>1. k # n
          BY <1>2, <4>2
        <5>2. inner # Null => k # inner
          BY <1>4
        <5> QED
          BY <3>4, <5>1, <5>2
      <4> HIDE DEF k
      <4>4. u[k].parent = top /\ sub2[k] = sub[k]
        BY <1>1, <1>6, <1>7, <4>1, <4>2, <4>3
      <4>5. u[m].kid[d] = k
        BY <3>1 DEF k
      <4>6. \A x \in T : x \in sub2[k] <=> x \in sub2[m] /\ On(sc, d, x, m)
        BY <1>7, <2>5, <3>0, <3>2, <4>1, <4>4
      <4> QED
        BY <1>8, <2>5, <4>1, <4>4, <4>5, <4>6
    <3> QED
      BY <3>3, <3>4
  <2>6. CASE m # n /\ m # top /\ ~(m = p /\ t[p].kid[d] = n)
    <3>1. u[m].kid[d] = t[m].kid[d] /\ sub2[m] = sub[m]
      BY <1>6, <1>7, <2>0, <2>6
    <3>2. CASE t[m].kid[d] = Null
      BY <1>1, <3>1, <3>2 DEF KidsFit
    <3>3. CASE t[m].kid[d] # Null
      <4> DEFINE k == t[m].kid[d]
      <4>1. /\ k \in T /\ t[k].parent = m
            /\ \A x \in T : x \in sub[k] <=> x \in sub[m] /\ On(sc, d, x, m)
        BY <1>1, <3>3 DEF KidsFit
      <4>2. k # n
        BY <2>6, <4>1 DEF p
      <4>3. k # top /\ k # inner
        BY <1>2, <1>4, <2>6, <3>3, <4>1
      <4> HIDE DEF k
      <4>4. u[k].parent = m /\ sub2[k] = sub[k]
        BY <1>1, <1>6, <1>7, <4>1, <4>2, <4>3
      <4>5. u[m].kid[d] = k
        BY <3>1 DEF k
      <4> QED
        BY <3>1, <4>1, <4>4, <4>5, <1>8
    <3> QED
      BY <3>2, <3>3
  <2> QED
    BY <2>1, <2>2, <2>3, <2>4, <2>5, <2>6
<1>13. Shape(u, r2, sc, T, sub2)
  BY <1>1, <1>6, <1>9, <1>10, <1>11, <1>12 DEF Shape
<1> QED
  BY <1>13 DEF sub2, p, o, top

\* u is the tree t with the new node n, without children, as the child of a on
\* side d0.
Attached(t, u, n, a, d0) ==
    /\ u \in [Names -> AVLNode]
    /\ u[n].parent = a /\ \A d \in Sides : u[n].kid[d] = Null
    /\ \A m \in Names \ {n} : u[m].parent = t[m].parent
    /\ \A m \in Names \ {n}, d \in Sides :
          u[m].kid[d] = IF m = a /\ d = d0 THEN n ELSE t[m].kid[d]

AttachedSub(sub, T, n, a) ==
    [m \in T \cup {n} |-> IF m = n THEN {n} ELSE IF a \in sub[m] THEN sub[m] \cup {n} ELSE sub[m]]

\* The new node has, for every node above its parent, the place that its parent
\* has: then a node attached to the free side of its parent keeps the shape.
LEMMA AttachShape ==
    ASSUME NEW t, NEW r, NEW sc, NEW T, NEW sub, Shape(t, r, sc, T, sub),
           NEW n \in Names, n \notin T, NEW a \in T, NEW d0 \in Sides, t[a].kid[d0] = Null,
           NEW sc2, Ordered(sc2, T \cup {n}), \A x \in T : sc2[x] = sc[x],
           On(sc2, d0, n, a),
           \A x \in T, d \in Sides : a \in sub[x] /\ x # a => (On(sc2, d, n, x) <=> On(sc, d, a, x)),
           NEW u, Attached(t, u, n, a, d0)
    PROVE  Shape(u, r, sc2, T \cup {n}, AttachedSub(sub, T, n, a))
<1> DEFINE T2 == T \cup {n}
           sub2 == AttachedSub(sub, T, n, a)
<1>1. /\ t \in [Names -> AVLNode] /\ T \subseteq Names /\ Ordered(sc, T)
      /\ KidsFit(t, sc, T, sub) /\ ParentsFit(t, r, T) /\ Nested(t, T, sub)
      /\ RootFits(r, T, sub)
  BY DEF Shape
<1>2. \A x, y \in T, d \in Sides : On(sc2, d, x, y) <=> On(sc, d, x, y)
  BY DEF On
<1>3. /\ sub2 \in [T2 -> SUBSET T2]
      /\ sub2[n] = {n}
      /\ \A m \in T : a \in sub[m] => sub2[m] = sub[m] \cup {n}
      /\ \A m \in T : a \notin sub[m] => sub2[m] = sub[m]
  BY <1>1 DEF AttachedSub, Nested
<1>4. /\ u \in [Names -> AVLNode]
      /\ u[n].parent = a /\ (\A d \in Sides : u[n].kid[d] = Null)
      /\ (\A m \in T : u[m].parent = t[m].parent)
      /\ \A m \in T, d \in Sides : u[m].kid[d] = IF m = a /\ d = d0 THEN n ELSE t[m].kid[d]
  BY <1>1 DEF Attached
<1>5. /\ \A m \in T : m \in sub[m] /\ sub[m] \subseteq T /\ m # n /\ m # Null
      /\ n # Null
  BY <1>1, NullIsNoName DEF Nested
<1>6. \A d \in Sides : ~On(sc2, d, n, n)
  BY DEF Ordered
<1> HIDE DEF sub2
<1>7. ParentsFit(u, r, T2)
  <2> SUFFICES ASSUME NEW m \in T2
               PROVE  /\ u[m].parent = Null <=> m = r
                      /\ u[m].parent # Null => /\ u[m].parent \in T2
                                               /\ \E d \in Sides : u[u[m].parent].kid[d] = m
    BY DEF ParentsFit
  <2>1. CASE m = n
    <3>1. u[a].kid[d0] = n /\ u[n].parent = a
      BY <1>4
    <3>2. n # r
      BY <1>1, <1>5 DEF RootFits
    <3> QED
      BY <1>5, <2>1, <3>1, <3>2
  <2>2. CASE m \in T
    <3>1. u[m].parent = t[m].parent
      BY <1>4, <2>2
    <3>2. u[m].parent = Null <=> m = r
      BY <1>1, <2>2, <3>1 DEF ParentsFit
    <3>3. ASSUME t[m].parent # Null
          PROVE  t[m].parent \in T /\ \E d \in Sides : u[t[m].parent].kid[d] = m
      <4>1. PICK d \in Sides : t[m].parent \in T /\ t[t[m].parent].kid[d] = m
        BY <1>1, <2>2, <3>3 DEF ParentsFit
      <4>2. ~(t[m].parent = a /\ d = d0)
        BY <1>5, <2>2, <4>1
      <4> QED
        BY <1>4, <4>1, <4>2
    <3> QED
      BY <3>1, <3>2, <3>3
  <2> QED
    BY <2>1, <2>2
<1>8. RootFits(r, T2, sub2)
  <2>1. r # Null /\ r \in T /\ sub[r] = T
    BY <1>1 DEF RootFits
  <2> QED
    BY <1>3, <2>1 DEF RootFits
<1>9. Nested(u, T2, sub2)
  <2>1. \A m \in T2 : m \in sub2[m]
    BY <1>3, <1>5
  <2>2. ASSUME NEW m \in T2, NEW x \in sub2[m] PROVE sub2[x] \subseteq sub2[m]
    <3>1. CASE x = n
      BY <1>3, <2>2, <3>1
    <3>2. CASE x # n
      <4>1. m \in T /\ x \in sub[m] /\ x \in T
        BY <1>3, <1>5, <2>2, <3>2
      <4>2. sub[x] \subseteq sub[m]
        BY <1>1, <4>1 DEF Nested
      <4> QED
        BY <1>3, <4>1, <4>2
    <3> QED
      BY <3>1, <3>2
  <2>3. ASSUME NEW m \in T2, NEW x \in sub2[m], x # m PROVE u[x].parent \in sub2[m]
    <3>1. m \in T
      BY <1>3, <2>3
    <3>2. CASE x = n
      <4>1. a \in sub[m]
        BY <1>3, <1>5, <3>1, <3>2
      <4> QED
        BY <1>3, <1>4, <3>1, <3>2, <4>1
    <3>3. CASE x # n
      <4>1. x \in sub[m] /\ x \in T
        BY <1>3, <1>5, <3>1, <3>3
      <4>2. t[x].parent \in sub[m]
        BY <1>1, <2>3, <3>1, <4>1 DEF Nested
      <4> QED
        BY <1>3, <1>4, <3>1, <4>1, <4>2
    <3> QED
      BY <3>2, <3>3
  <2> QED
    BY <1>3, <2>1, <2>2, <2>3 DEF Nested
<1>10. KidsFit(u, sc2, T2, sub2)
  <2> SUFFICES ASSUME NEW m \in T2, NEW d \in Sides
               PROVE  /\ u[m].kid[d] = Null => \A x \in sub2[m] : ~On(sc2, d, x, m)
                      /\ u[m].kid[d] # Null =>
                            /\ u[m].kid[d] \in T2
                            /\ u[u[m].kid[d]].parent = m
                            /\ \A x \in T2 : x \in sub2[u[m].kid[d]] <=> x \in sub2[m] /\ On(sc2, d, x, m)
    BY DEF KidsFit
  <2>1. CASE m = n
    BY <1>3, <1>4, <1>6, <2>1
  <2>2. CASE m = a /\ d = d0
    <3>1. u[m].kid[d] = n
      BY <1>4, <2>2
    <3>2. \A x \in sub[m] : ~On(sc, d, x, m)
      BY <1>1, <2>2 DEF KidsFit
    <3>3. sub2[m] = sub[m] \cup {n}
      BY <1>3, <1>5, <2>2
    <3>4. \A x \in T2 : x \in sub2[n] <=> x \in sub2[m] /\ On(sc2, d, x, m)
      BY <1>2, <1>3, <1>5, <2>2, <3>2, <3>3
    <3> QED
      BY <1>4, <1>5, <2>2, <3>1, <3>4
  <2>3. CASE m \in T /\ ~(m = a /\ d = d0) /\ t[m].kid[d] = Null
    <3>1. u[m].kid[d] = Null
      BY <1>4, <2>3
    <3>2. \A x \in sub[m] : ~On(sc2, d, x, m)
      BY <1>1, <1>2, <1>5, <2>3 DEF KidsFit
    <3>3. n \in sub2[m] => ~On(sc2, d, n, m)
      <4> SUFFICES ASSUME n \in sub2[m] PROVE ~On(sc2, d, n, m)
        OBVIOUS
      <4>1. a \in sub[m]
        BY <1>3, <1>5, <2>3
      <4>2. CASE m = a
        <5>1. d = Other(d0)
          BY <2>3, <4>2, SidesAre
        <5> QED
          BY <1>5, <2>3, <4>2, <5>1 DEF Ordered
      <4>3. CASE m # a
        BY <1>2, <2>3, <3>2, <4>1, <4>3
      <4> QED
        BY <4>2, <4>3
    <3>4. \A x \in sub2[m] : x \in sub[m] \/ x = n
      BY <1>3, <2>3
    <3> QED
      BY <3>1, <3>2, <3>3, <3>4
  <2>4. CASE m \in T /\ ~(m = a /\ d = d0) /\ t[m].kid[d] # Null
    <3> DEFINE k == t[m].kid[d]
    <3>1. /\ k \in T /\ t[k].parent = m
          /\ \A x \in T : x \in sub[k] <=> x \in sub[m] /\ On(sc, d, x, m)
      BY <1>1, <2>4 DEF KidsFit
    <3>2. u[m].kid[d] = k
      BY <1>4, <2>4
    <3> HIDE DEF k
    <3>3. u[k].parent = m
      BY <1>4, <3>1
    <3>4. \A x \in T : x \in sub2[k] <=> x \in sub2[m] /\ On(sc2, d, x, m)
      BY <1>2, <1>3, <1>5, <2>4, <3>1
    <3>5. n \in sub2[k] <=> n \in sub2[m] /\ On(sc2, d, n, m)
      <4>1. n \in sub2[k] <=> a \in sub[k]
        BY <1>3, <1>5, <3>1
      <4>2. n \in sub2[m] <=> a \in sub[m]
        BY <1>3, <1>5, <2>4
      <4>3. CASE m = a
        <5>1. d = Other(d0)
          BY <2>4, <4>3, SidesAre
        <5>2. ~On(sc2, d, n, a)
          BY <1>5, <5>1 DEF Ordered
        <5>3. ~On(sc, d, a, a)
          BY <1>1 DEF Ordered
        <5> QED
          BY <2>4, <3>1, <4>1, <4>3, <5>2, <5>3
      <4>4. CASE m # a
        BY <2>4, <3>1, <4>1, <4>2, <4>4
      <4> QED
        BY <4>3, <4>4
    <3>6. \A x \in T2 : x \in sub2[k] <=> x \in sub2[m] /\ On(sc2, d, x, m)
      BY <3>4, <3>5
    <3> QED
      BY <1>5, <3>1, <3>2, <3>3, <3>6
  <2> QED
    BY <2>1, <2>2, <2>3, <2>4
<1> QED
  BY <1>1, <1>4, <1>7, <1>8, <1>9, <1>10 DEF Shape, sub2

\* u is the tree t without v, which has no child on the other side of s: its
\* child on side s has taken its place.
Spliced(t, u, T, v, s) ==
    /\ u \in [Names -> AVLNode]
    /\ \A m \in T \ {v} : u[m].parent = IF m = t[v].kid[s] THEN t[v].parent ELSE t[m].parent
    /\ \A m \in T \ {v}, d \in Sides :
          u[m].kid[d] = IF t[m].kid[d] = v THEN t[v].kid[s] ELSE t[m].kid[d]

\* A node with one child at most is taken out of the tree.
LEMMA SpliceShape ==
    ASSUME NEW t, NEW r, NEW sc, NEW T, NEW sub, Shape(t, r, sc, T, sub),
           NEW v \in T, NEW s \in Sides, t[v].kid[Other(s)] = Null,
           NEW u, Spliced(t, u, T, v, s)
    PROVE  Shape(u, IF t[v].parent = Null THEN t[v].kid[s] ELSE r, sc, T \ {v},
                 [m \in T \ {v} |-> sub[m] \ {v}])
<1> DEFINE T2 == T \ {v}
           sub2 == [m \in T2 |-> sub[m] \ {v}]
           c == t[v].kid[s]
           p == t[v].parent
           r2 == IF p = Null THEN c ELSE r
<1>1. /\ t \in [Names -> AVLNode] /\ T \subseteq Names /\ Ordered(sc, T)
      /\ KidsFit(t, sc, T, sub) /\ ParentsFit(t, r, T) /\ Nested(t, T, sub)
      /\ RootFits(r, T, sub)
  BY DEF Shape
<1>2. sub2 \in [T2 -> SUBSET T2] /\ \A m \in T2 : sub2[m] = sub[m] \ {v}
  BY <1>1 DEF Nested
<1>3. /\ \A m \in T2 : u[m].parent = IF m = c THEN p ELSE t[m].parent
      /\ \A m \in T2, d \in Sides : u[m].kid[d] = IF t[m].kid[d] = v THEN c ELSE t[m].kid[d]
  BY DEF Spliced
<1>4. /\ \A m \in T : m \in sub[m] /\ sub[m] \subseteq T /\ m # Null
  BY <1>1, NullIsNoName DEF Nested
<1>5. c # Null => /\ c \in T2 /\ t[c].parent = v /\ On(sc, s, c, v) /\ c \in sub[v]
                  /\ sub[c] = sub[v] \ {v}
  <2> SUFFICES ASSUME c # Null
               PROVE  /\ c \in T2 /\ t[c].parent = v /\ On(sc, s, c, v) /\ c \in sub[v]
                      /\ sub[c] = sub[v] \ {v}
    OBVIOUS
  <2>1. c \in T /\ c # v /\ t[c].parent = v /\ On(sc, s, c, v) /\ c \in sub[v]
    BY Kin
  <2>2. \A x \in T : x \in sub[c] <=> x \in sub[v] /\ On(sc, s, x, v)
    BY <1>1 DEF KidsFit
  <2>3. \A x \in sub[v] : ~On(sc, Other(s), x, v)
    BY <1>1, SidesAre DEF KidsFit
  <2>4. \A x \in T : x \in sub[v] /\ On(sc, s, x, v) <=> x \in sub[v] /\ x # v
    BY <1>1, <2>3 DEF Ordered
  <2>5. sub[c] \subseteq T /\ sub[v] \subseteq T
    BY <1>4, <2>1
  <2> HIDE DEF c
  <2> QED
    BY <2>1, <2>2, <2>4, <2>5
<1>6. c = Null => sub[v] = {v}
  <2> SUFFICES ASSUME c = Null PROVE sub[v] = {v}
    OBVIOUS
  <2>1. \A x \in sub[v], d \in Sides : ~On(sc, d, x, v)
    BY <1>1, SidesAre DEF KidsFit
  <2>2. \A x \in sub[v] : x \in T /\ (x # v => \E d \in Sides : On(sc, d, x, v))
    BY <1>1, <1>4, SidesAre DEF Ordered
  <2> QED
    BY <1>4, <2>1, <2>2
<1>7. p # Null => /\ p \in T2 /\ v \in sub[p] /\ (\E d \in Sides : t[p].kid[d] = v)
  <2> SUFFICES ASSUME p # Null
               PROVE  p \in T2 /\ v \in sub[p] /\ (\E d \in Sides : t[p].kid[d] = v)
    OBVIOUS
  <2>1. PICK d \in Sides : p \in T /\ t[p].kid[d] = v
    BY <1>1 DEF ParentsFit
  <2>2. v # p /\ v \in sub[p]
    BY <1>4, <2>1, Kin
  <2> QED
    BY <2>1, <2>2
<1> HIDE DEF c, p
<1>8. ParentsFit(u, r2, T2)
  <2> SUFFICES ASSUME NEW m \in T2
               PROVE  /\ u[m].parent = Null <=> m = r2
                      /\ u[m].parent # Null => /\ u[m].parent \in T2
                                               /\ \E d \in Sides : u[u[m].parent].kid[d] = m
    BY DEF ParentsFit
  <2>1. CASE m = c
    <3>1. u[m].parent = p /\ t[m].parent = v /\ c # Null
      BY <1>3, <1>4, <1>5, <2>1
    <3>2. m # r
      BY <1>1, <1>4, <3>1 DEF ParentsFit
    <3>3. p # Null => \E d \in Sides : u[p].kid[d] = m
      BY <1>3, <1>7, <2>1
    <3> QED
      BY <1>7, <2>1, <3>1, <3>2, <3>3
  <2>2. CASE m # c
    <3>1. u[m].parent = t[m].parent
      BY <1>3, <2>2
    <3>2. u[m].parent = Null <=> m = r
      BY <1>1, <3>1 DEF ParentsFit
    <3>3. p = Null => m # r
      BY <1>1, <3>1 DEF ParentsFit, p
    <3>4. ASSUME t[m].parent # Null
          PROVE  t[m].parent \in T2 /\ \E d \in Sides : u[t[m].parent].kid[d] = m
      <4>1. PICK d \in Sides : t[m].parent \in T /\ t[t[m].parent].kid[d] = m
        BY <1>1, <3>4 DEF ParentsFit
      <4>2. t[m].parent # v
        <5> SUFFICES ASSUME t[m].parent = v PROVE FALSE
          OBVIOUS
        <5>1. d = s \/ d = Other(s)
          BY SidesAre
        <5> QED
          BY <1>4, <2>2, <4>1, <5>1 DEF c
      <4> QED
        BY <1>3, <4>1, <4>2
    <3> QED
      BY <2>2, <3>1, <3>2, <3>3, <3>4
  <2> QED
    BY <2>1, <2>2
<1>9. RootFits(r2, T2, sub2)
  <2>0. r # Null /\ r \in T /\ sub[r] = T
    BY <1>1, <1>4 DEF RootFits
  <2>1. CASE p = Null
    <3>1. sub[v] = T
      BY <1>1, <2>0, <2>1 DEF ParentsFit, p
    <3>2. CASE c = Null
      BY <1>6, <2>1, <3>1, <3>2 DEF RootFits
    <3>3. CASE c # Null
      <4>1. sub2[c] = T2
        BY <1>2, <1>5, <3>1, <3>3
      <4> QED
        BY <1>5, <2>1, <3>3, <4>1 DEF RootFits
    <3> QED
      BY <3>2, <3>3
  <2>2. CASE p # Null
    <3>1. r # v
      BY <1>1, <2>2 DEF ParentsFit, p
    <3>2. r \in T2 /\ sub2[r] = T2
      BY <1>2, <2>0, <3>1
    <3> QED
      BY <2>0, <2>2, <3>2 DEF RootFits
  <2> QED
    BY <2>1, <2>2
<1>10. Nested(u, T2, sub2)
  <2>1. \A m \in T2 : m \in sub2[m]
    BY <1>2, <1>4
  <2>2. ASSUME NEW m \in T2, NEW x \in sub2[m] PROVE sub2[x] \subseteq sub2[m]
    <3>1. x \in sub[m] /\ x \in T2
      BY <1>2, <1>4
    <3>2. sub[x] \subseteq sub[m]
      BY <1>1, <3>1 DEF Nested
    <3> QED
      BY <1>2, <3>1, <3>2
  <2>3. ASSUME NEW m \in T2, NEW x \in sub2[m], x # m PROVE u[x].parent \in sub2[m]
    <3>1. x \in sub[m] /\ x \in T2
      BY <1>2, <1>4
    <3>2. t[x].parent \in sub[m]
      BY <1>1, <2>3, <3>1 DEF Nested
    <3>3. CASE x = c
      <4>1. c # Null /\ t[x].parent = v
        BY <1>4, <1>5, <3>1, <3>3
      <4>2. p \in sub[m]
        BY <1>1, <3>2, <4>1 DEF Nested, p
      <4>3. p # v
        BY <1>4, <1>7, <4>2
      <4> QED
        BY <1>2, <1>3, <3>1, <3>3, <4>2, <4>3
    <3>4. CASE x # c
      <4>1. u[x].parent = t[x].parent
        BY <1>3, <3>1, <3>4
      <4>2. t[x].parent # Null
        BY <1>4, <3>2
      <4>3. u[x].parent # v
        BY <1>8, <3>1, <4>1, <4>2 DEF ParentsFit
      <4> QED
        BY <1>2, <3>2, <4>1, <4>3
    <3> QED
      BY <3>3, <3>4
  <2> QED
    BY <1>2, <2>1, <2>2, <2>3 DEF Nested
<1>11. KidsFit(u, sc, T2, sub2)
  <2> SUFFICES ASSUME NEW m \in T2, NEW d \in Sides
               PROVE  /\ u[m].kid[d] = Null => \A x \in sub2[m] : ~On(sc, d, x, m)
                      /\ u[m].kid[d] # Null =>
                            /\ u[m].kid[d] \in T2
                            /\ u[u[m].kid[d]].parent = m
                            /\ \A x \in T2 : x \in sub2[u[m].kid[d]] <=> x \in sub2[m] /\ On(sc, d, x, m)
    BY DEF KidsFit
  <2>1. CASE t[m].kid[d] = v
    <3>1. u[m].kid[d] = c
      BY <1>3, <2>1
    <3>2. t[v].parent = m /\ \A x \in T : x \in sub[v] <=> x \in sub[m] /\ On(sc, d, x, m)
      BY <1>1, <1>4, <2>1 DEF KidsFit
    <3>3. CASE c = Null
      <4>1. \A x \in sub2[m] : ~On(sc, d, x, m)
        BY <1>2, <1>4, <1>6, <3>2, <3>3
      <4> QED
        BY <3>1, <3>3, <4>1
    <3>4. CASE c # Null
      <4>1. \A x \in T2 : x \in sub2[c] <=> x \in sub2[m] /\ On(sc, d, x, m)
        BY <1>2, <1>5, <3>2, <3>4
      <4>2. u[c].parent = m /\ c \in T2
        BY <1>3, <1>5, <3>2, <3>4 DEF p
      <4> QED
        BY <3>1, <3>4, <4>1, <4>2
    <3> QED
      BY <3>3, <3>4
  <2>2. CASE t[m].kid[d] # v /\ t[m].kid[d] = Null
    <3>1. u[m].kid[d] = Null
      BY <1>3, <2>2
    <3>2. \A x \in sub[m] : ~On(sc, d, x, m)
      BY <1>1, <2>2 DEF KidsFit
    <3> QED
      BY <1>2, <3>1, <3>2
  <2>3. CASE t[m].kid[d] # v /\ t[m].kid[d] # Null
    <3> DEFINE k == t[m].kid[d]
    <3>1. /\ k \in T2 /\ t[k].parent = m
          /\ \A x \in T : x \in sub[k] <=> x \in sub[m] /\ On(sc, d, x, m)
      BY <1>1, <2>3 DEF KidsFit
    <3>2. u[m].kid[d] = k
      BY <1>3, <2>3
    <3> HIDE DEF k
    <3>3. k # c
      BY <1>4, <1>5, <3>1
    <3>4. u[k].parent = m
      BY <1>3, <3>1, <3>3
    <3>5. \A x \in T2 : x \in sub2[k] <=> x \in sub2[m] /\ On(sc, d, x, m)
      BY <1>2, <3>1
    <3> QED
      BY <1>4, <3>1, <3>2, <3>4, <3>5
  <2> QED
    BY <2>1, <2>2, <2>3
<1>12. Ordered(sc, T2) /\ u \in [Names -> AVLNode]
  BY <1>1 DEF Ordered, Spliced
<1> QED
  BY <1>1, <1>8, <1>9, <1>10, <1>11, <1>12 DEF Shape, p, c

\* u is the tree t with v, which was not in it, in the place of g.
Replaced(t, u, T, g, v) ==
    /\ u \in [Names -> AVLNode]
    /\ u[v].parent = t[g].parent /\ \A d \in Sides : u[v].kid[d] = t[g].kid[d]
    /\ \A m \in T \ {g} : u[m].parent = IF t[m].parent = g THEN v ELSE t[m].parent
    /\ \A m \in T \ {g}, d \in Sides : u[m].kid[d] = IF t[m].kid[d] = g THEN v ELSE t[m].kid[d]

Renamed(S, g, v) == IF g \in S THEN (S \ {g}) \cup {v} ELSE S

ReplacedSub(sub, T, g, v) ==
    [m \in (T \ {g}) \cup {v} |-> Renamed(sub[IF m = v THEN g ELSE m], g, v)]

\* A node that has the same place in the order can replace another.
LEMMA ReplaceShape ==
    ASSUME NEW t, NEW r, NEW sc, NEW T, NEW sub, Shape(t, r, sc, T, sub),
           NEW g \in T, NEW v \in Names, v \notin T, Ordered(sc, T \cup {v}),
           \A m \in T \ {g}, d \in Sides : On(sc, d, v, m) <=> On(sc, d, g, m),
           NEW u, Replaced(t, u, T, g, v)
    PROVE  Shape(u, IF t[g].parent = Null THEN v ELSE r, sc, (T \ {g}) \cup {v},
                 ReplacedSub(sub, T, g, v))
<1> DEFINE T1 == T \ {g}
           T2 == T1 \cup {v}
           sub2 == ReplacedSub(sub, T, g, v)
           r2 == IF t[g].parent = Null THEN v ELSE r
<1>1. /\ t \in [Names -> AVLNode] /\ T \subseteq Names /\ Ordered(sc, T)
      /\ KidsFit(t, sc, T, sub) /\ ParentsFit(t, r, T) /\ Nested(t, T, sub)
      /\ RootFits(r, T, sub)
  BY DEF Shape
<1>2. /\ \A m \in T : m \in sub[m] /\ sub[m] \subseteq T /\ m # Null /\ m # v
      /\ v # Null
  BY <1>1, NullIsNoName DEF Nested
<1>3. /\ sub2 \in [T2 -> SUBSET T2]
      /\ \A m \in T1, x \in T1 : x \in sub2[m] <=> x \in sub[m]
      /\ \A m \in T1 : v \in sub2[m] <=> g \in sub[m]
      /\ \A x \in T1 : x \in sub2[v] <=> x \in sub[g]
      /\ v \in sub2[v]
      /\ \A m \in T2 : g \notin sub2[m]
  <2>1. \A m \in T2 : sub2[m] = Renamed(sub[IF m = v THEN g ELSE m], g, v)
    BY DEF ReplacedSub
  <2>2. \A m \in T : Renamed(sub[m], g, v) \in SUBSET T2
    BY <1>2 DEF Renamed
  <2>3. sub2 \in [T2 -> SUBSET T2]
    BY <2>2 DEF ReplacedSub
  <2>4. \A m \in T, x \in T1 : x \in Renamed(sub[m], g, v) <=> x \in sub[m]
    BY <1>2 DEF Renamed
  <2>5. \A m \in T : v \in Renamed(sub[m], g, v) <=> g \in sub[m]
    BY <1>2 DEF Renamed
  <2>6. \A m \in T : g \notin Renamed(sub[m], g, v)
    BY <1>2 DEF Renamed
  <2> HIDE DEF sub2
  <2>7. sub2[v] = Renamed(sub[g], g, v) /\ \A m \in T1 : sub2[m] = Renamed(sub[m], g, v)
    BY <1>2, <2>1
  <2>8. \A m \in T2 : g \notin sub2[m]
    BY <1>2, <2>6, <2>7
  <2> QED
    BY <1>2, <2>3, <2>4, <2>5, <2>7, <2>8
<1>4. /\ u \in [Names -> AVLNode]
      /\ u[v].parent = t[g].parent /\ (\A d \in Sides : u[v].kid[d] = t[g].kid[d])
      /\ (\A m \in T1 : u[m].parent = IF t[m].parent = g THEN v ELSE t[m].parent)
      /\ \A m \in T1, d \in Sides : u[m].kid[d] = IF t[m].kid[d] = g THEN v ELSE t[m].kid[d]
  BY DEF Replaced
<1>5. \A d \in Sides : /\ ~On(sc, d, v, v) /\ ~On(sc, d, g, g)
                       /\ \A m \in T1 : /\ On(sc, d, v, m) <=> On(sc, d, g, m)
                                        /\ On(sc, d, m, v) <=> On(sc, d, m, g)
  <2>1. \A d \in Sides : ~On(sc, d, v, v) /\ ~On(sc, d, g, g)
    BY DEF Ordered
  <2>2. \A d \in Sides, m \in T1 : On(sc, d, m, v) <=> On(sc, Other(d), v, m)
    BY DEF Ordered
  <2>3. \A d \in Sides, m \in T1 : On(sc, d, m, g) <=> On(sc, Other(d), g, m)
    BY DEF Ordered
  <2>4. \A d \in Sides, m \in T1 : On(sc, d, m, v) <=> On(sc, d, m, g)
    BY <2>2, <2>3, SidesAre
  <2> QED
    BY <2>1, <2>4
<1>6. t[g].parent # g /\ \A d \in Sides : t[g].kid[d] # g
  <2>1. \A d \in Sides : t[g].kid[d] # g
    <3> SUFFICES ASSUME NEW d \in Sides, t[g].kid[d] = g PROVE FALSE
      OBVIOUS
    <3> QED
      BY <1>2, Kin
  <2>2. t[g].parent # g
    BY <1>1, <1>2, <2>1 DEF ParentsFit
  <2> QED
    BY <2>1, <2>2
<1> HIDE DEF sub2
<1>7. ParentsFit(u, r2, T2)
  <2> SUFFICES ASSUME NEW m \in T2
               PROVE  /\ u[m].parent = Null <=> m = r2
                      /\ u[m].parent # Null => /\ u[m].parent \in T2
                                               /\ \E d \in Sides : u[u[m].parent].kid[d] = m
    BY DEF ParentsFit
  <2>1. CASE m = v
    <3>1. u[m].parent = t[g].parent
      BY <1>4, <2>1
    <3>2. r # v
      BY <1>1, <1>2 DEF RootFits
    <3>3. ASSUME t[g].parent # Null
          PROVE  t[g].parent \in T1 /\ \E d \in Sides : u[t[g].parent].kid[d] = v
      <4>1. PICK d \in Sides : t[g].parent \in T /\ t[t[g].parent].kid[d] = g
        BY <1>1, <3>3 DEF ParentsFit
      <4> QED
        BY <1>4, <1>6, <4>1
    <3> QED
      BY <2>1, <3>1, <3>2, <3>3
  <2>2. CASE m \in T1 /\ t[m].parent = g
    <3>1. u[m].parent = v /\ m # r
      BY <1>1, <1>2, <1>4, <2>2 DEF ParentsFit
    <3>2. PICK d \in Sides : t[g].kid[d] = m
      BY <1>1, <1>2, <2>2 DEF ParentsFit
    <3> QED
      BY <1>2, <1>4, <2>2, <3>1, <3>2
  <2>3. CASE m \in T1 /\ t[m].parent # g
    <3>1. u[m].parent = t[m].parent
      BY <1>4, <2>3
    <3>2. u[m].parent = Null <=> m = r
      BY <1>1, <2>3, <3>1 DEF ParentsFit
    <3>3. t[g].parent = Null => g = r
      BY <1>1 DEF ParentsFit
    <3>4. ASSUME t[m].parent # Null
          PROVE  t[m].parent \in T1 /\ \E d \in Sides : u[t[m].parent].kid[d] = m
      <4>1. PICK d \in Sides : t[m].parent \in T /\ t[t[m].parent].kid[d] = m
        BY <1>1, <2>3, <3>4 DEF ParentsFit
      <4> QED
        BY <1>4, <2>3, <4>1
    <3> QED
      BY <1>2, <2>3, <3>1, <3>2, <3>3, <3>4
  <2> QED
    BY <2>1, <2>2, <2>3
<1>8. RootFits(r2, T2, sub2)
  <2>0. r # Null /\ r \in T /\ sub[r] = T
    BY <1>1, <1>2 DEF RootFits
  <2>1. CASE t[g].parent = Null
    <3>1. sub[g] = T
      BY <1>1, <2>0, <2>1 DEF ParentsFit
    <3>2. sub2[v] = T2
      BY <1>3, <3>1
    <3> QED
      BY <1>2, <2>1, <3>2 DEF RootFits
  <2>2. CASE t[g].parent # Null
    <3>1. r \in T1
      BY <1>1, <2>0, <2>2 DEF ParentsFit
    <3>2. sub2[r] = T2
      BY <1>3, <2>0, <3>1
    <3> QED
      BY <2>0, <2>2, <3>1, <3>2 DEF RootFits
  <2> QED
    BY <2>1, <2>2
<1>9. Nested(u, T2, sub2)
  <2>1. \A m \in T2 : m \in sub2[m]
    BY <1>2, <1>3
  <2>2. ASSUME NEW m \in T2, NEW x \in sub2[m] PROVE sub2[x] \subseteq sub2[m]
    <3> DEFINE m0 == IF m = v THEN g ELSE m
               x0 == IF x = v THEN g ELSE x
    <3>1. x \in T2 /\ x # g /\ m # g
      BY <1>2, <1>3
    <3>2. m0 \in T /\ x0 \in T /\ x0 \in sub[m0]
      BY <1>2, <1>3, <3>1, <2>2
    <3>3. sub[x0] \subseteq sub[m0]
      BY <1>1, <3>2 DEF Nested
    <3>4. \A y \in T1 : y \in sub2[x] => y \in sub2[m]
      BY <1>2, <1>3, <3>1, <3>3
    <3>5. v \in sub2[x] => v \in sub2[m]
      BY <1>2, <1>3, <3>1, <3>3
    <3> QED
      BY <1>3, <3>1, <3>4, <3>5
  <2>3. ASSUME NEW m \in T2, NEW x \in sub2[m], x # m PROVE u[x].parent \in sub2[m]
    <3> DEFINE m0 == IF m = v THEN g ELSE m
               x0 == IF x = v THEN g ELSE x
    <3>1. x \in T2 /\ x # g /\ m # g
      BY <1>2, <1>3
    <3>2. m0 \in T /\ x0 \in T /\ x0 \in sub[m0] /\ x0 # m0
      BY <1>2, <1>3, <3>1, <2>3
    <3>3. t[x0].parent \in sub[m0]
      BY <1>1, <3>2 DEF Nested
    <3>4. u[x].parent = IF t[x0].parent = g THEN v ELSE t[x0].parent
      BY <1>4, <1>6, <3>1
    <3>5. \A y \in sub[m0] : y \in T /\ (IF y = g THEN v ELSE y) \in sub2[m]
      BY <1>2, <1>3, <3>1, <3>2
    <3> HIDE DEF m0, x0
    <3> QED
      BY <3>3, <3>4, <3>5
  <2> QED
    BY <1>3, <2>1, <2>2, <2>3 DEF Nested
<1>10. KidsFit(u, sc, T2, sub2)
  <2> SUFFICES ASSUME NEW m \in T2, NEW d \in Sides
               PROVE  /\ u[m].kid[d] = Null => \A x \in sub2[m] : ~On(sc, d, x, m)
                      /\ u[m].kid[d] # Null =>
                            /\ u[m].kid[d] \in T2
                            /\ u[u[m].kid[d]].parent = m
                            /\ \A x \in T2 : x \in sub2[u[m].kid[d]] <=> x \in sub2[m] /\ On(sc, d, x, m)
    BY DEF KidsFit
  <2> DEFINE m0 == IF m = v THEN g ELSE m
             k0 == t[m0].kid[d]
             k == u[m].kid[d]
  <2>1. m0 \in T /\ m # g
    BY <1>2
  <2>2. k = IF k0 = g THEN v ELSE k0
    BY <1>2, <1>4, <1>6
  <2>3. \A x \in T1 : /\ x \in sub2[m] <=> x \in sub[m0]
                      /\ On(sc, d, x, m) <=> On(sc, d, x, m0)
    BY <1>3, <1>5, <2>1
  <2>4. v \in sub2[m] /\ On(sc, d, v, m) <=> g \in sub[m0] /\ On(sc, d, g, m0)
    BY <1>2, <1>3, <1>5, <2>1
  <2>5. CASE k0 = Null
    <3>1. \A x \in sub[m0] : ~On(sc, d, x, m0)
      BY <1>1, <2>1, <2>5 DEF KidsFit
    <3>2. \A x \in sub2[m] : ~On(sc, d, x, m)
      <4>1. \A x \in sub2[m] : x \in T1 \/ x = v
        BY <1>3
      <4> HIDE DEF m0
      <4> QED
        BY <2>3, <2>4, <3>1, <4>1
    <3>3. k = Null
      BY <1>2, <2>2, <2>5
    <3> QED
      BY <3>2, <3>3
  <2>6. CASE k0 # Null
    <3>1. /\ k0 \in T /\ t[k0].parent = m0
          /\ \A x \in T : x \in sub[k0] <=> x \in sub[m0] /\ On(sc, d, x, m0)
      BY <1>1, <2>1, <2>6 DEF KidsFit
    <3>2. k \in T2 /\ k # Null /\ k # g
      BY <1>2, <2>2, <3>1
    <3>3. \A x \in T1 : x \in sub2[k] <=> x \in sub[k0]
      <4> HIDE DEF k, k0
      <4> QED
        BY <1>2, <1>3, <2>2, <3>1
    <3>4. v \in sub2[k] <=> g \in sub[k0]
      <4> HIDE DEF k, k0
      <4> QED
        BY <1>2, <1>3, <2>2, <3>1
    <3>5. u[k].parent = m
      <4>1. CASE k0 = g
        <5>1. k = v /\ m0 # g
          BY <1>6, <2>2, <4>1
        <5> QED
          BY <1>4, <3>1, <4>1, <5>1
      <4>2. CASE k0 # g
        <5>1. k = k0 /\ k \in T1
          BY <2>2, <3>1, <4>2
        <5>2. u[k].parent = IF m0 = g THEN v ELSE m0
          BY <1>4, <3>1, <5>1
        <5> QED
          BY <2>1, <5>2
      <4> QED
        BY <4>1, <4>2
    <3>6. \A x \in T2 : x \in sub2[k] <=> x \in sub2[m] /\ On(sc, d, x, m)
      <4> HIDE DEF k, k0, m0
      <4>1. \A x \in T1 : x \in sub2[k] <=> x \in sub2[m] /\ On(sc, d, x, m)
        BY <2>3, <3>1, <3>3
      <4>2. v \in sub2[k] <=> v \in sub2[m] /\ On(sc, d, v, m)
        BY <2>4, <3>1, <3>4
      <4> QED
        BY <4>1, <4>2
    <3>7. u[m].kid[d] = k
      OBVIOUS
    <3> HIDE DEF k, k0, m0
    <3> QED
      BY <3>2, <3>5, <3>6, <3>7
  <2> QED
    BY <2>5, <2>6
<1>11. Ordered(sc, T2)
  BY DEF Ordered
<1> QED
  BY <1>1, <1>4, <1>7, <1>8, <1>9, <1>10, <1>11 DEF Shape, sub2

-----------------------------------------------------------------------------
(* Walks down the tree.                                                    *)

LEMMA SubFinite ==
    ASSUME NEW t, NEW r, NEW sc, NEW T, NEW sub, Shape(t, r, sc, T, sub), IsFiniteSet(T)
    PROVE  /\ Cardinality(T) \in Nat
           /\ \A m \in T : /\ IsFiniteSet(sub[m]) /\ Cardinality(sub[m]) \in Nat
                           /\ Cardinality(sub[m]) <= Cardinality(T)
                           /\ Cardinality(sub[m]) # 0
           /\ \A m, k \in T : sub[k] \subseteq sub[m] /\ m \notin sub[k]
                                => Cardinality(sub[k]) < Cardinality(sub[m])
<1>1. \A m \in T : m \in sub[m] /\ sub[m] \subseteq T
  BY DEF Shape, Nested
<1>2. \A m \in T : /\ IsFiniteSet(sub[m]) /\ Cardinality(sub[m]) \in Nat
                   /\ Cardinality(sub[m]) <= Cardinality(T)
  BY <1>1, FS_Subset, FS_CardinalityType
<1>3. \A m \in T : Cardinality(sub[m]) # 0
  BY <1>1, <1>2, FS_EmptySet
<1>4. ASSUME NEW m \in T, NEW k \in T, sub[k] \subseteq sub[m], m \notin sub[k]
      PROVE  Cardinality(sub[k]) < Cardinality(sub[m])
  <2>1. sub[k] # sub[m]
    BY <1>1, <1>4
  <2>2. Cardinality(sub[k]) <= Cardinality(sub[m]) /\ (Cardinality(sub[k]) = Cardinality(sub[m]) => sub[k] = sub[m])
    BY <1>2, <1>4, FS_Subset
  <2> QED
    BY <1>2, <2>1, <2>2
<1> QED
  BY <1>2, <1>3, <1>4, FS_CardinalityType

\* A node that is not in a subtree is on one side of all of it.
LEMMA Aside ==
    ASSUME NEW t, NEW r, NEW sc, NEW T, NEW sub, Shape(t, r, sc, T, sub), IsFiniteSet(T),
           NEW m \in T, NEW x \in T \ sub[m]
    PROVE  \E d \in Sides : \A y \in sub[m] : On(sc, d, x, y)
<1> DEFINE Beside(k) == \A z \in T \ sub[k] : \E d \in Sides : \A y \in sub[k] : On(sc, d, z, y)
           Good == {k \in T : Beside(k)}
           rank == [k \in T |-> Cardinality(T) - Cardinality(sub[k])]
<1>1. rank \in [T -> Nat]
  BY SubFinite
<1>2. ASSUME NEW k \in T, \A l \in T : rank[l] < rank[k] => l \in Good PROVE k \in Good
  <2>1. CASE t[k].parent = Null
    <3>1. k = r /\ k # Null
      BY <2>1, NullIsNoName DEF Shape, ParentsFit
    <3>2. sub[k] = T
      BY <3>1 DEF Shape, RootFits
    <3> QED
      BY <3>2
  <2>2. CASE t[k].parent # Null
    <3> DEFINE p == t[k].parent
    <3>1. PICK e \in Sides : p \in T /\ t[p].kid[e] = k
      BY <2>2 DEF Shape, ParentsFit
    <3>2. k # Null
      BY NullIsNoName DEF Shape
    <3> HIDE DEF p
    <3>3. p \notin sub[k] /\ sub[k] \subseteq sub[p]
      BY <3>1, <3>2, Kin
    <3>4. rank[p] < rank[k]
      BY <3>1, <3>3, SubFinite
    <3>5. Beside(p)
      BY <1>2, <3>1, <3>4
    <3>6. \A z \in T : z \in sub[k] <=> z \in sub[p] /\ On(sc, e, z, p)
      BY <3>1, <3>2 DEF Shape, KidsFit
    <3>7. Ordered(sc, T) /\ sub[k] \subseteq T
      BY DEF Shape, Nested
    <3>8. \A y \in sub[k] : On(sc, Other(e), p, y)
      BY <3>1, <3>6, <3>7 DEF Ordered
    <3>9. ASSUME NEW z \in T \ sub[k]
          PROVE  \E d \in Sides : \A y \in sub[k] : On(sc, d, z, y)
      <4>1. CASE z \notin sub[p]
        BY <3>3, <3>5, <4>1
      <4>2. CASE z = p
        BY <3>8, <4>2, SidesAre
      <4>3. CASE z \in sub[p] /\ z # p
        <5>1. On(sc, Other(e), z, p)
          BY <3>1, <3>6, <3>7, <4>3, SidesAre DEF Ordered
        <5>2. \A y \in sub[k] : On(sc, Other(e), z, y)
          BY <3>1, <3>7, <3>8, <5>1, SidesAre DEF Ordered
        <5> QED
          BY <5>2, SidesAre
      <4> QED
        BY <4>1, <4>2, <4>3
    <3> QED
      BY <3>9
  <2> QED
    BY <2>1, <2>2
<1>3. T \subseteq Good
  <2> HIDE DEF Good, rank
  <2> QED
    BY ONLY <1>1, <1>2, RankInduction
<1> QED
  BY <1>3

\* Every step down from a name lowers its level.
Grounded(lv, N) ==
    /\ N \in Nat /\ lv \in [Names \cup {Null} -> Nat]
    /\ tree \in [Names -> AVLNode]
    /\ \A m \in Names \cup {Null} : lv[m] < N
    /\ \A m \in Names, s \in Sides : lv[tree[m].kid[s]] < lv[m]

\* The level of a node is the size of its subtree; a record that is not in the
\* tree may point into it.
LEMMA TreeGrounded ==
    ASSUME NEW r, NEW sc, NEW T, NEW sub, Shape(tree, r, sc, T, sub), IsFiniteSet(T),
           \A m \in Names \ T, s \in Sides : tree[m].kid[s] \in T \cup {Null}
    PROVE  \E lv, N : Grounded(lv, N) /\ \A m \in T : lv[m] = Cardinality(sub[m])
<1> DEFINE lv == [m \in Names \cup {Null} |-> IF m = Null THEN 0
                    ELSE IF m \in T THEN Cardinality(sub[m]) ELSE Cardinality(T) + 1]
           N == Cardinality(T) + 2
<1>1. Cardinality(T) \in Nat /\ T \subseteq Names /\ Null \notin Names
  BY SubFinite, NullIsNoName DEF Shape
<1>2. lv \in [Names \cup {Null} -> Nat] /\ N \in Nat /\ \A m \in Names \cup {Null} : lv[m] < N
  BY <1>1, SubFinite
<1>3. lv[Null] = 0 /\ (\A m \in T : lv[m] = Cardinality(sub[m]) /\ lv[m] <= Cardinality(T) /\ lv[m] > 0)
      /\ \A m \in Names \ T : lv[m] = Cardinality(T) + 1
  BY <1>1, SubFinite
<1> HIDE DEF lv
<1>4. ASSUME NEW m \in Names, NEW s \in Sides PROVE lv[tree[m].kid[s]] < lv[m]
  <2>1. CASE tree[m].kid[s] = Null
    BY <1>1, <1>3, <2>1
  <2>2. CASE tree[m].kid[s] # Null /\ m \notin T
    <3>1. tree[m].kid[s] \in T
      BY <2>2
    <3>2. lv[tree[m].kid[s]] <= Cardinality(T) /\ lv[tree[m].kid[s]] \in Nat
      BY <1>1, <1>2, <1>3, <3>1
    <3>3. lv[m] = Cardinality(T) + 1
      BY <1>3, <2>2
    <3> QED
      BY <1>1, <3>2, <3>3
  <2>3. CASE tree[m].kid[s] # Null /\ m \in T
    <3>1. tree[m].kid[s] \in T /\ m \notin sub[tree[m].kid[s]] /\ sub[tree[m].kid[s]] \subseteq sub[m]
      BY <2>3, Kin
    <3> QED
      BY <1>3, <2>3, <3>1, SubFinite
  <2> QED
    BY <2>1, <2>2, <2>3
<1> QED
  BY <1>2, <1>3, <1>4 DEF Grounded, Shape

LEMMA LeftmostIs ==
    ASSUME NEW lv, NEW N, Grounded(lv, N), NEW n \in Names
    PROVE  \E f \in [Names -> Names] :
              /\ \A m \in Names : f[m] = IF tree[m].kid["left"] = Null THEN m
                                         ELSE f[tree[m].kid["left"]]
              /\ Leftmost(n) = f[n]
<1> DEFINE step(m, f) == IF tree[m].kid["left"] = Null THEN m ELSE f[tree[m].kid["left"]]
           G == [m \in Names |-> [f \in [Names -> Names] |-> step(m, f)]]
           rank == [m \in Names |-> lv[m]]
<1>0. \A m \in Names : tree[m].kid["left"] \in Names \cup {Null} /\ lv[tree[m].kid["left"]] < lv[m]
  BY KidType, SidesAre DEF Grounded
<1>1. G \in [Names -> [[Names -> Names] -> Names]]
  BY <1>0
<1>2. rank \in [Names -> Nat] /\ (\A m \in Names : rank[m] < N) /\ N \in Nat /\ Names # {}
  BY DEF Grounded
<1>3. \A m \in Names, f, g \in [Names -> Names] :
              (\A k \in Names : rank[k] < rank[m] => f[k] = g[k]) => G[m][f] = G[m][g]
  BY <1>0
<1>4. \E f \in [Names -> Names] : \A m \in Names : f[m] = G[m][f]
  <2> HIDE DEF G, rank
  <2>1. WellRanked(Names, Names, N, rank, G)
    BY <1>1, <1>2, <1>3 DEF WellRanked
  <2> QED
    BY <2>1, Recursion
<1>5. \E f \in [Names -> Names] : f = [m \in Names |-> IF tree[m].kid["left"] = Null THEN m
                                                      ELSE f[tree[m].kid["left"]]]
  <2>1. PICK f \in [Names -> Names] : \A m \in Names : f[m] = G[m][f]
    BY <1>4
  <2>2. \A m \in Names : f[m] = step(m, f)
    BY <2>1
  <2> QED
    BY <2>2
<1> DEFINE w == CHOOSE f : f = [m \in Names |-> IF tree[m].kid["left"] = Null THEN m
                                              ELSE f[tree[m].kid["left"]]]
<1>6. w = [m \in Names |-> IF tree[m].kid["left"] = Null THEN m ELSE w[tree[m].kid["left"]]]
  BY <1>5
<1>7. Leftmost(n) = w[n]
  BY DEF Leftmost
<1>8. w \in [Names -> Names]
  <2>1. rank \in [Names -> Nat]
    BY <1>2
  <2> DEFINE Good == {m \in Names : w[m] \in Names}
  <2> HIDE DEF w
  <2>2. \A m \in Names : (\A k \in Names : rank[k] < rank[m] => k \in Good) => m \in Good
    BY <1>0, <1>6
  <2>3. Names \subseteq Good
    <3> HIDE DEF Good, rank
    <3> QED
      BY ONLY <2>1, <2>2, RankInduction
  <2> QED
    BY <1>6, <2>3
<1> HIDE DEF w
<1> QED
  BY <1>6, <1>7, <1>8

\* the side on which the search of tree_insert() leaves m
Turn(key, m) == IF zless(key, Key(m)) THEN "left" ELSE "right"

LEMMA PlaceIs ==
    ASSUME NEW lv, NEW N, Grounded(lv, N), NEW key, root \in Names
    PROVE  \E f \in [Names -> Names \X Sides] :
              /\ \A m \in Names : f[m] = IF tree[m].kid[Turn(key, m)] = Null THEN <<m, Turn(key, m)>>
                                         ELSE f[tree[m].kid[Turn(key, m)]]
              /\ Place(key) = f[root]
<1> DEFINE V == Names \X Sides
           step(m, f) == IF tree[m].kid[Turn(key, m)] = Null THEN <<m, Turn(key, m)>>
                         ELSE f[tree[m].kid[Turn(key, m)]]
           G == [m \in Names |-> [f \in [Names -> V] |-> step(m, f)]]
           rank == [m \in Names |-> lv[m]]
<1>0. \A m \in Names : /\ Turn(key, m) \in Sides
                       /\ tree[m].kid[Turn(key, m)] \in Names \cup {Null}
                       /\ lv[tree[m].kid[Turn(key, m)]] < lv[m]
  <2>1. \A m \in Names : Turn(key, m) \in Sides
    BY DEF Turn, Sides
  <2> QED
    BY <2>1, KidType DEF Grounded
<1>1. G \in [Names -> [[Names -> V] -> V]]
  <2>1. \A m \in Names, f \in [Names -> V] : step(m, f) \in V
    BY <1>0
  <2> HIDE DEF step, V
  <2> QED
    BY <2>1
<1>2. rank \in [Names -> Nat] /\ (\A m \in Names : rank[m] < N) /\ N \in Nat /\ V # {}
  <2>1. V # {}
    <3>1. <<root, "left">> \in V
      BY DEF Sides
    <3> QED
      BY <3>1
  <2> QED
    BY <2>1 DEF Grounded
<1>3. \A m \in Names, f, g \in [Names -> V] :
              (\A k \in Names : rank[k] < rank[m] => f[k] = g[k]) => G[m][f] = G[m][g]
  BY <1>0
<1>4. \E f \in [Names -> V] : \A m \in Names : f[m] = G[m][f]
  <2> HIDE DEF G, rank, V
  <2>1. WellRanked(Names, V, N, rank, G)
    BY <1>1, <1>2, <1>3 DEF WellRanked
  <2> QED
    BY <2>1, Recursion
<1>5. \E f : f = [m \in Names |-> step(m, f)]
  <2>1. PICK f \in [Names -> V] : \A m \in Names : f[m] = G[m][f]
    BY <1>4
  <2>2. \A m \in Names : f[m] = step(m, f)
    BY <2>1
  <2> QED
    BY <2>2
<1> DEFINE w == CHOOSE f : f = [m \in Names |-> step(m, f)]
<1>6. w = [m \in Names |-> step(m, w)]
  BY <1>5
<1>7. Place(key) = w[root]
  BY DEF Place, Turn
<1>8. w \in [Names -> V]
  <2>1. rank \in [Names -> Nat]
    BY <1>2
  <2> DEFINE Good == {m \in Names : w[m] \in V}
  <2> HIDE DEF w
  <2>2. \A m \in Names : (\A k \in Names : rank[k] < rank[m] => k \in Good) => m \in Good
    <3> SUFFICES ASSUME NEW m \in Names, \A k \in Names : rank[k] < rank[m] => k \in Good
                 PROVE  w[m] \in V
      OBVIOUS
    <3>1. w[m] = step(m, w)
      BY <1>6
    <3> QED
      BY <1>0, <3>1
  <2>3. Names \subseteq Good
    <3> HIDE DEF Good, rank
    <3> QED
      BY ONLY <2>1, <2>2, RankInduction
  <2> QED
    BY <1>6, <2>3
<1> HIDE DEF w
<1> QED
  BY <1>6, <1>7, <1>8

LEMMA SubtreeIs ==
    ASSUME NEW lv, NEW N, Grounded(lv, N)
    PROVE  /\ Subtree(Null) = {}
           /\ \A m \in Names : /\ Subtree(m) \subseteq Names
                               /\ Subtree(m) = {m} \cup UNION {Subtree(tree[m].kid[s]) : s \in Sides}
<1> DEFINE S == Names \cup {Null}
           V == SUBSET Names
           step(m, f) == IF m = Null THEN {} ELSE {m} \cup UNION {f[tree[m].kid[s]] : s \in Sides}
           G == [m \in S |-> [f \in [S -> V] |-> step(m, f)]]
<1>0. /\ \A m \in Names, s \in Sides : tree[m].kid[s] \in S /\ lv[tree[m].kid[s]] < lv[m]
      /\ lv \in [S -> Nat] /\ (\A m \in S : lv[m] < N) /\ N \in Nat /\ V # {}
  BY KidType DEF Grounded
<1>1. G \in [S -> [[S -> V] -> V]]
  <2>1. \A m \in S, f \in [S -> V] : step(m, f) \in V
    <3> SUFFICES ASSUME NEW m \in S, NEW f \in [S -> V] PROVE step(m, f) \in V
      OBVIOUS
    <3>1. m # Null => \A s \in Sides : f[tree[m].kid[s]] \in SUBSET Names
      BY <1>0
    <3> QED
      BY <3>1
  <2> HIDE DEF step, V, S
  <2> QED
    BY <2>1
<1>3. \A m \in S, f, g \in [S -> V] :
              (\A k \in S : lv[k] < lv[m] => f[k] = g[k]) => G[m][f] = G[m][g]
  <2> SUFFICES ASSUME NEW m \in S, NEW f \in [S -> V], NEW g \in [S -> V],
                      \A k \in S : lv[k] < lv[m] => f[k] = g[k]
               PROVE  G[m][f] = G[m][g]
    OBVIOUS
  <2>1. m # Null => \A s \in Sides : f[tree[m].kid[s]] = g[tree[m].kid[s]]
    BY <1>0
  <2>2. m # Null => {f[tree[m].kid[s]] : s \in Sides} = {g[tree[m].kid[s]] : s \in Sides}
    BY <2>1
  <2>3. step(m, f) = step(m, g)
    BY <2>2
  <2> HIDE DEF step, V, S
  <2> QED
    BY <2>3
<1>4. \E f \in [S -> V] : \A m \in S : f[m] = G[m][f]
  <2> HIDE DEF G, V, S
  <2>1. WellRanked(S, V, N, lv, G)
    BY <1>0, <1>1, <1>3 DEF WellRanked
  <2> QED
    BY <2>1, Recursion
<1>5. \E f : f = [m \in S |-> step(m, f)]
  <2>1. PICK f \in [S -> V] : \A m \in S : f[m] = G[m][f]
    BY <1>4
  <2>2. \A m \in S : f[m] = step(m, f)
    BY <2>1
  <2> QED
    BY <2>2
<1> DEFINE w == CHOOSE f : f = [m \in S |-> step(m, f)]
<1>6. w = [m \in S |-> step(m, w)]
  BY <1>5
<1>7. \A n : Subtree(n) = w[n]
  BY DEF Subtree
<1>8. \A m \in S : w[m] \in V
  <2> DEFINE Good == {m \in S : w[m] \in V}
  <2> HIDE DEF w
  <2>1. w[Null] = {} /\ \A m \in Names : w[m] = {m} \cup UNION {w[tree[m].kid[s]] : s \in Sides}
    BY <1>6, NullIsNoName
  <2>2. \A m \in S : (\A k \in S : lv[k] < lv[m] => k \in Good) => m \in Good
    <3> SUFFICES ASSUME NEW m \in S, \A k \in S : lv[k] < lv[m] => k \in Good PROVE w[m] \in V
      OBVIOUS
    <3>1. m # Null => \A s \in Sides : w[tree[m].kid[s]] \in V
      BY <1>0
    <3> QED
      BY <2>1, <3>1
  <2>3. S \subseteq Good
    <3> HIDE DEF Good, S
    <3> QED
      BY ONLY <1>0, <2>2, RankInduction
  <2> QED
    BY <2>3
<1> HIDE DEF w
<1>9. w[Null] = {} /\ \A m \in Names : w[m] = {m} \cup UNION {w[tree[m].kid[s]] : s \in Sides}
  BY <1>6, NullIsNoName
<1>10. \A m \in Names : {Subtree(tree[m].kid[s]) : s \in Sides} = {w[tree[m].kid[s]] : s \in Sides}
  BY <1>7
<1> QED
  BY <1>7, <1>8, <1>9, <1>10

\* A walk over the subtree meets the nodes of sub.
LEMMA SubtreeExact ==
    ASSUME NEW r, NEW sc, NEW T, NEW sub, Shape(tree, r, sc, T, sub), IsFiniteSet(T),
           \A m \in Names \ T, s \in Sides : tree[m].kid[s] \in T \cup {Null}
    PROVE  Subtree(Null) = {} /\ \A m \in T : Subtree(m) = sub[m]
<1>1. PICK lv, N : Grounded(lv, N) /\ \A m \in T : lv[m] = Cardinality(sub[m])
  BY TreeGrounded
<1>2. /\ Subtree(Null) = {}
      /\ \A m \in Names : Subtree(m) = {m} \cup UNION {Subtree(tree[m].kid[s]) : s \in Sides}
  BY <1>1, SubtreeIs
<1> DEFINE Good == {m \in T : Subtree(m) = sub[m]}
           rank == [m \in T |-> lv[m]]
<1>3. T \subseteq Names /\ Ordered(sc, T) /\ KidsFit(tree, sc, T, sub) /\ Nested(tree, T, sub)
  BY DEF Shape
<1>4. rank \in [T -> Nat]
  BY <1>1, <1>3 DEF Grounded
<1>5. ASSUME NEW m \in T, \A k \in T : rank[k] < rank[m] => k \in Good PROVE m \in Good
  <2>1. \A s \in Sides, x \in T : x \in Subtree(tree[m].kid[s]) <=> x \in sub[m] /\ On(sc, s, x, m)
    <3> SUFFICES ASSUME NEW s \in Sides, NEW x \in T
                 PROVE  x \in Subtree(tree[m].kid[s]) <=> x \in sub[m] /\ On(sc, s, x, m)
      OBVIOUS
    <3>1. CASE tree[m].kid[s] = Null
      BY <1>2, <1>3, <3>1 DEF KidsFit
    <3>2. CASE tree[m].kid[s] # Null
      <4>1. tree[m].kid[s] \in T /\ (x \in sub[tree[m].kid[s]] <=> x \in sub[m] /\ On(sc, s, x, m))
        BY <1>3, <3>2 DEF KidsFit
      <4>2. rank[tree[m].kid[s]] < rank[m]
        BY <1>1, <1>3, <4>1 DEF Grounded
      <4>3. Subtree(tree[m].kid[s]) = sub[tree[m].kid[s]]
        BY <1>5, <4>1, <4>2
      <4> QED
        BY <4>1, <4>3
    <3> QED
      BY <3>1, <3>2
  <2>2. \A s \in Sides : Subtree(tree[m].kid[s]) \subseteq T
    <3> SUFFICES ASSUME NEW s \in Sides PROVE Subtree(tree[m].kid[s]) \subseteq T
      OBVIOUS
    <3>1. CASE tree[m].kid[s] = Null
      BY <1>2, <3>1
    <3>2. CASE tree[m].kid[s] # Null
      <4>1. tree[m].kid[s] \in T
        BY <1>3, <3>2 DEF KidsFit
      <4>2. rank[tree[m].kid[s]] < rank[m]
        BY <1>1, <1>3, <4>1 DEF Grounded
      <4>3. Subtree(tree[m].kid[s]) = sub[tree[m].kid[s]]
        BY <1>5, <4>1, <4>2
      <4> QED
        BY <1>3, <4>1, <4>3 DEF Nested
    <3> QED
      BY <3>1, <3>2
  <2>3. Subtree(m) \subseteq T /\ sub[m] \subseteq T /\ m \in sub[m]
    BY <1>2, <1>3, <2>2 DEF Nested
  <2>4. \A x \in T : x \in Subtree(m) <=> x = m \/ \E s \in Sides : x \in Subtree(tree[m].kid[s])
    BY <1>2, <1>3
  <2>5. \A x \in T : x # m => \E s \in Sides : On(sc, s, x, m)
    BY <1>3, SidesAre DEF Ordered
  <2>6. \A x \in T : x \in Subtree(m) <=> x \in sub[m]
    BY <2>1, <2>3, <2>4, <2>5
  <2> QED
    BY <2>3, <2>6
<1>6. T \subseteq Good
  <2> HIDE DEF Good, rank
  <2> QED
    BY ONLY <1>4, <1>5, RankInduction
<1> QED
  BY <1>2, <1>6

\* The last node on the way to the left is the first of the subtree.
LEMMA LeftmostFirst ==
    ASSUME NEW r, NEW sc, NEW T, NEW sub, Shape(tree, r, sc, T, sub), IsFiniteSet(T),
           \A m \in Names \ T, s \in Sides : tree[m].kid[s] \in T \cup {Null},
           NEW n \in T
    PROVE  /\ Leftmost(n) \in sub[n]
           /\ tree[Leftmost(n)].kid["left"] = Null
           /\ \A x \in sub[n] : ~On(sc, "left", x, Leftmost(n))
<1>1. PICK lv, N : Grounded(lv, N) /\ \A m \in T : lv[m] = Cardinality(sub[m])
  BY TreeGrounded
<1>3. T \subseteq Names /\ Ordered(sc, T) /\ KidsFit(tree, sc, T, sub) /\ Nested(tree, T, sub)
  BY DEF Shape
<1>2. PICK f \in [Names -> Names] :
         /\ \A m \in Names : f[m] = IF tree[m].kid["left"] = Null THEN m ELSE f[tree[m].kid["left"]]
         /\ Leftmost(n) = f[n]
  BY <1>1, <1>3, LeftmostIs
<1> DEFINE First(m) == /\ f[m] \in sub[m] /\ tree[f[m]].kid["left"] = Null
                       /\ \A x \in sub[m] : ~On(sc, "left", x, f[m])
           Good == {m \in T : First(m)}
           rank == [m \in T |-> lv[m]]
<1>4. rank \in [T -> Nat] /\ "left" \in Sides /\ Other("left") \in Sides
  BY <1>1, <1>3, SidesAre DEF Grounded
<1>5. ASSUME NEW m \in T, \A k \in T : rank[k] < rank[m] => k \in Good PROVE m \in Good
  <2> DEFINE c == tree[m].kid["left"]
  <2>1. CASE c = Null
    <3>1. f[m] = m /\ m \in sub[m] /\ \A x \in sub[m] : ~On(sc, "left", x, m)
      BY <1>2, <1>3, <1>4, <2>1 DEF Nested, KidsFit
    <3> QED
      BY <2>1, <3>1
  <2>2. CASE c # Null
    <3>1. c \in T /\ \A x \in T : x \in sub[c] <=> x \in sub[m] /\ On(sc, "left", x, m)
      BY <1>3, <1>4, <2>2 DEF KidsFit
    <3>2. rank[c] < rank[m]
      BY <1>1, <1>3, <1>4, <3>1 DEF Grounded
    <3>3. f[m] = f[c] /\ First(c)
      BY <1>2, <1>3, <1>5, <2>2, <3>1, <3>2
    <3> HIDE DEF c
    <3>4. f[c] \in T /\ f[c] \in sub[m] /\ On(sc, "left", f[c], m) /\ sub[m] \subseteq T
      BY <1>3, <3>1, <3>3 DEF Nested
    <3>5. ASSUME NEW x \in sub[m] PROVE ~On(sc, "left", x, f[c])
      <4>1. x \in sub[c] \/ ~On(sc, "left", x, m)
        BY <3>1, <3>4
      <4>2. CASE ~On(sc, "left", x, m)
        BY <1>3, <1>4, <3>4, <4>2 DEF Ordered
      <4> QED
        BY <3>3, <4>1, <4>2
    <3> QED
      BY <3>3, <3>4, <3>5
  <2> QED
    BY <2>1, <2>2
<1>6. T \subseteq Good
  <2> HIDE DEF Good, rank
  <2> QED
    BY ONLY <1>4, <1>5, RankInduction
<1> QED
  BY <1>2, <1>6

\* The search of tree_insert() ends at a free pointer, and has passed every node
\* above it on the side of the key.
LEMMA PlaceFits ==
    ASSUME NEW T, NEW sub, Shape(tree, root, score, T, sub), IsFiniteSet(T),
           \A m \in Names \ T, s \in Sides : tree[m].kid[s] \in T \cup {Null},
           root # Null, NEW key
    PROVE  \E a \in T, d \in Sides :
              /\ Place(key) = <<a, d>> /\ d = Turn(key, a) /\ tree[a].kid[d] = Null
              /\ \A x \in T : a \in sub[x] /\ x # a => On(score, Turn(key, x), a, x)
<1>1. PICK lv, N : Grounded(lv, N) /\ \A m \in T : lv[m] = Cardinality(sub[m])
  BY TreeGrounded
<1>3. /\ T \subseteq Names /\ Ordered(score, T) /\ KidsFit(tree, score, T, sub)
      /\ Nested(tree, T, sub) /\ root \in T /\ sub[root] = T
  BY DEF Shape, RootFits
<1>2. PICK f \in [Names -> Names \X Sides] :
         /\ \A m \in Names : f[m] = IF tree[m].kid[Turn(key, m)] = Null THEN <<m, Turn(key, m)>>
                                         ELSE f[tree[m].kid[Turn(key, m)]]
         /\ Place(key) = f[root]
  BY <1>1, <1>3, PlaceIs
<1> DEFINE Ends(m, a, d) ==
              /\ f[m] = <<a, d>> /\ d = Turn(key, a) /\ tree[a].kid[d] = Null
              /\ \A x \in sub[m] : a \in sub[x] /\ x # a => On(score, Turn(key, x), a, x)
           Good == {m \in T : \E a \in sub[m], d \in Sides : Ends(m, a, d)}
           rank == [m \in T |-> lv[m]]
<1>4. rank \in [T -> Nat] /\ (\A m : Turn(key, m) \in Sides)
  BY <1>1, <1>3 DEF Grounded, Turn, Sides
<1>5. ASSUME NEW m \in T, \A k \in T : rank[k] < rank[m] => k \in Good PROVE m \in Good
  <2> DEFINE e == Turn(key, m)
             c == tree[m].kid[e]
  <2>0. e \in Sides /\ m \in sub[m] /\ sub[m] \subseteq T
    BY <1>3, <1>4 DEF Nested
  <2>1. CASE c = Null
    <3>1. f[m] = <<m, e>> /\ tree[m].kid[e] = Null
      BY <1>2, <1>3, <2>1
    <3>2. \A x \in sub[m] : m \in sub[x] => x = m
      BY Antisymmetric
    <3> QED
      BY <2>0, <3>1, <3>2
  <2>2. CASE c # Null
    <3>1. c \in T /\ \A x \in T : x \in sub[c] <=> x \in sub[m] /\ On(score, e, x, m)
      BY <1>3, <2>0, <2>2 DEF KidsFit
    <3>2. rank[c] < rank[m]
      BY <1>1, <1>3, <2>0, <3>1 DEF Grounded
    <3>3. f[m] = f[c]
      BY <1>2, <1>3, <2>2
    <3>4. PICK a \in sub[c], d \in Sides : Ends(c, a, d)
      BY <1>5, <3>1, <3>2
    <3>5. a \in sub[m] /\ a \in T /\ On(score, e, a, m)
      BY <1>3, <3>1 DEF Nested
    <3> HIDE DEF c
    <3>6. ASSUME NEW x \in sub[m], a \in sub[x], x # a PROVE On(score, Turn(key, x), a, x)
      <4>1. CASE x = m
        BY <3>5, <4>1
      <4>2. CASE x \in sub[c]
        BY <3>4, <3>6, <4>2
      <4>3. CASE x # m /\ x \notin sub[c]
        <5>1. On(score, Other(e), x, m)
          BY <1>3, <2>0, <3>1, <4>3, SidesAre DEF Ordered
        <5> DEFINE k == tree[m].kid[Other(e)]
        <5>2. k # Null
          BY <1>3, <2>0, <5>1, SidesAre DEF KidsFit
        <5>3. k \in T /\ \A y \in T : y \in sub[k] <=> y \in sub[m] /\ On(score, Other(e), y, m)
          BY <1>3, <2>0, <5>2, SidesAre DEF KidsFit
        <5>4. x \in sub[k]
          BY <2>0, <5>1, <5>3
        <5>5. a \in sub[k]
          BY <1>3, <3>6, <5>3, <5>4 DEF Nested
        <5>6. On(score, Other(e), a, m)
          BY <3>5, <5>3, <5>5
        <5>7. a # m
          BY <1>3, <2>0, <3>5 DEF Ordered
        <5> QED
          BY <1>3, <2>0, <3>5, <5>6, <5>7, SidesAre DEF Ordered
      <4> QED
        BY <4>1, <4>2, <4>3
    <3>7. Ends(m, a, d)
      BY <3>3, <3>4, <3>6
    <3> HIDE DEF Ends
    <3> QED
      BY <3>5, <3>7
  <2> QED
    BY <2>1, <2>2
<1>6. T \subseteq Good
  <2> HIDE DEF Good, rank
  <2> QED
    BY ONLY <1>4, <1>5, RankInduction
<1>7. PICK a \in sub[root], d \in Sides : Ends(root, a, d)
  BY <1>3, <1>6
<1> QED
  BY <1>2, <1>3, <1>7

-----------------------------------------------------------------------------
(* What the operations of avl.cc do to the fields of the nodes.            *)

AuxType == [height : Nat, cnt : Nat]

LEMMA MaxIs ==
    ASSUME NEW a \in Nat, NEW b \in Nat
    PROVE  /\ Max({a, b}) \in Nat
           /\ Max({a, b}) = IF a < b THEN b ELSE a
<1>1. \E x \in {a, b} : \A y \in {a, b} : x >= y
  OBVIOUS
<1> DEFINE x == CHOOSE x \in {a, b} : \A y \in {a, b} : x >= y
<1>2. x \in {a, b} /\ \A y \in {a, b} : x >= y
  BY <1>1
<1>3. Max({a, b}) = x
  BY DEF Max
<1> HIDE DEF x
<1> QED
  BY <1>2, <1>3

LEMMA GrowIs ==
    ASSUME NEW l \in AuxType, NEW r \in AuxType
    PROVE  /\ Grow(l, r) \in AuxType
           /\ Grow(l, r).height = 1 + (IF l.height < r.height THEN r.height ELSE l.height)
           /\ Grow(l, r).cnt = 1 + l.cnt + r.cnt
<1>1. l.height \in Nat /\ r.height \in Nat /\ l.cnt \in Nat /\ r.cnt \in Nat
  BY DEF AuxType
<1>2. Max({l.height, r.height}) \in Nat
      /\ Max({l.height, r.height}) = IF l.height < r.height THEN r.height ELSE l.height
  BY <1>1, MaxIs
<1> QED
  BY <1>1, <1>2 DEF Grow, AuxType

LEMMA AuxIs ==
    ASSUME NEW t \in [Names -> AVLNode], NEW n \in Names \cup {Null}
    PROVE  /\ Aux(t, n) \in AuxType
           /\ n = Null => Aux(t, n).height = 0 /\ Aux(t, n).cnt = 0
           /\ n # Null => Aux(t, n) = t[n].aux
           /\ Aux(t, n).height \in Nat /\ Aux(t, n).cnt \in Nat
BY DEF Aux, NoAux, AuxType, AVLNode

LEMMA KidIs ==
    ASSUME NEW t \in [Names -> AVLNode], NEW n \in Names, NEW d \in Sides,
           NEW c \in Names \cup {Null}
    PROVE  LET u == [t EXCEPT ![n].kid[d] = c]
           IN  /\ u \in [Names -> AVLNode]
               /\ \A m \in Names : u[m].parent = t[m].parent /\ u[m].aux = t[m].aux
               /\ \A m \in Names, e \in Sides :
                     u[m].kid[e] = IF m = n /\ e = d THEN c ELSE t[m].kid[e]
BY DEF AVLNode

LEMMA SetParentIs ==
    ASSUME NEW t \in [Names -> AVLNode], NEW n \in Names \cup {Null}, NEW p \in Names \cup {Null}
    PROVE  /\ SetParent(t, n, p) \in [Names -> AVLNode]
           /\ \A m \in Names : /\ SetParent(t, n, p)[m].parent = IF m = n THEN p ELSE t[m].parent
                               /\ SetParent(t, n, p)[m].aux = t[m].aux
                               /\ SetParent(t, n, p)[m].kid = t[m].kid
<1>1. CASE n = Null
  BY <1>1, NullIsNoName DEF SetParent
<1>2. CASE n # Null
  BY <1>2 DEF SetParent, AVLNode
<1> QED
  BY <1>1, <1>2

LEMMA UpdateIs ==
    ASSUME NEW t \in [Names -> AVLNode], NEW n \in Names
    PROVE  LET a == Grow(Aux(t, t[n].kid["left"]), Aux(t, t[n].kid["right"]))
               u == avl_update(t, n)
           IN  /\ u \in [Names -> AVLNode] /\ a \in AuxType
               /\ \A m \in Names : /\ u[m].parent = t[m].parent /\ u[m].kid = t[m].kid
                                   /\ u[m].aux = IF m = n THEN a ELSE t[m].aux
<1> DEFINE a == Grow(Aux(t, t[n].kid["left"]), Aux(t, t[n].kid["right"]))
<1>1. a \in AuxType
  BY KidType, AuxIs, GrowIs, SidesAre
<1>2. avl_update(t, n) = [t EXCEPT ![n].aux = a]
  BY DEF avl_update
<1> HIDE DEF a
<1>3. LET u == [t EXCEPT ![n].aux = a]
      IN  /\ u \in [Names -> AVLNode]
          /\ \A m \in Names : /\ u[m].parent = t[m].parent /\ u[m].kid = t[m].kid
                              /\ u[m].aux = IF m = n THEN a ELSE t[m].aux
  BY <1>1 DEF AVLNode, AuxType
<1> QED
  BY <1>1, <1>2, <1>3 DEF a

\* what a rotation of n towards s writes, and with which heights and sizes
Pivoted(t, n, s) ==
    LET top   == t[n].kid[Other(s)]
        inner == t[top].kid[s]
        low   == Grow(Aux(t, t[n].kid[s]), Aux(t, inner))
        high  == Grow(low, Aux(t, t[top].kid[Other(s)]))
        u     == Rotate(t, n, s)
    IN  /\ u \in [Names -> AVLNode] /\ low \in AuxType /\ high \in AuxType
        /\ \A m \in Names :
              /\ u[m].parent = IF m = n THEN top ELSE IF m = top THEN t[n].parent
                               ELSE IF m = inner THEN n ELSE t[m].parent
              /\ u[m].aux = IF m = n THEN low ELSE IF m = top THEN high ELSE t[m].aux
        /\ \A m \in Names, d \in Sides :
              u[m].kid[d] = IF m = n /\ d = Other(s) THEN inner
                            ELSE IF m = top /\ d = s THEN n ELSE t[m].kid[d]

LEMMA RotateIs ==
    ASSUME NEW t \in [Names -> AVLNode], NEW n \in Names, NEW s \in Sides,
           t[n].kid[Other(s)] \in Names \ {n},
           t[t[n].kid[Other(s)]].kid[s] \notin {n, t[n].kid[Other(s)]}
    PROVE  Pivoted(t, n, s)
<1> DEFINE o == Other(s)
           top == t[n].kid[o]
           inner == t[top].kid[s]
           low == Grow(Aux(t, t[n].kid[s]), Aux(t, inner))
           high == Grow(low, Aux(t, t[top].kid[o]))
           w == [t EXCEPT ![n].kid[o] = inner, ![n].parent = top, ![n].aux = low,
                          ![top].kid[s] = n, ![top].parent = t[n].parent, ![top].aux = high]
<1>0. o \in Sides /\ o # s
  BY SidesAre
<1>1. /\ top \in Names /\ top # n /\ inner \in Names \cup {Null} /\ inner # n /\ inner # top
      /\ t[n].parent \in Names \cup {Null}
  BY <1>0, KidType
<1>2. low \in AuxType /\ high \in AuxType
  BY <1>0, <1>1, KidType, AuxIs, GrowIs
<1>3. Rotate(t, n, s) = SetParent(w, inner, n)
  BY DEF Rotate
<1> HIDE DEF o, top, inner, low, high
<1>4. /\ w \in [Names -> AVLNode]
      /\ \A m \in Names :
            /\ w[m].parent = IF m = n THEN top ELSE IF m = top THEN t[n].parent ELSE t[m].parent
            /\ w[m].aux = IF m = n THEN low ELSE IF m = top THEN high ELSE t[m].aux
      /\ \A m \in Names, d \in Sides :
            w[m].kid[d] = IF m = n /\ d = o THEN inner
                          ELSE IF m = top /\ d = s THEN n ELSE t[m].kid[d]
  <2> DEFINE nn == [t[n] EXCEPT !.kid[o] = inner, !.parent = top, !.aux = low]
             tt == [t[top] EXCEPT !.kid[s] = n, !.parent = t[n].parent, !.aux = high]
  <2>1. t[n] \in AVLNode /\ t[top] \in AVLNode
    BY <1>1
  <2>2. nn \in AVLNode /\ nn.parent = top /\ nn.aux = low /\ nn.kid = [t[n].kid EXCEPT ![o] = inner]
    BY <1>0, <1>1, <1>2, <2>1 DEF AVLNode, AuxType
  <2>3. tt \in AVLNode /\ tt.parent = t[n].parent /\ tt.aux = high /\ tt.kid = [t[top].kid EXCEPT ![s] = n]
    BY <1>0, <1>1, <1>2, <2>1 DEF AVLNode, AuxType
  <2>4. w = [m \in Names |-> IF m = n THEN nn ELSE IF m = top THEN tt ELSE t[m]]
    BY <1>1
  <2> HIDE DEF nn, tt, w
  <2>5. w \in [Names -> AVLNode]
    BY <2>2, <2>3, <2>4
  <2>6. w[n] = nn /\ w[top] = tt /\ \A m \in Names : m # n /\ m # top => w[m] = t[m]
    BY <1>1, <2>4
  <2>7. \A d \in Sides : nn.kid[d] = IF d = o THEN inner ELSE t[n].kid[d]
    BY <2>1, <2>2, KidType
  <2>8. \A d \in Sides : tt.kid[d] = IF d = s THEN n ELSE t[top].kid[d]
    BY <1>1, <2>1, <2>3, KidType
  <2>9. \A m \in Names :
            /\ w[m].parent = IF m = n THEN top ELSE IF m = top THEN t[n].parent ELSE t[m].parent
            /\ w[m].aux = IF m = n THEN low ELSE IF m = top THEN high ELSE t[m].aux
    BY <2>2, <2>3, <2>6
  <2>10. ASSUME NEW m \in Names, NEW d \in Sides
         PROVE  w[m].kid[d] = IF m = n /\ d = o THEN inner
                              ELSE IF m = top /\ d = s THEN n ELSE t[m].kid[d]
    <3>1. CASE m = n
      BY <1>1, <2>6, <2>7, <3>1
    <3>2. CASE m = top
      BY <1>1, <2>6, <2>8, <3>2
    <3>3. CASE m # n /\ m # top
      BY <2>6, <3>3
    <3> QED
      BY <3>1, <3>2, <3>3
  <2> QED
    BY <2>5, <2>9, <2>10
<1> HIDE DEF w
<1> DEFINE u == SetParent(w, inner, n)
<1>5. /\ u \in [Names -> AVLNode]
      /\ \A m \in Names : /\ u[m].parent = IF m = inner THEN n ELSE w[m].parent
                          /\ u[m].aux = w[m].aux /\ u[m].kid = w[m].kid
  <2>1. w \in [Names -> AVLNode] /\ inner \in Names \cup {Null} /\ n \in Names \cup {Null}
    BY <1>1, <1>4
  <2> QED
    BY ONLY <2>1, SetParentIs, ZenonT(60)
<1> HIDE DEF u
<1>6. \A m \in Names :
            /\ u[m].parent = IF m = n THEN top ELSE IF m = top THEN t[n].parent
                             ELSE IF m = inner THEN n ELSE t[m].parent
            /\ u[m].aux = IF m = n THEN low ELSE IF m = top THEN high ELSE t[m].aux
  BY <1>1, <1>4, <1>5
<1>7. \A m \in Names, d \in Sides :
            u[m].kid[d] = IF m = n /\ d = o THEN inner
                          ELSE IF m = top /\ d = s THEN n ELSE t[m].kid[d]
  BY <1>4, <1>5
<1>8. Rotate(t, n, s) = u
  BY <1>3 DEF u
<1>9. u \in [Names -> AVLNode]
  BY <1>5
<1> QED
  BY ONLY <1>2, <1>6, <1>7, <1>8, <1>9 DEF Pivoted, o, top, inner, low, high

\* w is u with the pointer of p to its child n set to c.
Linked(u, w, p, n, c) ==
    /\ w \in [Names -> AVLNode]
    /\ \A m \in Names : w[m].parent = u[m].parent /\ w[m].aux = u[m].aux
    /\ \A m \in Names, e \in Sides : w[m].kid[e] = IF m = p /\ e = SideOf(p, n) THEN c ELSE u[m].kid[e]

LEMMA LinkTo ==
    ASSUME NEW u \in [Names -> AVLNode], NEW p \in Names \cup {Null}, NEW n,
           NEW c \in Names \cup {Null}
    PROVE  Linked(u, Link(u, p, n, c), p, n, c)
<1>1. SideOf(p, n) \in Sides
  BY DEF SideOf, Sides
<1> DEFINE d == SideOf(p, n)
<1>2. CASE p = Null
  BY <1>1, <1>2, NullIsNoName DEF Link, Linked
<1>3. CASE p # Null
  <2>1. Link(u, p, n, c) = [u EXCEPT ![p].kid[d] = c] /\ p \in Names /\ d \in Sides
    BY <1>1, <1>3 DEF Link
  <2> HIDE DEF d
  <2> DEFINE v == [u EXCEPT ![p].kid[d] = c]
  <2>2. /\ v \in [Names -> AVLNode]
        /\ \A m \in Names : v[m].parent = u[m].parent /\ v[m].aux = u[m].aux
        /\ \A m \in Names, e \in Sides :
              v[m].kid[e] = IF m = p /\ e = d THEN c ELSE u[m].kid[e]
    BY <2>1, KidIs
  <2> HIDE DEF v
  <2>3. Linked(u, v, p, n, c)
    BY ONLY <2>2 DEF Linked, d
  <2>4. Link(u, p, n, c) = v
    BY <2>1 DEF v
  <2> QED
    BY ONLY <2>3, <2>4
<1> QED
  BY <1>2, <1>3

LEMMA LinkIs ==
    ASSUME NEW u \in [Names -> AVLNode], NEW p \in Names \cup {Null}, NEW n,
           NEW c \in Names \cup {Null}
    PROVE  /\ SideOf(p, n) \in Sides
           /\ Link(u, p, n, c) \in [Names -> AVLNode]
           /\ \A m \in Names : /\ Link(u, p, n, c)[m].parent = u[m].parent
                               /\ Link(u, p, n, c)[m].aux = u[m].aux
           /\ \A m \in Names, e \in Sides :
                 Link(u, p, n, c)[m].kid[e] = IF m = p /\ e = SideOf(p, n) THEN c ELSE u[m].kid[e]
<1>1. SideOf(p, n) \in Sides
  BY DEF SideOf, Sides
<1>2. Linked(u, Link(u, p, n, c), p, n, c)
  BY LinkTo
<1> QED
  BY ONLY <1>1, <1>2 DEF Linked

\* A parent points to its child on one side only.
LEMMA SideIs ==
    ASSUME NEW r, NEW sc, NEW T, NEW sub, Shape(tree, r, sc, T, sub),
           NEW n \in T, tree[n].parent # Null
    PROVE  /\ tree[n].parent \in T
           /\ tree[tree[n].parent].kid[SideOf(tree[n].parent, n)] = n
           /\ \A e \in Sides : tree[tree[n].parent].kid[e] = n => e = SideOf(tree[n].parent, n)
<1> DEFINE p == tree[n].parent
<1>1. PICK d \in Sides : p \in T /\ tree[p].kid[d] = n
  BY DEF Shape, ParentsFit
<1>2. n # Null
  BY NullIsNoName DEF Shape
<1> HIDE DEF p
<1>3. tree[p].kid[Other(d)] # n
  BY <1>1, <1>2, Kin
<1>4. d = "left" \/ d = "right"
  BY DEF Sides
<1>5. tree[p].kid[SideOf(p, n)] = n
  BY <1>1, <1>4 DEF SideOf
<1>6. SideOf(p, n) \in Sides
  BY DEF SideOf, Sides
<1>7. \A e \in Sides : tree[p].kid[e] = n => e = d
  BY <1>3, SidesAre
<1> QED
  BY <1>1, <1>5, <1>6, <1>7 DEF p

\* The shape is one of the pointers and of the scores of the nodes in the tree.
LEMMA SameShape ==
    ASSUME NEW t, NEW r, NEW sc, NEW T, NEW sub, Shape(t, r, sc, T, sub),
           NEW u \in [Names -> AVLNode], NEW sc2, \A m \in T : sc2[m] = sc[m],
           \A m \in T : u[m].parent = t[m].parent,
           \A m \in T, d \in Sides : u[m].kid[d] = t[m].kid[d]
    PROVE  Shape(u, r, sc2, T, sub)
<1>1. /\ T \subseteq Names /\ Ordered(sc, T) /\ KidsFit(t, sc, T, sub)
      /\ ParentsFit(t, r, T) /\ Nested(t, T, sub) /\ RootFits(r, T, sub)
  BY DEF Shape
<1>2. \A x, y \in T, d \in Sides : On(sc2, d, x, y) <=> On(sc, d, x, y)
  BY DEF On
<1>3. Ordered(sc2, T)
  BY <1>1, <1>2, SidesAre DEF Ordered
<1>4. ParentsFit(u, r, T)
  BY <1>1 DEF ParentsFit
<1>5. Nested(u, T, sub)
  BY <1>1 DEF Nested
<1>6. KidsFit(u, sc2, T, sub)
  <2> SUFFICES ASSUME NEW m \in T, NEW d \in Sides
               PROVE  /\ u[m].kid[d] = Null => \A x \in sub[m] : ~On(sc2, d, x, m)
                      /\ u[m].kid[d] # Null =>
                            /\ u[m].kid[d] \in T
                            /\ u[u[m].kid[d]].parent = m
                            /\ \A x \in T : x \in sub[u[m].kid[d]] <=> x \in sub[m] /\ On(sc2, d, x, m)
    BY DEF KidsFit
  <2>1. u[m].kid[d] = t[m].kid[d] /\ sub[m] \subseteq T
    BY <1>1 DEF Nested
  <2> QED
    BY <1>1, <1>2, <2>1 DEF KidsFit
<1> QED
  BY <1>1, <1>3, <1>4, <1>5, <1>6 DEF Shape

-----------------------------------------------------------------------------
(* Heights and counts.                                                     *)

\* a is what avl_update() makes of l and r, which differ in height by 1 at most
Fit(a, l, r) ==
    /\ l.height <= r.height + 1 /\ r.height <= l.height + 1
    /\ a.height = 1 + (IF l.height < r.height THEN r.height ELSE l.height)
    /\ a.cnt = 1 + l.cnt + r.cnt

\* the data of c that the nodes above it have accounted for: old, if c is the node x
\* that avl_fix() works on
Seen(t, c, x, old) == IF c = x /\ c # Null THEN old ELSE Aux(t, c)

\* The data of all nodes but x fit those of their children, as seen.
AuxFits(t, T, x, old) ==
    \A m \in T \ {x}, s \in Sides :
        Fit(t[m].aux, Seen(t, t[m].kid[s], x, old), Seen(t, t[m].kid[Other(s)], x, old))

\* The children of x differ in height by 2 at most, and once x is repaired its
\* height is within 1 of the old one.
StaleFits(t, x, old) ==
    \A s \in Sides :
        LET a == avl_height(t, t[x].kid[s])
            b == avl_height(t, t[x].kid[Other(s)])
        IN  /\ a <= b + 2
            /\ b <= a /\ a <= b + 1 => a <= old.height /\ old.height <= a + 2
            /\ a = b + 2 => a <= old.height /\ old.height <= a + 1

LEMMA FitSwap ==
    ASSUME NEW a \in AuxType, NEW l \in AuxType, NEW r \in AuxType, Fit(a, l, r)
    PROVE  Fit(a, r, l)
BY DEF Fit, AuxType

LEMMA FitBoth ==
    ASSUME NEW u \in [Names -> AVLNode], NEW m \in Names, NEW s \in Sides,
           Fit(u[m].aux, Aux(u, u[m].kid[s]), Aux(u, u[m].kid[Other(s)]))
    PROVE  \A d \in Sides : Fit(u[m].aux, Aux(u, u[m].kid[d]), Aux(u, u[m].kid[Other(d)]))
<1>1. /\ u[m].aux \in AuxType /\ Other(s) \in Sides
      /\ \A d \in Sides : Aux(u, u[m].kid[d]) \in AuxType
  BY KidType, AuxIs, SidesAre DEF AuxType
<1>2. Fit(u[m].aux, Aux(u, u[m].kid[Other(s)]), Aux(u, u[m].kid[s]))
  BY <1>1, FitSwap
<1> QED
  BY <1>2, SidesAre

LEMMA GrowFits ==
    ASSUME NEW l \in AuxType, NEW r \in AuxType,
           l.height <= r.height + 1, r.height <= l.height + 1
    PROVE  Fit(Grow(l, r), l, r)
BY GrowIs DEF Fit

\* One of the children of p has changed its height by 1 at most, from h to that
\* of a: p may need repair, and its height will be within 1 of the old one.
LEMMA StaleFrom ==
    ASSUME NEW q \in AuxType, NEW h \in AuxType, NEW b \in AuxType, NEW a \in AuxType,
           Fit(q, h, b), a.height <= h.height + 1, h.height <= a.height + 1
    PROVE  /\ a.height <= b.height + 2 /\ b.height <= a.height + 2
           /\ b.height <= a.height /\ a.height <= b.height + 1
                 => a.height <= q.height /\ q.height <= a.height + 2
           /\ a.height <= b.height /\ b.height <= a.height + 1
                 => b.height <= q.height /\ q.height <= b.height + 2
           /\ a.height = b.height + 2 => a.height <= q.height /\ q.height <= a.height + 1
           /\ b.height = a.height + 2 => b.height <= q.height /\ q.height <= b.height + 1
BY DEF Fit, AuxType

\* A turn of the loop has repaired the nodes of W, one of which, y, has taken
\* the place of x below the parent p of x.
Ascent(T, t, u, x, old, W, y, p) ==
    /\ T \in SUBSET Names /\ t \in [Names -> AVLNode] /\ u \in [Names -> AVLNode]
    /\ old \in AuxType /\ AuxFits(t, T, x, old)
    /\ W \in SUBSET T /\ x \in W /\ y \in W
    /\ p = Null \/ p \in T \ W
    /\ \A w \in W, s \in Sides : Fit(u[w].aux, Aux(u, u[w].kid[s]), Aux(u, u[w].kid[Other(s)]))
    /\ \A m \in T \ W : u[m].aux = t[m].aux
    /\ \A m \in T \ W, s \in Sides : t[m].kid[s] \in (T \ W) \cup {Null} \/ (m = p /\ t[m].kid[s] = x)
    /\ \A m \in T \ W, s \in Sides : u[m].kid[s] = IF t[m].kid[s] = x THEN y ELSE t[m].kid[s]
    /\ p # Null => \E s \in Sides : t[p].kid[s] = x /\ t[p].kid[Other(s)] # x
    /\ u[y].aux.height <= old.height + 1 /\ old.height <= u[y].aux.height + 1

\* Then what remains to be repaired is at p.
LEMMA AscendFits ==
    ASSUME NEW T, NEW t, NEW u, NEW x, NEW old, NEW W, NEW y, NEW p,
           Ascent(T, t, u, x, old, W, y, p)
    PROVE  /\ AuxFits(u, T, p, Aux(u, p))
           /\ p # Null => StaleFits(u, p, u[p].aux)
<1> USE DEF Ascent
<1>0. Null \notin T /\ p \in Names \cup {Null}
  BY NullIsNoName
<1>1. \A c \in Names \cup {Null} : Seen(u, c, p, Aux(u, p)) = Aux(u, c)
  BY DEF Seen
<1>2. \A m \in T \ W, s \in Sides : t[m].kid[s] # x =>
         /\ u[m].kid[s] = t[m].kid[s]
         /\ Aux(u, u[m].kid[s]) = Seen(t, t[m].kid[s], x, old)
  <2> SUFFICES ASSUME NEW m \in T \ W, NEW s \in Sides, t[m].kid[s] # x
               PROVE  /\ u[m].kid[s] = t[m].kid[s]
                      /\ Aux(u, u[m].kid[s]) = Seen(t, t[m].kid[s], x, old)
    OBVIOUS
  <2>1. u[m].kid[s] = t[m].kid[s] /\ t[m].kid[s] \in (T \ W) \cup {Null}
    OBVIOUS
  <2> QED
    BY <2>1 DEF Seen, Aux
<1>3. \A m \in Names, s \in Sides : u[m].kid[s] \in Names \cup {Null} /\ Other(s) \in Sides
  BY KidType, SidesAre
<1>4. AuxFits(u, T, p, Aux(u, p))
  <2> SUFFICES ASSUME NEW m \in T \ {p}, NEW s \in Sides
               PROVE  Fit(u[m].aux, Aux(u, u[m].kid[s]), Aux(u, u[m].kid[Other(s)]))
    BY <1>1, <1>3 DEF AuxFits
  <2>1. CASE m \in W
    BY <2>1
  <2>2. CASE m \notin W
    <3>1. t[m].kid[s] # x /\ t[m].kid[Other(s)] # x /\ m # x
      BY <1>0, <1>3, <2>2
    <3>2. Fit(t[m].aux, Seen(t, t[m].kid[s], x, old), Seen(t, t[m].kid[Other(s)], x, old))
      BY <3>1 DEF AuxFits
    <3>3. /\ Aux(u, u[m].kid[s]) = Seen(t, t[m].kid[s], x, old)
          /\ Aux(u, u[m].kid[Other(s)]) = Seen(t, t[m].kid[Other(s)], x, old)
      BY <1>2, <1>3, <2>2, <3>1
    <3>4. u[m].aux = t[m].aux
      BY <2>2
    <3> QED
      BY <3>2, <3>3, <3>4
  <2> QED
    BY <2>1, <2>2
<1>5. ASSUME p # Null PROVE StaleFits(u, p, u[p].aux)
  <2>1. PICK e \in Sides : t[p].kid[e] = x /\ t[p].kid[Other(e)] # x
    BY <1>5
  <2>2. p \in T \ W /\ p # x
    BY <1>5
  <2> DEFINE b == Aux(u, u[p].kid[Other(e)])
             a == u[y].aux
             q == u[p].aux
  <2>3. u[p].kid[e] = y /\ Aux(u, u[p].kid[e]) = a
    BY <1>0, <2>1, <2>2 DEF Aux
  <2>4. Seen(t, t[p].kid[e], x, old) = old /\ Seen(t, t[p].kid[Other(e)], x, old) = b
    BY <1>0, <1>2, <1>3, <2>1, <2>2 DEF Seen
  <2>5. Fit(q, old, b)
    <3>1. Fit(t[p].aux, Seen(t, t[p].kid[e], x, old), Seen(t, t[p].kid[Other(e)], x, old))
      BY <2>2 DEF AuxFits
    <3>2. t[p].aux = q
      BY <2>2
    <3> QED
      BY <2>4, <3>1, <3>2
  <2>6. q \in AuxType /\ b \in AuxType /\ a \in AuxType
    <3>1. y \in Names /\ p \in Names
      BY <2>2
    <3> QED
      BY <1>3, <3>1, KidType, AuxIs DEF AuxType
  <2>7. a.height <= old.height + 1 /\ old.height <= a.height + 1
    OBVIOUS
  <2> HIDE DEF q, a, b
  <2>8. /\ a.height <= b.height + 2 /\ b.height <= a.height + 2
        /\ b.height <= a.height /\ a.height <= b.height + 1
                 => a.height <= q.height /\ q.height <= a.height + 2
        /\ a.height <= b.height /\ b.height <= a.height + 1
                 => b.height <= q.height /\ q.height <= b.height + 2
        /\ a.height = b.height + 2 => a.height <= q.height /\ q.height <= a.height + 1
        /\ b.height = a.height + 2 => b.height <= q.height /\ q.height <= b.height + 1
    BY <2>5, <2>6, <2>7, StaleFrom
  <2>9. avl_height(u, u[p].kid[e]) = a.height /\ avl_height(u, u[p].kid[Other(e)]) = b.height
    BY <2>3 DEF avl_height, b
  <2>10. \A s \in Sides : s = e \/ (s = Other(e) /\ Other(s) = e)
    BY SidesAre
  <2>11. ASSUME NEW s \in Sides
         PROVE  LET k == avl_height(u, u[p].kid[s])
                    l == avl_height(u, u[p].kid[Other(s)])
                IN  /\ k <= l + 2
                    /\ l <= k /\ k <= l + 1 => k <= q.height /\ q.height <= k + 2
                    /\ k = l + 2 => k <= q.height /\ q.height <= k + 1
    <3>1. CASE s = e
      BY <2>8, <2>9, <3>1
    <3>2. CASE s = Other(e) /\ Other(s) = e
      BY <2>8, <2>9, <3>2
    <3> QED
      BY <2>10, <3>1, <3>2
  <2> QED
    BY <2>11 DEF StaleFits, q
<1> QED
  BY <1>4, <1>5

-----------------------------------------------------------------------------
(* A turn of the loop of avl_fix().                                        *)

\* The tree u, with y in the place of the node, needs repair at the parent of the
\* node at most.
Repaired(u, y, T) ==
    LET p == tree[node].parent
    IN  /\ \E sub : Shape(u, IF p = Null THEN y ELSE root, score, T, sub)
        /\ AuxFits(u, T, p, Aux(u, p))
        /\ p # Null => p \in T /\ StaleFits(u, p, u[p].aux)
        /\ \A m \in Names \ T : /\ u[m].parent = tree[m].parent
                                /\ \A s \in Sides : u[m].kid[s] = tree[m].kid[s]

\* What the loop finds at its start.
AtWork(T, sub, old) ==
    /\ Shape(tree, root, score, T, sub) /\ node \in T
    /\ old \in AuxType /\ AuxFits(tree, T, node, old) /\ StaleFits(tree, node, old)

\* A child in the tree has one parent.
LEMMA OneParent ==
    ASSUME NEW t, NEW r, NEW sc, NEW T, NEW sub, Shape(t, r, sc, T, sub),
           NEW m \in T, NEW s \in Sides
    PROVE  /\ t[m].kid[s] \in T \cup {Null}
           /\ t[m].kid[s] # Null => t[t[m].kid[s]].parent = m /\ t[m].kid[s] # m
BY Kin DEF Shape, KidsFit

\* The parent of the node.
LEMMA ParentIs ==
    ASSUME NEW r, NEW sc, NEW T, NEW sub, Shape(tree, r, sc, T, sub), NEW x \in T
    PROVE  LET p == tree[x].parent
           IN  /\ p \in Names \cup {Null}
               /\ p # Null => /\ p \in T /\ p # x
                              /\ \E s \in Sides : tree[p].kid[s] = x /\ tree[p].kid[Other(s)] # x
               /\ \A m \in T, s \in Sides : tree[m].kid[s] = x => m = p
<1> DEFINE p == tree[x].parent
<1>1. tree \in [Names -> AVLNode] /\ x \in Names /\ x # Null
  BY NullIsNoName DEF Shape
<1>2. p \in Names \cup {Null}
  BY <1>1 DEF AVLNode
<1>3. \A m \in T, s \in Sides : tree[m].kid[s] = x => m = p
  BY <1>1, OneParent
<1>4. ASSUME p # Null
      PROVE  /\ p \in T /\ p # x
             /\ \E s \in Sides : tree[p].kid[s] = x /\ tree[p].kid[Other(s)] # x
  <2>1. PICK s \in Sides : p \in T /\ tree[p].kid[s] = x
    BY <1>4 DEF Shape, ParentsFit
  <2> HIDE DEF p
  <2>2. x # p /\ tree[p].kid[Other(s)] # x
    BY <1>1, <2>1, Kin
  <2> QED
    BY <2>1, <2>2
<1> QED
  BY <1>2, <1>3, <1>4

LEMMA StaleLean ==
    ASSUME NEW T, NEW sub, NEW old, AtWork(T, sub, old), NEW s \in Sides
    PROVE  LET a == avl_height(tree, tree[node].kid[s])
               b == avl_height(tree, tree[node].kid[Other(s)])
           IN  /\ a \in Nat /\ b \in Nat /\ old.height \in Nat
               /\ a <= b + 2 /\ b <= a + 2
               /\ b <= a /\ a <= b + 1 => a <= old.height /\ old.height <= a + 2
               /\ a <= b /\ b <= a + 1 => b <= old.height /\ old.height <= b + 2
               /\ a = b + 2 => a <= old.height /\ old.height <= a + 1
<1> DEFINE h(d) == avl_height(tree, tree[node].kid[d])
<1>1. tree \in [Names -> AVLNode] /\ node \in Names
  BY DEF AtWork, Shape
<1>2. \A d \in Sides : h(d) \in Nat
  BY <1>1, KidType, AuxIs DEF avl_height
<1>3. old.height \in Nat
  BY DEF AtWork, AuxType
<1>4. \A d \in Sides :
        /\ h(d) <= h(Other(d)) + 2
        /\ h(Other(d)) <= h(d) /\ h(d) <= h(Other(d)) + 1 => h(d) <= old.height /\ old.height <= h(d) + 2
        /\ h(d) = h(Other(d)) + 2 => h(d) <= old.height /\ old.height <= h(d) + 1
  BY DEF AtWork, StaleFits
<1> HIDE DEF h
<1>5. Other(s) \in Sides /\ Other(Other(s)) = s
  BY SidesAre
<1>6. /\ h(s) \in Nat /\ h(Other(s)) \in Nat /\ old.height \in Nat
      /\ h(s) <= h(Other(s)) + 2 /\ h(Other(s)) <= h(s) + 2
      /\ h(Other(s)) <= h(s) /\ h(s) <= h(Other(s)) + 1 => h(s) <= old.height /\ old.height <= h(s) + 2
      /\ h(s) <= h(Other(s)) /\ h(Other(s)) <= h(s) + 1
            => h(Other(s)) <= old.height /\ old.height <= h(Other(s)) + 2
      /\ h(s) = h(Other(s)) + 2 => h(s) <= old.height /\ old.height <= h(s) + 1
  BY <1>2, <1>3, <1>4, <1>5
<1> QED
  BY <1>6 DEF h

LEMMA UpdateLink ==
    ASSUME tree \in [Names -> AVLNode], NEW x \in Names
    PROVE  LET p == tree[x].parent
               a == Grow(Aux(tree, tree[x].kid["left"]), Aux(tree, tree[x].kid["right"]))
               u == Link(avl_update(tree, x), p, x, x)
           IN  /\ u \in [Names -> AVLNode]
               /\ \A m \in Names : /\ u[m].parent = tree[m].parent
                                   /\ u[m].aux = IF m = x THEN a ELSE tree[m].aux
               /\ \A m \in Names, e \in Sides :
                     u[m].kid[e] = IF m = p /\ e = SideOf(p, x) THEN x ELSE tree[m].kid[e]
<1> DEFINE p == tree[x].parent
           a == Grow(Aux(tree, tree[x].kid["left"]), Aux(tree, tree[x].kid["right"]))
           w == avl_update(tree, x)
           u == Link(w, p, x, x)
<1>1. /\ w \in [Names -> AVLNode]
      /\ \A m \in Names : /\ w[m].parent = tree[m].parent /\ w[m].kid = tree[m].kid
                          /\ w[m].aux = IF m = x THEN a ELSE tree[m].aux
  BY UpdateIs
<1>2. p \in Names \cup {Null} /\ x \in Names \cup {Null}
  BY DEF AVLNode
<1> HIDE DEF w, p, a
<1>3. /\ SideOf(p, x) \in Sides /\ u \in [Names -> AVLNode]
      /\ \A m \in Names : u[m].parent = w[m].parent /\ u[m].aux = w[m].aux
      /\ \A m \in Names, e \in Sides : u[m].kid[e] = IF m = p /\ e = SideOf(p, x) THEN x ELSE w[m].kid[e]
  BY ONLY <1>1, <1>2, LinkIs
<1> HIDE DEF u
<1>4. /\ u \in [Names -> AVLNode]
      /\ \A m \in Names : /\ u[m].parent = tree[m].parent
                          /\ u[m].aux = IF m = x THEN a ELSE tree[m].aux
      /\ \A m \in Names, e \in Sides :
            u[m].kid[e] = IF m = p /\ e = SideOf(p, x) THEN x ELSE tree[m].kid[e]
  BY <1>1, <1>3
<1> QED
  BY <1>4 DEF u, w, p, a

\* No rotation is needed: the data of the node are brought up to date.
LEMMA FixUpdate ==
    ASSUME NEW T, NEW sub, NEW old, AtWork(T, sub, old), Taller = {}
    PROVE  Repaired(Link(avl_update(tree, node), tree[node].parent, node, node), node, T)
<1> DEFINE p == tree[node].parent
           l == Aux(tree, tree[node].kid["left"])
           r == Aux(tree, tree[node].kid["right"])
           w == avl_update(tree, node)
           u == Link(w, p, node, node)
<1>1. /\ Shape(tree, root, score, T, sub) /\ node \in T /\ old \in AuxType
      /\ tree \in [Names -> AVLNode] /\ T \subseteq Names /\ node \in Names
      /\ AuxFits(tree, T, node, old) /\ node # Null
  BY NullIsNoName DEF AtWork, Shape
<1>2. /\ p \in Names \cup {Null}
      /\ p # Null => /\ p \in T /\ p # node
                     /\ \E s \in Sides : tree[p].kid[s] = node /\ tree[p].kid[Other(s)] # node
      /\ \A m \in T, s \in Sides : tree[m].kid[s] = node => m = p
  BY <1>1, ParentIs
<1>3. p # Null => tree[p].kid[SideOf(p, node)] = node
  BY <1>1, SideIs
<1>4. /\ u \in [Names -> AVLNode]
      /\ \A m \in Names : /\ u[m].parent = tree[m].parent
                          /\ u[m].aux = IF m = node THEN Grow(l, r) ELSE tree[m].aux
      /\ \A m \in Names, e \in Sides :
            u[m].kid[e] = IF m = p /\ e = SideOf(p, node) THEN node ELSE tree[m].kid[e]
  BY <1>1, UpdateLink
<1> HIDE DEF p, w, u
<1>5. u \in [Names -> AVLNode]
  BY <1>4
<1>6. \A m \in Names, e \in Sides : u[m].kid[e] = tree[m].kid[e]
  BY <1>3, <1>4, NullIsNoName
<1>7. \A m \in Names : /\ u[m].parent = tree[m].parent
                       /\ u[m].aux = IF m = node THEN Grow(l, r) ELSE tree[m].aux
  BY <1>4
<1>8. Shape(u, root, score, T, sub)
  BY <1>1, <1>5, <1>6, <1>7, SameShape
<1>9. p = Null => root = node
  BY <1>1 DEF Shape, ParentsFit, p
<1>10. l \in AuxType /\ r \in AuxType
  BY <1>1, KidType, AuxIs, SidesAre
<1>11. /\ l.height <= r.height + 1 /\ r.height <= l.height + 1
       /\ Grow(l, r).height <= old.height + 1 /\ old.height <= Grow(l, r).height + 1
  <2>1. Other("left") = "right" /\ Other("right") = "left" /\ "left" \in Sides /\ "right" \in Sides
    BY DEF Other, Sides
  <2>2. avl_height(tree, tree[node].kid["left"]) = l.height /\ avl_height(tree, tree[node].kid["right"]) = r.height
    BY DEF avl_height
  <2>3. l.height # r.height + 2 /\ r.height # l.height + 2
    BY <2>1, <2>2 DEF Taller
  <2> HIDE DEF l, r
  <2>4. /\ l.height \in Nat /\ r.height \in Nat /\ old.height \in Nat
        /\ l.height <= r.height + 2 /\ r.height <= l.height + 2
        /\ r.height <= l.height /\ l.height <= r.height + 1 => l.height <= old.height /\ old.height <= l.height + 2
        /\ l.height <= r.height /\ r.height <= l.height + 1 => r.height <= old.height /\ old.height <= r.height + 2
    BY <2>1, <2>2, StaleLean
  <2>5. Grow(l, r).height = 1 + (IF l.height < r.height THEN r.height ELSE l.height)
    BY <1>10, GrowIs
  <2> QED
    BY <2>3, <2>4, <2>5
<1>12. \A s \in Sides : Fit(u[node].aux, Aux(u, u[node].kid[s]), Aux(u, u[node].kid[Other(s)]))
  <2>1. Fit(Grow(l, r), l, r)
    BY <1>10, <1>11, GrowFits
  <2>2. u[node].aux = Grow(l, r)
    BY <1>1, <1>7
  <2>3. \A s \in Sides : tree[node].kid[s] # node /\ tree[node].kid[s] \in T \cup {Null}
    BY <1>1, OneParent
  <2>4. \A s \in Sides : Aux(u, u[node].kid[s]) = Aux(tree, tree[node].kid[s])
    BY <1>1, <1>6, <1>7, <2>3 DEF Aux
  <2>5. "left" \in Sides /\ "right" = Other("left") /\ "right" \in Sides
    BY DEF Sides, Other
  <2>6. Fit(u[node].aux, Aux(u, u[node].kid["left"]), Aux(u, u[node].kid[Other("left")]))
    BY <2>1, <2>2, <2>4, <2>5
  <2> QED
    BY <1>1, <1>5, <2>5, <2>6, FitBoth
<1>13. AuxFits(u, T, p, Aux(u, p)) /\ (p # Null => StaleFits(u, p, u[p].aux))
  <2> DEFINE W == {node}
  <2>1. /\ T \in SUBSET Names /\ W \in SUBSET T /\ node \in W
        /\ p = Null \/ p \in T \ W
        /\ \A m \in T \ W : u[m].aux = tree[m].aux
    BY <1>1, <1>2, <1>7
  <2>2. \A m \in T \ W, s \in Sides : tree[m].kid[s] \in (T \ W) \cup {Null} \/ (m = p /\ tree[m].kid[s] = node)
    BY <1>1, <1>2, OneParent
  <2>3. \A m \in T \ W, s \in Sides : u[m].kid[s] = IF tree[m].kid[s] = node THEN node ELSE tree[m].kid[s]
    BY <1>1, <1>6
  <2>4. u[node].aux.height <= old.height + 1 /\ old.height <= u[node].aux.height + 1
    BY <1>1, <1>7, <1>11
  <2>5. \A x \in W, s \in Sides : Fit(u[x].aux, Aux(u, u[x].kid[s]), Aux(u, u[x].kid[Other(s)]))
    BY <1>12
  <2>6. p # Null => \E s \in Sides : tree[p].kid[s] = node /\ tree[p].kid[Other(s)] # node
    BY <1>2
  <2> HIDE DEF W
  <2>7. Ascent(T, tree, u, node, old, W, node, p)
    BY <1>1, <1>5, <2>1, <2>2, <2>3, <2>4, <2>5, <2>6 DEF Ascent
  <2> QED
    BY <2>7, AscendFits
<1>14. \E sb : Shape(u, IF p = Null THEN node ELSE root, score, T, sb)
  BY <1>8, <1>9
<1> QED
  BY <1>2, <1>6, <1>7, <1>13, <1>14 DEF Repaired, p, u, w

\* t is the tree, perhaps turned below x, and x is to be rotated to side o.
Turning(r, T, sub, t, sub1, x, s, o) ==
    /\ Shape(tree, root, score, T, sub) /\ Shape(t, r, score, T, sub1)
    /\ x \in T /\ s \in Sides /\ o \in Sides /\ Other(o) = s /\ t[x].kid[s] # Null
    /\ t[x].parent = tree[x].parent
    /\ tree[x].parent # Null => \A d \in Sides : t[tree[x].parent].kid[d] = tree[tree[x].parent].kid[d]

\* u is t after the rotation: the child c on side s has taken the place of x.
TurnedTo(t, u, x, s, o, c, inner, p, low, high) ==
    /\ Rotated(t, u, x, o) /\ u \in [Names -> AVLNode]
    /\ low \in AuxType /\ high \in AuxType
    /\ \A m \in Names : u[m].aux = IF m = x THEN low ELSE IF m = c THEN high ELSE t[m].aux
    /\ \A m \in Names, d \in Sides :
          u[m].kid[d] = IF m = x /\ d = s THEN inner
                        ELSE IF m = c /\ d = o THEN x
                        ELSE IF m = p /\ t[m].kid[d] = x THEN c
                        ELSE t[m].kid[d]
    /\ \A m \in Names :
          u[m].parent = IF m = x THEN c ELSE IF m = c THEN p
                        ELSE IF m = inner THEN x ELSE t[m].parent

\* A rotation of x in the tree t, with the pointer of its parent, does that.
LEMMA Turned ==
    ASSUME NEW r, NEW T, NEW sub, NEW t, NEW sub1, NEW x, NEW s, NEW o,
           Turning(r, T, sub, t, sub1, x, s, o),
           NEW c, c = t[x].kid[s], NEW inner, inner = t[c].kid[o], NEW outer, outer = t[c].kid[s],
           NEW far, far = t[x].kid[o], NEW p, p = tree[x].parent,
           NEW low, low = Grow(Aux(t, far), Aux(t, inner)),
           NEW high, high = Grow(low, Aux(t, outer)),
           NEW u, u = Link(Rotate(t, x, o), p, x, c)
    PROVE  TurnedTo(t, u, x, s, o, c, inner, p, low, high)
<1> DEFINE w == Rotate(t, x, o)
<1>0. /\ Shape(tree, root, score, T, sub) /\ Shape(t, r, score, T, sub1)
      /\ x \in T /\ s \in Sides /\ o \in Sides /\ Other(o) = s /\ c # Null
      /\ t[x].parent = p
      /\ p # Null => \A d \in Sides : t[p].kid[d] = tree[p].kid[d]
  BY DEF Turning
<1>1. /\ t \in [Names -> AVLNode] /\ T \subseteq Names /\ x \in Names /\ x # Null
      /\ tree \in [Names -> AVLNode]
  BY <1>0, NullIsNoName DEF Shape
<1>2. c \in T /\ c # x /\ x \notin sub1[c] /\ t[c].parent = x /\ c \in sub1[x]
  <2>1. Shape(t, r, score, T, sub1) /\ x \in T /\ s \in Sides /\ t[x].kid[s] = c /\ c # Null
    BY <1>0
  <2> QED
    BY ONLY <2>1, Kin
<1>3. inner # x /\ inner # c
  <2>1. inner # Null => inner # c /\ inner \in sub1[c]
    <3>1. Shape(t, r, score, T, sub1) /\ c \in T /\ o \in Sides
      BY <1>0, <1>2
    <3>2. inner = t[c].kid[o]
      OBVIOUS
    <3> QED
      BY ONLY <3>1, <3>2, Kin
  <2> QED
    BY <1>0, <1>1, <1>2, <2>1
<1>4. /\ w \in [Names -> AVLNode] /\ low \in AuxType /\ high \in AuxType
      /\ \A m \in Names :
            /\ w[m].parent = IF m = x THEN c ELSE IF m = c THEN p
                             ELSE IF m = inner THEN x ELSE t[m].parent
            /\ w[m].aux = IF m = x THEN low ELSE IF m = c THEN high ELSE t[m].aux
      /\ \A m \in Names, d \in Sides :
            w[m].kid[d] = IF m = x /\ d = s THEN inner
                          ELSE IF m = c /\ d = o THEN x ELSE t[m].kid[d]
  <2>1. t[x].kid[Other(o)] \in Names \ {x} /\ t[t[x].kid[Other(o)]].kid[o] \notin {x, t[x].kid[Other(o)]}
    BY <1>0, <1>1, <1>2, <1>3
  <2>2. LET top  == t[x].kid[Other(o)]
            inr  == t[top].kid[o]
            lw   == Grow(Aux(t, t[x].kid[o]), Aux(t, inr))
            hg   == Grow(lw, Aux(t, t[top].kid[Other(o)]))
            v    == Rotate(t, x, o)
        IN  /\ v \in [Names -> AVLNode] /\ lw \in AuxType /\ hg \in AuxType
            /\ \A m \in Names :
                  /\ v[m].parent = IF m = x THEN top ELSE IF m = top THEN t[x].parent
                                   ELSE IF m = inr THEN x ELSE t[m].parent
                  /\ v[m].aux = IF m = x THEN lw ELSE IF m = top THEN hg ELSE t[m].aux
            /\ \A m \in Names, d \in Sides :
                  v[m].kid[d] = IF m = x /\ d = Other(o) THEN inr
                                ELSE IF m = top /\ d = o THEN x ELSE t[m].kid[d]
    <3>1. t \in [Names -> AVLNode] /\ x \in Names /\ o \in Sides
      BY <1>0, <1>1
    <3>2. Pivoted(t, x, o)
      BY ONLY <2>1, <3>1, RotateIs
    <3> QED
      BY ONLY <3>2 DEF Pivoted
  <2>3. /\ t[x].kid[Other(o)] = c /\ t[c].kid[o] = inner /\ t[x].kid[o] = far /\ t[c].kid[Other(o)] = outer
        /\ low = Grow(Aux(t, far), Aux(t, inner)) /\ high = Grow(low, Aux(t, outer)) /\ Other(o) = s
        /\ t[x].parent = p
    BY <1>0
  <2> QED
    BY ONLY <2>2, <2>3
<1>5. p # Null => /\ p \in T /\ tree[p].kid[SideOf(p, x)] = x
                  /\ \A e \in Sides : tree[p].kid[e] = x => e = SideOf(p, x)
  <2>1. Shape(tree, root, score, T, sub) /\ x \in T /\ tree[x].parent = p
    BY <1>0
  <2> QED
    BY ONLY <2>1, SideIs
<1>6. SideOf(p, x) \in Sides
  BY DEF SideOf, Sides
<1>7. p # Null => p # x /\ p # c
  <2> SUFFICES ASSUME p # Null PROVE p # x /\ p # c
    OBVIOUS
  <2>1. p \in T /\ t[p].kid[SideOf(p, x)] = x
    BY <1>0, <1>5, <1>6
  <2>2. p # x /\ p \notin sub1[x]
    <3>1. Shape(t, r, score, T, sub1) /\ p \in T /\ SideOf(p, x) \in Sides
          /\ t[p].kid[SideOf(p, x)] = x /\ x # Null
      BY <1>0, <1>1, <1>6, <2>1
    <3> QED
      BY ONLY <3>1, Kin
  <2> QED
    BY <1>2, <2>2
<1>8. p \in Names \cup {Null} /\ c \in Names \cup {Null}
  BY <1>0, <1>1, <1>2, <1>5
<1> HIDE DEF w
<1>9. /\ u \in [Names -> AVLNode]
      /\ \A m \in Names : u[m].parent = w[m].parent /\ u[m].aux = w[m].aux
      /\ \A m \in Names, e \in Sides : u[m].kid[e] = IF m = p /\ e = SideOf(p, x) THEN c ELSE w[m].kid[e]
  <2>1. /\ SideOf(p, x) \in Sides /\ Link(w, p, x, c) \in [Names -> AVLNode]
        /\ \A m \in Names : Link(w, p, x, c)[m].parent = w[m].parent /\ Link(w, p, x, c)[m].aux = w[m].aux
        /\ \A m \in Names, e \in Sides :
              Link(w, p, x, c)[m].kid[e] = IF m = p /\ e = SideOf(p, x) THEN c ELSE w[m].kid[e]
    <3>1. w \in [Names -> AVLNode] /\ p \in Names \cup {Null} /\ c \in Names \cup {Null} /\ x \in Names
      BY <1>1, <1>4, <1>8
    <3> QED
      BY ONLY <3>1, LinkIs
  <2>2. u = Link(w, p, x, c)
    BY DEF w
  <2> QED
    BY ONLY <2>1, <2>2
<1>10. ASSUME NEW m \in Names, NEW d \in Sides
       PROVE  u[m].kid[d] = IF m = x /\ d = s THEN inner
                            ELSE IF m = c /\ d = o THEN x
                            ELSE IF m = p /\ t[m].kid[d] = x THEN c
                            ELSE t[m].kid[d]
  <2>1. CASE m = p
    <3>1. p # Null /\ p # x /\ p # c
      BY <1>7, <2>1, NullIsNoName
    <3>2. t[p].kid[d] = tree[p].kid[d]
      BY <1>0, <3>1
    <3>3. m \in Names /\ d \in Sides
      OBVIOUS
    <3> QED
      BY ONLY <1>4, <1>5, <1>9, <2>1, <3>1, <3>2, <3>3
  <2>2. CASE m # p
    <3>1. m \in Names /\ d \in Sides
      OBVIOUS
    <3> QED
      BY ONLY <1>4, <1>9, <2>2, <3>1
  <2> QED
    BY ONLY <2>1, <2>2
<1>11. \A m \in Names : u[m].parent = IF m = x THEN c ELSE IF m = c THEN p
                                      ELSE IF m = inner THEN x ELSE t[m].parent
  BY <1>4, <1>9, ZenonT(60)
<1>12. \A m \in Names : u[m].aux = IF m = x THEN low ELSE IF m = c THEN high ELSE t[m].aux
  BY <1>4, <1>9, ZenonT(60)
<1>13. u \in [Names -> AVLNode]
  BY <1>9
<1>14. Rotated(t, u, x, o)
  <2>1. t[x].kid[Other(o)] = c /\ t[c].kid[o] = inner /\ t[x].parent = p /\ Other(o) = s
    BY <1>0
  <2> QED
    BY ONLY <1>10, <1>11, <1>13, <2>1 DEF Rotated
<1> QED
  BY ONLY <1>4, <1>10, <1>11, <1>12, <1>13, <1>14 DEF TurnedTo

\* What a turn of the loop has to achieve: the nodes of W, which are the node and
\* some below it, fit, and the height at their top is within 1 of the old one.
LEMMA RepairedBy ==
    ASSUME NEW T, NEW sub, NEW old, AtWork(T, sub, old),
           NEW u \in [Names -> AVLNode], NEW sub2, NEW W \in SUBSET T, NEW y \in W,
           Shape(u, IF tree[node].parent = Null THEN y ELSE root, score, T, sub2),
           node \in W, tree[node].parent \notin W,
           \A w \in W : w # node => tree[w].parent \in W,
           \A m \in T \ W : u[m].aux = tree[m].aux,
           \A m \in T \ W, s \in Sides :
               u[m].kid[s] = IF tree[m].kid[s] = node THEN y ELSE tree[m].kid[s],
           \A w \in W, s \in Sides : Fit(u[w].aux, Aux(u, u[w].kid[s]), Aux(u, u[w].kid[Other(s)])),
           u[y].aux.height <= old.height + 1, old.height <= u[y].aux.height + 1,
           \A m \in Names \ T : /\ u[m].parent = tree[m].parent
                                /\ \A s \in Sides : u[m].kid[s] = tree[m].kid[s]
    PROVE  Repaired(u, y, T)
<1> DEFINE p == tree[node].parent
<1>1. /\ Shape(tree, root, score, T, sub) /\ node \in T /\ old \in AuxType
      /\ tree \in [Names -> AVLNode] /\ T \in SUBSET Names /\ node \in Names
      /\ AuxFits(tree, T, node, old) /\ node # Null
  BY NullIsNoName DEF AtWork, Shape
<1>2. /\ p \in Names \cup {Null}
      /\ p # Null => /\ p \in T /\ p # node
                     /\ \E s \in Sides : tree[p].kid[s] = node /\ tree[p].kid[Other(s)] # node
      /\ \A m \in T, s \in Sides : tree[m].kid[s] = node => m = p
  BY <1>1, ParentIs
<1>3. \A m \in T \ W, s \in Sides : tree[m].kid[s] \in (T \ W) \cup {Null} \/ (m = p /\ tree[m].kid[s] = node)
  <2> SUFFICES ASSUME NEW m \in T \ W, NEW s \in Sides, tree[m].kid[s] # Null, tree[m].kid[s] # node
               PROVE  tree[m].kid[s] \in T \ W
    BY <1>2
  <2>1. tree[m].kid[s] \in T /\ tree[tree[m].kid[s]].parent = m
    BY <1>1, OneParent
  <2> QED
    BY <2>1
<1>4. p = Null \/ p \in T \ W
  BY <1>2
<1> HIDE DEF p
<1>5. Ascent(T, tree, u, node, old, W, y, p)
  BY <1>1, <1>2, <1>3, <1>4 DEF Ascent
<1>6. AuxFits(u, T, p, Aux(u, p)) /\ (p # Null => StaleFits(u, p, u[p].aux))
  BY <1>5, AscendFits
<1> QED
  BY <1>2, <1>6 DEF Repaired, p

\* The heights of a single rotation,
LEMMA SingleHeights ==
    ASSUME NEW far \in AuxType, NEW inner \in AuxType, NEW outer \in AuxType, NEW child \in AuxType,
           Fit(child, outer, inner), child.height = far.height + 2,
           ~(outer.height < inner.height), NEW h \in Nat,
           child.height <= h, h <= child.height + 1
    PROVE  LET low == Grow(far, inner)
               high == Grow(low, outer)
           IN  /\ Fit(low, far, inner) /\ Fit(high, low, outer)
               /\ high.height <= h + 1 /\ h <= high.height + 1
<1> DEFINE low == Grow(far, inner)
           high == Grow(low, outer)
<1>1. /\ far.height \in Nat /\ inner.height \in Nat /\ outer.height \in Nat /\ child.height \in Nat
  BY DEF AuxType
<1>2. /\ low \in AuxType
      /\ low.height = 1 + (IF far.height < inner.height THEN inner.height ELSE far.height)
  BY GrowIs
<1>3. /\ outer.height <= inner.height + 1
      /\ child.height = 1 + (IF outer.height < inner.height THEN inner.height ELSE outer.height)
  BY DEF Fit
<1>4. Fit(low, far, inner)
  BY <1>1, <1>3, GrowFits
<1> HIDE DEF low
<1>5. /\ high.height = 1 + (IF low.height < outer.height THEN outer.height ELSE low.height)
  BY <1>2, GrowIs
<1>6. Fit(high, low, outer)
  <2>1. low.height <= outer.height + 1 /\ outer.height <= low.height + 1
    BY <1>1, <1>2, <1>3
  <2> QED
    BY <1>2, <2>1, GrowFits
<1> HIDE DEF high
<1>7. high.height <= h + 1 /\ h <= high.height + 1
  BY <1>1, <1>2, <1>3, <1>5
<1> QED
  BY <1>4, <1>6, <1>7 DEF low, high

\* and those of a double one.
LEMMA DoubleHeights ==
    ASSUME NEW far \in AuxType, NEW inner \in AuxType, NEW outer \in AuxType, NEW child \in AuxType,
           NEW near \in AuxType, NEW mid \in AuxType,
           Fit(child, outer, inner), child.height = far.height + 2, Fit(inner, near, mid),
           outer.height < inner.height, NEW h \in Nat,
           child.height <= h, h <= child.height + 1
    PROVE  LET low == Grow(outer, near)
               low2 == Grow(far, mid)
               high == Grow(low2, low)
           IN  /\ Fit(low, outer, near) /\ Fit(low2, far, mid) /\ Fit(high, low2, low)
               /\ high.height <= h + 1 /\ h <= high.height + 1
<1> DEFINE low == Grow(outer, near)
           low2 == Grow(far, mid)
           high == Grow(low2, low)
<1>1. /\ far.height \in Nat /\ inner.height \in Nat /\ outer.height \in Nat /\ child.height \in Nat
      /\ near.height \in Nat /\ mid.height \in Nat
  BY DEF AuxType
<1>2. /\ low \in AuxType
      /\ low.height = 1 + (IF outer.height < near.height THEN near.height ELSE outer.height)
      /\ low2 \in AuxType
      /\ low2.height = 1 + (IF far.height < mid.height THEN mid.height ELSE far.height)
  BY GrowIs
<1>3. /\ inner.height <= outer.height + 1
      /\ child.height = 1 + (IF outer.height < inner.height THEN inner.height ELSE outer.height)
      /\ near.height <= mid.height + 1 /\ mid.height <= near.height + 1
      /\ inner.height = 1 + (IF near.height < mid.height THEN mid.height ELSE near.height)
  BY DEF Fit
<1>4. Fit(low, outer, near)
  <2>1. outer.height <= near.height + 1 /\ near.height <= outer.height + 1
    BY <1>1, <1>3
  <2> QED
    BY <2>1, GrowFits
<1>5. Fit(low2, far, mid)
  <2>1. far.height <= mid.height + 1 /\ mid.height <= far.height + 1
    BY <1>1, <1>3
  <2> QED
    BY <2>1, GrowFits
<1> HIDE DEF low, low2
<1>6. /\ high.height = 1 + (IF low2.height < low.height THEN low.height ELSE low2.height)
  BY <1>2, GrowIs
<1>7. low2.height <= low.height + 1 /\ low.height <= low2.height + 1
  BY <1>1, <1>2, <1>3
<1>8. Fit(high, low2, low)
  BY <1>2, <1>7, GrowFits
<1> HIDE DEF high
<1>9. high.height <= h + 1 /\ h <= high.height + 1
  BY <1>1, <1>2, <1>3, <1>6
<1> QED
  BY <1>4, <1>5, <1>8, <1>9 DEF low, low2, high

\* A single rotation repairs the node whose child on side s is taller by 2, and
\* not because of its inner subtree.
LEMMA FixSingle ==
    ASSUME NEW T, NEW sub, NEW old, AtWork(T, sub, old), NEW s \in Taller,
           ~(avl_height(tree, tree[tree[node].kid[s]].kid[s])
               < avl_height(tree, tree[tree[node].kid[s]].kid[Other(s)]))
    PROVE  LET c == tree[node].kid[s]
           IN  Repaired(Link(Rotate(tree, node, Other(s)), tree[node].parent, node, c), c, T)
<1> DEFINE p == tree[node].parent
           o == Other(s)
           c == tree[node].kid[s]
           far == tree[node].kid[o]
           inner == tree[c].kid[o]
           outer == tree[c].kid[s]
           low == Grow(Aux(tree, far), Aux(tree, inner))
           high == Grow(low, Aux(tree, outer))
           u == Link(Rotate(tree, node, o), p, node, c)
           W == {node, c}
<1>0. s \in Sides /\ o \in Sides /\ o # s /\ Other(o) = s /\ \A d \in Sides : d = s \/ d = o
  BY SidesAre DEF Taller
<1>1. /\ Shape(tree, root, score, T, sub) /\ node \in T /\ old \in AuxType
      /\ tree \in [Names -> AVLNode] /\ T \in SUBSET Names /\ node \in Names
      /\ AuxFits(tree, T, node, old) /\ node # Null
  BY NullIsNoName DEF AtWork, Shape
<1>2. /\ p \in Names \cup {Null}
      /\ p # Null => p \in T /\ p # node
      /\ \A m \in T, d \in Sides : tree[m].kid[d] = node => m = p
  BY <1>1, ParentIs
<1>3. /\ avl_height(tree, c) = avl_height(tree, far) + 2
      /\ avl_height(tree, c) <= old.height /\ old.height <= avl_height(tree, c) + 1
      /\ avl_height(tree, far) \in Nat /\ old.height \in Nat
  <2>1. avl_height(tree, c) = avl_height(tree, far) + 2
    BY DEF Taller
  <2> QED
    BY <1>0, <2>1, StaleLean
<1>4. c # Null
  <2>1. c = Null => avl_height(tree, c) = 0
    BY DEF avl_height, Aux, NoAux
  <2> QED
    BY ONLY <1>3, <2>1
<1>5. /\ c \in T /\ c # node /\ tree[c].parent = node /\ far # c /\ node \notin sub[c]
  BY <1>0, <1>1, <1>4, Kin
<1>6. p # c
  <2> SUFFICES ASSUME p # Null, p = c PROVE FALSE
    BY <1>4
  <2>1. PICK d \in Sides : p \in T /\ tree[p].kid[d] = node
    BY <1>1 DEF Shape, ParentsFit
  <2>2. node \in sub[p]
    BY <1>1, <2>1, Kin
  <2> QED
    BY <1>5, <2>2
<1>7. inner # c /\ outer # c /\ inner # node /\ outer # node /\ far # node
  <2>1. \A d \in Sides : tree[c].kid[d] # c /\ tree[node].kid[d] # node
    BY <1>0, <1>1, <1>5, <1>4, OneParent
  <2>2. \A d \in Sides : tree[c].kid[d] # node
    BY <1>2, <1>5, <1>6
  <2> QED
    BY <1>0, <2>1, <2>2
<1>8. /\ Rotated(tree, u, node, o) /\ u \in [Names -> AVLNode]
      /\ low \in AuxType /\ high \in AuxType
      /\ \A m \in Names : u[m].aux = IF m = node THEN low ELSE IF m = c THEN high ELSE tree[m].aux
      /\ \A m \in Names, d \in Sides :
            u[m].kid[d] = IF m = node /\ d = s THEN inner
                          ELSE IF m = c /\ d = o THEN node
                          ELSE IF m = p /\ tree[m].kid[d] = node THEN c
                          ELSE tree[m].kid[d]
      /\ \A m \in Names :
            u[m].parent = IF m = node THEN c ELSE IF m = c THEN p
                          ELSE IF m = inner THEN node ELSE tree[m].parent
  <2>1. Turning(root, T, sub, tree, sub, node, s, o)
    BY <1>0, <1>1, <1>4 DEF Turning
  <2>2. TurnedTo(tree, u, node, s, o, c, inner, p, low, high)
    BY <1>0, <2>1, Turned
  <2> HIDE DEF u, c, inner, p, low, high
  <2> QED
    BY ONLY <2>2 DEF TurnedTo
<1> HIDE DEF u
<1>9. u \in [Names -> AVLNode]
  BY <1>8
<1>10. \E sb : Shape(u, IF p = Null THEN c ELSE root, score, T, sb)
  <2>1. Shape(u, IF tree[node].parent = Null THEN tree[node].kid[Other(o)] ELSE root, score, T,
                 RotatedSub(tree, score, sub, T, node, o))
    BY <1>0, <1>1, <1>4, <1>8, RotateShape
  <2> QED
    BY <1>0, <2>1
<1>11. Aux(tree, far) \in AuxType /\ Aux(tree, inner) \in AuxType /\ Aux(tree, outer) \in AuxType
       /\ tree[c].aux \in AuxType /\ Aux(tree, c) = tree[c].aux
  BY <1>0, <1>1, <1>4, <1>5, KidType, AuxIs DEF AuxType
<1>12. Fit(tree[c].aux, Aux(tree, outer), Aux(tree, inner))
  <2>1. Fit(tree[c].aux, Seen(tree, outer, node, old), Seen(tree, inner, node, old))
    BY <1>0, <1>1, <1>5 DEF AuxFits
  <2> QED
    BY <1>7, <2>1 DEF Seen
<1>13. /\ Fit(low, Aux(tree, far), Aux(tree, inner)) /\ Fit(high, low, Aux(tree, outer))
       /\ high.height <= old.height + 1 /\ old.height <= high.height + 1
  <2> DEFINE af == Aux(tree, far) ai == Aux(tree, inner) ao == Aux(tree, outer) ac == tree[c].aux h == old.height
  <2>1. /\ af \in AuxType /\ ai \in AuxType /\ ao \in AuxType /\ ac \in AuxType
        /\ Fit(ac, ao, ai) /\ ac.height = af.height + 2 /\ h \in Nat
        /\ ~(ao.height < ai.height) /\ ac.height <= h /\ h <= ac.height + 1
    BY <1>3, <1>11, <1>12 DEF avl_height
  <2> HIDE DEF af, ai, ao, ac, h
  <2>2. LET lw == Grow(af, ai)
            hg == Grow(lw, ao)
        IN  /\ Fit(lw, af, ai) /\ Fit(hg, lw, ao)
            /\ hg.height <= h + 1 /\ h <= hg.height + 1
    BY ONLY <2>1, SingleHeights
  <2> QED
    BY <2>2 DEF af, ai, ao, h
<1> HIDE DEF low, high
<1>14. \A k \in Names \cup {Null} : k \notin W => Aux(u, k) = Aux(tree, k)
  BY <1>8 DEF Aux
<1>15. /\ u[node].aux = low /\ u[c].aux = high
       /\ u[node].kid[s] = inner /\ u[node].kid[o] = far
       /\ u[c].kid[o] = node /\ u[c].kid[s] = outer
  BY <1>0, <1>1, <1>2, <1>5, <1>6, <1>7, <1>8
<1>16. /\ Aux(u, inner) = Aux(tree, inner) /\ Aux(u, far) = Aux(tree, far)
       /\ Aux(u, outer) = Aux(tree, outer) /\ Aux(u, node) = low
  <2>1. inner \in Names \cup {Null} /\ far \in Names \cup {Null} /\ outer \in Names \cup {Null}
    BY <1>0, <1>1, <1>5, KidType
  <2> QED
    BY <1>1, <1>5, <1>7, <1>14, <1>15, <2>1 DEF Aux
<1>17. \A w \in W, d \in Sides : Fit(u[w].aux, Aux(u, u[w].kid[d]), Aux(u, u[w].kid[Other(d)]))
  <2>1. Fit(u[node].aux, Aux(u, u[node].kid[o]), Aux(u, u[node].kid[Other(o)]))
    BY <1>0, <1>13, <1>15, <1>16
  <2>2. Fit(u[c].aux, Aux(u, u[c].kid[o]), Aux(u, u[c].kid[Other(o)]))
    BY <1>0, <1>13, <1>15, <1>16
  <2>3. node \in Names /\ c \in Names
    BY <1>1, <1>5
  <2> QED
    BY <1>0, <1>9, <2>1, <2>2, <2>3, FitBoth
<1>18. \A m \in T \ W : u[m].aux = tree[m].aux
  BY <1>1, <1>8
<1>19. \A m \in T \ W, d \in Sides :
               u[m].kid[d] = IF tree[m].kid[d] = node THEN c ELSE tree[m].kid[d]
  BY <1>1, <1>2, <1>8, ZenonT(60)
<1>20. ASSUME NEW m \in Names \ T
       PROVE  u[m].parent = tree[m].parent /\ \A d \in Sides : u[m].kid[d] = tree[m].kid[d]
  <2>1. m # node /\ m # c /\ m # p
    BY <1>1, <1>2, <1>5, NullIsNoName
  <2>2. m # inner
    BY <1>0, <1>1, <1>5, OneParent, NullIsNoName
  <2> QED
    BY <1>8, <2>1, <2>2
<1>21. u[c].aux.height <= old.height + 1 /\ old.height <= u[c].aux.height + 1
  BY <1>13, <1>15
<1>22. /\ W \in SUBSET T /\ c \in W /\ node \in W /\ p \notin W
       /\ \A w \in W : w # node => tree[w].parent \in W
  BY <1>1, <1>2, <1>5, <1>6
<1>23. u \in [Names -> AVLNode]
  BY <1>9
<1> HIDE DEF W, p, c
<1>24. Repaired(u, c, T)
  BY <1>10, <1>17, <1>18, <1>19, <1>20, <1>21, <1>22, <1>23, RepairedBy DEF p
<1> QED
  BY <1>24 DEF u, p, c

\* A double rotation repairs it if the inner subtree of the child is the taller:
\* the child is turned first, and the top i of that subtree becomes the top.
LEMMA FixDouble ==
    ASSUME NEW T, NEW sub, NEW old, AtWork(T, sub, old), NEW s \in Taller,
           avl_height(tree, tree[tree[node].kid[s]].kid[s])
               < avl_height(tree, tree[tree[node].kid[s]].kid[Other(s)])
    PROVE  LET c == tree[node].kid[s]
               i == tree[c].kid[Other(s)]
               t == [Rotate(tree, c, s) EXCEPT ![node].kid[s] = i]
           IN  /\ t[node].kid[s] = i
               /\ Repaired(Link(Rotate(t, node, Other(s)), tree[node].parent, node, i), i, T)
<1> DEFINE p == tree[node].parent
           o == Other(s)
           c == tree[node].kid[s]
           i == tree[c].kid[o]
           far == tree[node].kid[o]
           outer == tree[c].kid[s]
           near == tree[i].kid[s]
           mid == tree[i].kid[o]
           low == Grow(Aux(tree, outer), Aux(tree, near))
           high == Grow(low, Aux(tree, mid))
           t == Link(Rotate(tree, c, s), node, c, i)
           low2 == Grow(Aux(tree, far), Aux(tree, mid))
           high2 == Grow(low2, low)
           u == Link(Rotate(t, node, o), p, node, i)
           W == {node, c, i}
<1>0. s \in Sides /\ o \in Sides /\ o # s /\ Other(o) = s /\ Other(s) = o /\ \A d \in Sides : d = s \/ d = o
  BY SidesAre DEF Taller
<1>1. /\ Shape(tree, root, score, T, sub) /\ node \in T /\ old \in AuxType
      /\ tree \in [Names -> AVLNode] /\ T \in SUBSET Names /\ node \in Names
      /\ AuxFits(tree, T, node, old) /\ node # Null /\ Null \notin T
  BY NullIsNoName DEF AtWork, Shape
<1>2. /\ p \in Names \cup {Null}
      /\ p # Null => p \in T /\ p # node
      /\ \A m \in T, d \in Sides : tree[m].kid[d] = node => m = p
  BY <1>1, ParentIs
<1>3. /\ avl_height(tree, c) = avl_height(tree, far) + 2
      /\ avl_height(tree, c) <= old.height /\ old.height <= avl_height(tree, c) + 1
      /\ avl_height(tree, far) \in Nat /\ old.height \in Nat
  <2>1. avl_height(tree, c) = avl_height(tree, far) + 2
    BY DEF Taller
  <2> QED
    BY <1>0, <2>1, StaleLean
<1>4. c # Null
  <2>1. c = Null => avl_height(tree, c) = 0
    BY DEF avl_height, Aux, NoAux
  <2> QED
    BY ONLY <1>3, <2>1
<1>5. /\ c \in T /\ c # node /\ tree[c].parent = node /\ far # c /\ node \notin sub[c]
      /\ c \in sub[node] /\ sub[c] \subseteq sub[node]
  BY <1>0, <1>1, <1>4, Kin
<1>6. i # Null
  <2>1. avl_height(tree, outer) \in Nat /\ avl_height(tree, outer) < avl_height(tree, i)
    BY <1>0, <1>1, <1>5, KidType, AuxIs DEF avl_height
  <2> HIDE DEF i, outer
  <2>2. i = Null => avl_height(tree, i) = 0
    BY DEF avl_height, Aux, NoAux
  <2> QED
    BY <2>1, <2>2
<1>7. /\ i \in T /\ i # c /\ tree[i].parent = c /\ outer # i /\ i \in sub[c]
  <2>1. LET k == tree[c].kid[o]
        IN  /\ k \in T /\ k # c /\ tree[k].parent = c
            /\ On(score, o, k, c)
            /\ tree[c].kid[Other(o)] # k
            /\ c \notin sub[k] /\ k \in sub[c] /\ sub[k] \subseteq sub[c]
    <3>1. /\ Shape(tree, root, score, T, sub) /\ c \in T /\ o \in Sides
          /\ tree[c].kid[o] # Null
      BY <1>0, <1>1, <1>5, <1>6
    <3> HIDE DEF c, o
    <3> QED
      BY ONLY <3>1, Kin
  <2> QED
    BY <1>0, <2>1
<1>8. i # node /\ p # c /\ p # i
  <2>1. i # node
    BY <1>5, <1>7
  <2>2. p # Null => p \notin sub[node]
    <3> SUFFICES ASSUME p # Null PROVE p \notin sub[node]
      OBVIOUS
    <3>1. PICK d \in Sides : p \in T /\ tree[p].kid[d] = node
      BY <1>1 DEF Shape, ParentsFit
    <3> QED
      BY <1>1, <3>1, Kin
  <2> QED
    BY <1>4, <1>5, <1>6, <1>7, <2>1, <2>2
<1>9. \A m \in T, d \in Sides :
         /\ tree[m].kid[d] \in T \cup {Null}
         /\ tree[m].kid[d] # Null => tree[tree[m].kid[d]].parent = m /\ tree[m].kid[d] # m
  BY <1>1, OneParent
<1>10. /\ far \in T \cup {Null} /\ outer \in T \cup {Null} /\ near \in T \cup {Null} /\ mid \in T \cup {Null}
       /\ near \notin W /\ mid \notin W /\ outer \notin W /\ far \notin W /\ near # c /\ mid # c
       /\ near # i /\ mid # i
  <2>1. /\ far \in T \cup {Null} /\ outer \in T \cup {Null} /\ near \in T \cup {Null} /\ mid \in T \cup {Null}
    BY <1>0, <1>1, <1>5, <1>7, <1>9
  <2>2. far \notin W
    <3>1. far # Null => tree[far].parent = node /\ far # node
      BY <1>0, <1>1, <1>9
    <3>2. far # c /\ node # Null /\ c # node /\ i # Null /\ tree[i].parent = c
      BY <1>1, <1>5, <1>6, <1>7
    <3> HIDE DEF far, c, i
    <3> QED
      BY <3>1, <3>2
  <2>3. outer \notin W
    <3>1. outer # Null => tree[outer].parent = c /\ outer # c
      BY <1>0, <1>5, <1>9
    <3>2. outer # i /\ node # Null /\ c # Null /\ i # Null /\ p # c /\ tree[node].parent = p
      BY <1>1, <1>4, <1>6, <1>7, <1>8
    <3> HIDE DEF outer, c, i, p
    <3> QED
      BY <3>1, <3>2
  <2>4. /\ near # Null => tree[near].parent = i /\ near # i
        /\ mid # Null => tree[mid].parent = i /\ mid # i
    BY <1>0, <1>7, <1>9
  <2>5. tree[node].parent = p
    OBVIOUS
  <2> HIDE DEF near, mid, i, c, p
  <2>6. near \notin W /\ mid \notin W
    BY <1>1, <1>4, <1>5, <1>6, <1>7, <1>8, <2>4, <2>5
  <2> QED
    BY <2>1, <2>2, <2>3, <2>6
<1>11. SideOf(node, c) = s
  <2>1. \A e \in Sides : tree[tree[c].parent].kid[e] = c => e = SideOf(tree[c].parent, c)
    BY <1>1, <1>5, SideIs
  <2> QED
    BY <1>0, <1>5, <2>1
<1>12. [Rotate(tree, c, s) EXCEPT ![node].kid[s] = i] = t
  BY <1>1, <1>11 DEF Link
<1>13. /\ Rotated(tree, t, c, s) /\ t \in [Names -> AVLNode]
       /\ low \in AuxType /\ high \in AuxType
       /\ \A m \in Names : t[m].aux = IF m = c THEN low ELSE IF m = i THEN high ELSE tree[m].aux
       /\ \A m \in Names, d \in Sides :
             t[m].kid[d] = IF m = c /\ d = o THEN near
                           ELSE IF m = i /\ d = s THEN c
                           ELSE IF m = node /\ tree[m].kid[d] = c THEN i
                           ELSE tree[m].kid[d]
       /\ \A m \in Names :
             t[m].parent = IF m = c THEN i ELSE IF m = i THEN node
                           ELSE IF m = near THEN c ELSE tree[m].parent
  <2>1. Turning(root, T, sub, tree, sub, c, o, s)
    BY <1>0, <1>1, <1>5, <1>6 DEF Turning
  <2>2. tree[c].parent = node
    BY <1>5
  <2>3. TurnedTo(tree, t, c, o, s, i, near, node, low, high)
    <3> HIDE DEF c, o, p
    <3> QED
      BY <2>1, <2>2, Turned
  <2> HIDE DEF t, c, i, near, p, low, high, o
  <2> QED
    BY ONLY <2>3 DEF TurnedTo
<1>14. \E sub1 : Shape(t, root, score, T, sub1)
  <2>1. tree[c].kid[Other(s)] # Null /\ s \in Sides /\ c \in T /\ tree[c].parent # Null
    BY <1>0, <1>1, <1>5, <1>6
  <2> HIDE DEF t, c
  <2>2. Shape(t, IF tree[c].parent = Null THEN tree[c].kid[Other(s)] ELSE root, score, T,
                 RotatedSub(tree, score, sub, T, c, s))
    BY <1>1, <1>13, <2>1, RotateShape
  <2> QED
    BY <2>1, <2>2
<1>15. PICK sub1 : Shape(t, root, score, T, sub1)
  BY <1>14
<1> HIDE DEF t, p, c, i, far, outer, near, mid, low, high, low2, high2
<1>16. /\ t[node].kid[s] = i /\ t[node].kid[o] = far /\ t[node].parent = p
       /\ t[i].kid[o] = mid /\ t[i].kid[s] = c /\ t[c].kid[s] = outer /\ t[c].kid[o] = near
       /\ t[c].aux = low
  <2>1. /\ tree[node].kid[s] = c /\ tree[node].kid[o] = far /\ tree[node].parent = p
        /\ tree[i].kid[o] = mid /\ tree[c].kid[s] = outer
    BY DEF c, i, far, outer, near, mid, p
  <2>2. node \in Names /\ c \in Names /\ i \in Names
    BY <1>1, <1>5, <1>7
  <2> QED
    BY <1>0, <1>5, <1>7, <1>8, <1>10, <1>13, <2>1, <2>2
<1>17. \A k \in Names \cup {Null} : k \notin W => Aux(t, k) = Aux(tree, k)
  BY <1>13 DEF Aux
<1>18. /\ Aux(t, far) = Aux(tree, far) /\ Aux(t, mid) = Aux(tree, mid) /\ Aux(t, c) = low
  BY <1>1, <1>4, <1>10, <1>16, <1>17 DEF Aux
<1>19. /\ Rotated(t, u, node, o) /\ u \in [Names -> AVLNode]
       /\ low2 \in AuxType /\ high2 \in AuxType
       /\ \A m \in Names : u[m].aux = IF m = node THEN low2 ELSE IF m = i THEN high2 ELSE t[m].aux
       /\ \A m \in Names, d \in Sides :
             u[m].kid[d] = IF m = node /\ d = s THEN mid
                           ELSE IF m = i /\ d = o THEN node
                           ELSE IF m = p /\ t[m].kid[d] = node THEN i
                           ELSE t[m].kid[d]
       /\ \A m \in Names :
             u[m].parent = IF m = node THEN i ELSE IF m = i THEN p
                           ELSE IF m = mid THEN node ELSE t[m].parent
  <2>1. p # Null => \A d \in Sides : t[p].kid[d] = tree[p].kid[d]
    BY <1>1, <1>2, <1>8, <1>13
  <2>2. tree[node].parent = p
    BY DEF p
  <2>3. Turning(root, T, sub, t, sub1, node, s, o)
    BY <1>0, <1>1, <1>6, <1>15, <1>16, <2>1, <2>2 DEF Turning
  <2>4. low2 = Grow(Aux(t, far), Aux(t, mid)) /\ high2 = Grow(low2, Aux(t, c))
    BY <1>18 DEF low2, high2
  <2>5. i = t[node].kid[s] /\ mid = t[i].kid[o] /\ c = t[i].kid[s] /\ far = t[node].kid[o]
    BY <1>16
  <2>6. u = Link(Rotate(t, node, o), p, node, i)
    OBVIOUS
  <2> HIDE DEF u, o
  <2>7. TurnedTo(t, u, node, s, o, i, mid, p, low2, high2)
    BY ONLY <2>2, <2>3, <2>4, <2>5, <2>6, Turned
  <2> QED
    BY ONLY <2>7 DEF TurnedTo
<1> HIDE DEF u
<1>20. \E sb : Shape(u, IF p = Null THEN i ELSE root, score, T, sb)
  <2>1. t[node].kid[Other(o)] = i /\ t[node].kid[Other(o)] # Null /\ t[node].parent = p
    BY <1>0, <1>6, <1>16
  <2>2. Shape(u, IF t[node].parent = Null THEN t[node].kid[Other(o)] ELSE root, score, T,
                 RotatedSub(t, score, sub1, T, node, o))
    BY <1>0, <1>1, <1>15, <1>19, <2>1, RotateShape
  <2> QED
    BY <2>1, <2>2
<1>21. /\ Aux(tree, far) \in AuxType /\ Aux(tree, outer) \in AuxType /\ Aux(tree, near) \in AuxType
       /\ Aux(tree, mid) \in AuxType /\ tree[c].aux \in AuxType /\ tree[i].aux \in AuxType
       /\ Aux(tree, c) = tree[c].aux /\ Aux(tree, i) = tree[i].aux
  BY <1>1, <1>4, <1>5, <1>6, <1>7, <1>10, KidType, AuxIs DEF AuxType
<1>22. Fit(tree[c].aux, Aux(tree, outer), Aux(tree, i))
  <2>1. Fit(tree[c].aux, Seen(tree, tree[c].kid[s], node, old), Seen(tree, tree[c].kid[Other(s)], node, old))
    BY <1>0, <1>1, <1>5 DEF AuxFits
  <2>2. tree[c].kid[s] = outer /\ tree[c].kid[Other(s)] = i
    BY DEF outer, i
  <2> QED
    BY <1>8, <1>10, <2>1, <2>2 DEF Seen
<1>23. Fit(tree[i].aux, Aux(tree, near), Aux(tree, mid))
  <2>1. Fit(tree[i].aux, Seen(tree, tree[i].kid[s], node, old), Seen(tree, tree[i].kid[Other(s)], node, old))
    BY <1>0, <1>1, <1>7, <1>8 DEF AuxFits
  <2>2. tree[i].kid[s] = near /\ tree[i].kid[Other(s)] = mid
    BY DEF near, mid
  <2> QED
    BY <1>10, <2>1, <2>2 DEF Seen
<1>24. /\ Fit(low, Aux(tree, outer), Aux(tree, near)) /\ Fit(low2, Aux(tree, far), Aux(tree, mid))
       /\ Fit(high2, low2, low) /\ high2.height <= old.height + 1 /\ old.height <= high2.height + 1
  <2> DEFINE af == Aux(tree, far) ai == tree[i].aux ao == Aux(tree, outer) ac == tree[c].aux h == old.height
             an == Aux(tree, near) am == Aux(tree, mid)
  <2>1. avl_height(tree, outer) < avl_height(tree, i)
    BY DEF outer, i, c
  <2>2. /\ af \in AuxType /\ ai \in AuxType /\ ao \in AuxType /\ ac \in AuxType
        /\ an \in AuxType /\ am \in AuxType
        /\ Fit(ac, ao, ai) /\ ac.height = af.height + 2 /\ h \in Nat /\ Fit(ai, an, am)
        /\ ao.height < ai.height /\ ac.height <= h /\ h <= ac.height + 1
    BY <1>3, <1>21, <1>22, <1>23, <2>1 DEF avl_height
  <2>3. low = Grow(ao, an) /\ low2 = Grow(af, am) /\ high2 = Grow(low2, low)
    BY DEF low, low2, high2
  <2> HIDE DEF af, ai, ao, ac, h, an, am
  <2>4. LET lw == Grow(ao, an)
            l2 == Grow(af, am)
            hg == Grow(l2, lw)
        IN  /\ Fit(lw, ao, an) /\ Fit(l2, af, am) /\ Fit(hg, l2, lw)
            /\ hg.height <= h + 1 /\ h <= hg.height + 1
    BY ONLY <2>2, DoubleHeights
  <2> QED
    BY <2>3, <2>4 DEF af, ao, an, am, h
<1>25. /\ u[node].aux = low2 /\ u[i].aux = high2 /\ u[c].aux = low
       /\ u[node].kid[s] = mid /\ u[node].kid[o] = far
       /\ u[i].kid[o] = node /\ u[i].kid[s] = c
       /\ u[c].kid[s] = outer /\ u[c].kid[o] = near
  <2>1. node \in Names /\ c \in Names /\ i \in Names
    BY <1>1, <1>5, <1>7
  <2>2. p # node /\ p # c /\ p # i
    BY <1>1, <1>2, <1>8
  <2> QED
    BY <1>0, <1>5, <1>7, <1>8, <1>16, <1>19, <2>1, <2>2
<1>26. \A k \in Names \cup {Null} : k \notin W => Aux(u, k) = Aux(tree, k)
  BY <1>13, <1>19 DEF Aux
<1>27. /\ Aux(u, far) = Aux(tree, far) /\ Aux(u, mid) = Aux(tree, mid) /\ Aux(u, near) = Aux(tree, near)
       /\ Aux(u, outer) = Aux(tree, outer) /\ Aux(u, node) = low2 /\ Aux(u, c) = low
  BY <1>1, <1>4, <1>10, <1>25, <1>26 DEF Aux
<1>28. \A w \in W, d \in Sides : Fit(u[w].aux, Aux(u, u[w].kid[d]), Aux(u, u[w].kid[Other(d)]))
  <2>1. Fit(u[node].aux, Aux(u, u[node].kid[o]), Aux(u, u[node].kid[Other(o)]))
    BY <1>0, <1>24, <1>25, <1>27
  <2>2. Fit(u[c].aux, Aux(u, u[c].kid[s]), Aux(u, u[c].kid[Other(s)]))
    BY <1>0, <1>24, <1>25, <1>27
  <2>3. Fit(u[i].aux, Aux(u, u[i].kid[o]), Aux(u, u[i].kid[Other(o)]))
    BY <1>0, <1>24, <1>25, <1>27
  <2>4. node \in Names /\ c \in Names /\ i \in Names
    BY <1>1, <1>5, <1>7
  <2> QED
    BY <1>0, <1>19, <2>1, <2>2, <2>3, <2>4, FitBoth
<1>29. \A m \in T \ W : u[m].aux = tree[m].aux
  BY <1>1, <1>13, <1>19
<1>30. \A m \in T \ W, d \in Sides :
               u[m].kid[d] = IF tree[m].kid[d] = node THEN i ELSE tree[m].kid[d]
  BY <1>1, <1>2, <1>13, <1>19
<1>31. ASSUME NEW m \in Names \ T
       PROVE  u[m].parent = tree[m].parent /\ \A d \in Sides : u[m].kid[d] = tree[m].kid[d]
  <2>1. m # node /\ m # c /\ m # i /\ m # p /\ m # near /\ m # mid
    BY <1>1, <1>2, <1>5, <1>7, <1>10, NullIsNoName
  <2> QED
    BY <1>13, <1>19, <2>1
<1>32. u[i].aux.height <= old.height + 1 /\ old.height <= u[i].aux.height + 1
  BY <1>24, <1>25
<1>33. /\ W \in SUBSET T /\ i \in W /\ node \in W /\ p \notin W
       /\ \A w \in W : w # node => tree[w].parent \in W
  BY <1>1, <1>2, <1>5, <1>7, <1>8
<1>34. u \in [Names -> AVLNode]
  BY <1>19
<1> HIDE DEF W
<1>35. Repaired(u, i, T)
  BY <1>20, <1>28, <1>29, <1>30, <1>31, <1>32, <1>33, <1>34, RepairedBy DEF p
<1> QED
  BY <1>12, <1>16, <1>35 DEF u, p, c, i

-----------------------------------------------------------------------------
(* The inductive invariant.                                                *)

\* the nodes that exist, and those of them that are in the tree
Allocated == {n \in Names : score[n] # Null}
InTree == Allocated \ {TakenOut}

\* Where a call stands: the variables of avl_remove() are those of a removal, and
\* the hash table has lost the node already, unless it is to be inserted again.
Control ==
    /\ pc \in {"idle", "insert"} =>
          target = Null /\ victim = Null /\ rescore = Null /\ hmap = Allocated
    /\ pc \in {"remove", "removed", "detached"} =>
          /\ target \in Allocated
          /\ hmap = IF rescore = Null THEN Allocated \ {target} ELSE Allocated
    /\ pc \in {"remove", "removed"} => victim \in Allocated
    /\ pc = "detached" => victim = Null

\* A record that is not in the tree points into it at most; one that was freed
\* points nowhere.
Loose(t, sc, T) ==
    \A m \in Names, s \in Sides : /\ sc[m] = Null => t[m].kid[s] = Null /\ t[m].parent = Null
                                  /\ m \notin T => t[m].kid[s] \in T \cup {Null}

\* g can take the place of v: no node of T is between them.
Adjacent(sc, T, g, v) ==
    \A m \in T \ {g}, s \in Sides : On(sc, s, v, m) <=> On(sc, s, g, m)

\* The old data of x are still those it carries, unless it was just attached.
Carries(t, x, old) == old = t[x].aux \/ (old.height = 0 /\ t[x].aux.height = 1)

\* The nodes of T form a tree, whose data fit but for what avl_fix() has to repair
\* at x: the nodes above x have accounted for its old data.
Sound(t, r, sc, T, x) ==
    \E sub, old :
        /\ Shape(t, r, sc, T, sub) /\ old \in AuxType
        /\ AuxFits(t, T, x, old)
        /\ x # Null => x \in T /\ StaleFits(t, x, old) /\ Carries(t, x, old)

Inv ==
    /\ TypeOK /\ IsFiniteSet(Allocated)
    /\ Control
    /\ Loose(tree, score, InTree)
    /\ pc \in {"remove", "removed"} /\ victim # target => Adjacent(score, InTree, target, victim)
    /\ Sound(tree, root, score, InTree, node)

\* A turn of the loop.
LEMMA FixStep ==
    ASSUME NEW T, NEW sub, NEW old, AtWork(T, sub, old), avl_fix
    PROVE  /\ \E y \in Names : Repaired(tree', y, T) /\ root' = IF tree[node].parent = Null THEN y ELSE root
           /\ node' = tree[node].parent
           /\ pc' = IF tree[node].parent # Null THEN pc ELSE IF pc = "insert" THEN "idle" ELSE "removed"
           /\ UNCHANGED <<hmap, score, removal>>
<1> DEFINE p == tree[node].parent
           Done(t, y) == /\ tree' = Link(t, p, node, y)
                         /\ root' = IF p = Null THEN y ELSE root
                         /\ node' = p
                         /\ pc' = IF p # Null THEN pc ELSE IF pc = "insert" THEN "idle" ELSE "removed"
                         /\ UNCHANGED <<hmap, score, removal>>
<1>0. \A t, y : Ascend(t, y) <=> Done(t, y)
  BY DEF Ascend, GoOnAt
<1>1. node \in Names /\ T \subseteq Names /\ tree \in [Names -> AVLNode] /\ Shape(tree, root, score, T, sub) /\ node \in T
  BY DEF AtWork, Shape
<1>2. SUFFICES \E t, y : y \in Names /\ Done(t, y) /\ Repaired(Link(t, p, node, y), y, T)
  BY <1>2
<1>3. CASE Taller = {} /\ Ascend(avl_update(tree, node), node)
  <2>1. Repaired(Link(avl_update(tree, node), p, node, node), node, T)
    BY <1>3, FixUpdate
  <2>2. Done(avl_update(tree, node), node)
    BY <1>0, <1>3
  <2> HIDE DEF Done, p
  <2> QED
    BY <1>1, <2>1, <2>2
<1>4. ASSUME NEW s \in Taller, Ascend(Rotate(TurnChild(node, s), node, Other(s)), TurnChild(node, s)[node].kid[s])
      PROVE  \E t, y : y \in Names /\ Done(t, y) /\ Repaired(Link(t, p, node, y), y, T)
  <2> DEFINE c == tree[node].kid[s]
             i == tree[c].kid[Other(s)]
             t2 == [Rotate(tree, c, s) EXCEPT ![node].kid[s] = i]
  <2>0. s \in Sides /\ Other(s) \in Sides
    BY SidesAre DEF Taller
  <2>1. c \in Names /\ c # Null /\ c \in T
    <3>1. c # Null
      <4> HIDE DEF c
      <4>1. avl_height(tree, c) = avl_height(tree, tree[node].kid[Other(s)]) + 2
        BY DEF Taller, c
      <4>2. avl_height(tree, tree[node].kid[Other(s)]) \in Nat
        BY <1>1, <2>0, KidType, AuxIs DEF avl_height
      <4>3. c = Null => avl_height(tree, c) = 0
        BY DEF avl_height, Aux, NoAux
      <4> QED
        BY <4>1, <4>2, <4>3
    <3> QED
      BY <1>1, <2>0, <3>1, OneParent
  <2>2. CASE ~(avl_height(tree, tree[c].kid[s]) < avl_height(tree, i))
    <3>1. TurnChild(node, s) = tree
      BY <2>2 DEF TurnChild
    <3>2. Done(Rotate(tree, node, Other(s)), c)
      BY <1>0, <1>4, <3>1
    <3>3. Repaired(Link(Rotate(tree, node, Other(s)), p, node, c), c, T)
      BY <2>2, FixSingle
    <3> HIDE DEF Done, p, c
    <3> QED
      BY <2>1, <3>2, <3>3
  <2>3. CASE avl_height(tree, tree[c].kid[s]) < avl_height(tree, i)
    <3>1. TurnChild(node, s) = t2
      BY <2>3 DEF TurnChild
    <3>2. t2[node].kid[s] = i /\ Repaired(Link(Rotate(t2, node, Other(s)), p, node, i), i, T)
      BY <2>3, FixDouble
    <3>3. Ascend(Rotate(t2, node, Other(s)), i)
      BY <1>4, <3>1, <3>2
    <3>4. Done(Rotate(t2, node, Other(s)), i)
      BY <1>0, <3>3
    <3>5. i \in Names
      <4>1. i \in T \cup {Null}
        BY <1>1, <2>0, <2>1, OneParent
      <4>2. i # Null
        <5>1. avl_height(tree, tree[c].kid[s]) \in Nat
          BY <1>1, <2>0, <2>1, KidType, AuxIs DEF avl_height
        <5> HIDE DEF i
        <5>2. i = Null => avl_height(tree, i) = 0
          BY DEF avl_height, Aux, NoAux
        <5> QED
          BY <2>3, <5>1, <5>2
      <4> QED
        BY <1>1, <4>1, <4>2
    <3> HIDE DEF Done, p, i, t2
    <3> QED
      BY <3>2, <3>4, <3>5
  <2> QED
    BY <2>2, <2>3
<1> HIDE DEF Done, p
<1> QED
  BY <1>3, <1>4 DEF avl_fix

LEMMA InvFix == Inv /\ avl_fix => Inv'
<1> SUFFICES ASSUME Inv, avl_fix PROVE Inv'
  OBVIOUS
<1>1. pc \in {"insert", "remove"} /\ node \in Names /\ node # Null
  BY NullIsNoName DEF avl_fix, Inv, TypeOK
<1>2. PICK sub, old : AtWork(InTree, sub, old)
  BY <1>1 DEF Inv, Sound, AtWork
<1> DEFINE p == tree[node].parent
<1>3. PICK y \in Names : Repaired(tree', y, InTree) /\ root' = IF p = Null THEN y ELSE root
  BY <1>2, FixStep
<1>4. /\ node' = p
      /\ pc' = IF p # Null THEN pc ELSE IF pc = "insert" THEN "idle" ELSE "removed"
      /\ UNCHANGED <<hmap, score, removal>>
  BY <1>2, FixStep
<1>5. /\ pc \in {"insert", "remove"} /\ pc' \in {"insert", "remove", "idle", "removed"}
      /\ hmap' = hmap /\ score' = score /\ target' = target /\ victim' = victim /\ rescore' = rescore
  BY <1>1, <1>4 DEF removal
<1>6. Allocated' = Allocated /\ TakenOut' = TakenOut /\ InTree' = InTree
  BY <1>5 DEF Allocated, TakenOut, InTree
<1>7. /\ \E sb : Shape(tree', root', score, InTree, sb)
      /\ AuxFits(tree', InTree, p, Aux(tree', p))
      /\ p # Null => p \in InTree /\ StaleFits(tree', p, tree'[p].aux)
      /\ \A m \in Names \ InTree : /\ tree'[m].parent = tree[m].parent
                                   /\ \A s \in Sides : tree'[m].kid[s] = tree[m].kid[s]
  BY <1>3 DEF Repaired
<1>8. PICK sb : Shape(tree', root', score, InTree, sb)
  BY <1>7
<1>9. /\ tree' \in [Names -> AVLNode] /\ p \in Names \cup {Null} /\ root' \in Names \cup {Null}
  <2>1. tree' \in [Names -> AVLNode]
    BY <1>8 DEF Shape
  <2>2. p \in Names \cup {Null}
    BY <1>1, SidesAre, KidType DEF Inv, TypeOK
  <2> QED
    BY <1>3, <2>1, <2>2 DEF Inv, TypeOK
<1> HIDE DEF p
<1>10. TypeOK'
  BY <1>4, <1>5, <1>9 DEF TypeOK, Inv
<1>11. Sound(tree', root', score', InTree', node')
  <2> DEFINE new == Aux(tree', p)
  <2>1. new \in AuxType
    BY <1>9, AuxIs
  <2>2. p # Null => new = tree'[p].aux
    BY DEF Aux
  <2>3. /\ AuxFits(tree', InTree, p, new)
        /\ p # Null => p \in InTree /\ StaleFits(tree', p, new) /\ Carries(tree', p, new)
    BY <1>7, <2>2 DEF Carries
  <2> HIDE DEF new
  <2>4. Sound(tree', root', score, InTree, p)
    BY <1>8, <2>1, <2>3 DEF Sound
  <2> QED
    BY <1>4, <1>5, <1>6, <2>4
<1>12. Loose(tree', score', InTree')
  <2> SUFFICES ASSUME NEW m \in Names, NEW s \in Sides
               PROVE  /\ score[m] = Null => tree'[m].kid[s] = Null /\ tree'[m].parent = Null
                      /\ m \notin InTree => tree'[m].kid[s] \in InTree \cup {Null}
    BY <1>5, <1>6 DEF Loose
  <2>1. score[m] = Null => m \notin InTree
    BY DEF InTree, Allocated
  <2> QED
    BY <1>7, <2>1 DEF Inv, Loose
<1>13. Control'
  BY <1>5, <1>4, <1>6 DEF Control, Inv
<1>14. pc' \in {"remove", "removed"} => pc = "remove"
  BY <1>1, <1>4
<1> QED
  BY <1>5, <1>6, <1>10, <1>11, <1>12, <1>13, <1>14 DEF Inv

-----------------------------------------------------------------------------
(* tree_insert()                                                           *)

\* a node alone
LEMMA AloneShape ==
    ASSUME NEW n \in Names, NEW sc, Ordered(sc, {n}), NEW u \in [Names -> AVLNode],
           u[n].parent = Null, \A d \in Sides : u[n].kid[d] = Null
    PROVE  Shape(u, n, sc, {n}, [m \in {n} |-> {n}])
<1> DEFINE sub == [m \in {n} |-> {n}]
<1>1. sub \in [{n} -> SUBSET {n}] /\ sub[n] = {n} /\ n # Null
  BY NullIsNoName
<1> HIDE DEF sub
<1>2. KidsFit(u, sc, {n}, sub)
  BY <1>1 DEF KidsFit, Ordered
<1>3. ParentsFit(u, n, {n})
  BY DEF ParentsFit
<1>4. Nested(u, {n}, sub)
  BY <1>1 DEF Nested
<1>5. RootFits(n, {n}, sub)
  BY <1>1 DEF RootFits
<1> QED
  BY <1>2, <1>3, <1>4, <1>5 DEF Shape, sub

\* the pointers of the records outside of T are the same in t and u
SameOff(t, u, T) == \A m \in Names \ T, d \in Sides :
    u[m].kid[d] = t[m].kid[d] /\ u[m].parent = t[m].parent

\* what tree_insert() finds
Insertable(T, sub, old, n, s) ==
    /\ Shape(tree, root, score, T, sub) /\ IsFiniteSet(T)
    /\ old \in AuxType /\ AuxFits(tree, T, Null, old)
    /\ \A m \in Names \ T, d \in Sides : tree[m].kid[d] \in T \cup {Null}
    /\ score \in [Names -> Scores \cup {Null}]
    /\ \A m \in T : score[m] # Null
    /\ n \in Names \ T /\ s \in Scores

LEMMA InsertOrder ==
    ASSUME NEW T, NEW sub, NEW old, NEW n, NEW s, Insertable(T, sub, old, n, s)
    PROVE  LET sc == [score EXCEPT ![n] = s]
           IN  /\ Ordered(sc, T \cup {n}) /\ sc[n] = s
               /\ \A m \in T : sc[m] = score[m]
<1> DEFINE sc == [score EXCEPT ![n] = s]
<1>1. T \subseteq Names /\ n \in Names /\ n \notin T
  BY DEF Insertable, Shape
<1>2. sc[n] = s /\ \A m \in T : sc[m] = score[m]
  BY <1>1 DEF Insertable
<1>3. \A x \in T \cup {n} : sc[x] \in Int
  BY <1>1, <1>2, SortedSetAssumption DEF Insertable
<1>4. T \cup {n} \subseteq Names
  BY <1>1
<1> HIDE DEF sc
<1>5. Ordered(sc, T \cup {n})
  BY <1>3, <1>4, OrderIs
<1> QED
  BY <1>2, <1>5 DEF sc

\* The new node is attached where the search ends.
LEMMA InsertShape ==
    ASSUME NEW T, NEW sub, NEW old, NEW n, NEW s, Insertable(T, sub, old, n, s),
           root # Null, NEW a \in T, NEW d \in Sides,
           d = Turn(<<s, n>>, a), tree[a].kid[d] = Null,
           \A x \in T : a \in sub[x] /\ x # a => On(score, Turn(<<s, n>>, x), a, x),
           NEW u, Attached(tree, u, n, a, d)
    PROVE  \E sb : Shape(u, root, [score EXCEPT ![n] = s], T \cup {n}, sb)
<1> DEFINE sc == [score EXCEPT ![n] = s]
           key == <<s, n>>
<1>1. /\ Shape(tree, root, score, T, sub) /\ T \subseteq Names /\ n \in Names /\ n \notin T
      /\ Ordered(score, T)
  BY DEF Insertable, Shape
<1>2. Ordered(sc, T \cup {n}) /\ sc[n] = s /\ \A m \in T : sc[m] = score[m]
  BY InsertOrder
<1>3. \A x \in T : Turn(key, x) = IF On(sc, "left", n, x) THEN "left" ELSE "right"
  BY <1>2 DEF On, Turn, Key
<1> HIDE DEF sc, key
<1>4. /\ "left" \in Sides /\ "right" \in Sides /\ Other("left") = "right" /\ Other("right") = "left"
      /\ \A e \in Sides : e = "left" \/ e = "right"
  BY DEF Sides, Other
<1>5. \A x \in T : On(sc, Turn(key, x), n, x) /\ ~On(sc, Other(Turn(key, x)), n, x)
  <2> SUFFICES ASSUME NEW x \in T PROVE On(sc, Turn(key, x), n, x) /\ ~On(sc, Other(Turn(key, x)), n, x)
    OBVIOUS
  <2>1. x # n /\ x \in T \cup {n} /\ n \in T \cup {n}
    BY <1>1
  <2>2. On(sc, "left", n, x) <=> ~On(sc, "right", n, x)
    BY <1>2, <1>4, <2>1 DEF Ordered
  <2> QED
    BY <1>3, <1>4, <2>2
<1>6. On(sc, d, n, a)
  BY <1>5 DEF key
<1>7. ASSUME NEW x \in T, NEW e \in Sides, a \in sub[x], x # a
      PROVE  On(sc, e, n, x) <=> On(score, e, a, x)
  <2> DEFINE f == Turn(key, x)
  <2>1. f \in Sides /\ (e = f \/ e = Other(f))
    BY <1>4 DEF Turn
  <2>2. On(score, f, a, x)
    BY <1>7 DEF key
  <2>3. ~On(score, Other(f), a, x)
    BY <1>1, <1>7, <2>1, <2>2 DEF Ordered
  <2> QED
    BY <1>5, <2>1, <2>2, <2>3
<1>8. Shape(u, root, sc, T \cup {n}, AttachedSub(sub, T, n, a))
  BY <1>1, <1>2, <1>6, <1>7, AttachShape
<1> QED
  BY <1>8 DEF sc

LEMMA InsertSound ==
    ASSUME NEW T, NEW sub, NEW old, NEW n, NEW s, Insertable(T, sub, old, n, s),
           tree_insert(n, s)
    PROVE  /\ Sound(tree', root', score', T \cup {n}, n)
           /\ root' \in Names /\ tree' \in [Names -> AVLNode]
           /\ SameOff(tree, tree', T \cup {n})
<1> DEFINE sc == [score EXCEPT ![n] = s]
<1>1. /\ Shape(tree, root, score, T, sub) /\ T \subseteq Names /\ n \in Names /\ n \notin T
      /\ Ordered(score, T) /\ tree \in [Names -> AVLNode] /\ n # Null
      /\ AuxFits(tree, T, Null, old) /\ IsFiniteSet(T)
      /\ \A m \in Names \ T, d \in Sides : tree[m].kid[d] \in T \cup {Null}
  BY NullIsNoName DEF Insertable, Shape
<1>2. Ordered(sc, T \cup {n}) /\ sc[n] = s /\ \A m \in T : sc[m] = score[m]
  BY InsertOrder
<1>3. NoAux \in AuxType /\ NoAux.height = 0 /\ NoAux.cnt = 0
  BY DEF NoAux, AuxType
<1>0. score' = sc
  BY DEF tree_insert
<1> HIDE DEF sc
<1>4. ASSUME NEW u \in [Names -> AVLNode], \A d \in Sides : u[n].kid[d] = Null
      PROVE  StaleFits(u, n, NoAux)
  <2>1. \A d \in Sides : avl_height(u, u[n].kid[d]) = 0 /\ Other(d) \in Sides
    BY <1>3, <1>4, SidesAre DEF avl_height, Aux
  <2> QED
    BY <1>3, <2>1 DEF StaleFits
<1>5. CASE root = Null /\ root' = n /\ tree' = [tree EXCEPT ![n] = avl_init]
  <2>1. T = {}
    BY <1>1, <1>5 DEF Shape, RootFits
  <2>2. /\ avl_init \in AVLNode /\ avl_init.parent = Null /\ avl_init.aux.height = 1
        /\ \A d \in Sides : avl_init.kid[d] = Null
    BY DEF avl_init, AVLNode
  <2>3. /\ tree' \in [Names -> AVLNode] /\ tree'[n] = avl_init
        /\ \A m \in Names \ {n} : tree'[m] = tree[m]
    BY <1>1, <1>5, <2>2
  <2>4. \E sb : Shape(tree', n, sc, {n}, sb)
    BY <1>1, <1>2, <2>1, <2>2, <2>3, AloneShape
  <2>5. AuxFits(tree', {n}, n, NoAux)
    BY DEF AuxFits
  <2>6. StaleFits(tree', n, NoAux)
    BY <1>4, <2>2, <2>3
  <2>7. Sound(tree', n, sc, {n}, n)
    <3>1. Carries(tree', n, NoAux)
      BY <1>3, <2>2, <2>3 DEF Carries
    <3> QED
      BY <1>1, <1>3, <2>4, <2>5, <2>6, <3>1 DEF Sound
  <2>8. SameOff(tree, tree', {n})
    BY <2>3 DEF SameOff
  <2> QED
    BY <1>0, <1>1, <1>5, <2>1, <2>3, <2>7, <2>8
<1>6. CASE /\ root # Null /\ root' = root
           /\ tree' = [tree EXCEPT ![n] = [avl_init EXCEPT !.parent = Place(<<s, n>>)[1]],
                                   ![Place(<<s, n>>)[1]].kid[Place(<<s, n>>)[2]] = n]
  <2>1. PICK a \in T, d \in Sides :
              /\ Place(<<s, n>>) = <<a, d>> /\ d = Turn(<<s, n>>, a) /\ tree[a].kid[d] = Null
              /\ \A x \in T : a \in sub[x] /\ x # a => On(score, Turn(<<s, n>>, x), a, x)
    BY <1>1, <1>6, PlaceFits
  <2> DEFINE fresh == [avl_init EXCEPT !.parent = a]
             t1 == [tree EXCEPT ![n] = fresh]
             u == [t1 EXCEPT ![a].kid[d] = n]
  <2>2. tree' = u /\ a \in Names /\ a # n /\ a # Null
    <3>1. Place(<<s, n>>)[1] = a /\ Place(<<s, n>>)[2] = d
      BY <2>1
    <3>2. tree' = [tree EXCEPT ![n] = fresh, ![a].kid[d] = n]
      BY ONLY <1>6, <3>1
    <3>3. tree' = u
      BY ONLY <3>2
    <3> QED
      BY <1>1, <3>3, NullIsNoName
  <2>3. /\ fresh \in AVLNode /\ fresh.parent = a /\ fresh.aux.height = 1
        /\ \A e \in Sides : fresh.kid[e] = Null
    BY <2>2 DEF avl_init, AVLNode
  <2> HIDE DEF fresh
  <2>4. t1 \in [Names -> AVLNode] /\ t1[n] = fresh /\ \A m \in Names \ {n} : t1[m] = tree[m]
    BY <1>1, <2>3
  <2> HIDE DEF t1
  <2>5. /\ u \in [Names -> AVLNode]
        /\ \A m \in Names : u[m].parent = t1[m].parent /\ u[m].aux = t1[m].aux
        /\ \A m \in Names, e \in Sides : u[m].kid[e] = IF m = a /\ e = d THEN n ELSE t1[m].kid[e]
    <3>1. t1 \in [Names -> AVLNode] /\ a \in Names /\ d \in Sides /\ n \in Names \cup {Null}
      BY <1>1, <2>2, <2>4
    <3> QED
      BY ONLY <3>1, KidIs, SMTT(40)
  <2> HIDE DEF u
  <2>6. /\ u[n].parent = a /\ (\A e \in Sides : u[n].kid[e] = Null)
        /\ (\A m \in Names \ {n} : u[m].parent = tree[m].parent /\ u[m].aux = tree[m].aux)
        /\ (\A m \in Names \ {n}, e \in Sides : u[m].kid[e] = IF m = a /\ e = d THEN n ELSE tree[m].kid[e])
    BY <1>1, <2>2, <2>3, <2>4, <2>5
  <2>7. Attached(tree, u, n, a, d)
    BY <2>5, <2>6 DEF Attached
  <2>8. \E sb : Shape(u, root, sc, T \cup {n}, sb)
    BY <1>6, <2>1, <2>7, InsertShape DEF sc
  <2>9. AuxFits(u, T \cup {n}, n, NoAux)
    <3> SUFFICES ASSUME NEW m \in T, NEW e \in Sides
                 PROVE  Fit(u[m].aux, Seen(u, u[m].kid[e], n, NoAux), Seen(u, u[m].kid[Other(e)], n, NoAux))
      BY DEF AuxFits
    <3>1. \A f \in Sides : Seen(u, u[m].kid[f], n, NoAux) = Seen(tree, tree[m].kid[f], Null, old)
      <4> SUFFICES ASSUME NEW f \in Sides
                   PROVE  Seen(u, u[m].kid[f], n, NoAux) = Seen(tree, tree[m].kid[f], Null, old)
        OBVIOUS
      <4>1. tree[m].kid[f] \in T \cup {Null} /\ m \in Names \ {n}
        BY <1>1, OneParent
      <4>2. CASE m = a /\ f = d
        <5>1. u[m].kid[f] = n /\ tree[m].kid[f] = Null
          BY <2>1, <2>6, <4>1, <4>2
        <5> QED
          BY <1>1, <5>1 DEF Seen, Aux
      <4>3. CASE ~(m = a /\ f = d)
        <5>1. u[m].kid[f] = tree[m].kid[f] /\ tree[m].kid[f] # n
          BY <1>1, <2>6, <4>1, <4>3
        <5>2. tree[m].kid[f] # Null => tree[m].kid[f] \in Names \ {n}
          BY <1>1, <4>1, <5>1
        <5> QED
          BY <2>6, <5>1, <5>2 DEF Seen, Aux
      <4> QED
        BY <4>2, <4>3
    <3>2. Fit(tree[m].aux, Seen(tree, tree[m].kid[e], Null, old), Seen(tree, tree[m].kid[Other(e)], Null, old))
      BY <1>1, NullIsNoName DEF AuxFits
    <3>3. u[m].aux = tree[m].aux /\ Other(e) \in Sides
      BY <1>1, <2>6, SidesAre
    <3> QED
      BY <3>1, <3>2, <3>3
  <2>10. StaleFits(u, n, NoAux)
    BY <1>4, <2>5, <2>6
  <2>11. Sound(u, root, sc, T \cup {n}, n)
    <3>1. Carries(u, n, NoAux)
      BY <1>1, <1>3, <2>3, <2>4, <2>5 DEF Carries
    <3> QED
      BY <1>3, <2>8, <2>9, <2>10, <3>1 DEF Sound
  <2>12. SameOff(tree, u, T \cup {n})
    BY <2>1, <2>6 DEF SameOff
  <2>13. root \in Names
    BY <1>1, <1>6 DEF Shape, RootFits
  <2>14. u \in [Names -> AVLNode]
    BY <2>5
  <2>15. tree' = u /\ root' = root
    BY <1>6, <2>2
  <2> QED
    BY ONLY <1>0, <2>11, <2>12, <2>13, <2>14, <2>15
<1> QED
  BY <1>5, <1>6 DEF tree_insert

\* All nodes are in the tree once n is.
LEMMA InsertInv ==
    ASSUME Inv, NEW sub, NEW old, NEW n, NEW s, Insertable(InTree, sub, old, n, s),
           tree_insert(n, s), Allocated \subseteq InTree \cup {n},
           target' = Null, victim' = Null, rescore' = Null, hmap' = Allocated \cup {n}
    PROVE  Inv'
<1> DEFINE sc == [score EXCEPT ![n] = s]
<1>1. score' = sc /\ node' = n /\ pc' = "insert"
  BY DEF tree_insert
<1>2. /\ Sound(tree', root', score', InTree \cup {n}, n)
      /\ root' \in Names /\ tree' \in [Names -> AVLNode]
      /\ SameOff(tree, tree', InTree \cup {n})
  BY InsertSound
<1>3. /\ n \in Names /\ s \in Scores /\ s # Null /\ score \in [Names -> Scores \cup {Null}] /\ Null \notin Names
      /\ InTree \subseteq Allocated /\ Allocated \subseteq Names
  BY SortedSetAssumption DEF Insertable, InTree, Allocated
<1>4. sc \in [Names -> Scores \cup {Null}] /\ sc[n] = s /\ \A m \in Names \ {n} : sc[m] = score[m]
  BY <1>3
<1> HIDE DEF sc
<1>5. Allocated' = Allocated \cup {n}
  <2>1. \A m \in Names : score'[m] # Null <=> m \in Allocated \cup {n}
    BY <1>1, <1>3, <1>4 DEF Allocated
  <2>2. Allocated' = {m \in Names : score'[m] # Null}
    BY DEF Allocated
  <2> QED
    BY <1>3, <2>1, <2>2
<1>6. TakenOut' = Null
  BY <1>1 DEF TakenOut
<1>7. InTree' = InTree \cup {n} /\ InTree' = Allocated'
  BY <1>3, <1>5, <1>6 DEF InTree
<1>8. TypeOK'
  BY <1>1, <1>2, <1>3, <1>4, <1>5 DEF TypeOK
<1>9. IsFiniteSet(Allocated')
  BY <1>5, FS_AddElement DEF Inv
<1>10. Control'
  BY <1>1, <1>5 DEF Control
<1>11. Loose(tree', score', InTree')
  <2> SUFFICES ASSUME NEW m \in Names, NEW e \in Sides, m \notin InTree'
               PROVE  tree'[m].kid[e] = Null /\ tree'[m].parent = Null
    <3>1. \A m \in Names : score'[m] = Null => m \notin InTree'
      BY <1>7 DEF Allocated
    <3> QED
      BY <3>1 DEF Loose
  <2>1. m \notin Allocated /\ m \notin InTree \cup {n}
    BY <1>5, <1>7
  <2>2. tree[m].kid[e] = Null /\ tree[m].parent = Null
    BY <2>1 DEF Inv, Loose, Allocated
  <2> QED
    BY <1>2, <2>1, <2>2 DEF SameOff
<1>12. Sound(tree', root', score', InTree', node')
  BY <1>1, <1>2, <1>7
<1> QED
  BY <1>1, <1>8, <1>9, <1>10, <1>11, <1>12 DEF Inv

\* What the invariant gives for a tree at rest.
LEMMA AtRest ==
    ASSUME Inv, pc \in {"idle", "removed", "detached"}
    PROVE  /\ \E sub : Shape(tree, root, score, InTree, sub)
           /\ \E old : old \in AuxType /\ AuxFits(tree, InTree, Null, old)
           /\ IsFiniteSet(InTree) /\ IsFiniteSet(Allocated) /\ node = Null
           /\ \A m \in Names \ InTree, d \in Sides : tree[m].kid[d] \in InTree \cup {Null}
           /\ tree \in [Names -> AVLNode] /\ score \in [Names -> Scores \cup {Null}]
           /\ InTree \subseteq Names /\ Null \notin InTree /\ Allocated \subseteq Names
           /\ \A m \in Names : m \in Allocated <=> score[m] # Null
<1>1. node = Null
  BY DEF Inv, TypeOK
<1>2. IsFiniteSet(Allocated) /\ InTree \subseteq Allocated /\ Allocated \subseteq Names
  BY DEF Inv, InTree, Allocated
<1>3. IsFiniteSet(InTree)
  BY <1>2, FS_Subset
<1> QED
  BY <1>1, <1>2, <1>3, NullIsNoName DEF Inv, Sound, Loose, TypeOK, Allocated

LEMMA InvInsertNew ==
    ASSUME Inv, NEW n \in Names, NEW s \in Scores, pc = "idle", ~Found(n),
           hmap' = hmap \cup {n}, tree_insert(n, s), UNCHANGED removal
    PROVE  Inv'
<1>1. target = Null /\ victim = Null /\ rescore = Null /\ hmap = Allocated
  BY DEF Inv, Control
<1>2. InTree = Allocated
  BY <1>1, NullIsNoName DEF InTree, TakenOut, Allocated
<1>3. PICK sub : Shape(tree, root, score, InTree, sub)
  BY AtRest
<1>4. PICK old : old \in AuxType /\ AuxFits(tree, InTree, Null, old)
  BY AtRest
<1>5. n \notin InTree
  BY <1>1, <1>2, <1>3 DEF Found, Shape, RootFits
<1>6. Insertable(InTree, sub, old, n, s)
  BY <1>2, <1>3, <1>4, <1>5, AtRest DEF Insertable
<1> QED
  BY <1>1, <1>2, <1>6, InsertInv DEF removal

LEMMA InvReinsert == Inv /\ Reinsert => Inv'
<1> SUFFICES ASSUME Inv, Reinsert PROVE Inv'
  OBVIOUS
<1>1. /\ pc = "detached" /\ rescore # Null /\ tree_insert(target, rescore)
      /\ target' = Null /\ rescore' = Null /\ hmap' = hmap /\ victim' = victim
  BY DEF Reinsert
<1>2. /\ target \in Allocated /\ hmap = Allocated /\ victim = Null /\ rescore \in Scores
      /\ TakenOut = target
  BY <1>1 DEF Inv, Control, TypeOK, TakenOut
<1>3. InTree = Allocated \ {target} /\ target \in Names
  BY <1>2 DEF InTree, Allocated
<1>4. PICK sub : Shape(tree, root, score, InTree, sub)
  BY <1>1, AtRest
<1>5. PICK old : old \in AuxType /\ AuxFits(tree, InTree, Null, old)
  BY <1>1, AtRest
<1>6. Insertable(InTree, sub, old, target, rescore)
  BY <1>1, <1>2, <1>3, <1>4, <1>5, AtRest DEF Insertable
<1> QED
  BY <1>1, <1>2, <1>3, <1>6, InsertInv

-----------------------------------------------------------------------------
(* avl_remove()                                                            *)

\* The child of p on side e has changed its height by 1 at most, from that of h.
LEMMA StaleAt ==
    ASSUME NEW u \in [Names -> AVLNode], NEW p \in Names, NEW e \in Sides, NEW h \in AuxType,
           Fit(u[p].aux, h, Aux(u, u[p].kid[Other(e)])),
           Aux(u, u[p].kid[e]).height <= h.height + 1, h.height <= Aux(u, u[p].kid[e]).height + 1
    PROVE  StaleFits(u, p, u[p].aux)
<1> DEFINE a == Aux(u, u[p].kid[e])
           b == Aux(u, u[p].kid[Other(e)])
           q == u[p].aux
<1>1. q \in AuxType /\ b \in AuxType /\ a \in AuxType
  BY KidType, AuxIs, SidesAre DEF AuxType
<1>2. Fit(q, h, b) /\ a.height <= h.height + 1 /\ h.height <= a.height + 1
  OBVIOUS
<1>3. avl_height(u, u[p].kid[e]) = a.height /\ avl_height(u, u[p].kid[Other(e)]) = b.height
  BY DEF avl_height
<1> HIDE DEF q, a, b
<1>4. /\ a.height <= b.height + 2 /\ b.height <= a.height + 2
      /\ b.height <= a.height /\ a.height <= b.height + 1
                 => a.height <= q.height /\ q.height <= a.height + 2
      /\ a.height <= b.height /\ b.height <= a.height + 1
                 => b.height <= q.height /\ q.height <= b.height + 2
      /\ a.height = b.height + 2 => a.height <= q.height /\ q.height <= a.height + 1
      /\ b.height = a.height + 2 => b.height <= q.height /\ q.height <= b.height + 1
  BY <1>1, <1>2, StaleFrom
<1>5. \A s \in Sides : s = e \/ (s = Other(e) /\ Other(s) = e)
  BY SidesAre
<1>6. ASSUME NEW s \in Sides
      PROVE  LET k == avl_height(u, u[p].kid[s])
                 l == avl_height(u, u[p].kid[Other(s)])
             IN  /\ k <= l + 2
                 /\ l <= k /\ k <= l + 1 => k <= q.height /\ q.height <= k + 2
                 /\ k = l + 2 => k <= q.height /\ q.height <= k + 1
  <2>1. CASE s = e
    BY <1>3, <1>4, <2>1
  <2>2. CASE s = Other(e) /\ Other(s) = e
    BY <1>3, <1>4, <2>2
  <2> QED
    BY <1>5, <2>1, <2>2
<1> QED
  BY <1>6 DEF StaleFits, q

\* what avl_del_easy() finds
Detachable(T, sub, old, v) ==
    /\ Shape(tree, root, score, T, sub)
    /\ old \in AuxType /\ AuxFits(tree, T, Null, old)
    /\ v \in T /\ \E d \in Sides : tree[v].kid[d] = Null

\* its effect on the pointers
Detached(T, v, s, c, p, u) ==
    /\ s \in Sides /\ tree[v].kid[Other(s)] = Null
    /\ u \in [Names -> AVLNode]
    /\ \A m \in Names : /\ u[m].parent = IF m = c THEN p ELSE tree[m].parent
                        /\ u[m].aux = tree[m].aux
    /\ \A m \in T, d \in Sides : u[m].kid[d] = IF tree[m].kid[d] = v THEN c ELSE tree[m].kid[d]
    /\ \A m \in Names \ T, d \in Sides : u[m].kid[d] = tree[m].kid[d]

LEMMA DetachIs ==
    ASSUME NEW T, NEW sub, NEW old, NEW v, Detachable(T, sub, old, v),
           NEW s, s = IF tree[v].kid["left"] # Null THEN "left" ELSE "right",
           NEW c, c = tree[v].kid[s], NEW p, p = tree[v].parent,
           NEW u, u = Link(SetParent(tree, c, p), p, v, c)
    PROVE  Detached(T, v, s, c, p, u)
<1>1. /\ Shape(tree, root, score, T, sub) /\ v \in T /\ T \subseteq Names
      /\ tree \in [Names -> AVLNode] /\ v \in Names /\ v # Null
  BY NullIsNoName DEF Detachable, Shape
<1>2. s \in Sides /\ tree[v].kid[Other(s)] = Null
  <2>1. PICK d \in Sides : tree[v].kid[d] = Null
    BY DEF Detachable
  <2> QED
    BY <2>1 DEF Sides, Other
<1>3. /\ p \in Names \cup {Null}
      /\ p # Null => p \in T /\ p # v
      /\ \A m \in T, d \in Sides : tree[m].kid[d] = v => m = p
  BY <1>1, ParentIs
<1>4. c \in Names \cup {Null} /\ c # v
  BY <1>1, <1>2, KidType, OneParent
<1>5. p # Null => /\ tree[p].kid[SideOf(p, v)] = v
                  /\ \A e \in Sides : tree[p].kid[e] = v => e = SideOf(p, v)
  BY <1>1, SideIs
<1> DEFINE w == SetParent(tree, c, p)
<1>6. /\ w \in [Names -> AVLNode]
      /\ \A m \in Names : /\ w[m].parent = IF m = c THEN p ELSE tree[m].parent
                          /\ w[m].aux = tree[m].aux /\ w[m].kid = tree[m].kid
  <2>1. tree \in [Names -> AVLNode] /\ c \in Names \cup {Null} /\ p \in Names \cup {Null}
    BY <1>1, <1>3, <1>4
  <2> QED
    BY ONLY <2>1, SetParentIs
<1> HIDE DEF w
<1>7. w \in [Names -> AVLNode] /\ p \in Names \cup {Null} /\ c \in Names \cup {Null} /\ v \in Names
  BY <1>1, <1>3, <1>4, <1>6
<1>8. u = Link(w, p, v, c)
  BY DEF w
<1>9. /\ u \in [Names -> AVLNode]
      /\ \A m \in Names : u[m].parent = w[m].parent /\ u[m].aux = w[m].aux
      /\ \A m \in Names, e \in Sides : u[m].kid[e] = IF m = p /\ e = SideOf(p, v) THEN c ELSE w[m].kid[e]
  BY ONLY <1>7, <1>8, LinkIs
<1>10. ASSUME NEW m \in T, NEW d \in Sides
       PROVE  u[m].kid[d] = IF tree[m].kid[d] = v THEN c ELSE tree[m].kid[d]
  <2>1. m \in Names /\ d \in Sides /\ w[m].kid[d] = tree[m].kid[d]
    BY <1>1, <1>6
  <2>2. tree[m].kid[d] = v <=> m = p /\ d = SideOf(p, v)
    BY <1>1, <1>3, <1>5, NullIsNoName
  <2> QED
    BY ONLY <1>9, <2>1, <2>2
<1>11. ASSUME NEW m \in Names \ T, NEW d \in Sides PROVE u[m].kid[d] = tree[m].kid[d]
  <2>1. m # p /\ m \in Names /\ w[m].kid[d] = tree[m].kid[d] /\ d \in Sides
    BY <1>3, <1>6, NullIsNoName
  <2> QED
    BY ONLY <1>9, <2>1
<1>12. \A m \in Names : /\ u[m].parent = IF m = c THEN p ELSE tree[m].parent
                        /\ u[m].aux = tree[m].aux
  BY ONLY <1>6, <1>9
<1>13. u \in [Names -> AVLNode]
  BY ONLY <1>9
<1> QED
  BY ONLY <1>2, <1>10, <1>11, <1>12, <1>13 DEF Detached

LEMMA DetachSound ==
    ASSUME NEW T, NEW sub, NEW old, NEW v, Detachable(T, sub, old, v), avl_del_easy(v)
    PROVE  /\ Sound(tree', root', score, T \ {v}, node')
           /\ root' \in Names \cup {Null} /\ tree' \in [Names -> AVLNode]
           /\ node' \in Names \cup {Null} /\ pc' = IF node' = Null THEN "removed" ELSE "remove"
           /\ SameOff(tree, tree', T \ {v})
<1> DEFINE s == IF tree[v].kid["left"] # Null THEN "left" ELSE "right"
           c == tree[v].kid[s]
           p == tree[v].parent
           u == Link(SetParent(tree, c, p), p, v, c)
<1>1. /\ Shape(tree, root, score, T, sub) /\ v \in T /\ T \subseteq Names
      /\ tree \in [Names -> AVLNode] /\ v \in Names /\ v # Null /\ AuxFits(tree, T, Null, old)
  BY NullIsNoName DEF Detachable, Shape
<1>2. /\ s \in Sides /\ tree[v].kid[Other(s)] = Null
      /\ u \in [Names -> AVLNode]
      /\ \A m \in Names : /\ u[m].parent = IF m = c THEN p ELSE tree[m].parent
                          /\ u[m].aux = tree[m].aux
      /\ \A m \in T, d \in Sides : u[m].kid[d] = IF tree[m].kid[d] = v THEN c ELSE tree[m].kid[d]
      /\ \A m \in Names \ T, d \in Sides : u[m].kid[d] = tree[m].kid[d]
  <2>1. /\ Detachable(T, sub, old, v) /\ s = (IF tree[v].kid["left"] # Null THEN "left" ELSE "right")
        /\ c = tree[v].kid[s] /\ p = tree[v].parent /\ u = Link(SetParent(tree, c, p), p, v, c)
    OBVIOUS
  <2> HIDE DEF s, c, p, u
  <2>2. Detached(T, v, s, c, p, u)
    BY ONLY <2>1, DetachIs
  <2> QED
    BY ONLY <2>2 DEF Detached
<1>3. /\ tree' = u /\ root' = (IF p = Null THEN c ELSE root) /\ node' = p
      /\ pc' = IF p = Null THEN "removed" ELSE "remove"
  BY DEF avl_del_easy, AfterDetach
<1>4. /\ p \in Names \cup {Null}
      /\ p # Null => p \in T /\ p # v /\ \E e \in Sides : tree[p].kid[e] = v /\ tree[p].kid[Other(e)] # v
      /\ \A m \in T, d \in Sides : tree[m].kid[d] = v => m = p
  BY <1>1, ParentIs
<1>5. c \in T \cup {Null} /\ c # v
  <2> HIDE DEF s
  <2> QED
    BY <1>1, <1>2, OneParent, SMTT(40)
<1>6. Spliced(tree, u, T, v, s)
  <2> HIDE DEF u
  <2> QED
    BY <1>1, <1>2 DEF Spliced
<1>7. \E sb : Shape(u, IF p = Null THEN c ELSE root, score, T \ {v}, sb)
  <2>1. s \in Sides /\ tree[v].kid[Other(s)] = Null
    BY <1>2
  <2> HIDE DEF u, s
  <2> QED
    BY ONLY <1>1, <2>1, <1>6, SpliceShape DEF c, p
<1>8. tree[v].kid[s] = c
  OBVIOUS
<1> HIDE DEF s, c, p, u
<1>9. /\ tree[v].aux \in AuxType /\ Aux(tree, c) \in AuxType
      /\ Aux(tree, c).height <= tree[v].aux.height + 1 /\ tree[v].aux.height <= Aux(tree, c).height + 1
  <2>1. Fit(tree[v].aux, Seen(tree, tree[v].kid[s], Null, old), Seen(tree, tree[v].kid[Other(s)], Null, old))
    BY <1>1, <1>2 DEF AuxFits
  <2>2. Fit(tree[v].aux, Aux(tree, c), Aux(tree, Null))
    BY <1>2, <1>8, <2>1 DEF Seen
  <2>3. tree[v].aux \in AuxType /\ Aux(tree, c) \in AuxType /\ Aux(tree, Null).height = 0
    BY <1>1, <1>5, KidType, AuxIs, SidesAre DEF AuxType
  <2> QED
    BY <2>2, <2>3 DEF Fit, AuxType
<1>10. \A k \in Names \cup {Null} : /\ Aux(u, k) = Aux(tree, k)
                                    /\ Seen(u, k, p, Aux(u, p)) = Aux(u, k)
                                    /\ Seen(tree, k, Null, old) = Aux(tree, k)
  BY <1>2 DEF Aux, Seen
<1>11. \A m \in T, d \in Sides : tree[m].kid[d] \in Names \cup {Null} /\ u[m].kid[d] \in Names \cup {Null}
                                 /\ Other(d) \in Sides
  BY <1>1, <1>2, KidType, SidesAre
<1>12. AuxFits(u, T \ {v}, p, Aux(u, p))
  <2> SUFFICES ASSUME NEW m \in T \ {v, p}, NEW d \in Sides
               PROVE  Fit(u[m].aux, Seen(u, u[m].kid[d], p, Aux(u, p)), Seen(u, u[m].kid[Other(d)], p, Aux(u, p)))
    BY DEF AuxFits
  <2>1. u[m].kid[d] = tree[m].kid[d] /\ u[m].kid[Other(d)] = tree[m].kid[Other(d)]
    BY <1>2, <1>4, <1>11
  <2>2. Fit(tree[m].aux, Seen(tree, tree[m].kid[d], Null, old), Seen(tree, tree[m].kid[Other(d)], Null, old))
    BY <1>1, NullIsNoName DEF AuxFits
  <2>3. u[m].aux = tree[m].aux
    BY <1>1, <1>2
  <2> QED
    BY <1>10, <1>11, <2>1, <2>2, <2>3
<1>13. ASSUME p # Null PROVE StaleFits(u, p, Aux(u, p))
  <2>1. PICK e \in Sides : tree[p].kid[e] = v /\ tree[p].kid[Other(e)] # v
    BY <1>4, <1>13
  <2>2. p \in T /\ p \in Names /\ u[p].kid[e] = c /\ u[p].kid[Other(e)] = tree[p].kid[Other(e)] /\ u[p].aux = tree[p].aux
    BY <1>1, <1>2, <1>4, <1>11, <1>13, <2>1
  <2>3. Fit(tree[p].aux, Seen(tree, tree[p].kid[e], Null, old), Seen(tree, tree[p].kid[Other(e)], Null, old))
    BY <1>1, <2>2, NullIsNoName DEF AuxFits
  <2>4. Aux(tree, v) = tree[v].aux
    BY <1>1 DEF Aux
  <2>5. Fit(u[p].aux, tree[v].aux, Aux(u, u[p].kid[Other(e)]))
    BY <1>10, <1>11, <2>1, <2>2, <2>3, <2>4
  <2>6. Aux(u, u[p].kid[e]) = Aux(tree, c)
    BY <1>1, <1>5, <1>10, <2>2
  <2>7. StaleFits(u, p, u[p].aux)
    BY <1>2, <1>9, <2>2, <2>5, <2>6, StaleAt
  <2> QED
    BY <1>13, <2>7 DEF Aux
<1>14. Aux(u, p) \in AuxType
  BY <1>2, <1>4, AuxIs
<1>15. Sound(u, IF p = Null THEN c ELSE root, score, T \ {v}, p)
  <2>1. p # Null => Carries(u, p, Aux(u, p))
    BY DEF Carries, Aux
  <2> QED
    BY <1>4, <1>7, <1>12, <1>13, <1>14, <2>1 DEF Sound
<1>16. SameOff(tree, u, T \ {v})
  <2>1. ASSUME NEW d \in Sides PROVE u[v].kid[d] = tree[v].kid[d]
    <3>1. tree[v].kid[d] # v
      BY <1>1, OneParent
    <3> QED
      BY <1>1, <1>2, <3>1
  <2>2. \A m \in Names \ (T \ {v}) : m # c
    BY <1>5, NullIsNoName
  <2> QED
    BY <1>2, <2>1, <2>2 DEF SameOff
<1>17. root \in Names \cup {Null} /\ c \in Names \cup {Null}
  BY <1>1, <1>5 DEF Shape, RootFits
<1>18. u \in [Names -> AVLNode]
  BY <1>2
<1> QED
  BY ONLY <1>3, <1>4, <1>15, <1>16, <1>17, <1>18

\* The successor of a node with two children has no left child, and no other node
\* is between the two.
LEMMA SuccessorIs ==
    ASSUME NEW T, NEW sub, Shape(tree, root, score, T, sub), IsFiniteSet(T),
           \A m \in Names \ T, d \in Sides : tree[m].kid[d] \in T \cup {Null},
           NEW n \in T, \A d \in Sides : tree[n].kid[d] # Null,
           NEW v, v = Leftmost(tree[n].kid["right"])
    PROVE  v \in T /\ v # n /\ tree[v].kid["left"] = Null /\ Adjacent(score, T \ {v}, n, v)
<1> DEFINE r == tree[n].kid["right"]
<1>1. /\ "left" \in Sides /\ "right" \in Sides /\ Other("left") = "right" /\ Other("right") = "left"
      /\ \A d \in Sides : d = "left" \/ d = "right"
  BY DEF Sides, Other
<1>2. /\ T \subseteq Names /\ Ordered(score, T) /\ Nested(tree, T, sub) /\ KidsFit(tree, score, T, sub)
  BY DEF Shape
<1>3. /\ r \in T /\ n \notin sub[r] /\ sub[r] \subseteq sub[n]
      /\ \A x \in T : x \in sub[r] <=> x \in sub[n] /\ On(score, "right", x, n)
  BY <1>1, <1>2, Kin DEF KidsFit
<1> HIDE DEF r
<1>4. v \in sub[r] /\ tree[v].kid["left"] = Null /\ \A x \in sub[r] : ~On(score, "left", x, v)
  BY <1>3, LeftmostFirst DEF r
<1>5. v \in T /\ v # n /\ v \in sub[n] /\ On(score, "right", v, n) /\ n \in sub[n] /\ sub[n] \subseteq T
  BY <1>2, <1>3, <1>4 DEF Nested
<1>6. ASSUME NEW m \in T, m # n, m # v PROVE \E d \in Sides : On(score, d, v, m) /\ On(score, d, n, m)
  <2>1. CASE m \in sub[r]
    <3>1. On(score, "right", m, v)
      BY <1>1, <1>2, <1>4, <1>5, <1>6, <2>1 DEF Ordered
    <3>2. On(score, "right", m, n)
      BY <1>3, <2>1
    <3> QED
      BY <1>1, <1>2, <1>5, <3>1, <3>2 DEF Ordered
  <2>2. CASE m \notin sub[r] /\ m \in sub[n]
    <3>1. On(score, "left", m, n)
      BY <1>1, <1>2, <1>3, <1>6, <2>2 DEF Ordered
    <3>2. On(score, "left", n, v)
      BY <1>1, <1>2, <1>5 DEF Ordered
    <3>3. On(score, "left", m, v)
      BY <1>1, <1>2, <1>5, <3>1, <3>2 DEF Ordered
    <3> QED
      BY <1>1, <1>2, <1>5, <3>1, <3>3 DEF Ordered
  <2>3. CASE m \notin sub[n]
    <3>1. PICK d \in Sides : \A y \in sub[n] : On(score, d, m, y)
      BY <2>3, Aside
    <3>2. On(score, d, m, n) /\ On(score, d, m, v)
      BY <1>5, <3>1
    <3> QED
      BY <1>1, <1>2, <1>5, <3>2 DEF Ordered
  <2> QED
    BY <2>1, <2>2, <2>3
<1>7. ASSUME NEW m \in T \ {v, n}, NEW s \in Sides
      PROVE  On(score, s, v, m) <=> On(score, s, n, m)
  <2>1. PICK d \in Sides : On(score, d, v, m) /\ On(score, d, n, m)
    BY <1>6
  <2>2. ~On(score, Other(d), v, m) /\ ~On(score, Other(d), n, m)
    BY <1>2, <1>5, <2>1 DEF Ordered
  <2>3. s = d \/ s = Other(d)
    BY SidesAre
  <2> QED
    BY <2>1, <2>2, <2>3
<1> QED
  BY <1>4, <1>5, <1>7 DEF Adjacent

\* avl_remove() up to the loop
LEMMA RemoveInv ==
    ASSUME Inv, NEW n \in Names, pc = "idle", Found(n), avl_remove(n), score' = score,
           rescore' \in Scores \cup {Null},
           hmap' = IF rescore' = Null THEN hmap \ {n} ELSE hmap
    PROVE  Inv'
<1>1. target = Null /\ victim = Null /\ rescore = Null /\ hmap = Allocated
  BY DEF Inv, Control
<1>2. InTree = Allocated
  BY <1>1, NullIsNoName DEF InTree, TakenOut, Allocated
<1>3. PICK sub : Shape(tree, root, score, InTree, sub)
  BY AtRest
<1>4. PICK old : old \in AuxType /\ AuxFits(tree, InTree, Null, old)
  BY AtRest
<1>5. /\ n \in InTree /\ IsFiniteSet(InTree) /\ IsFiniteSet(Allocated)
      /\ \A m \in Names \ InTree, d \in Sides : tree[m].kid[d] \in InTree \cup {Null}
      /\ InTree \subseteq Names /\ Null \notin InTree
      /\ tree \in [Names -> AVLNode] /\ score \in [Names -> Scores \cup {Null}]
  BY <1>1, <1>2, AtRest DEF Found
<1>0. PICK v : v = victim'
  OBVIOUS
<1>6. /\ target' = n /\ avl_del_easy(v)
      /\ v = IF Null \in {tree[n].kid[s] : s \in Sides} THEN n ELSE Leftmost(tree[n].kid["right"])
  BY <1>0 DEF avl_remove
<1>7. /\ v \in InTree /\ (\E d \in Sides : tree[v].kid[d] = Null)
      /\ v # n => Adjacent(score, InTree \ {v}, n, v)
  <2>1. CASE \E d \in Sides : tree[n].kid[d] = Null
    <3>1. v = n
      BY <1>6, <2>1
    <3> QED
      BY <1>5, <2>1, <3>1
  <2>2. CASE \A d \in Sides : tree[n].kid[d] # Null
    <3>1. v = Leftmost(tree[n].kid["right"])
      BY <1>6, <2>2
    <3>2. v \in InTree /\ v # n /\ tree[v].kid["left"] = Null /\ Adjacent(score, InTree \ {v}, n, v)
      BY <1>3, <1>5, <2>2, <3>1, SuccessorIs
    <3> QED
      BY <3>2 DEF Sides
  <2> QED
    BY <2>1, <2>2
<1>8. Detachable(InTree, sub, old, v)
  BY <1>3, <1>4, <1>7 DEF Detachable
<1>9. /\ Sound(tree', root', score, InTree \ {v}, node')
      /\ root' \in Names \cup {Null} /\ tree' \in [Names -> AVLNode]
      /\ node' \in Names \cup {Null} /\ pc' = IF node' = Null THEN "removed" ELSE "remove"
      /\ SameOff(tree, tree', InTree \ {v})
  <2>1. avl_del_easy(v)
    BY <1>6
  <2> QED
    BY ONLY <1>8, <2>1, DetachSound
<1>10. Allocated' = Allocated /\ TakenOut' = v /\ InTree' = InTree \ {v}
  <2>1. Allocated' = Allocated
    BY DEF Allocated
  <2>2. TakenOut' = v
    BY <1>0, <1>9 DEF TakenOut
  <2> QED
    BY <1>2, <2>1, <2>2 DEF InTree
<1>11. TypeOK'
  BY <1>1, <1>2, <1>5, <1>6, <1>7, <1>9, <1>0 DEF TypeOK
<1>12. Control'
  <2>1. pc' \in {"remove", "removed"}
    BY <1>9
  <2>2. n \in Allocated' /\ v \in Allocated'
    BY <1>2, <1>5, <1>7, <1>10
  <2>3. hmap' = IF rescore' = Null THEN Allocated' \ {n} ELSE Allocated'
    BY <1>1, <1>10
  <2> QED
    BY <1>6, <2>1, <2>2, <2>3, <1>0 DEF Control
<1>13. Loose(tree', score', InTree')
  <2> SUFFICES ASSUME NEW m \in Names, NEW d \in Sides
               PROVE  /\ score[m] = Null => tree'[m].kid[d] = Null /\ tree'[m].parent = Null
                      /\ m \notin InTree \ {v} => tree'[m].kid[d] \in (InTree \ {v}) \cup {Null}
    BY <1>10 DEF Loose
  <2>1. m # v /\ m \notin InTree =>
           tree[m].kid[d] = Null /\ tree'[m].kid[d] = Null /\ tree'[m].parent = Null
    BY <1>2, <1>9 DEF Inv, Loose, Allocated, SameOff
  <2>2. score[m] = Null => m \notin InTree
    BY DEF InTree, Allocated
  <2>3. m = v => tree'[m].kid[d] \in (InTree \ {v}) \cup {Null}
    <3>1. tree[v].kid[d] \in InTree \cup {Null} /\ (tree[v].kid[d] # Null => tree[v].kid[d] # v)
      BY <1>3, <1>7, OneParent
    <3> QED
      BY <1>9, <3>1 DEF SameOff
  <2> QED
    BY <1>7, <2>1, <2>2, <2>3
<1>14. pc' \in {"remove", "removed"} /\ victim' # target' => Adjacent(score', InTree', target', victim')
  BY <1>6, <1>7, <1>10, <1>0
<1>15. Sound(tree', root', score', InTree', node')
  BY <1>9, <1>10
<1> QED
  BY <1>5, <1>10, <1>11, <1>12, <1>13, <1>14, <1>15 DEF Inv

LEMMA InvDelete ==
    ASSUME Inv, NEW n \in Names, zset_delete(n)
    PROVE  Inv'
<1>1. pc = "idle" /\ Found(n) /\ hmap' = hmap \ {n} /\ avl_remove(n) /\ score' = score /\ rescore' = rescore
  BY DEF zset_delete
<1>2. rescore = Null
  BY <1>1 DEF Inv, Control
<1> QED
  BY <1>1, <1>2, RemoveInv

LEMMA InvInsert ==
    ASSUME Inv, NEW n \in Names, NEW s \in Scores, zset_insert(n, s)
    PROVE  Inv'
<1>1. CASE pc = "idle" /\ ~Found(n) /\ hmap' = hmap \cup {n} /\ tree_insert(n, s) /\ UNCHANGED removal
  BY <1>1, InvInsertNew
<1>2. CASE pc = "idle" /\ Found(n) /\ avl_remove(n) /\ rescore' = s /\ hmap' = hmap /\ score' = score
  BY <1>2, RemoveInv, SortedSetAssumption
<1> QED
  BY <1>1, <1>2 DEF zset_insert

\* The node v takes the place of g: what the rest of avl_remove() does to the
\* fields.
LEMMA SwapIs ==
    ASSUME NEW T, NEW sub, Shape(tree, root, score, T, sub), NEW g \in T, NEW v \in Names, v \notin T,
           NEW l, l = tree[g].kid["left"], NEW r, r = tree[g].kid["right"],
           NEW p, p = tree[g].parent,
           NEW t0 \in [Names -> AVLNode], t0[v] = tree[g], \A m \in Names \ {v} : t0[m] = tree[m],
           NEW u, u = Link(SetParent(SetParent(t0, l, v), r, v), p, g, v)
    PROVE  /\ Replaced(tree, u, T, g, v)
           /\ \A m \in Names : u[m].aux = IF m = v THEN tree[g].aux ELSE tree[m].aux
           /\ \A m \in Names, d \in Sides : m \notin (T \ {g}) \cup {v} =>
                 u[m].kid[d] = tree[m].kid[d] /\ u[m].parent = tree[m].parent
<1> DEFINE t1 == SetParent(t0, l, v)
           t2 == SetParent(t1, r, v)
<1>1. /\ T \subseteq Names /\ tree \in [Names -> AVLNode] /\ g \in Names /\ g # Null /\ Null \notin Names
      /\ "left" \in Sides /\ "right" \in Sides /\ (\A d \in Sides : d = "left" \/ d = "right")
  BY NullIsNoName DEF Shape, Sides
<1>2. l \in T \cup {Null} /\ r \in T \cup {Null} /\ l # g /\ r # g /\ l # v /\ r # v
  BY <1>1, OneParent
<1>3. /\ p \in Names \cup {Null}
      /\ p # Null => p \in T /\ p # g /\ p # v
      /\ \A m \in T, d \in Sides : tree[m].kid[d] = g => m = p
  BY <1>1, ParentIs
<1>4. p # Null => /\ tree[p].kid[SideOf(p, g)] = g
                  /\ \A e \in Sides : tree[p].kid[e] = g => e = SideOf(p, g)
  BY <1>1, SideIs
<1>5. t0 \in [Names -> AVLNode] /\ t0[v] = tree[g] /\ \A m \in Names \ {v} : t0[m] = tree[m]
  OBVIOUS
<1>6. /\ t1 \in [Names -> AVLNode]
      /\ \A m \in Names : /\ t1[m].parent = IF m = l THEN v ELSE t0[m].parent
                          /\ t1[m].aux = t0[m].aux /\ t1[m].kid = t0[m].kid
  <2>1. t0 \in [Names -> AVLNode] /\ l \in Names \cup {Null} /\ v \in Names \cup {Null}
    BY <1>1, <1>2, <1>5
  <2> QED
    BY ONLY <2>1, SetParentIs, ZenonT(60)
<1> HIDE DEF t1
<1>7. /\ t2 \in [Names -> AVLNode]
      /\ \A m \in Names : /\ t2[m].parent = IF m = r THEN v ELSE t1[m].parent
                          /\ t2[m].aux = t1[m].aux /\ t2[m].kid = t1[m].kid
  <2>1. t1 \in [Names -> AVLNode] /\ r \in Names \cup {Null} /\ v \in Names \cup {Null}
    BY <1>1, <1>2, <1>6
  <2> QED
    BY ONLY <2>1, SetParentIs, ZenonT(60)
<1> HIDE DEF t2
<1>8. u = Link(t2, p, g, v)
  BY DEF t1, t2
<1>9. /\ u \in [Names -> AVLNode]
      /\ \A m \in Names : u[m].parent = t2[m].parent /\ u[m].aux = t2[m].aux
      /\ \A m \in Names, e \in Sides : u[m].kid[e] = IF m = p /\ e = SideOf(p, g) THEN v ELSE t2[m].kid[e]
  <2>1. t2 \in [Names -> AVLNode] /\ p \in Names \cup {Null} /\ v \in Names \cup {Null} /\ g \in Names
    BY <1>1, <1>3, <1>7
  <2> QED
    <3>1. Linked(t2, u, p, g, v)
      BY ONLY <1>8, <2>1, LinkTo
    <3> QED
      BY ONLY <3>1 DEF Linked
<1>10. /\ \A m \in Names : /\ u[m].parent = IF m = r \/ m = l THEN v ELSE t0[m].parent
                           /\ u[m].aux = t0[m].aux
       /\ \A m \in Names, e \in Sides : u[m].kid[e] = IF m = p /\ e = SideOf(p, g) THEN v ELSE t0[m].kid[e]
  BY ONLY <1>6, <1>7, <1>9
<1>11. u[v].parent = tree[g].parent /\ \A d \in Sides : u[v].kid[d] = tree[g].kid[d]
  <2>1. v # p
    BY <1>1, <1>3
  <2>2. v \in Names
    OBVIOUS
  <2> QED
    BY ONLY <1>2, <1>5, <1>10, <2>1, <2>2
<1>12. ASSUME NEW m \in T \ {g}
       PROVE  u[m].parent = IF tree[m].parent = g THEN v ELSE tree[m].parent
  <2>1. m \in Names /\ m # v /\ t0[m] = tree[m]
    BY <1>1, <1>5
  <2>2. tree[m].parent = g <=> m = l \/ m = r
    <3>1. ASSUME tree[m].parent = g PROVE m = l \/ m = r
      <4>1. PICK d \in Sides : tree[g].kid[d] = m
        BY <1>1, <3>1 DEF Shape, ParentsFit
      <4> QED
        BY <1>1, <4>1
    <3>2. ASSUME m = l \/ m = r PROVE tree[m].parent = g
      <4>1. m # Null
        BY <1>1, <2>1
      <4> QED
        BY <1>1, <3>2, <4>1, OneParent
    <3> QED
      BY <3>1, <3>2
  <2> QED
    BY ONLY <1>10, <2>1, <2>2
<1>13. ASSUME NEW m \in T \ {g}, NEW d \in Sides
       PROVE  u[m].kid[d] = IF tree[m].kid[d] = g THEN v ELSE tree[m].kid[d]
  <2>1. m \in Names /\ m # v /\ t0[m] = tree[m] /\ m # Null /\ d \in Sides
    BY <1>1, <1>5
  <2>2. tree[m].kid[d] = g <=> m = p /\ d = SideOf(p, g)
    BY <1>3, <1>4, <2>1
  <2> QED
    BY ONLY <1>10, <2>1, <2>2
<1>14. Replaced(tree, u, T, g, v)
  <2>1. u \in [Names -> AVLNode]
    BY ONLY <1>9
  <2> QED
    BY ONLY <2>1, <1>11, <1>12, <1>13 DEF Replaced
<1>15. ASSUME NEW m \in Names PROVE u[m].aux = IF m = v THEN tree[g].aux ELSE tree[m].aux
  <2>1. m \in Names
    OBVIOUS
  <2> QED
    BY ONLY <1>5, <1>10, <2>1
<1>16. ASSUME NEW m \in Names, NEW d \in Sides, m \notin (T \ {g}) \cup {v}
       PROVE  u[m].kid[d] = tree[m].kid[d] /\ u[m].parent = tree[m].parent
  <2>1. m \in Names /\ m # v /\ t0[m] = tree[m] /\ m # p /\ d \in Sides /\ m # l /\ m # r
    BY <1>1, <1>2, <1>3, <1>5, <1>16
  <2> QED
    BY ONLY <1>10, <2>1
<1> QED
  BY ONLY <1>14, <1>15, <1>16

LEMMA SwapSound ==
    ASSUME NEW T, NEW sub, Shape(tree, root, score, T, sub), NEW g \in T, NEW v \in Names, v \notin T,
           \A m \in T \cup {v} : score[m] \in Int,
           Adjacent(score, T, g, v), NEW old \in AuxType, AuxFits(tree, T, Null, old),
           NEW u, Replaced(tree, u, T, g, v),
           \A m \in Names : u[m].aux = IF m = v THEN tree[g].aux ELSE tree[m].aux
    PROVE  Sound(u, IF tree[g].parent = Null THEN v ELSE root, score, (T \ {g}) \cup {v}, Null)
<1> DEFINE T2 == (T \ {g}) \cup {v}
<1>1. /\ T \subseteq Names /\ tree \in [Names -> AVLNode] /\ g \in Names /\ Null \notin Names
      /\ T \cup {v} \subseteq Names /\ u \in [Names -> AVLNode]
  BY NullIsNoName DEF Shape, Replaced
<1>2. Ordered(score, T \cup {v})
  BY <1>1, OrderIs
<1>3. \E sb : Shape(u, IF tree[g].parent = Null THEN v ELSE root, score, T2, sb)
  BY <1>2, ReplaceShape DEF Adjacent
<1>4. \A k \in T : k # g => Aux(u, k) = Aux(tree, k)
  BY <1>1 DEF Aux
<1>5. Aux(u, v) = Aux(tree, g) /\ Aux(u, Null) = Aux(tree, Null)
  BY <1>1 DEF Aux
<1>6. ASSUME NEW m \in T, NEW d \in Sides, NEW k, k = tree[m].kid[d]
      PROVE  Seen(u, IF k = g THEN v ELSE k, Null, old) = Seen(tree, k, Null, old)
  <2>1. k \in T \cup {Null}
    BY <1>6, OneParent
  <2> QED
    BY <1>1, <1>4, <1>5, <2>1 DEF Seen
<1>7. AuxFits(u, T2, Null, old)
  <2> SUFFICES ASSUME NEW m \in T2, NEW d \in Sides
               PROVE  Fit(u[m].aux, Seen(u, u[m].kid[d], Null, old), Seen(u, u[m].kid[Other(d)], Null, old))
    BY DEF AuxFits
  <2> DEFINE b == IF m = v THEN g ELSE m
  <2>1. /\ b \in T /\ b # Null /\ Other(d) \in Sides /\ m \in Names
    BY <1>1, SidesAre
  <2>2. u[m].aux = tree[b].aux
    BY <1>1, <2>1
  <2>3. \A e \in Sides : u[m].kid[e] = IF tree[b].kid[e] = g THEN v ELSE tree[b].kid[e]
    <3>1. CASE m = v
      <4>1. \A e \in Sides : tree[g].kid[e] # g
        BY <1>1, OneParent
      <4> QED
        BY <3>1, <4>1 DEF Replaced
    <3>2. CASE m # v
      BY <3>2 DEF Replaced
    <3> QED
      BY <3>1, <3>2
  <2> HIDE DEF b
  <2>4. Fit(tree[b].aux, Seen(tree, tree[b].kid[d], Null, old), Seen(tree, tree[b].kid[Other(d)], Null, old))
    BY <2>1 DEF AuxFits
  <2>5. \A e \in Sides : Seen(u, u[m].kid[e], Null, old) = Seen(tree, tree[b].kid[e], Null, old)
    BY <1>6, <2>1, <2>3
  <2> QED
    BY <2>1, <2>2, <2>4, <2>5
<1> QED
  BY <1>3, <1>7 DEF Sound

LEMMA InvSwap == Inv /\ SwapWithVictim => Inv'
<1> SUFFICES ASSUME Inv, SwapWithVictim PROVE Inv'
  OBVIOUS
<1>1. /\ pc = "removed" /\ pc' = "detached" /\ victim' = Null /\ hmap' = hmap /\ score' = score
      /\ node' = node /\ target' = target /\ rescore' = rescore
  BY DEF SwapWithVictim
<1>2. /\ target \in Allocated /\ victim \in Allocated /\ TakenOut = victim
      /\ InTree = Allocated \ {victim}
      /\ hmap = IF rescore = Null THEN Allocated \ {target} ELSE Allocated
  BY <1>1 DEF Inv, Control, TakenOut, InTree
<1>3. Allocated' = Allocated /\ TakenOut' = target /\ InTree' = Allocated \ {target}
  BY <1>1 DEF Allocated, TakenOut, InTree
<1>4. /\ IsFiniteSet(Allocated) /\ node = Null
      /\ (\A m \in Names \ InTree, d \in Sides : tree[m].kid[d] \in InTree \cup {Null})
      /\ tree \in [Names -> AVLNode] /\ score \in [Names -> Scores \cup {Null}]
      /\ InTree \subseteq Names /\ Null \notin InTree /\ Allocated \subseteq Names
      /\ (\A m \in Names : m \in Allocated <=> score[m] # Null)
  BY <1>1, AtRest
<1>5. Control'
  BY <1>1, <1>2, <1>3 DEF Control
<1>6. CASE victim = target /\ tree' = tree /\ root' = root
  <2>1. InTree' = InTree
    BY <1>2, <1>3, <1>6
  <2>2. TypeOK'
    BY <1>1, <1>4, <1>6 DEF Inv, TypeOK
  <2>3. Loose(tree', score', InTree') /\ Sound(tree', root', score', InTree', node')
    BY <1>1, <1>6, <2>1 DEF Inv
  <2> QED
    BY <1>1, <1>3, <1>5, <2>2, <2>3 DEF Inv
<1>7. CASE /\ victim # target
           /\ tree' = Link(SetParent(SetParent([tree EXCEPT ![victim] = tree[target]],
                                                tree[target].kid["left"], victim),
                                      tree[target].kid["right"], victim),
                           tree[target].parent, target, victim)
           /\ root' = IF tree[target].parent = Null THEN victim ELSE root
  <2>1. PICK sub : Shape(tree, root, score, InTree, sub)
    BY <1>1, AtRest
  <2>2. PICK old : old \in AuxType /\ AuxFits(tree, InTree, Null, old)
    BY <1>1, AtRest
  <2>3. /\ target \in InTree /\ victim \in Names /\ victim \notin InTree
        /\ InTree' = (InTree \ {target}) \cup {victim} /\ target \in Names
        /\ Adjacent(score, InTree, target, victim)
    BY <1>1, <1>2, <1>3, <1>4, <1>7 DEF Inv
  <2>4. \A m \in InTree \cup {victim} : score[m] \in Int
    BY <1>2, <1>4, SortedSetAssumption
  <2>5. /\ Replaced(tree, tree', InTree, target, victim)
        /\ \A m \in Names : tree'[m].aux = IF m = victim THEN tree[target].aux ELSE tree[m].aux
        /\ \A m \in Names, d \in Sides : m \notin (InTree \ {target}) \cup {victim} =>
              tree'[m].kid[d] = tree[m].kid[d] /\ tree'[m].parent = tree[m].parent
    <3> DEFINE t0 == [tree EXCEPT ![victim] = tree[target]]
    <3>1. t0 \in [Names -> AVLNode] /\ t0[victim] = tree[target] /\ \A m \in Names \ {victim} : t0[m] = tree[m]
      BY <1>4, <2>3
    <3>2. tree' = Link(SetParent(SetParent(t0, tree[target].kid["left"], victim),
                                 tree[target].kid["right"], victim),
                       tree[target].parent, target, victim)
      BY <1>7
    <3> HIDE DEF t0
    <3> QED
      BY ONLY <2>1, <2>3, <3>1, <3>2, SwapIs
  <2>6. Sound(tree', root', score, (InTree \ {target}) \cup {victim}, Null)
    BY <1>7, <2>1, <2>2, <2>3, <2>4, <2>5, SwapSound
  <2>7. Sound(tree', root', score', InTree', node')
    BY <1>1, <1>4, <2>3, <2>6
  <2>8. tree' \in [Names -> AVLNode] /\ root' \in Names \cup {Null}
    <3>1. tree' \in [Names -> AVLNode]
      BY <2>5 DEF Replaced
    <3> QED
      BY <1>7, <2>3, <3>1 DEF Inv, TypeOK
  <2>9. TypeOK'
    BY <1>1, <1>4, <2>8 DEF Inv, TypeOK
  <2>10. Loose(tree', score', InTree')
    <3> SUFFICES ASSUME NEW m \in Names, NEW d \in Sides
                 PROVE  /\ score[m] = Null => tree'[m].kid[d] = Null /\ tree'[m].parent = Null
                        /\ m \notin InTree' => tree'[m].kid[d] \in InTree' \cup {Null}
      BY <1>1 DEF Loose
    <3>1. CASE m \notin Allocated
      <4>1. tree[m].kid[d] = Null /\ tree[m].parent = Null /\ m \notin (InTree \ {target}) \cup {victim}
        BY <1>2, <1>4, <3>1 DEF Inv, Loose
      <4> QED
        BY <2>5, <4>1
    <3>2. CASE m = target
      <4>1. tree[m].kid[d] \in InTree \cup {Null} /\ tree[m].kid[d] # target
        BY <1>4, <2>1, <2>3, <3>2, OneParent
      <4>2. tree'[m].kid[d] = tree[m].kid[d]
        BY <1>7, <2>3, <2>5, <3>2
      <4> QED
        BY <1>2, <1>4, <2>3, <3>2, <4>1, <4>2
    <3>3. CASE m \in Allocated /\ m # target
      BY <1>2, <1>4, <2>3, <3>3
    <3> QED
      BY <3>1, <3>2, <3>3
  <2> QED
    BY <1>1, <1>3, <1>4, <1>5, <2>7, <2>9, <2>10 DEF Inv
<1> QED
  BY <1>6, <1>7 DEF SwapWithVictim

-----------------------------------------------------------------------------
(* The rest of the calls.                                                  *)

\* no node at all
LEMMA EmptySound ==
    ASSUME NEW t \in [Names -> AVLNode], NEW sc
    PROVE  Sound(t, Null, sc, {}, Null)
<1> DEFINE sub == [m \in {} |-> {}]
<1>1. sub \in [{} -> SUBSET {}]
  OBVIOUS
<1> HIDE DEF sub
<1>2. Shape(t, Null, sc, {}, sub)
  BY <1>1 DEF Shape, Ordered, KidsFit, ParentsFit, Nested, RootFits
<1>3. NoAux \in AuxType
  BY DEF NoAux, AuxType
<1>4. AuxFits(t, {}, Null, NoAux)
  BY DEF AuxFits
<1> QED
  BY <1>2, <1>3, <1>4 DEF Sound

LEMMA FreedIs == Freed \in AVLNode /\ Freed.parent = Null /\ \A s \in Sides : Freed.kid[s] = Null
BY DEF Freed, avl_init, NoAux, AVLNode, Sides

LEMMA InvInit == Init => Inv
<1> SUFFICES ASSUME Init PROVE Inv
  OBVIOUS
<1>1. tree \in [Names -> AVLNode] /\ \A m \in Names : tree[m] = Freed
  BY FreedIs DEF Init
<1>2. score \in [Names -> Scores \cup {Null}] /\ \A m \in Names : score[m] = Null
  BY DEF Init
<1>3. /\ root = Null /\ hmap = {} /\ pc = "idle" /\ node = Null
      /\ target = Null /\ victim = Null /\ rescore = Null
  BY DEF Init
<1>4. Allocated = {} /\ InTree = {}
  BY <1>2 DEF Allocated, InTree
<1>5. TypeOK
  BY <1>1, <1>2, <1>3 DEF TypeOK
<1>6. Control
  BY <1>3, <1>4 DEF Control
<1>7. Loose(tree, score, InTree)
  BY <1>1, FreedIs DEF Loose
<1>8. Sound(tree, root, score, InTree, node)
  BY <1>1, <1>3, <1>4, EmptySound
<1> QED
  BY <1>3, <1>4, <1>5, <1>6, <1>7, <1>8, FS_EmptySet DEF Inv

\* What happens to a record outside of the tree does not matter.
LEMMA SoundOff ==
    ASSUME NEW t, NEW r, NEW sc, NEW T, NEW x, Sound(t, r, sc, T, x), x = Null,
           NEW u \in [Names -> AVLNode], NEW sc2, T \subseteq Names,
           \A m \in T : u[m] = t[m] /\ sc2[m] = sc[m]
    PROVE  Sound(u, r, sc2, T, x)
<1>1. PICK sub, old : Shape(t, r, sc, T, sub) /\ old \in AuxType /\ AuxFits(t, T, x, old)
  BY DEF Sound
<1>2. Shape(u, r, sc2, T, sub)
  BY <1>1, SameShape
<1>3. AuxFits(u, T, x, old)
  <2> SUFFICES ASSUME NEW m \in T, NEW s \in Sides
               PROVE  Fit(u[m].aux, Seen(u, u[m].kid[s], x, old), Seen(u, u[m].kid[Other(s)], x, old))
    BY DEF AuxFits
  <2>1. Fit(t[m].aux, Seen(t, t[m].kid[s], x, old), Seen(t, t[m].kid[Other(s)], x, old))
    BY <1>1, NullIsNoName DEF AuxFits
  <2>2. \A d \in Sides : t[m].kid[d] \in T \cup {Null}
    BY <1>1, OneParent
  <2>3. \A d \in Sides : Seen(u, u[m].kid[d], x, old) = Seen(t, t[m].kid[d], x, old)
    BY <2>2 DEF Seen, Aux
  <2> QED
    BY <2>1, <2>3, SidesAre
<1> QED
  BY <1>1, <1>2, <1>3 DEF Sound

LEMMA InvFree == Inv /\ znode_del => Inv'
<1> SUFFICES ASSUME Inv, znode_del PROVE Inv'
  OBVIOUS
<1>1. /\ pc = "detached" /\ rescore = Null /\ pc' = "idle" /\ target' = Null
      /\ root' = root /\ hmap' = hmap /\ node' = node /\ victim' = victim /\ rescore' = rescore
      /\ tree' = [tree EXCEPT ![target] = Freed] /\ score' = [score EXCEPT ![target] = Null]
  BY DEF znode_del
<1>2. /\ target \in Allocated /\ hmap = Allocated \ {target} /\ victim = Null /\ TakenOut = target
      /\ target \in Names
  BY <1>1 DEF Inv, Control, TakenOut, Allocated
<1>3. /\ IsFiniteSet(InTree) /\ node = Null /\ tree \in [Names -> AVLNode]
      /\ score \in [Names -> Scores \cup {Null}] /\ InTree \subseteq Names /\ Null \notin InTree
  BY <1>1, AtRest
<1>4. /\ tree' \in [Names -> AVLNode] /\ tree'[target] = Freed
      /\ \A m \in Names \ {target} : tree'[m] = tree[m]
  BY <1>1, <1>2, <1>3, FreedIs
<1>5. /\ score' \in [Names -> Scores \cup {Null}] /\ score'[target] = Null
      /\ \A m \in Names \ {target} : score'[m] = score[m]
  BY <1>1, <1>2, <1>3
<1>6. InTree = Allocated \ {target}
  BY <1>2 DEF InTree
<1>7. Allocated' = InTree
  <2>1. Allocated' = {m \in Names : score'[m] # Null}
    BY DEF Allocated
  <2> QED
    BY <1>5, <1>6, <2>1 DEF Allocated
<1>8. TakenOut' = Null /\ InTree' = InTree
  <2>1. TakenOut' = Null
    BY <1>1, <1>2 DEF TakenOut
  <2> QED
    BY <1>3, <1>7, <2>1 DEF InTree
<1>9. Sound(tree', root', score', InTree', node')
  <2>1. Sound(tree, root, score, InTree, node)
    BY DEF Inv
  <2>2. \A m \in InTree : tree'[m] = tree[m] /\ score'[m] = score[m]
    BY <1>3, <1>4, <1>5, <1>6
  <2>3. Sound(tree', root, score', InTree, node)
    BY <1>3, <1>4, <2>1, <2>2, SoundOff
  <2> QED
    BY <1>1, <1>8, <2>3
<1>10. Loose(tree', score', InTree')
  <2> SUFFICES ASSUME NEW m \in Names, NEW s \in Sides
               PROVE  /\ score'[m] = Null => tree'[m].kid[s] = Null /\ tree'[m].parent = Null
                      /\ m \notin InTree => tree'[m].kid[s] \in InTree \cup {Null}
    BY <1>8 DEF Loose
  <2>1. CASE m = target
    BY <1>4, <2>1, FreedIs
  <2>2. CASE m # target
    BY <1>4, <1>5, <2>2 DEF Inv, Loose
  <2> QED
    BY <2>1, <2>2
<1>11. TypeOK'
  BY <1>1, <1>3, <1>4, <1>5 DEF Inv, TypeOK
<1>12. Control'
  BY <1>1, <1>2, <1>6, <1>7 DEF Control
<1> QED
  BY <1>1, <1>3, <1>7, <1>9, <1>10, <1>11, <1>12 DEF Inv

\* tree_dispose() meets all nodes.
LEMMA RestSubtrees ==
    ASSUME Inv, pc = "idle", NEW sub, Shape(tree, root, score, InTree, sub)
    PROVE  /\ Subtree(Null) = {} /\ \A m \in InTree : Subtree(m) = sub[m]
           /\ Subtree(root) = InTree
           /\ InTree = Allocated /\ hmap = Allocated
<1>1. target = Null /\ victim = Null /\ rescore = Null /\ hmap = Allocated
  BY DEF Inv, Control
<1>2. InTree = Allocated
  BY <1>1, NullIsNoName DEF InTree, TakenOut, Allocated
<1>3. IsFiniteSet(InTree) /\ \A m \in Names \ InTree, d \in Sides : tree[m].kid[d] \in InTree \cup {Null}
  BY AtRest
<1>4. Subtree(Null) = {} /\ \A m \in InTree : Subtree(m) = sub[m]
  BY <1>3, SubtreeExact
<1> QED
  BY <1>1, <1>2, <1>4 DEF Shape, RootFits

LEMMA InvClear == Inv /\ zset_clear => Inv'
<1> SUFFICES ASSUME Inv, zset_clear PROVE Inv'
  OBVIOUS
<1>1. /\ pc = "idle" /\ root' = Null /\ hmap' = {} /\ pc' = pc /\ node' = node
      /\ target' = target /\ victim' = victim /\ rescore' = rescore
      /\ tree' = [n \in Names |-> IF n \in Subtree(root) THEN Freed ELSE tree[n]]
      /\ score' = [n \in Names |-> IF n \in Subtree(root) THEN Null ELSE score[n]]
  BY DEF zset_clear, removal
<1>2. PICK sub : Shape(tree, root, score, InTree, sub)
  BY <1>1, AtRest
<1>3. Subtree(root) = Allocated /\ InTree = Allocated
  BY <1>1, <1>2, RestSubtrees
<1>4. /\ node = Null /\ tree \in [Names -> AVLNode] /\ score \in [Names -> Scores \cup {Null}]
      /\ target = Null /\ victim = Null /\ rescore = Null
      /\ \A m \in Names : m \in Allocated <=> score[m] # Null
  BY <1>1, AtRest DEF Inv, Control
<1>5. tree' \in [Names -> AVLNode] /\ \A m \in Names : tree'[m] = IF m \in Allocated THEN Freed ELSE tree[m]
  BY <1>1, <1>3, <1>4, FreedIs
<1>6. score' \in [Names -> Scores \cup {Null}] /\ \A m \in Names : score'[m] = Null
  BY <1>1, <1>3, <1>4
<1>7. Allocated' = {} /\ InTree' = {}
  BY <1>6 DEF Allocated, InTree
<1>8. TypeOK'
  BY <1>1, <1>4, <1>5, <1>6 DEF TypeOK
<1>9. Control'
  BY <1>1, <1>4, <1>7 DEF Control
<1>10. Loose(tree', score', InTree')
  <2> SUFFICES ASSUME NEW m \in Names, NEW s \in Sides
               PROVE  tree'[m].kid[s] = Null /\ tree'[m].parent = Null
    BY <1>7 DEF Loose
  <2>1. m \notin Allocated => tree[m].kid[s] = Null /\ tree[m].parent = Null
    BY <1>4 DEF Inv, Loose
  <2> QED
    BY <1>5, <2>1, FreedIs
<1>11. Sound(tree', root', score', InTree', node')
  BY <1>1, <1>4, <1>5, <1>7, EmptySound
<1> QED
  BY <1>1, <1>7, <1>8, <1>9, <1>10, <1>11, FS_EmptySet DEF Inv

LEMMA InvStutter == Inv /\ UNCHANGED vars => Inv'
<1> SUFFICES ASSUME Inv, UNCHANGED vars PROVE Inv'
  OBVIOUS
<1>1. /\ root' = root /\ tree' = tree /\ hmap' = hmap /\ score' = score /\ pc' = pc
      /\ node' = node /\ target' = target /\ victim' = victim /\ rescore' = rescore
  BY DEF vars
<1>2. Allocated' = Allocated /\ InTree' = InTree /\ TypeOK' /\ Control'
  BY <1>1 DEF Inv, Allocated, InTree, TakenOut, TypeOK, Control
<1> QED
  BY <1>1, <1>2 DEF Inv

\* Every step of every call keeps the inductive invariant.
LEMMA InvNext == Inv /\ [Next]_vars => Inv'
<1> SUFFICES ASSUME Inv, [Next]_vars PROVE Inv'
  OBVIOUS
<1>1. ASSUME NEW n \in Names, zset_delete(n) PROVE Inv'
  BY <1>1, InvDelete
<1>2. ASSUME NEW n \in Names, NEW s \in Scores, zset_insert(n, s) PROVE Inv'
  BY <1>2, InvInsert
<1>3. CASE zset_clear
  BY <1>3, InvClear
<1>4. CASE avl_fix
  BY <1>4, InvFix
<1>5. CASE SwapWithVictim
  BY <1>5, InvSwap
<1>6. CASE Reinsert
  BY <1>6, InvReinsert
<1>7. CASE znode_del
  BY <1>7, InvFree
<1>8. CASE UNCHANGED vars
  BY <1>8, InvStutter
<1> QED
  BY <1>1, <1>2, <1>3, <1>4, <1>5, <1>6, <1>7, <1>8 DEF Next, Continue

\* The inductive invariant: at every step of every call, of avl_fix() too, the
\* nodes that were not taken out form one search tree, whose pointers agree in both
\* directions, whose heights and counts are those of avl_update() and whose siblings
\* differ in height by 1 at most, but for what avl_fix() has yet to repair at the
\* one node it works on; and where avl_remove() stands, what it has taken out and
\* what it has put there are known.
THEOREM Invariant == Spec => []Inv
<1>1. Init => Inv
  BY InvInit
<1>2. Inv /\ [Next]_vars => Inv'
  BY InvNext
<1> QED
  BY <1>1, <1>2, PTL DEF Spec

-----------------------------------------------------------------------------
(* The properties.                                                         *)

\* Every variable keeps its type; in particular avl_fix() always has a node to
\* work on, and no pointer that the code follows is anything but a node.
THEOREM TypeCorrect == Spec => []TypeOK
<1>1. Inv => TypeOK
  BY DEF Inv
<1> QED
  BY <1>1, Invariant, PTL

\* The heights that differ by 1 at most as the nodes above x see them differ by 1
\* at most as they are.
LEMMA LeanSeen ==
    ASSUME Inv, NEW n \in InTree, n # node
    PROVE  Lean(n, 1)
<1>1. PICK sub, old : /\ Shape(tree, root, score, InTree, sub) /\ old \in AuxType
                      /\ AuxFits(tree, InTree, node, old)
                      /\ node # Null => node \in InTree /\ Carries(tree, node, old)
  BY DEF Inv, Sound
<1>2. tree \in [Names -> AVLNode] /\ n \in Names /\ InTree \subseteq Names
  BY <1>1 DEF Shape
<1> SUFFICES ASSUME NEW s \in Sides
             PROVE  avl_height(tree, tree[n].kid[s]) <= avl_height(tree, tree[n].kid[Other(s)]) + 1
  BY DEF Lean
<1> DEFINE k == tree[n].kid[s]
           l == tree[n].kid[Other(s)]
<1>3. Fit(tree[n].aux, Seen(tree, k, node, old), Seen(tree, l, node, old))
  BY <1>1 DEF AuxFits
<1>4. Other(s) \in Sides /\ Other(Other(s)) = s
  BY SidesAre
<1>5. k \in InTree \cup {Null} /\ l \in InTree \cup {Null} /\ (k # Null => k # l)
  BY <1>1, <1>4, OneParent, Kin
<1> HIDE DEF k, l
<1>6. Aux(tree, k) \in AuxType /\ Aux(tree, l) \in AuxType
  BY <1>2, <1>5, AuxIs
<1>7. /\ Seen(tree, k, node, old).height <= Seen(tree, l, node, old).height + 1
      /\ Seen(tree, l, node, old).height <= Seen(tree, k, node, old).height + 1
  BY <1>3 DEF Fit
<1>8. CASE (k # node \/ k = Null) /\ (l # node \/ l = Null)
  BY <1>7, <1>8 DEF Seen, avl_height, k, l
<1>9. CASE k = node /\ k # Null
  <2>1. Seen(tree, k, node, old) = old /\ Seen(tree, l, node, old) = Aux(tree, l)
    BY <1>5, <1>9 DEF Seen
  <2>2. Carries(tree, k, old) /\ Aux(tree, k) = tree[k].aux
    BY <1>1, <1>9 DEF Aux
  <2>3. Aux(tree, k).height <= Aux(tree, l).height + 1
    BY <1>6, <1>7, <2>1, <2>2 DEF Carries, AuxType
  <2> QED
    BY <2>3 DEF avl_height, k, l
<1>10. CASE l = node /\ l # Null
  <2>1. Seen(tree, l, node, old) = old /\ Seen(tree, k, node, old) = Aux(tree, k)
    BY <1>5, <1>10 DEF Seen
  <2>2. Carries(tree, l, old) /\ Aux(tree, l) = tree[l].aux
    BY <1>1, <1>10 DEF Aux
  <2>3. Aux(tree, k).height <= Aux(tree, l).height + 1
    BY <1>6, <1>7, <2>1, <2>2 DEF Carries, AuxType
  <2> QED
    BY <2>3 DEF avl_height, k, l
<1> QED
  BY <1>8, <1>9, <1>10

\* Siblings differ in height by 1 at most, at every step and everywhere but at the
\* node avl_fix() works on, where they differ by 2 at most: the difference of
\* exactly 2 that avl_fix() tests for is all there can be.
THEOREM AlwaysBalanced == Spec => []Balanced
<1>1. Inv => Balanced
  <2> SUFFICES ASSUME Inv PROVE Balanced
    OBVIOUS
  <2>1. ASSUME NEW n \in Names, score[n] # Null, n \notin {node, TakenOut} PROVE Lean(n, 1)
    <3>1. n \in InTree /\ n # node
      BY <2>1 DEF InTree, Allocated
    <3> QED
      BY <3>1, LeanSeen
  <2>2. ASSUME node # Null PROVE Lean(node, 2)
    <3>1. PICK old : StaleFits(tree, node, old)
      BY <2>2 DEF Inv, Sound
    <3> QED
      BY <3>1 DEF StaleFits, Lean
  <2> QED
    BY <2>1, <2>2 DEF Balanced
<1> QED
  BY <1>1, Invariant, PTL

\* the subtree of a child, as it is walked
LEMMA KidSubtree ==
    ASSUME Inv, pc = "idle", NEW sub, Shape(tree, root, score, InTree, sub),
           NEW n \in InTree, NEW s \in Sides
    PROVE  Subtree(tree[n].kid[s]) = {x \in sub[n] : On(score, s, x, n)}
<1>1. /\ Subtree(Null) = {} /\ \A m \in InTree : Subtree(m) = sub[m] /\ sub[m] \subseteq InTree
  BY RestSubtrees DEF Shape, Nested
<1>2. CASE tree[n].kid[s] = Null
  <2>1. \A x \in sub[n] : ~On(score, s, x, n)
    BY <1>2 DEF Shape, KidsFit
  <2> QED
    BY <1>1, <1>2, <2>1
<1>3. CASE tree[n].kid[s] # Null
  <2> DEFINE c == tree[n].kid[s]
  <2>1. c \in InTree /\ \A x \in InTree : x \in sub[c] <=> x \in sub[n] /\ On(score, s, x, n)
    BY <1>3 DEF Shape, KidsFit
  <2> HIDE DEF c
  <2>2. Subtree(c) = {x \in sub[n] : On(score, s, x, n)}
    BY <1>1, <2>1
  <2> QED
    BY <2>2 DEF c
<1> QED
  BY <1>2, <1>3

\* Between calls the tree and the hash table hold the same nodes, all of them
\* allocated; no rotation, no swap with the successor and no insertion loses a
\* subtree or leaves a pointer to a node that was freed; pointers to the children and
\* to the parents agree; and the tree is ordered by (score, name).
THEOREM IndexesAlwaysAgree == Spec => []IndexesAgree
<1>1. Inv => IndexesAgree
  <2> SUFFICES ASSUME Inv PROVE IndexesAgree
    OBVIOUS
  <2>1. TypeOK
    BY DEF Inv
  <2>2. CASE pc # "idle"
    BY <2>1, <2>2 DEF IndexesAgree
  <2>3. CASE pc = "idle"
    <3>1. PICK sub : Shape(tree, root, score, InTree, sub)
      BY <2>3, AtRest
    <3>2. /\ Subtree(root) = InTree /\ InTree = Allocated /\ hmap = Allocated
          /\ \A m \in InTree : Subtree(m) = sub[m]
      BY <2>3, <3>1, RestSubtrees
    <3>3. root # Null => tree[root].parent = Null
      BY <3>1 DEF Shape, RootFits, ParentsFit
    <3>4. ASSUME NEW n \in hmap, NEW s \in Sides, tree[n].kid[s] # Null
          PROVE  tree[tree[n].kid[s]].parent = n /\ tree[n].kid[Other(s)] # tree[n].kid[s]
      BY <3>1, <3>2, <3>4, Kin
    <3>5. ASSUME NEW n \in hmap
          PROVE  /\ \A m \in Subtree(tree[n].kid["left"]) : zless(Key(m), Key(n))
                 /\ \A m \in Subtree(tree[n].kid["right"]) : zless(Key(n), Key(m))
      <4>1. "left" \in Sides /\ "right" \in Sides
        BY DEF Sides
      <4>2. /\ Subtree(tree[n].kid["left"]) = {x \in sub[n] : On(score, "left", x, n)}
            /\ Subtree(tree[n].kid["right"]) = {x \in sub[n] : On(score, "right", x, n)}
        BY <2>3, <3>1, <3>2, <4>1, KidSubtree
      <4> QED
        BY <4>2 DEF On, Key
    <3>6. hmap = {n \in Names : score[n] # Null}
      BY <3>2 DEF Allocated
    <3>7. \A n \in hmap, s \in Sides :
             LET c == tree[n].kid[s]
             IN  c # Null => tree[c].parent = n /\ tree[n].kid[Other(s)] # c
      BY <3>4
    <3>8. \A n \in hmap :
             /\ \A m \in Subtree(tree[n].kid["left"]) : zless(Key(m), Key(n))
             /\ \A m \in Subtree(tree[n].kid["right"]) : zless(Key(n), Key(m))
      BY <3>5
    <3> QED
      BY ONLY <2>1, <3>2, <3>3, <3>6, <3>7, <3>8 DEF IndexesAgree
  <2> QED
    BY <2>2, <2>3
<1> QED
  BY <1>1, Invariant, PTL

-----------------------------------------------------------------------------
(* Heights and sizes.                                                      *)

LEMMA HeightIs ==
    ASSUME NEW lv, NEW N, Grounded(lv, N)
    PROVE  /\ Height(Null) = 0
           /\ \A m \in Names : /\ Height(m) \in Nat
                               /\ Height(m) = 1 + Max({Height(tree[m].kid["left"]), Height(tree[m].kid["right"])})
<1> DEFINE S == Names \cup {Null}
           step(m, f) == IF m = Null THEN 0 ELSE 1 + Max({f[tree[m].kid[s]] : s \in Sides})
           G == [m \in S |-> [f \in [S -> Nat] |-> step(m, f)]]
<1>0. /\ \A m \in Names, s \in Sides : tree[m].kid[s] \in S /\ lv[tree[m].kid[s]] < lv[m]
      /\ lv \in [S -> Nat] /\ (\A m \in S : lv[m] < N) /\ N \in Nat /\ Nat # {}
      /\ "left" \in Sides /\ "right" \in Sides
  BY KidType DEF Grounded, Sides
<1>1. \A m, f : {f[tree[m].kid[s]] : s \in Sides} = {f[tree[m].kid["left"]], f[tree[m].kid["right"]]}
  BY DEF Sides
<1>2. ASSUME NEW m \in S, NEW f, m # Null => \A s \in Sides : f[tree[m].kid[s]] \in Nat
      PROVE  step(m, f) \in Nat
  <2>1. CASE m = Null
    BY <2>1
  <2>2. CASE m # Null
    <3>0. PICK h : h = Max({f[tree[m].kid[s]] : s \in Sides})
      OBVIOUS
    <3>1. Max({f[tree[m].kid["left"]], f[tree[m].kid["right"]]}) \in Nat
      BY <1>0, <1>2, <2>2, MaxIs
    <3>2. {f[tree[m].kid[s]] : s \in Sides} = {f[tree[m].kid["left"]], f[tree[m].kid["right"]]}
      BY <1>1
    <3>3. h \in Nat
      BY ONLY <3>0, <3>1, <3>2
    <3>4. step(m, f) = 1 + h
      BY <2>2, <3>0
    <3> HIDE DEF step
    <3> QED
      BY <3>3, <3>4
  <2> QED
    BY <2>1, <2>2
<1>3. G \in [S -> [[S -> Nat] -> Nat]]
  <2>1. \A m \in S, f \in [S -> Nat] : step(m, f) \in Nat
    <3> SUFFICES ASSUME NEW m \in S, NEW f \in [S -> Nat] PROVE step(m, f) \in Nat
      OBVIOUS
    <3>1. m # Null => \A s \in Sides : f[tree[m].kid[s]] \in Nat
      BY <1>0
    <3> HIDE DEF step
    <3> QED
      BY <1>2, <3>1
  <2> HIDE DEF step, S
  <2> QED
    BY <2>1
<1>4. \A m \in S, f, g \in [S -> Nat] :
              (\A k \in S : lv[k] < lv[m] => f[k] = g[k]) => G[m][f] = G[m][g]
  <2> SUFFICES ASSUME NEW m \in S, NEW f \in [S -> Nat], NEW g \in [S -> Nat],
                      \A k \in S : lv[k] < lv[m] => f[k] = g[k]
               PROVE  G[m][f] = G[m][g]
    OBVIOUS
  <2>1. m # Null => \A s \in Sides : f[tree[m].kid[s]] = g[tree[m].kid[s]]
    BY <1>0
  <2>2. m # Null => {f[tree[m].kid[s]] : s \in Sides} = {g[tree[m].kid[s]] : s \in Sides}
    BY <2>1
  <2>3. step(m, f) = step(m, g)
    BY <2>2
  <2> HIDE DEF step, S
  <2> QED
    BY <2>3
<1>5. \E f \in [S -> Nat] : \A m \in S : f[m] = G[m][f]
  <2> HIDE DEF G, S
  <2>1. WellRanked(S, Nat, N, lv, G)
    BY <1>0, <1>3, <1>4 DEF WellRanked
  <2> QED
    BY <2>1, Recursion
<1>6. \E f : f = [m \in S |-> step(m, f)]
  <2>1. PICK f \in [S -> Nat] : \A m \in S : f[m] = G[m][f]
    BY <1>5
  <2>2. \A m \in S : f[m] = step(m, f)
    BY <2>1
  <2> HIDE DEF step
  <2> QED
    BY <2>2
<1> DEFINE w == CHOOSE f : f = [m \in S |-> step(m, f)]
<1>7. w = [m \in S |-> step(m, w)]
  BY <1>6
<1>8. \A n : Height(n) = w[n]
  BY DEF Height
<1> HIDE DEF w
<1>9. w[Null] = 0 /\ \A m \in Names : w[m] = step(m, w)
  BY <1>7
<1>10. \A m \in S : w[m] \in Nat
  <2> DEFINE Good == {m \in S : w[m] \in Nat}
  <2>2. \A m \in S : (\A k \in S : lv[k] < lv[m] => k \in Good) => m \in Good
    <3> SUFFICES ASSUME NEW m \in S, \A k \in S : lv[k] < lv[m] => k \in Good PROVE w[m] \in Nat
      OBVIOUS
    <3>1. m # Null => \A s \in Sides : w[tree[m].kid[s]] \in Nat
      BY <1>0
    <3>2. w[m] = step(m, w)
      BY <1>7
    <3> HIDE DEF step
    <3> QED
      BY <1>2, <3>1, <3>2
  <2>3. S \subseteq Good
    <3> HIDE DEF Good, S
    <3> QED
      BY ONLY <1>0, <2>2, RankInduction
  <2> QED
    BY <2>3
<1>11. \A m \in Names : w[m] = 1 + Max({w[tree[m].kid["left"]], w[tree[m].kid["right"]]})
  BY <1>1, <1>9, NullIsNoName
<1> QED
  BY <1>8, <1>9, <1>10, <1>11

LEMMA SplitIs ==
    ASSUME NEW S, NEW A, IsFiniteSet(A), NEW B, IsFiniteSet(B), A \cap B = {}, NEW x, x \notin A \cup B,
           S = A \cup B \cup {x}
    PROVE  /\ IsFiniteSet(S) /\ Cardinality(S) = 1 + Cardinality(A) + Cardinality(B)
           /\ Cardinality(S) \in Nat /\ Cardinality(A) \in Nat /\ Cardinality(B) \in Nat
<1>1. PICK U : U = A \cup B
  OBVIOUS
<1>2. Cardinality(A) \in Nat /\ Cardinality(B) \in Nat
  BY FS_CardinalityType
<1>3. IsFiniteSet(U) /\ Cardinality(U) = Cardinality(A) + Cardinality(B) - Cardinality(A \cap B)
  BY <1>1, FS_Union
<1>4. Cardinality(A \cap B) = 0
  BY FS_EmptySet
<1>5. Cardinality(U) = Cardinality(A) + Cardinality(B)
  BY <1>2, <1>3, <1>4
<1>6. x \notin U /\ S = U \cup {x}
  BY <1>1
<1>7. IsFiniteSet(S) /\ Cardinality(S) = Cardinality(U) + 1
  BY <1>3, <1>6, FS_AddElement
<1>8. Cardinality(S) = 1 + Cardinality(A) + Cardinality(B)
  BY <1>2, <1>5, <1>7
<1>9. Cardinality(S) \in Nat
  BY <1>7, FS_CardinalityType
<1> QED
  BY <1>2, <1>7, <1>8, <1>9

\* the size of the subtree of a child
Size(sub, k) == IF k = Null THEN 0 ELSE Cardinality(sub[k])

\* A subtree is its top and the subtrees of the two children.
LEMMA SizeIs ==
    ASSUME NEW t, NEW r, NEW sc, NEW T, NEW sub, Shape(t, r, sc, T, sub), IsFiniteSet(T), NEW m \in T
    PROVE  /\ Cardinality(sub[m]) = 1 + Size(sub, t[m].kid["left"]) + Size(sub, t[m].kid["right"])
           /\ \A s \in Sides : /\ Size(sub, t[m].kid[s]) \in Nat
                               /\ Size(sub, t[m].kid[s]) = Cardinality({x \in sub[m] : On(sc, s, x, m)})
<1> DEFINE Part(s) == {x \in sub[m] : On(sc, s, x, m)}
<1>1. /\ Ordered(sc, T) /\ KidsFit(t, sc, T, sub) /\ m \in sub[m] /\ sub[m] \subseteq T
      /\ \A k \in T : sub[k] \subseteq T
  BY DEF Shape, Nested
<1>2. IsFiniteSet(sub[m]) /\ Cardinality(sub[m]) \in Nat
  BY SubFinite
<1>3. ASSUME NEW s \in Sides PROVE Size(sub, t[m].kid[s]) = Cardinality(Part(s))
  <2>1. CASE t[m].kid[s] = Null
    <3>1. Part(s) = {}
      BY <1>1, <2>1 DEF KidsFit
    <3> QED
      BY <2>1, <3>1, FS_EmptySet DEF Size
  <2>2. CASE t[m].kid[s] # Null
    <3> DEFINE k == t[m].kid[s]
    <3>1. k \in T /\ \A x \in T : x \in sub[k] <=> x \in sub[m] /\ On(sc, s, x, m)
      BY <1>1, <2>2 DEF KidsFit
    <3> HIDE DEF k
    <3>2. sub[k] = Part(s)
      BY <1>1, <3>1
    <3>3. k # Null
      BY <2>2 DEF k
    <3>4. Size(sub, k) = Cardinality(Part(s))
      BY <3>2, <3>3 DEF Size
    <3> QED
      BY <3>4 DEF k
  <2> QED
    BY <2>1, <2>2
<1>4. \A s \in Sides : IsFiniteSet(Part(s)) /\ Cardinality(Part(s)) \in Nat
  <2>1. \A s \in Sides : Part(s) \subseteq sub[m]
    OBVIOUS
  <2> HIDE DEF Part
  <2> QED
    BY <1>2, <2>1, FS_Subset, FS_CardinalityType
<1>5. /\ "left" \in Sides /\ "right" \in Sides /\ Other("left") = "right" /\ Other("right") = "left"
  BY DEF Sides, Other
<1>6. /\ sub[m] \ {m} = Part("left") \cup Part("right") /\ Part("left") \cap Part("right") = {}
  <2>1. \A x \in sub[m] : x # m => (On(sc, "left", x, m) <=> ~On(sc, "right", x, m))
    BY <1>1, <1>5 DEF Ordered
  <2>2. \A s \in Sides : ~On(sc, s, m, m)
    BY <1>1 DEF Ordered
  <2> QED
    BY <1>1, <1>5, <2>1, <2>2
<1>7. PICK L, R : L = Part("left") /\ R = Part("right")
  OBVIOUS
<1>8. ASSUME NEW s \in Sides PROVE Size(sub, t[m].kid[s]) \in Nat
  BY <1>3, <1>4
<1>9. Size(sub, t[m].kid["left"]) = Cardinality(L) /\ Size(sub, t[m].kid["right"]) = Cardinality(R)
  BY <1>3, <1>5, <1>7
<1>10. /\ IsFiniteSet(L) /\ IsFiniteSet(R)
       /\ sub[m] = L \cup R \cup {m} /\ m \notin L \cup R /\ L \cap R = {}
  BY <1>1, <1>4, <1>5, <1>6, <1>7
<1> HIDE DEF Part
<1>11. Cardinality(sub[m]) = 1 + Cardinality(L) + Cardinality(R)
  BY <1>10, SplitIs
<1>12. \A s \in Sides : /\ Size(sub, t[m].kid[s]) \in Nat
                        /\ Size(sub, t[m].kid[s]) = Cardinality({x \in sub[m] : On(sc, s, x, m)})
  BY <1>3, <1>8 DEF Part
<1> QED
  BY <1>9, <1>11, <1>12

\* Between calls the data of a node are those of its subtree.
LEMMA DataExact ==
    ASSUME Inv, pc = "idle", NEW sub, Shape(tree, root, score, InTree, sub)
    PROVE  \A m \in InTree : tree[m].aux.height = Height(m) /\ tree[m].aux.cnt = Cardinality(sub[m])
<1>1. /\ IsFiniteSet(InTree) /\ node = Null /\ InTree \subseteq Names /\ tree \in [Names -> AVLNode]
      /\ \A m \in Names \ InTree, d \in Sides : tree[m].kid[d] \in InTree \cup {Null}
  BY AtRest
<1>2. PICK old : old \in AuxType /\ AuxFits(tree, InTree, Null, old)
  BY AtRest
<1>3. PICK lv, N : Grounded(lv, N)
  BY <1>1, TreeGrounded
<1>4. /\ Height(Null) = 0
      /\ \A m \in Names : /\ Height(m) \in Nat
                          /\ Height(m) = 1 + Max({Height(tree[m].kid["left"]), Height(tree[m].kid["right"])})
  BY <1>3, HeightIs
<1>5. "left" \in Sides /\ "right" \in Sides /\ Other("left") = "right"
  BY DEF Sides, Other
<1> DEFINE Good == {m \in InTree : tree[m].aux.height = Height(m) /\ tree[m].aux.cnt = Cardinality(sub[m])}
           rank == [m \in InTree |-> lv[m]]
<1>6. rank \in [InTree -> Nat]
  BY <1>1, <1>3 DEF Grounded
<1>7. ASSUME NEW m \in InTree, \A k \in InTree : rank[k] < rank[m] => k \in Good PROVE m \in Good
  <2> DEFINE l == tree[m].kid["left"]
             r == tree[m].kid["right"]
  <2>1. \A s \in Sides : /\ tree[m].kid[s] \in InTree \cup {Null}
                         /\ Aux(tree, tree[m].kid[s]).height = Height(tree[m].kid[s])
                         /\ Aux(tree, tree[m].kid[s]).cnt = Size(sub, tree[m].kid[s])
    <3> SUFFICES ASSUME NEW s \in Sides
                 PROVE  /\ tree[m].kid[s] \in InTree \cup {Null}
                        /\ Aux(tree, tree[m].kid[s]).height = Height(tree[m].kid[s])
                        /\ Aux(tree, tree[m].kid[s]).cnt = Size(sub, tree[m].kid[s])
      OBVIOUS
    <3> DEFINE k == tree[m].kid[s]
    <3>1. k \in InTree \cup {Null}
      BY OneParent
    <3>2. k \in InTree => rank[k] < rank[m]
      BY <1>1, <1>3 DEF Grounded
    <3> HIDE DEF k
    <3>3. CASE k = Null
      <4>1. Aux(tree, k).height = 0 /\ Aux(tree, k).cnt = 0 /\ Size(sub, k) = 0 /\ Height(k) = 0
        BY <1>4, <3>3 DEF Aux, NoAux, Size
      <4> QED
        BY <3>1, <4>1 DEF k
    <3>4. CASE k \in InTree /\ k # Null
      <4>1. k \in Good
        BY <1>7, <3>2, <3>4
      <4>2. Aux(tree, k).height = Height(k) /\ Aux(tree, k).cnt = Size(sub, k)
        BY <3>4, <4>1 DEF Aux, Size
      <4> QED
        BY <3>1, <4>2 DEF k
    <3> QED
      BY <3>1, <3>3, <3>4
  <2>2. Fit(tree[m].aux, Aux(tree, l), Aux(tree, r))
    <3>1. Fit(tree[m].aux, Seen(tree, l, Null, old), Seen(tree, r, Null, old))
      BY <1>1, <1>2, <1>5, NullIsNoName DEF AuxFits
    <3> QED
      BY <3>1 DEF Seen
  <2>3. /\ l \in InTree \cup {Null} /\ Aux(tree, l).height = Height(l) /\ Aux(tree, l).cnt = Size(sub, l)
        /\ r \in InTree \cup {Null} /\ Aux(tree, r).height = Height(r) /\ Aux(tree, r).cnt = Size(sub, r)
    BY <1>5, <2>1
  <2>4. Cardinality(sub[m]) = 1 + Size(sub, l) + Size(sub, r)
    BY <1>1, SizeIs
  <2>5. Height(m) = 1 + Max({Height(l), Height(r)})
    BY <1>1, <1>4
  <2> HIDE DEF l, r
  <2>6. Height(l) \in Nat /\ Height(r) \in Nat
    <3>1. \A k \in InTree \cup {Null} : Height(k) \in Nat
      <4>1. \A k \in InTree : Height(k) \in Nat
        BY <1>1, <1>4
      <4>2. \A k : k = Null => Height(k) \in Nat
        BY <1>4
      <4> QED
        BY <4>1, <4>2
    <3> QED
      BY <2>3, <3>1
  <2>7. Max({Height(l), Height(r)}) = IF Height(l) < Height(r) THEN Height(r) ELSE Height(l)
    BY <2>6, MaxIs
  <2>8. tree[m].aux.height = Height(m) /\ tree[m].aux.cnt = Cardinality(sub[m])
    BY <2>2, <2>3, <2>4, <2>5, <2>7 DEF Fit
  <2> QED
    BY <2>8
<1>8. InTree \subseteq Good
  <2> HIDE DEF Good, rank
  <2> QED
    BY ONLY <1>6, <1>7, RankInduction
<1> QED
  BY <1>8

\* Between calls height and cnt of every node are those of its subtree: what
\* avl_update() was not called for has not changed.
THEOREM DataAlwaysExact == Spec => []AuxiliaryExact
<1>1. Inv => AuxiliaryExact
  <2> SUFFICES ASSUME Inv, pc = "idle", NEW n \in hmap
               PROVE  tree[n].aux.height = Height(n) /\ tree[n].aux.cnt = Cardinality(Subtree(n))
    BY DEF AuxiliaryExact
  <2>1. PICK sub : Shape(tree, root, score, InTree, sub)
    BY AtRest
  <2>2. n \in InTree /\ Subtree(n) = sub[n]
    BY <2>1, RestSubtrees
  <2> QED
    BY <2>1, <2>2, DataExact
<1> QED
  BY <1>1, Invariant, PTL

-----------------------------------------------------------------------------
(* Ranks.                                                                  *)

\* the nodes on side s of m, in the subtree of m or elsewhere
Before(s, m) == {x \in InTree : On(score, s, x, m)}

\* The tree between calls, with the sets of nodes of its subtrees.
Rest(sub) == Inv /\ pc = "idle" /\ Shape(tree, root, score, InTree, sub)

LEMMA RestIs ==
    ASSUME NEW sub, Rest(sub)
    PROVE  /\ Shape(tree, root, score, InTree, sub) /\ IsFiniteSet(InTree) /\ Cardinality(InTree) \in Nat
           /\ InTree \subseteq Names /\ Null \notin Names /\ tree \in [Names -> AVLNode]
           /\ hmap = InTree /\ Ordered(score, InTree)
           /\ \A m \in InTree : m \in sub[m] /\ sub[m] \subseteq InTree
           /\ \A m \in Names \ InTree, s \in Sides : tree[m].kid[s] = Null /\ tree[m].parent = Null
<1>1. Inv /\ pc = "idle" /\ Shape(tree, root, score, InTree, sub)
  BY DEF Rest
<1>2. hmap = InTree /\ InTree = Allocated
  BY <1>1, RestSubtrees
<1>3. IsFiniteSet(InTree) /\ InTree \subseteq Names /\ tree \in [Names -> AVLNode]
  BY <1>1, AtRest
<1>4. \A m \in Names \ InTree, s \in Sides : tree[m].kid[s] = Null /\ tree[m].parent = Null
  BY <1>1, <1>2 DEF Inv, Loose, Allocated
<1> QED
  BY <1>1, <1>2, <1>3, <1>4, NullIsNoName, FS_CardinalityType DEF Shape, Nested

LEMMA BeforeFinite ==
    ASSUME NEW sub, Rest(sub), NEW m \in InTree, NEW s \in Sides
    PROVE  IsFiniteSet(Before(s, m)) /\ Cardinality(Before(s, m)) \in Nat
<1>1. Before(s, m) \subseteq InTree
  BY DEF Before
<1> QED
  BY <1>1, RestIs, FS_Subset, FS_CardinalityType

\* What is on side s of the child on the other side is what is on side s of m, m
\* itself, and the subtree in between.
LEMMA BeforeKid ==
    ASSUME NEW sub, Rest(sub), NEW m \in InTree, NEW s \in Sides, NEW c, c = tree[m].kid[Other(s)], c # Null
    PROVE  /\ c \in InTree
           /\ Cardinality(Before(s, c)) = 1 + Cardinality(Before(s, m)) + Size(sub, tree[c].kid[s])
<1>0. Other(s) \in Sides /\ Other(Other(s)) = s /\ Other(s) # s /\ \A d \in Sides : d = s \/ d = Other(s)
  BY SidesAre
<1>1. /\ Shape(tree, root, score, InTree, sub) /\ IsFiniteSet(InTree) /\ Ordered(score, InTree)
      /\ \A k \in InTree : k \in sub[k] /\ sub[k] \subseteq InTree
  BY RestIs
<1>2. /\ c \in InTree /\ c # m /\ On(score, Other(s), c, m) /\ m \notin sub[c] /\ c \in sub[m] /\ sub[c] \subseteq sub[m]
      /\ \A x \in InTree : x \in sub[c] <=> x \in sub[m] /\ On(score, Other(s), x, m)
  BY <1>0, <1>1, Kin DEF Shape, KidsFit
<1>3. On(score, s, m, c)
  BY <1>0, <1>1, <1>2 DEF Ordered
<1>4. PICK A, B : A = Before(s, m) /\ B = {x \in sub[c] : On(score, s, x, c)}
  OBVIOUS
<1>5. ASSUME NEW x \in InTree, On(score, s, x, c) PROVE x \in A \/ x \in B \/ x = m
  <2>1. CASE x \in sub[c]
    BY <1>4, <1>5, <2>1
  <2>2. CASE x \in sub[m] /\ x \notin sub[c] /\ x # m
    <3>1. ~On(score, Other(s), x, m)
      BY <1>2, <2>2
    <3>2. On(score, s, x, m)
      BY <1>0, <1>1, <2>2, <3>1 DEF Ordered
    <3> QED
      BY <1>4, <3>2 DEF Before
  <2>3. CASE x \notin sub[m]
    <3>1. PICK d \in Sides : \A y \in sub[m] : On(score, d, x, y)
      BY <1>1, <2>3, Aside
    <3>2. On(score, d, x, c) /\ On(score, d, x, m) /\ x # c
      BY <1>1, <1>2, <2>3, <3>1
    <3>3. d = s
      BY <1>0, <1>1, <1>2, <1>5, <3>2 DEF Ordered
    <3> QED
      BY <1>4, <3>2, <3>3 DEF Before
  <2> QED
    BY <2>1, <2>2, <2>3
<1>6. A \subseteq InTree /\ B \subseteq InTree
  BY <1>1, <1>2, <1>4 DEF Before
<1>7. ASSUME NEW x \in A PROVE On(score, s, x, c)
  <2>1. x \in InTree /\ On(score, s, x, m)
    BY <1>4 DEF Before
  <2> QED
    BY <1>1, <1>2, <1>3, <2>1 DEF Ordered
<1>8. Before(s, c) = A \cup B \cup {m}
  <2>1. \A x \in InTree : On(score, s, x, c) <=> x \in A \cup B \cup {m}
    BY <1>3, <1>4, <1>5, <1>7
  <2> QED
    BY <1>6, <2>1 DEF Before
<1>9. A \cap B = {}
  <2> SUFFICES ASSUME NEW x \in A, x \in B PROVE FALSE
    OBVIOUS
  <2>1. x \in InTree /\ On(score, s, x, m) /\ On(score, Other(s), x, m) /\ x # m
    BY <1>1, <1>2, <1>4, <1>6 DEF Before
  <2> QED
    BY <1>0, <1>1, <2>1 DEF Ordered
<1>10. m \notin A \cup B
  <2>1. ~On(score, s, m, m)
    BY <1>1 DEF Ordered
  <2> QED
    BY <1>2, <1>4, <2>1 DEF Before
<1>11. IsFiniteSet(A) /\ IsFiniteSet(B)
  BY <1>1, <1>6, FS_Subset
<1>12. Cardinality(Before(s, c)) = 1 + Cardinality(A) + Cardinality(B)
  BY <1>8, <1>9, <1>10, <1>11, SplitIs
<1>13. Size(sub, tree[c].kid[s]) = Cardinality(B)
  BY <1>1, <1>2, <1>4, SizeIs
<1> QED
  BY <1>2, <1>4, <1>12, <1>13

LEMMA BeforeAll ==
    ASSUME NEW sub, Rest(sub), NEW m \in InTree
    PROVE  Cardinality(InTree) = 1 + Cardinality(Before("left", m)) + Cardinality(Before("right", m))
<1>0. "left" \in Sides /\ "right" \in Sides /\ Other("left") = "right"
  BY DEF Sides, Other
<1>1. Ordered(score, InTree)
  BY RestIs
<1>2. PICK A, B : A = Before("left", m) /\ B = Before("right", m)
  OBVIOUS
<1>3. IsFiniteSet(A) /\ IsFiniteSet(B)
  BY <1>0, <1>2, BeforeFinite
<1>4. /\ \A x \in InTree : x # m => (On(score, "left", x, m) <=> ~On(score, "right", x, m))
      /\ ~On(score, "left", m, m) /\ ~On(score, "right", m, m)
  BY <1>0, <1>1 DEF Ordered
<1>5. A \cap B = {} /\ m \notin A \cup B /\ InTree = A \cup B \cup {m}
  BY <1>2, <1>4 DEF Before
<1> QED
  BY <1>2, <1>3, <1>5, SplitIs

LEMMA BeforeRoot ==
    ASSUME NEW sub, Rest(sub), root \in InTree, NEW s \in Sides
    PROVE  Cardinality(Before(s, root)) = Size(sub, tree[root].kid[s])
<1>1. /\ Shape(tree, root, score, InTree, sub) /\ IsFiniteSet(InTree) /\ sub[root] = InTree
  BY RestIs DEF Shape, RootFits
<1> QED
  BY <1>1, SizeIs DEF Before

LEMMA RankIs ==
    ASSUME NEW sub, Rest(sub), NEW m \in InTree
    PROVE  Rank(m) = Cardinality(Before("left", m)) /\ Rank(m) \in Nat /\ Rank(m) < Cardinality(InTree)
<1>0. "left" \in Sides /\ "right" \in Sides
  BY DEF Sides
<1>1. Rank(m) = Cardinality(Before("left", m))
  BY RestIs DEF Rank, Before, On, Key
<1> QED
  BY <1>0, <1>1, BeforeAll, BeforeFinite, RestIs

LEMMA RankOrder ==
    ASSUME NEW sub, Rest(sub), NEW x \in InTree, NEW y \in InTree, On(score, "left", x, y)
    PROVE  Rank(x) < Rank(y)
<1>0. "left" \in Sides
  BY DEF Sides
<1>1. Ordered(score, InTree)
  BY RestIs
<1>2. PICK A, B : A = Before("left", x) /\ B = Before("left", y)
  OBVIOUS
<1>3. IsFiniteSet(A) /\ IsFiniteSet(B) /\ Cardinality(A) \in Nat /\ Cardinality(B) \in Nat
  BY <1>0, <1>2, BeforeFinite
<1>4. A \subseteq B /\ x \in B /\ x \notin A
  BY <1>0, <1>1, <1>2 DEF Before, Ordered
<1>5. Cardinality(A) <= Cardinality(B) /\ (Cardinality(A) = Cardinality(B) => A = B)
  BY <1>3, <1>4, FS_Subset
<1>6. Cardinality(A) < Cardinality(B)
  BY <1>3, <1>4, <1>5
<1> QED
  BY <1>2, <1>6, RankIs

\* No two nodes have the same rank.
LEMMA RankOne ==
    ASSUME NEW sub, Rest(sub), NEW x \in InTree, NEW y \in InTree, Rank(x) = Rank(y)
    PROVE  x = y
<1> SUFFICES ASSUME x # y PROVE FALSE
  OBVIOUS
<1>1. On(score, "left", x, y) \/ On(score, "left", y, x)
  <2>1. Ordered(score, InTree) /\ "left" \in Sides /\ Other("left") \in Sides /\ Other(Other("left")) = "left"
    BY RestIs, SidesAre
  <2> QED
    BY <2>1 DEF Ordered
<1>2. Rank(x) \in Nat /\ Rank(y) \in Nat
  BY RankIs
<1> QED
  BY <1>1, <1>2, RankOrder

LEMMA AtRankIs ==
    ASSUME NEW sub, Rest(sub)
    PROVE  /\ \A m \in InTree : AtRank(Rank(m)) = m
           /\ \A i \in Int : i < 0 \/ i >= Cardinality(InTree) => AtRank(i) = Null
<1>1. hmap = InTree /\ Cardinality(InTree) \in Nat
  BY RestIs
<1>2. ASSUME NEW m \in InTree PROVE AtRank(Rank(m)) = m
  <2>1. \E n \in hmap : Rank(n) = Rank(m)
    BY <1>1
  <2>2. PICK k : k = CHOOSE n \in hmap : Rank(n) = Rank(m)
    OBVIOUS
  <2>3. k \in hmap /\ Rank(k) = Rank(m)
    BY <2>1, <2>2
  <2>4. k = m
    BY <1>1, <2>3, RankOne
  <2> QED
    BY <2>1, <2>2, <2>4 DEF AtRank
<1>3. ASSUME NEW i \in Int, i < 0 \/ i >= Cardinality(InTree) PROVE AtRank(i) = Null
  <2>1. \A n \in hmap : Rank(n) # i
    BY <1>1, <1>3, RankIs
  <2> QED
    BY <2>1 DEF AtRank
<1> QED
  BY <1>2, <1>3

\* What avl_offset() relies on: cn has the counts, rk the ranks, and there are M
\* nodes.
Counted(cn, rk, M) ==
    /\ cn \in [InTree \cup {Null} -> Nat] /\ rk \in [InTree -> Nat] /\ M \in Nat /\ cn[Null] = 0
    /\ \A k \in InTree \cup {Null} : Aux(tree, k).cnt = cn[k] /\ cn[k] <= M
    /\ \A m \in InTree :
          LET l == tree[m].kid["left"]
              r == tree[m].kid["right"]
              p == tree[m].parent
          IN  /\ l \in InTree \cup {Null} /\ r \in InTree \cup {Null} /\ p \in InTree \cup {Null}
              /\ cn[m] = 1 + cn[l] + cn[r]
              /\ r # Null => rk[r] = rk[m] + 1 + cn[tree[r].kid["left"]]
              /\ l # Null => rk[m] = rk[l] + 1 + cn[tree[l].kid["right"]]
              /\ p = Null => rk[m] = cn[l] /\ M = 1 + cn[l] + cn[r]
              /\ p # Null => tree[p].kid["left"] = m \/ tree[p].kid["right"] = m
    /\ \A m \in Names \ InTree : /\ tree[m].kid["left"] = Null /\ tree[m].kid["right"] = Null
                                 /\ tree[m].parent = Null
    /\ InTree \subseteq Names /\ Null \notin Names

LEMMA RestCounted ==
    ASSUME NEW sub, Rest(sub)
    PROVE  \E cn, rk : Counted(cn, rk, Cardinality(InTree)) /\ \A m \in InTree : rk[m] = Rank(m)
<1> DEFINE cn == [k \in InTree \cup {Null} |-> Size(sub, k)]
           rk == [m \in InTree |-> Rank(m)]
           M == Cardinality(InTree)
<1>0. "left" \in Sides /\ "right" \in Sides /\ Other("left") = "right" /\ Other("right") = "left"
  BY DEF Sides, Other
<1>1. /\ Shape(tree, root, score, InTree, sub) /\ IsFiniteSet(InTree) /\ M \in Nat
      /\ InTree \subseteq Names /\ Null \notin Names /\ tree \in [Names -> AVLNode]
      /\ \A m \in Names \ InTree, s \in Sides : tree[m].kid[s] = Null /\ tree[m].parent = Null
  BY RestIs
<1>2. \A k \in InTree \cup {Null} : Size(sub, k) \in Nat /\ Size(sub, k) <= M
  BY <1>1, SubFinite DEF Size
<1>3. \A m \in InTree : tree[m].aux.cnt = Cardinality(sub[m])
  BY DataExact DEF Rest
<1>4. \A k \in InTree \cup {Null} : Aux(tree, k).cnt = Size(sub, k)
  BY <1>1, <1>3 DEF Aux, NoAux, Size
<1>5. cn \in [InTree \cup {Null} -> Nat] /\ cn[Null] = 0 /\ \A k \in InTree \cup {Null} : cn[k] = Size(sub, k)
  BY <1>2 DEF Size
<1>6. rk \in [InTree -> Nat] /\ \A m \in InTree : rk[m] = Rank(m) /\ rk[m] = Cardinality(Before("left", m))
  BY RankIs
<1> HIDE DEF cn, rk, M
<1>7. ASSUME NEW m \in InTree
      PROVE  LET l == tree[m].kid["left"]
                 r == tree[m].kid["right"]
                 p == tree[m].parent
             IN  /\ l \in InTree \cup {Null} /\ r \in InTree \cup {Null} /\ p \in InTree \cup {Null}
                 /\ cn[m] = 1 + cn[l] + cn[r]
                 /\ r # Null => rk[r] = rk[m] + 1 + cn[tree[r].kid["left"]]
                 /\ l # Null => rk[m] = rk[l] + 1 + cn[tree[l].kid["right"]]
                 /\ p = Null => rk[m] = cn[l] /\ M = 1 + cn[l] + cn[r]
                 /\ p # Null => tree[p].kid["left"] = m \/ tree[p].kid["right"] = m
  <2> DEFINE l == tree[m].kid["left"]
             r == tree[m].kid["right"]
             p == tree[m].parent
  <2>1. l \in InTree \cup {Null} /\ r \in InTree \cup {Null}
    BY <1>0, <1>1, OneParent
  <2>2. /\ p = Null <=> m = root
        /\ p # Null => p \in InTree /\ (tree[p].kid["left"] = m \/ tree[p].kid["right"] = m)
    BY <1>1, SidesAre DEF Shape, ParentsFit
  <2>3. cn[m] = 1 + cn[l] + cn[r]
    <3>1. Cardinality(sub[m]) = 1 + Size(sub, l) + Size(sub, r) /\ Size(sub, m) = Cardinality(sub[m])
      BY <1>1, SizeIs DEF Size
    <3> QED
      BY <1>5, <2>1, <3>1
  <2>4. ASSUME NEW k \in InTree PROVE \A s \in Sides : tree[k].kid[s] \in InTree \cup {Null}
    BY <1>1, OneParent
  <2>5. Cardinality(Before("left", m)) \in Nat /\ Cardinality(Before("right", m)) \in Nat
    BY <1>0, BeforeFinite
  <2>6. M = 1 + Cardinality(Before("left", m)) + Cardinality(Before("right", m))
    BY BeforeAll DEF M
  <2>7. ASSUME r # Null PROVE rk[r] = rk[m] + 1 + cn[tree[r].kid["left"]]
    <3>1. Cardinality(Before("left", r)) = 1 + Cardinality(Before("left", m)) + Size(sub, tree[r].kid["left"])
      BY <1>0, <2>7, BeforeKid
    <3>2. r \in InTree /\ tree[r].kid["left"] \in InTree \cup {Null}
      BY <1>0, <2>1, <2>4, <2>7
    <3>3. cn[tree[r].kid["left"]] = Size(sub, tree[r].kid["left"]) /\ Size(sub, tree[r].kid["left"]) \in Nat
      BY <1>2, <1>5, <3>2
    <3>4. rk[r] = Cardinality(Before("left", r)) /\ rk[m] = Cardinality(Before("left", m))
      BY <1>6, <3>2
    <3> HIDE DEF r
    <3> QED
      BY <2>5, <3>1, <3>3, <3>4
  <2>8. ASSUME l # Null PROVE rk[m] = rk[l] + 1 + cn[tree[l].kid["right"]]
    <3>1. Cardinality(Before("right", l)) = 1 + Cardinality(Before("right", m)) + Size(sub, tree[l].kid["right"])
      BY <1>0, <2>8, BeforeKid
    <3>2. l \in InTree /\ tree[l].kid["right"] \in InTree \cup {Null}
      BY <1>0, <2>1, <2>4, <2>8
    <3>3. cn[tree[l].kid["right"]] = Size(sub, tree[l].kid["right"]) /\ Size(sub, tree[l].kid["right"]) \in Nat
      BY <1>2, <1>5, <3>2
    <3>4. rk[l] = Cardinality(Before("left", l)) /\ rk[m] = Cardinality(Before("left", m))
      BY <1>6, <3>2
    <3>5. M = 1 + Cardinality(Before("left", l)) + Cardinality(Before("right", l))
      BY <3>2, BeforeAll DEF M
    <3>6. Cardinality(Before("left", l)) \in Nat
      BY <1>0, <3>2, BeforeFinite
    <3> HIDE DEF l
    <3> QED
      BY <1>1, <2>5, <2>6, <3>1, <3>3, <3>4, <3>5, <3>6
  <2>9. ASSUME p = Null PROVE rk[m] = cn[l] /\ M = 1 + cn[l] + cn[r]
    <3>1. m = root /\ root \in InTree
      BY <2>2, <2>9
    <3>2. Cardinality(Before("left", m)) = Size(sub, l) /\ Cardinality(Before("right", m)) = Size(sub, r)
      BY <1>0, <3>1, BeforeRoot
    <3> QED
      BY <1>5, <1>6, <2>1, <2>6, <3>2
  <2> HIDE DEF l, r, p
  <2>10. p \in InTree \cup {Null}
    BY <2>2
  <2>11. /\ l \in InTree \cup {Null} /\ r \in InTree \cup {Null} /\ p \in InTree \cup {Null}
         /\ cn[m] = 1 + cn[l] + cn[r]
         /\ r # Null => rk[r] = rk[m] + 1 + cn[tree[r].kid["left"]]
         /\ l # Null => rk[m] = rk[l] + 1 + cn[tree[l].kid["right"]]
         /\ p = Null => rk[m] = cn[l] /\ M = 1 + cn[l] + cn[r]
         /\ p # Null => tree[p].kid["left"] = m \/ tree[p].kid["right"] = m
    BY <2>1, <2>2, <2>3, <2>7, <2>8, <2>9, <2>10
  <2> QED
    BY <2>11 DEF l, r, p
<1>8. \A m \in Names \ InTree : /\ tree[m].kid["left"] = Null /\ tree[m].kid["right"] = Null
                                /\ tree[m].parent = Null
  BY <1>0, <1>1
<1>9. \A k \in InTree \cup {Null} : Aux(tree, k).cnt = cn[k] /\ cn[k] <= M
  BY <1>2, <1>4, <1>5
<1>10. Counted(cn, rk, M)
  BY <1>1, <1>5, <1>6, <1>7, <1>8, <1>9 DEF Counted
<1>11. \A m \in InTree : rk[m] = Rank(m)
  BY <1>6
<1> QED
  BY <1>10, <1>11 DEF M

-----------------------------------------------------------------------------
(* avl_offset()                                                            *)

\* A walk goes on from q with nxt[q], to a place of lower rank, until it is in
\* stop, where it gives val[q].
Walks(D, V, N, rank, stop, val, nxt) ==
    /\ V # {} /\ N \in Nat /\ rank \in [D -> Nat] /\ \A q \in D : rank[q] < N
    /\ \A q \in D : q \in stop => val[q] \in V
    /\ \A q \in D : q \notin stop => nxt[q] \in D /\ rank[nxt[q]] < rank[q]

\* The recursive definition of such a walk has a solution, and any solution has
\* values in V.
LEMMA WalkIs ==
    ASSUME NEW D, NEW V, NEW N, NEW rank, NEW stop, NEW val, NEW nxt,
           Walks(D, V, N, rank, stop, val, nxt)
    PROVE  /\ \E f : f = [q \in D |-> IF q \in stop THEN val[q] ELSE f[nxt[q]]]
           /\ \A f : f = [q \in D |-> IF q \in stop THEN val[q] ELSE f[nxt[q]]] => f \in [D -> V]
<1>0. /\ V # {} /\ N \in Nat /\ rank \in [D -> Nat] /\ (\A q \in D : rank[q] < N)
      /\ (\A q \in D : q \in stop => val[q] \in V)
      /\ (\A q \in D : q \notin stop => nxt[q] \in D /\ rank[nxt[q]] < rank[q])
  BY DEF Walks
<1> DEFINE step(q, f) == IF q \in stop THEN val[q] ELSE f[nxt[q]]
           G == [q \in D |-> [f \in [D -> V] |-> step(q, f)]]
<1>1. G \in [D -> [[D -> V] -> V]]
  <2>1. \A q \in D, f \in [D -> V] : step(q, f) \in V
    BY <1>0
  <2> HIDE DEF step
  <2> QED
    BY <2>1
<1>2. \A q \in D, f, g \in [D -> V] :
              (\A k \in D : rank[k] < rank[q] => f[k] = g[k]) => G[q][f] = G[q][g]
  BY <1>0
<1>3. \E f \in [D -> V] : \A q \in D : f[q] = G[q][f]
  <2> HIDE DEF G
  <2>1. WellRanked(D, V, N, rank, G)
    BY <1>0, <1>1, <1>2 DEF WellRanked
  <2> QED
    BY <2>1, Recursion
<1>4. \E f : f = [q \in D |-> step(q, f)]
  <2>1. PICK f \in [D -> V] : \A q \in D : f[q] = G[q][f]
    BY <1>3
  <2>2. \A q \in D : f[q] = step(q, f)
    BY <2>1
  <2> HIDE DEF step
  <2> QED
    BY <2>2
<1>5. ASSUME NEW f, f = [q \in D |-> step(q, f)] PROVE f \in [D -> V]
  <2> DEFINE Good == {q \in D : f[q] \in V}
  <2>1. \A q \in D : f[q] = step(q, f)
    <3> HIDE DEF step
    <3> QED
      BY <1>5
  <2>2. \A q \in D : (\A k \in D : rank[k] < rank[q] => k \in Good) => q \in Good
    BY <1>0, <2>1
  <2>3. D \subseteq Good
    <3> HIDE DEF Good
    <3> QED
      BY ONLY <1>0, <2>2, RankInduction
  <2> HIDE DEF step
  <2> QED
    BY <1>5, <2>3
<1> QED
  BY <1>4, <1>5

\* avl_offset() at node m, which has the rank pos: the target is in the subtree on
\* the right, or on the left.
OnRight(offset, m, pos) == pos < offset /\ pos + Aux(tree, tree[m].kid["right"]).cnt >= offset
OnLeft(offset, m, pos) == pos > offset /\ pos - Aux(tree, tree[m].kid["left"]).cnt <= offset

\* the node with which it goes on, and the rank of that node
NextNode(offset, m, pos) ==
    IF OnRight(offset, m, pos) THEN tree[m].kid["right"]
    ELSE IF OnLeft(offset, m, pos) THEN tree[m].kid["left"] ELSE tree[m].parent

NextPos(offset, m, pos) ==
    IF OnRight(offset, m, pos) THEN pos + RankFrom(tree[m].kid["right"], "right")
    ELSE IF OnLeft(offset, m, pos) THEN pos - RankFrom(tree[m].kid["left"], "left")
    ELSE IF tree[tree[m].parent].kid["right"] = m THEN pos - RankFrom(m, "right")
    ELSE pos + RankFrom(m, "left")

\* The walk ends: on the way down, with the target in the subtree, the subtrees get
\* smaller; on the way up they get larger.
Level(cn, M, offset, m, pos) ==
    IF m \notin InTree THEN 0
    ELSE IF pos - cn[tree[m].kid["left"]] <= offset /\ offset <= pos + cn[tree[m].kid["right"]]
    THEN cn[m] ELSE 2 * M + 1 - cn[m]

LEMMA NextIs ==
    ASSUME NEW cn, NEW rk, NEW M, Counted(cn, rk, M), NEW offset \in Int, NEW m \in Names, NEW pos \in Int,
           pos # offset, OnRight(offset, m, pos) \/ OnLeft(offset, m, pos) \/ tree[m].parent # Null
    PROVE  LET k == NextNode(offset, m, pos)
               at == NextPos(offset, m, pos)
           IN  /\ m \in InTree /\ k \in InTree /\ at \in Int
               /\ rk[k] - at = rk[m] - pos
               /\ Level(cn, M, offset, k, at) < Level(cn, M, offset, m, pos)
<1> DEFINE l == tree[m].kid["left"]
           r == tree[m].kid["right"]
           p == tree[m].parent
<1>1. /\ cn \in [InTree \cup {Null} -> Nat] /\ rk \in [InTree -> Nat] /\ M \in Nat /\ cn[Null] = 0
      /\ Null \notin InTree /\ InTree \subseteq Names
      /\ \A k \in InTree \cup {Null} : Aux(tree, k).cnt = cn[k] /\ cn[k] <= M
  BY DEF Counted
<1>2. m \in InTree
  <2> SUFFICES ASSUME m \notin InTree PROVE FALSE
    OBVIOUS
  <2>1. l = Null /\ r = Null /\ p = Null
    BY DEF Counted
  <2>2. Aux(tree, l).cnt = 0 /\ Aux(tree, r).cnt = 0
    BY <1>1, <2>1
  <2> QED
    BY <2>1, <2>2 DEF OnRight, OnLeft
<1>3. /\ l \in InTree \cup {Null} /\ r \in InTree \cup {Null} /\ p \in InTree \cup {Null}
      /\ cn[m] = 1 + cn[l] + cn[r]
      /\ r # Null => rk[r] = rk[m] + 1 + cn[tree[r].kid["left"]]
      /\ l # Null => rk[m] = rk[l] + 1 + cn[tree[l].kid["right"]]
      /\ p # Null => tree[p].kid["left"] = m \/ tree[p].kid["right"] = m
  BY <1>2 DEF Counted
<1>4. \A k \in InTree : /\ tree[k].kid["left"] \in InTree \cup {Null} /\ tree[k].kid["right"] \in InTree \cup {Null}
                        /\ cn[k] = 1 + cn[tree[k].kid["left"]] + cn[tree[k].kid["right"]]
                        /\ cn[tree[k].kid["left"]] \in Nat /\ cn[tree[k].kid["right"]] \in Nat /\ cn[k] <= M
  BY <1>1 DEF Counted
<1>5. cn[l] \in Nat /\ cn[r] \in Nat /\ cn[m] \in Nat /\ rk[m] \in Nat /\ cn[m] <= M
      /\ Aux(tree, l).cnt = cn[l] /\ Aux(tree, r).cnt = cn[r]
  BY <1>1, <1>2, <1>3
<1>6. Other("left") = "right" /\ Other("right") = "left"
  BY DEF Other
<1>7. /\ OnRight(offset, m, pos) <=> pos < offset /\ pos + cn[r] >= offset
      /\ OnLeft(offset, m, pos) <=> pos > offset /\ pos - cn[l] <= offset
  BY <1>5 DEF OnRight, OnLeft
<1>8. Level(cn, M, offset, m, pos) =
         IF pos - cn[l] <= offset /\ offset <= pos + cn[r] THEN cn[m] ELSE 2 * M + 1 - cn[m]
  BY <1>2 DEF Level
<1>9. CASE OnRight(offset, m, pos)
  <2>1. NextNode(offset, m, pos) = r /\ NextPos(offset, m, pos) = pos + RankFrom(r, "right")
    BY <1>9 DEF NextNode, NextPos
  <2> HIDE DEF l, r, p
  <2>2. r \in InTree
    BY <1>1, <1>3, <1>5, <1>7, <1>9
  <2> DEFINE a == tree[r].kid["left"]
             b == tree[r].kid["right"]
  <2>3. /\ a \in InTree \cup {Null} /\ b \in InTree \cup {Null} /\ cn[r] = 1 + cn[a] + cn[b]
        /\ cn[a] \in Nat /\ cn[b] \in Nat
    BY <1>4, <2>2
  <2>4. RankFrom(r, "right") = cn[a] + 1
    BY <1>1, <1>6, <2>3 DEF RankFrom
  <2>5. rk[r] = rk[m] + 1 + cn[a] /\ rk[r] \in Nat
    BY <1>1, <1>3, <2>2
  <2>6. \A at : Level(cn, M, offset, r, at) =
                   IF at - cn[a] <= offset /\ offset <= at + cn[b] THEN cn[r] ELSE 2 * M + 1 - cn[r]
    BY <2>2 DEF Level
  <2>7. PICK at : at = pos + cn[a] + 1
    OBVIOUS
  <2>8. NextNode(offset, m, pos) = r /\ NextPos(offset, m, pos) = at
    BY <2>1, <2>3, <2>4, <2>7
  <2> HIDE DEF a, b
  <2>9. at \in Int /\ rk[r] - at = rk[m] - pos
    BY <1>5, <2>3, <2>5, <2>7
  <2>10. Level(cn, M, offset, r, at) = cn[r] /\ Level(cn, M, offset, m, pos) = cn[m]
    <3>1. at - cn[a] <= offset /\ offset <= at + cn[b]
      BY <1>7, <1>9, <2>3, <2>7
    <3>2. pos - cn[l] <= offset /\ offset <= pos + cn[r]
      BY <1>5, <1>7, <1>9
    <3> QED
      BY <1>8, <2>6, <3>1, <3>2
  <2>11. cn[r] < cn[m]
    BY <1>3, <1>5
  <2> QED
    BY <1>2, <2>2, <2>8, <2>9, <2>10, <2>11
<1>10. CASE OnLeft(offset, m, pos)
  <2>0. ~OnRight(offset, m, pos)
    BY <1>5, <1>7, <1>10
  <2>1. NextNode(offset, m, pos) = l /\ NextPos(offset, m, pos) = pos - RankFrom(l, "left")
    BY <1>10, <2>0 DEF NextNode, NextPos
  <2> HIDE DEF l, r, p
  <2>2. l \in InTree
    BY <1>1, <1>3, <1>5, <1>7, <1>10
  <2> DEFINE a == tree[l].kid["left"]
             b == tree[l].kid["right"]
  <2>3. /\ a \in InTree \cup {Null} /\ b \in InTree \cup {Null} /\ cn[l] = 1 + cn[a] + cn[b]
        /\ cn[a] \in Nat /\ cn[b] \in Nat
    BY <1>4, <2>2
  <2>4. RankFrom(l, "left") = cn[b] + 1
    BY <1>1, <1>6, <2>3 DEF RankFrom
  <2>5. rk[m] = rk[l] + 1 + cn[b] /\ rk[l] \in Nat
    BY <1>1, <1>3, <2>2
  <2>6. \A at : Level(cn, M, offset, l, at) =
                   IF at - cn[a] <= offset /\ offset <= at + cn[b] THEN cn[l] ELSE 2 * M + 1 - cn[l]
    BY <2>2 DEF Level
  <2>7. PICK at : at = pos - (cn[b] + 1)
    OBVIOUS
  <2>8. NextNode(offset, m, pos) = l /\ NextPos(offset, m, pos) = at
    BY <2>1, <2>4, <2>7
  <2> HIDE DEF a, b
  <2>9. at \in Int /\ rk[l] - at = rk[m] - pos
    BY <1>5, <2>3, <2>5, <2>7
  <2>10. Level(cn, M, offset, l, at) = cn[l] /\ Level(cn, M, offset, m, pos) = cn[m]
    <3>1. at - cn[a] <= offset /\ offset <= at + cn[b]
      BY <1>7, <1>10, <2>3, <2>7
    <3>2. pos - cn[l] <= offset /\ offset <= pos + cn[r]
      BY <1>5, <1>7, <1>10
    <3> QED
      BY <1>8, <2>6, <3>1, <3>2
  <2>11. cn[l] < cn[m]
    BY <1>3, <1>5
  <2> QED
    BY <1>2, <2>2, <2>8, <2>9, <2>10, <2>11
<1>11. CASE ~OnRight(offset, m, pos) /\ ~OnLeft(offset, m, pos) /\ p # Null
  <2>1. NextNode(offset, m, pos) = p
    BY <1>11 DEF NextNode
  <2>2. PICK at : at = NextPos(offset, m, pos)
    OBVIOUS
  <2>3. at = IF tree[p].kid["right"] = m THEN pos - RankFrom(m, "right") ELSE pos + RankFrom(m, "left")
    BY <1>11, <2>2 DEF NextPos
  <2>4. RankFrom(m, "right") = cn[l] + 1 /\ RankFrom(m, "left") = cn[r] + 1
    BY <1>5, <1>6 DEF RankFrom
  <2>5. p \in InTree /\ (tree[p].kid["left"] = m \/ tree[p].kid["right"] = m)
    BY <1>3, <1>11
  <2>6. /\ tree[p].kid["right"] = m => rk[m] = rk[p] + 1 + cn[l]
        /\ tree[p].kid["left"] = m => rk[p] = rk[m] + 1 + cn[r]
    <3>1. m # Null
      BY <1>1, <1>2
    <3> QED
      BY <2>5, <3>1, SMTT(40) DEF Counted
  <2>7. cn[p] = 1 + cn[tree[p].kid["left"]] + cn[tree[p].kid["right"]] /\ cn[p] <= M
        /\ cn[tree[p].kid["left"]] \in Nat /\ cn[tree[p].kid["right"]] \in Nat
    BY <1>4, <2>5
  <2>8. cn[m] < cn[p] /\ cn[p] \in Nat
    BY <1>5, <2>5, <2>7
  <2>9. rk[p] \in Nat
    BY <1>1, <2>5
  <2>10. Level(cn, M, offset, p, at) \in {cn[p], 2 * M + 1 - cn[p]}
    BY <2>5 DEF Level
  <2> HIDE DEF l, r, p
  <2>11. at \in Int /\ rk[p] - at = rk[m] - pos
    BY <1>5, <2>3, <2>4, <2>5, <2>6, <2>9
  <2>12. Level(cn, M, offset, m, pos) = 2 * M + 1 - cn[m]
    <3>1. ~(pos - cn[l] <= offset /\ offset <= pos + cn[r])
      BY <1>5, <1>7, <1>11
    <3> QED
      BY <1>8, <3>1
  <2>13. Level(cn, M, offset, p, at) < Level(cn, M, offset, m, pos)
    <3>1. cn[p] < 2 * M + 1 - cn[m] /\ 2 * M + 1 - cn[p] < 2 * M + 1 - cn[m]
      BY <1>1, <1>5, <2>7, <2>8
    <3> QED
      BY <2>10, <2>12, <3>1
  <2> QED
    BY <1>2, <2>1, <2>2, <2>5, <2>11, <2>13
<1> QED
  BY <1>9, <1>10, <1>11

\* If it stops at the root, the target is not in the tree.
LEMMA StopIs ==
    ASSUME NEW cn, NEW rk, NEW M, Counted(cn, rk, M), NEW offset \in Int, NEW m \in InTree, NEW pos \in Int,
           pos # offset, ~OnRight(offset, m, pos), ~OnLeft(offset, m, pos), tree[m].parent = Null
    PROVE  rk[m] + offset - pos \in Int /\ (rk[m] + offset - pos < 0 \/ rk[m] + offset - pos >= M)
<1> DEFINE l == tree[m].kid["left"]
           r == tree[m].kid["right"]
<1>1. /\ l \in InTree \cup {Null} /\ r \in InTree \cup {Null}
      /\ rk[m] = cn[l] /\ M = 1 + cn[l] + cn[r]
      /\ cn \in [InTree \cup {Null} -> Nat]
  BY DEF Counted
<1>2. Aux(tree, l).cnt = cn[l] /\ Aux(tree, r).cnt = cn[r]
  BY <1>1 DEF Counted
<1>3. /\ ~(pos < offset /\ pos + cn[r] >= offset)
      /\ ~(pos > offset /\ pos - cn[l] <= offset)
  BY <1>2 DEF OnRight, OnLeft
<1>4. cn[l] \in Nat /\ cn[r] \in Nat
  BY <1>1
<1> HIDE DEF l, r
<1> QED
  BY <1>1, <1>3, <1>4

LEMMA LevelIs ==
    ASSUME NEW cn, NEW rk, NEW M, Counted(cn, rk, M), NEW offset, NEW m \in Names, NEW pos
    PROVE  /\ Level(cn, M, offset, m, pos) \in Nat /\ Level(cn, M, offset, m, pos) < 2 * M + 2
           /\ M \in Nat /\ 2 * M + 2 \in Nat
<1>1. M \in Nat /\ (m \in InTree => cn[m] \in Nat /\ cn[m] <= M)
  BY DEF Counted
<1>2. Level(cn, M, offset, m, pos) = 0 \/ (m \in InTree /\ Level(cn, M, offset, m, pos) \in {cn[m], 2 * M + 1 - cn[m]})
  BY DEF Level
<1> QED
  BY <1>1, <1>2

\* the recursive definition of avl_offset(), in these terms
LEMMA OffsetWalk ==
    ASSUME NEW cn, NEW rk, NEW M, Counted(cn, rk, M), NEW offset \in Int
    PROVE  \E f \in [Names \X Int -> Names \cup {Null}] :
              /\ \A m \in Names, pos \in Int :
                    f[<<m, pos>>] =
                       IF pos = offset THEN m
                       ELSE IF OnRight(offset, m, pos) \/ OnLeft(offset, m, pos) \/ tree[m].parent # Null
                       THEN f[<<NextNode(offset, m, pos), NextPos(offset, m, pos)>>] ELSE Null
              /\ \A n : avl_offset(n, offset) = f[<<n, 0>>]
<1> DEFINE D == Names \X Int
           V == Names \cup {Null}
           stop == {q \in D : q[2] = offset \/ ~(\/ OnRight(offset, q[1], q[2]) \/ OnLeft(offset, q[1], q[2])
                                                 \/ tree[q[1]].parent # Null)}
           val == [q \in D |-> IF q[2] = offset THEN q[1] ELSE Null]
           nxt == [q \in D |-> <<NextNode(offset, q[1], q[2]), NextPos(offset, q[1], q[2])>>]
           rank == [q \in D |-> Level(cn, M, offset, q[1], q[2])]
           step(q, f) == IF q \in stop THEN val[q] ELSE f[nxt[q]]
           body(at, f) ==
              LET m   == at[1]
                  pos == at[2]
                  l == tree[m].kid["left"]
                  r == tree[m].kid["right"]
                  p == tree[m].parent
              IN  IF pos = offset THEN m
                  ELSE IF pos < offset /\ pos + Aux(tree, r).cnt >= offset
                  THEN f[<<r, pos + RankFrom(r, "right")>>]
                  ELSE IF pos > offset /\ pos - Aux(tree, l).cnt <= offset
                  THEN f[<<l, pos - RankFrom(l, "left")>>]
                  ELSE IF p = Null THEN Null
                  ELSE IF tree[p].kid["right"] = m THEN f[<<p, pos - RankFrom(m, "right")>>]
                  ELSE f[<<p, pos + RankFrom(m, "left")>>]
<1>0. InTree \subseteq Names
  BY DEF Counted
<1>1. \A q \in D : q[1] \in Names /\ q[2] \in Int /\ q = <<q[1], q[2]>>
  OBVIOUS
<1>2. Walks(D, V, 2 * M + 2, rank, stop, val, nxt)
  <2>1. V # {}
    OBVIOUS
  <2>2. 2 * M + 2 \in Nat
    BY DEF Counted
  <2>3. \A q \in D : Level(cn, M, offset, q[1], q[2]) \in Nat /\ Level(cn, M, offset, q[1], q[2]) < 2 * M + 2
    BY <1>1, LevelIs
  <2>4. rank \in [D -> Nat] /\ \A q \in D : rank[q] < 2 * M + 2
    <3> HIDE DEF D
    <3> QED
      BY <2>3
  <2>5. \A q \in D : q \in stop => val[q] \in V
    BY <1>1
  <2>6. ASSUME NEW q \in D, q \notin stop PROVE nxt[q] \in D /\ rank[nxt[q]] < rank[q]
    <3>1. PICK m \in Names, pos \in Int : q = <<m, pos>>
      OBVIOUS
    <3>2. q[1] = m /\ q[2] = pos
      BY <3>1
    <3>3. pos # offset /\ (OnRight(offset, m, pos) \/ OnLeft(offset, m, pos) \/ tree[m].parent # Null)
      BY <2>6, <3>2
    <3>4. PICK k, at : k = NextNode(offset, m, pos) /\ at = NextPos(offset, m, pos)
      OBVIOUS
    <3>5. k \in Names /\ at \in Int /\ Level(cn, M, offset, k, at) < Level(cn, M, offset, m, pos)
      BY <1>0, <3>3, <3>4, NextIs
    <3>6. nxt[q] = <<k, at>>
      BY <3>2, <3>4
    <3>7. <<k, at>> \in D /\ rank[<<k, at>>] = Level(cn, M, offset, k, at) /\ rank[q] = Level(cn, M, offset, m, pos)
      BY <3>2, <3>5
    <3> QED
      BY <3>5, <3>6, <3>7
  <2> HIDE DEF D, V, stop, val, nxt, rank
  <2> QED
    BY <2>1, <2>2, <2>4, <2>5, <2>6 DEF Walks
<1>3. /\ \E f : f = [q \in D |-> step(q, f)]
      /\ \A f : f = [q \in D |-> step(q, f)] => f \in [D -> V]
  <2> HIDE DEF D, V, stop, val, nxt, rank
  <2> QED
    BY <1>2, WalkIs
<1>4. \A q \in D : \A f : body(q, f) = step(q, f)
  <2> SUFFICES ASSUME NEW q \in D, NEW f PROVE body(q, f) = step(q, f)
    OBVIOUS
  <2>1. val[q] = (IF q[2] = offset THEN q[1] ELSE Null)
        /\ nxt[q] = <<NextNode(offset, q[1], q[2]), NextPos(offset, q[1], q[2])>>
    OBVIOUS
  <2>2. q \in stop <=> q[2] = offset \/ ~(\/ OnRight(offset, q[1], q[2]) \/ OnLeft(offset, q[1], q[2])
                                          \/ tree[q[1]].parent # Null)
    OBVIOUS
  <2>3. PICK m, pos : m = q[1] /\ pos = q[2]
    OBVIOUS
  <2> HIDE DEF D, V, stop, val, nxt, rank
  <2>4. CASE pos = offset
    BY <2>1, <2>2, <2>3, <2>4
  <2>5. CASE pos # offset /\ OnRight(offset, m, pos)
    <3>1. nxt[q] = <<tree[m].kid["right"], pos + RankFrom(tree[m].kid["right"], "right")>> /\ q \notin stop
      BY <2>1, <2>2, <2>3, <2>5 DEF NextNode, NextPos
    <3> QED
      BY <2>3, <2>5, <3>1 DEF OnRight
  <2>6. CASE pos # offset /\ ~OnRight(offset, m, pos) /\ OnLeft(offset, m, pos)
    <3>1. nxt[q] = <<tree[m].kid["left"], pos - RankFrom(tree[m].kid["left"], "left")>> /\ q \notin stop
      BY <2>1, <2>2, <2>3, <2>6 DEF NextNode, NextPos
    <3> QED
      BY <2>3, <2>6, <3>1 DEF OnRight, OnLeft
  <2>7. CASE pos # offset /\ ~OnRight(offset, m, pos) /\ ~OnLeft(offset, m, pos) /\ tree[m].parent = Null
    <3>1. val[q] = Null /\ q \in stop
      BY <2>1, <2>2, <2>3, <2>7
    <3> QED
      BY <2>3, <2>7, <3>1 DEF OnRight, OnLeft
  <2>8. CASE pos # offset /\ ~OnRight(offset, m, pos) /\ ~OnLeft(offset, m, pos) /\ tree[m].parent # Null
    <3>1. /\ nxt[q] = <<tree[m].parent, IF tree[tree[m].parent].kid["right"] = m
                                         THEN pos - RankFrom(m, "right") ELSE pos + RankFrom(m, "left")>>
          /\ q \notin stop
      BY <2>1, <2>2, <2>3, <2>8 DEF NextNode, NextPos
    <3> QED
      BY <2>3, <2>8, <3>1 DEF OnRight, OnLeft
  <2> QED
    BY <2>4, <2>5, <2>6, <2>7, <2>8
<1>5. \A f : [q \in D |-> body(q, f)] = [q \in D |-> step(q, f)]
  <2> HIDE DEF body, step, D
  <2> QED
    BY <1>4
<1> DEFINE w == CHOOSE f : f = [q \in D |-> body(q, f)]
<1>6. \A n : avl_offset(n, offset) = w[<<n, 0>>]
  BY DEF avl_offset
<1>7. w = [q \in D |-> step(q, w)]
  <2> HIDE DEF body, step, D
  <2> QED
    BY <1>3, <1>5
<1>8. w \in [D -> V]
  <2> HIDE DEF w, step, D, V
  <2> QED
    BY <1>3, <1>7
<1> HIDE DEF w
<1>9. ASSUME NEW m \in Names, NEW pos \in Int
      PROVE  w[<<m, pos>>] =
                IF pos = offset THEN m
                ELSE IF OnRight(offset, m, pos) \/ OnLeft(offset, m, pos) \/ tree[m].parent # Null
                THEN w[<<NextNode(offset, m, pos), NextPos(offset, m, pos)>>] ELSE Null
  <2>1. <<m, pos>> \in D /\ <<m, pos>>[1] = m /\ <<m, pos>>[2] = pos
    OBVIOUS
  <2>2. PICK q : q = <<m, pos>>
    OBVIOUS
  <2>3. w[q] = step(q, w) /\ q \in D /\ q[1] = m /\ q[2] = pos
    <3> HIDE DEF step, D
    <3> QED
      BY <1>7, <2>1, <2>2
  <2>4. /\ val[q] = IF pos = offset THEN m ELSE Null
        /\ nxt[q] = <<NextNode(offset, m, pos), NextPos(offset, m, pos)>>
        /\ q \in stop <=> pos = offset \/ ~(OnRight(offset, m, pos) \/ OnLeft(offset, m, pos) \/ tree[m].parent # Null)
    BY <2>3
  <2> HIDE DEF D, V, stop, val, nxt
  <2> QED
    BY <2>2, <2>3, <2>4
<1> QED
  BY <1>6, <1>8, <1>9

\* From wherever it starts, avl_offset() finds the node at the rank that is offset
\* from its own.
LEMMA OffsetIs ==
    ASSUME NEW sub, Rest(sub), NEW offset \in Int
    PROVE  /\ \A n \in InTree : avl_offset(n, offset) = AtRank(Rank(n) + offset)
           /\ \A n \in Names : avl_offset(n, offset) \in Names \cup {Null}
<1>1. PICK cn, rk : Counted(cn, rk, Cardinality(InTree)) /\ \A m \in InTree : rk[m] = Rank(m)
  BY RestCounted
<1>2. PICK M : M = Cardinality(InTree)
  OBVIOUS
<1>3. Counted(cn, rk, M) /\ InTree \subseteq Names /\ rk \in [InTree -> Nat]
  BY <1>1, <1>2 DEF Counted
<1>4. PICK f \in [Names \X Int -> Names \cup {Null}] :
         /\ \A m \in Names, pos \in Int :
               f[<<m, pos>>] =
                  IF pos = offset THEN m
                  ELSE IF OnRight(offset, m, pos) \/ OnLeft(offset, m, pos) \/ tree[m].parent # Null
                  THEN f[<<NextNode(offset, m, pos), NextPos(offset, m, pos)>>] ELSE Null
         /\ \A n : avl_offset(n, offset) = f[<<n, 0>>]
  BY <1>3, OffsetWalk
<1>5. /\ \A m \in InTree : AtRank(rk[m]) = m
      /\ \A i \in Int : i < 0 \/ i >= M => AtRank(i) = Null
  BY <1>1, <1>2, AtRankIs
<1> DEFINE S == InTree \X Int
           rank == [q \in S |-> Level(cn, M, offset, q[1], q[2])]
           Good == {q \in S : f[q] = AtRank(rk[q[1]] + offset - q[2])}
<1>6. rank \in [S -> Nat]
  <2>1. \A q \in S : Level(cn, M, offset, q[1], q[2]) \in Nat
    BY <1>3, LevelIs
  <2> HIDE DEF S
  <2> QED
    BY <2>1
<1>7. ASSUME NEW q \in S, \A k \in S : rank[k] < rank[q] => k \in Good PROVE q \in Good
  <2>1. PICK m \in InTree, pos \in Int : q = <<m, pos>>
    OBVIOUS
  <2>2. m \in Names /\ rank[<<m, pos>>] = Level(cn, M, offset, m, pos) /\ rk[m] \in Nat
    BY <1>3
  <2>3. SUFFICES f[<<m, pos>>] = AtRank(rk[m] + offset - pos)
    BY <2>1
  <2>4. CASE pos = offset
    <3>1. f[<<m, pos>>] = m
      BY <1>4, <2>2, <2>4
    <3>2. rk[m] + offset - pos = rk[m]
      BY <2>2, <2>4
    <3> QED
      BY <1>5, <3>1, <3>2
  <2>5. CASE pos # offset /\ (OnRight(offset, m, pos) \/ OnLeft(offset, m, pos) \/ tree[m].parent # Null)
    <3>1. PICK k, at : k = NextNode(offset, m, pos) /\ at = NextPos(offset, m, pos)
      OBVIOUS
    <3>2. /\ k \in InTree /\ at \in Int /\ rk[k] - at = rk[m] - pos
          /\ Level(cn, M, offset, k, at) < Level(cn, M, offset, m, pos)
      BY <1>3, <2>2, <2>5, <3>1, NextIs
    <3>3. f[<<m, pos>>] = f[<<k, at>>]
      BY <1>4, <2>2, <2>5, <3>1
    <3>4. <<k, at>> \in S /\ rank[<<k, at>>] < rank[q]
      BY <2>1, <2>2, <3>2
    <3>5. <<k, at>> \in Good
      BY <1>7, <3>4
    <3>6. f[<<k, at>>] = AtRank(rk[k] + offset - at)
      BY <3>5
    <3>7. rk[k] + offset - at = rk[m] + offset - pos
      <4>1. rk[k] \in Nat
        BY <1>3, <3>2
      <4>2. rk[k] - at = rk[m] - pos /\ at \in Int /\ rk[m] \in Nat
        BY <2>2, <3>2
      <4> QED
        BY ONLY <4>1, <4>2, offset \in Int, pos \in Int
    <3> QED
      BY <3>3, <3>6, <3>7
  <2>6. CASE pos # offset /\ ~OnRight(offset, m, pos) /\ ~OnLeft(offset, m, pos) /\ tree[m].parent = Null
    <3>1. f[<<m, pos>>] = Null
      BY <1>4, <2>2, <2>6
    <3>2. rk[m] + offset - pos \in Int /\ (rk[m] + offset - pos < 0 \/ rk[m] + offset - pos >= M)
      BY <1>3, <2>6, StopIs
    <3> QED
      BY <1>5, <3>1, <3>2
  <2> QED
    BY <2>4, <2>5, <2>6
<1>8. S \subseteq Good
  <2> HIDE DEF Good, rank, S
  <2> QED
    BY ONLY <1>6, <1>7, RankInduction
<1>9. ASSUME NEW n \in InTree PROVE avl_offset(n, offset) = AtRank(Rank(n) + offset)
  <2>1. <<n, 0>> \in Good
    BY <1>8
  <2>2. f[<<n, 0>>] = AtRank(rk[n] + offset - 0)
    BY <2>1
  <2>3. rk[n] + offset - 0 = Rank(n) + offset
    BY <1>1, <1>3
  <2> QED
    BY <1>4, <2>2, <2>3
<1>10. ASSUME NEW n \in Names PROVE avl_offset(n, offset) \in Names \cup {Null}
  <2>1. <<n, 0>> \in Names \X Int
    OBVIOUS
  <2>2. f[<<n, 0>>] \in Names \cup {Null}
    BY ONLY <2>1, f \in [Names \X Int -> Names \cup {Null}]
  <2> QED
    BY <1>4, <2>2
<1> QED
  BY <1>9, <1>10

LEMMA RestIdle ==
    ASSUME Inv, pc = "idle"
    PROVE  hmap = InTree /\ \E sub : Rest(sub)
BY AtRest, RestSubtrees DEF Rest

\* avl_offset() finds the node at the given distance in either direction, and none
\* beyond the ends, from wherever it starts.
THEOREM OffsetAlwaysExact == Spec => []OffsetExact
<1>1. Inv => OffsetExact
  <2> SUFFICES ASSUME Inv, pc = "idle", NEW n \in hmap, NEW offset \in Offsets
               PROVE  avl_offset(n, offset) = AtRank(Rank(n) + offset)
    BY DEF OffsetExact
  <2>1. PICK sub : Rest(sub) /\ hmap = InTree
    BY RestIdle
  <2>2. offset \in Int
    BY DEF Offsets
  <2> QED
    BY <2>1, <2>2, OffsetIs
<1> QED
  BY <1>1, Invariant, PTL

-----------------------------------------------------------------------------
(* Queries.                                                                *)

\* Every rank below the number of nodes is that of a node.
LEMMA RankOnto ==
    ASSUME NEW sub, Rest(sub), NEW i \in Nat, i < Cardinality(InTree)
    PROVE  AtRank(i) \in InTree /\ Rank(AtRank(i)) = i
<1>1. hmap = InTree /\ IsFiniteSet(InTree) /\ Cardinality(InTree) \in Nat
  BY RestIs
<1>2. \E n \in InTree : Rank(n) = i
  <2> SUFFICES ASSUME \A n \in InTree : Rank(n) # i PROVE FALSE
    OBVIOUS
  <2>1. PICK M : M = Cardinality(InTree)
    OBVIOUS
  <2> DEFINE B == (0 .. M - 1) \ {i}
             f == [n \in InTree |-> Rank(n)]
  <2>2. f \in [InTree -> B]
    BY <1>1, <2>1, RankIs
  <2>3. M \in Nat /\ i \in 0 .. M - 1 /\ IsFiniteSet(0 .. M - 1) /\ Cardinality(0 .. M - 1) = M
    <3>1. M \in Nat /\ i < M
      BY <1>1, <2>1
    <3>2. PICK a, b : a = 0 /\ b = M - 1
      OBVIOUS
    <3>3. a \in Int /\ b \in Int /\ ~(a > b) /\ b - a + 1 = M
      BY <3>1, <3>2
    <3>4. IsFiniteSet(a .. b) /\ Cardinality(a .. b) = IF a > b THEN 0 ELSE b - a + 1
      BY <3>3, FS_Interval
    <3>5. i \in 0 .. M - 1
      BY <3>1
    <3> QED
      BY <3>1, <3>2, <3>3, <3>4, <3>5
  <2>4. IsFiniteSet(B) /\ Cardinality(B) = M - 1
    BY <2>3, FS_RemoveElement
  <2>5. Cardinality(B) < Cardinality(InTree)
    BY <2>1, <2>3, <2>4
  <2>6. \E x, y \in InTree : x # y /\ f[x] = f[y]
    <3> HIDE DEF f, B
    <3> QED
      BY <1>1, <2>2, <2>4, <2>5, FS_PigeonHole
  <2> QED
    BY <2>6, RankOne
<1>3. PICK n \in InTree : Rank(n) = i
  BY <1>2
<1>4. AtRank(i) = n
  BY <1>3, AtRankIs
<1> QED
  BY <1>3, <1>4

LEMMA RestScores ==
    ASSUME NEW sub, Rest(sub)
    PROVE  \A x \in InTree : score[x] \in Int /\ x \in Int
<1>1. score \in [Names -> Scores \cup {Null}]
  BY DEF Rest, Inv, TypeOK
<1>2. InTree = Allocated
  BY RestSubtrees DEF Rest
<1>3. \A x \in InTree : x \in Names /\ score[x] # Null
  BY <1>2 DEF Allocated
<1>4. \A x \in InTree : score[x] \in Scores
  BY <1>1, <1>3
<1>5. (\A y \in Scores : y \in Int) /\ \A y \in Names : y \in Int
  BY SortedSetAssumption
<1> QED
  BY <1>3, <1>4, <1>5

\* the recursive definition of zset_seekge()
LEMMA SeekWalk ==
    ASSUME NEW lv, NEW N, Grounded(lv, N), NEW key
    PROVE  \E f :
              /\ \A y \in Names \cup {Null} : f[<<Null, y>>] = y
              /\ \A m \in Names, y \in Names \cup {Null} :
                    f[<<m, y>>] = IF zless(Key(m), key) THEN f[<<tree[m].kid["right"], y>>]
                                  ELSE f[<<tree[m].kid["left"], m>>]
              /\ zset_seekge(key) = f[<<root, Null>>]
<1> DEFINE V == Names \cup {Null}
           D == V \X V
           stop == {q \in D : q[1] = Null}
           val == [q \in D |-> q[2]]
           nxt == [q \in D |-> IF zless(Key(q[1]), key) THEN <<tree[q[1]].kid["right"], q[2]>>
                               ELSE <<tree[q[1]].kid["left"], q[1]>>]
           rank == [q \in D |-> lv[q[1]]]
           step(q, f) == IF q \in stop THEN val[q] ELSE f[nxt[q]]
           body(at, f) ==
              IF at[1] = Null THEN at[2]
              ELSE IF zless(Key(at[1]), key) THEN f[<<tree[at[1]].kid["right"], at[2]>>]
              ELSE f[<<tree[at[1]].kid["left"], at[1]>>]
<1>0. /\ \A m \in Names, s \in Sides : tree[m].kid[s] \in V /\ lv[tree[m].kid[s]] < lv[m]
      /\ lv \in [V -> Nat] /\ (\A m \in V : lv[m] < N) /\ N \in Nat /\ V # {}
      /\ "left" \in Sides /\ "right" \in Sides /\ Null \notin Names
  BY KidType, NullIsNoName DEF Grounded, Sides
<1>1. \A q \in D : q[1] \in V /\ q[2] \in V
  OBVIOUS
<1>2. Walks(D, V, N, rank, stop, val, nxt)
  <2>1. rank \in [D -> Nat] /\ \A q \in D : rank[q] < N
    <3> HIDE DEF D, V
    <3> QED
      BY <1>0, <1>1
  <2>2. \A q \in D : q \in stop => val[q] \in V
    <3> HIDE DEF D, V
    <3> QED
      BY <1>1
  <2>3. ASSUME NEW q \in D, q \notin stop PROVE nxt[q] \in D /\ rank[nxt[q]] < rank[q]
    <3>1. PICK m, y : m = q[1] /\ y = q[2] /\ m \in Names /\ y \in V
      BY <1>1, <2>3
    <3>2. nxt[q] = IF zless(Key(m), key) THEN <<tree[m].kid["right"], y>> ELSE <<tree[m].kid["left"], m>>
      BY <3>1
    <3>3. \A s \in Sides, z \in V : <<tree[m].kid[s], z>> \in D /\ rank[<<tree[m].kid[s], z>>] = lv[tree[m].kid[s]]
      BY <1>0, <3>1
    <3>4. rank[q] = lv[m] /\ m \in V
      BY <3>1
    <3> HIDE DEF D, V, rank, nxt, stop
    <3> QED
      BY <1>0, <3>1, <3>2, <3>3, <3>4
  <2> HIDE DEF D, V, stop, val, nxt, rank
  <2> QED
    BY <1>0, <2>1, <2>2, <2>3 DEF Walks
<1>3. \E f : f = [q \in D |-> step(q, f)]
  <2> HIDE DEF D, V, stop, val, nxt, rank
  <2> QED
    BY <1>2, WalkIs
<1>4. \A q \in D : \A f : body(q, f) = step(q, f)
  <2> SUFFICES ASSUME NEW q \in D, NEW f PROVE body(q, f) = step(q, f)
    OBVIOUS
  <2>1. /\ q \in stop <=> q[1] = Null
        /\ val[q] = q[2]
        /\ nxt[q] = IF zless(Key(q[1]), key) THEN <<tree[q[1]].kid["right"], q[2]>>
                    ELSE <<tree[q[1]].kid["left"], q[1]>>
    OBVIOUS
  <2> HIDE DEF D, V, stop, val, nxt
  <2> QED
    BY <2>1
<1>5. \A f : [q \in D |-> body(q, f)] = [q \in D |-> step(q, f)]
  <2> HIDE DEF body, step, D
  <2> QED
    BY <1>4
<1> DEFINE w == CHOOSE f : f = [q \in D |-> body(q, f)]
<1>6. zset_seekge(key) = w[<<root, Null>>]
  BY DEF zset_seekge
<1>7. w = [q \in D |-> body(q, w)]
  <2> HIDE DEF body, step, D
  <2> QED
    BY <1>3, <1>5
<1> HIDE DEF w
<1>8. ASSUME NEW m \in V, NEW y \in V
      PROVE  w[<<m, y>>] = IF m = Null THEN y
                           ELSE IF zless(Key(m), key) THEN w[<<tree[m].kid["right"], y>>]
                           ELSE w[<<tree[m].kid["left"], m>>]
  <2>1. PICK q : q = <<m, y>>
    OBVIOUS
  <2>2. q \in D /\ q[1] = m /\ q[2] = y
    BY <2>1
  <2>3. w[q] = body(q, w)
    <3> HIDE DEF body, D
    <3> QED
      BY <1>7, <2>2
  <2> QED
    BY <2>1, <2>2, <2>3
<1> QED
  BY <1>0, <1>6, <1>8

\* y is the first node of the subtree at m that is not less than the key, or, if
\* there is none, what was found before
Seeks(sub, key, m, y, found) ==
    \/ y = found /\ \A x \in sub[m] : zless(Key(x), key)
    \/ /\ y \in sub[m] /\ ~zless(Key(y), key)
       /\ \A x \in sub[m] : On(score, "left", x, y) => zless(Key(x), key)

LEMMA SeekIs ==
    ASSUME NEW sub, Rest(sub), NEW key \in Int \X Int, root # Null
    PROVE  Seeks(sub, key, root, zset_seekge(key), Null)
<1>0. "left" \in Sides /\ "right" \in Sides /\ Other("left") = "right" /\ Other("right") = "left"
  BY DEF Sides, Other
<1>1. /\ Shape(tree, root, score, InTree, sub) /\ IsFiniteSet(InTree) /\ InTree \subseteq Names /\ Null \notin Names
      /\ Ordered(score, InTree) /\ (\A m \in InTree : m \in sub[m] /\ sub[m] \subseteq InTree)
      /\ \A m \in Names \ InTree, s \in Sides : tree[m].kid[s] = Null
  BY RestIs
<1>2. PICK lv, N : Grounded(lv, N)
  BY <1>1, TreeGrounded
<1>3. PICK f : /\ \A y \in Names \cup {Null} : f[<<Null, y>>] = y
               /\ \A m \in Names, y \in Names \cup {Null} :
                     f[<<m, y>>] = IF zless(Key(m), key) THEN f[<<tree[m].kid["right"], y>>]
                                   ELSE f[<<tree[m].kid["left"], m>>]
               /\ zset_seekge(key) = f[<<root, Null>>]
  BY <1>2, SeekWalk
<1>4. \A x, y \in InTree : On(score, "left", x, y) /\ zless(Key(y), key) => zless(Key(x), key)
  <2>1. \A x \in InTree : score[x] \in Int /\ x \in Int
    BY RestScores
  <2> QED
    BY <2>1 DEF On, zless, Key
<1> DEFINE Good == {m \in InTree : \A y \in Names \cup {Null} : Seeks(sub, key, m, f[<<m, y>>], y)}
           rank == [m \in InTree |-> lv[m]]
<1>5. rank \in [InTree -> Nat]
  BY <1>1, <1>2 DEF Grounded
<1>6. ASSUME NEW m \in InTree, \A k \in InTree : rank[k] < rank[m] => k \in Good PROVE m \in Good
  <2> SUFFICES ASSUME NEW y \in Names \cup {Null} PROVE Seeks(sub, key, m, f[<<m, y>>], y)
    OBVIOUS
  <2> DEFINE l == tree[m].kid["left"]
             r == tree[m].kid["right"]
  <2>1. /\ m \in Names /\ m \in sub[m] /\ sub[m] \subseteq InTree
        /\ l = Null => \A x \in sub[m] : ~On(score, "left", x, m)
        /\ r = Null => \A x \in sub[m] : ~On(score, "right", x, m)
        /\ l # Null => l \in InTree /\ \A x \in InTree : x \in sub[l] <=> x \in sub[m] /\ On(score, "left", x, m)
        /\ r # Null => r \in InTree /\ \A x \in InTree : x \in sub[r] <=> x \in sub[m] /\ On(score, "right", x, m)
    BY <1>0, <1>1 DEF Shape, KidsFit
  <2>2. \A x \in sub[m] : x # m => (On(score, "left", x, m) <=> ~On(score, "right", x, m))
    BY <1>0, <1>1, <2>1 DEF Ordered
  <2>3. /\ l # Null => l \in Good
        /\ r # Null => r \in Good
    <3>1. /\ l # Null => rank[l] < rank[m]
          /\ r # Null => rank[r] < rank[m]
      BY <1>0, <1>2, <2>1 DEF Grounded
    <3> QED
      BY <1>6, <2>1, <3>1
  <2>4. /\ zless(Key(m), key) => f[<<m, y>>] = f[<<r, y>>]
        /\ ~zless(Key(m), key) => f[<<m, y>>] = f[<<l, m>>]
    BY <1>3, <2>1
  <2>5. PICK z : z = f[<<m, y>>]
    OBVIOUS
  <2> HIDE DEF l, r
  <2>6. CASE zless(Key(m), key)
    <3>1. \A x \in sub[m] : x = m \/ On(score, "left", x, m) => zless(Key(x), key)
      BY <1>4, <2>1, <2>6
    <3>2. CASE r = Null
      <4>1. z = y
        BY <1>3, <2>4, <2>5, <2>6, <3>2
      <4>2. \A x \in sub[m] : zless(Key(x), key)
        BY <2>1, <2>2, <3>1, <3>2
      <4> QED
        BY <2>5, <4>1, <4>2 DEF Seeks
    <3>3. CASE r # Null
      <4>1. Seeks(sub, key, r, z, y)
        BY <2>3, <2>4, <2>5, <2>6, <3>3
      <4>2. \A x \in sub[m] : x \in sub[r] \/ zless(Key(x), key)
        BY <2>1, <2>2, <3>1, <3>3
      <4>3. sub[r] \subseteq sub[m]
        BY <1>1, <2>1, <3>3
      <4>4. Seeks(sub, key, m, z, y)
        BY <4>1, <4>2, <4>3 DEF Seeks
      <4> QED
        BY <2>5, <4>4
    <3> QED
      BY <3>2, <3>3
  <2>7. CASE ~zless(Key(m), key)
    <3>2. CASE l = Null
      <4>1. z = m
        BY <1>3, <2>1, <2>4, <2>5, <2>7, <3>2
      <4> QED
        BY <2>1, <2>5, <2>7, <3>2, <4>1 DEF Seeks
    <3>3. CASE l # Null
      <4>1. Seeks(sub, key, l, z, m)
        BY <2>1, <2>3, <2>4, <2>5, <2>7, <3>3
      <4>2. CASE z = m /\ \A x \in sub[l] : zless(Key(x), key)
        BY <2>1, <2>5, <2>7, <3>3, <4>2 DEF Seeks
      <4>3. CASE /\ z \in sub[l] /\ ~zless(Key(z), key)
                 /\ \A x \in sub[l] : On(score, "left", x, z) => zless(Key(x), key)
        <5>1. z \in InTree /\ z \in sub[m] /\ On(score, "left", z, m)
          BY <1>1, <2>1, <3>3, <4>3
        <5>2. ASSUME NEW x \in sub[m], On(score, "left", x, z) PROVE zless(Key(x), key)
          <6>1. On(score, "left", x, m)
            BY <1>0, <1>1, <2>1, <5>1, <5>2 DEF Ordered
          <6> QED
            BY <2>1, <3>3, <4>3, <5>2, <6>1
        <5> QED
          BY <2>5, <4>3, <5>1, <5>2 DEF Seeks
      <4> QED
        BY <4>1, <4>2, <4>3 DEF Seeks
    <3> QED
      BY <3>2, <3>3
  <2> QED
    BY <2>6, <2>7
<1>7. InTree \subseteq Good
  <2> HIDE DEF Good, rank
  <2> QED
    BY ONLY <1>5, <1>6, RankInduction
<1>8. root \in InTree
  BY <1>1 DEF Shape, RootFits
<1>9. root \in Good /\ Null \in Names \cup {Null}
  BY <1>7, <1>8
<1>10. Seeks(sub, key, root, f[<<root, Null>>], Null)
  BY <1>9
<1> QED
  BY <1>3, <1>10

\* zset_seekge() finds the node whose rank is the number of tuples less than the key.
LEMMA SeekRank ==
    ASSUME NEW sub, Rest(sub), NEW key \in Int \X Int, NEW less, less = {m \in hmap : zless(Key(m), key)}
    PROVE  /\ less = hmap => zset_seekge(key) = Null
           /\ less # hmap => zset_seekge(key) \in InTree /\ Rank(zset_seekge(key)) = Cardinality(less)
<1>1. /\ Shape(tree, root, score, InTree, sub) /\ IsFiniteSet(InTree) /\ InTree \subseteq Names /\ Null \notin Names
      /\ Ordered(score, InTree) /\ hmap = InTree
      /\ \A m \in Names \ InTree, s \in Sides : tree[m].kid[s] = Null
  BY RestIs
<1>2. \A x \in InTree : score[x] \in Int /\ x \in Int
  BY RestScores
<1>3. PICK y : y = zset_seekge(key)
  OBVIOUS
<1>4. CASE root = Null
  <2>1. InTree = {} /\ less = hmap
    BY <1>1, <1>4 DEF Shape, RootFits
  <2>2. PICK lv, N : Grounded(lv, N)
    BY <1>1, TreeGrounded
  <2>3. zset_seekge(key) = Null
    BY <1>4, <2>2, SeekWalk
  <2> QED
    BY <2>1, <2>3
<1>5. CASE root # Null
  <2>1. sub[root] = InTree
    BY <1>1, <1>5 DEF Shape, RootFits
  <2>2. Seeks(sub, key, root, y, Null)
    BY <1>3, <1>5, SeekIs
  <2>3. CASE y = Null /\ \A x \in InTree : zless(Key(x), key)
    <3>1. less = hmap
      BY <1>1, <2>3
    <3> QED
      BY <1>3, <2>3, <3>1
  <2>4. CASE /\ y \in InTree /\ ~zless(Key(y), key)
             /\ \A x \in InTree : On(score, "left", x, y) => zless(Key(x), key)
    <3>1. \A x \in InTree : zless(Key(x), key) => On(score, "left", x, y)
      BY <1>2, <2>4 DEF On, zless, Key
    <3>2. less = Before("left", y)
      BY <1>1, <2>4, <3>1 DEF Before
    <3>3. Rank(y) = Cardinality(less)
      BY <2>4, <3>2, RankIs
    <3>4. less # hmap
      BY <1>1, <2>4
    <3> QED
      BY <1>3, <2>4, <3>3, <3>4
  <2> QED
    BY <2>1, <2>2, <2>3, <2>4 DEF Seeks
<1> QED
  BY <1>4, <1>5

\* the recursive definition of do_zquery()
LEMMA QueryWalk ==
    ASSUME NEW sub, Rest(sub), NEW limit \in Nat, NEW key, NEW offset
    PROVE  \E f :
              /\ \A k \in Nat : f[<<Null, k>>] = <<>>
              /\ \A n \in Names, k \in Nat :
                    f[<<n, k>>] = IF k >= limit THEN <<>> ELSE <<n>> \o f[<<avl_offset(n, 1), k + 2>>]
              /\ do_zquery(key, offset, limit) = f[<<znode_offset(zset_seekge(key), offset), 0>>]
<1> DEFINE D == (Names \cup {Null}) \X Nat
           V == Seq(Names)
           N == limit + 1
           stop == {q \in D : q[1] = Null \/ q[2] >= limit}
           nxt == [q \in D |-> <<znode_offset(q[1], 1), q[2] + PerMember>>]
           rank == [q \in D |-> IF q[2] >= limit THEN 0 ELSE limit - q[2]]
           step(q, f) == IF q \in stop THEN <<>> ELSE <<q[1]>> \o f[nxt[q]]
           body(at, f) ==
              IF at[1] = Null \/ at[2] >= limit THEN <<>>
              ELSE <<at[1]>> \o f[<<znode_offset(at[1], 1), at[2] + PerMember>>]
           G == [q \in D |-> [f \in [D -> V] |-> step(q, f)]]
<1>0. Null \notin Names /\ \A n \in Names : avl_offset(n, 1) \in Names \cup {Null}
  <2>1. 1 \in Int /\ Null \notin Names
    BY NullIsNoName
  <2>2. \A n \in Names : avl_offset(n, 1) \in Names \cup {Null}
    BY ONLY Rest(sub), <2>1, OffsetIs
  <2> QED
    BY <2>1, <2>2
<1>1. \A q \in D : q[1] \in Names \cup {Null} /\ q[2] \in Nat
  OBVIOUS
<1>2. rank \in [D -> Nat] /\ (\A q \in D : rank[q] < N) /\ N \in Nat /\ V # {}
  <2>1. <<>> \in V
    OBVIOUS
  <2> HIDE DEF D, V
  <2> QED
    BY <1>1, <2>1
<1>3. ASSUME NEW q \in D, q \notin stop PROVE nxt[q] \in D /\ rank[nxt[q]] < rank[q] /\ q[1] \in Names
  <2>1. PICK n, k : n = q[1] /\ k = q[2] /\ n \in Names /\ k \in Nat /\ k < limit
    BY <1>1, <1>3
  <2>2. nxt[q] = <<avl_offset(n, 1), k + 2>>
    BY <1>0, <2>1 DEF znode_offset, PerMember
  <2>3. PICK m : m = avl_offset(n, 1) /\ m \in Names \cup {Null}
    BY <1>0, <2>1
  <2>4. nxt[q] \in D /\ rank[nxt[q]] = IF k + 2 >= limit THEN 0 ELSE limit - (k + 2)
    BY <2>1, <2>2, <2>3
  <2>5. rank[q] = limit - k
    BY <2>1
  <2> HIDE DEF D, rank, nxt
  <2> QED
    BY <2>1, <2>4, <2>5
<1>4. \A q \in D, f \in [D -> V] : step(q, f) \in V
  <2> SUFFICES ASSUME NEW q \in D, NEW f \in [D -> V] PROVE step(q, f) \in V
    OBVIOUS
  <2>1. CASE q \in stop
    BY <2>1
  <2>2. CASE q \notin stop
    <3>1. nxt[q] \in D /\ q[1] \in Names
      BY <1>3, <2>2
    <3>2. f[nxt[q]] \in V
      <4> HIDE DEF D, V, nxt
      <4> QED
        BY <3>1
    <3>3. PICK n, r : n = q[1] /\ r = f[nxt[q]] /\ n \in Names /\ r \in Seq(Names)
      BY <3>1, <3>2
    <3>4. <<n>> \o r \in Seq(Names)
      BY <3>3
    <3>5. step(q, f) = <<n>> \o r
      <4> HIDE DEF D, V, nxt, stop
      <4> QED
        BY <2>2, <3>3
    <3> QED
      BY <3>4, <3>5
  <2> QED
    BY <2>1, <2>2
<1>5. WellRanked(D, V, N, rank, G)
  <2>1. G \in [D -> [[D -> V] -> V]]
    <3> HIDE DEF step, D, V
    <3> QED
      BY <1>4
  <2>2. \A q \in D, f, g \in [D -> V] :
              (\A k \in D : rank[k] < rank[q] => f[k] = g[k]) => G[q][f] = G[q][g]
    <3> SUFFICES ASSUME NEW q \in D, NEW f \in [D -> V], NEW g \in [D -> V],
                        \A k \in D : rank[k] < rank[q] => f[k] = g[k]
                 PROVE  G[q][f] = G[q][g]
      OBVIOUS
    <3>1. G[q][f] = step(q, f) /\ G[q][g] = step(q, g)
      <4> HIDE DEF step, D, V
      <4> QED
        OBVIOUS
    <3>2. q \notin stop => f[nxt[q]] = g[nxt[q]]
      <4> HIDE DEF D, V, nxt, stop, rank
      <4> QED
        BY <1>3
    <3>3. step(q, f) = step(q, g)
      <4> HIDE DEF D, V, nxt, stop, rank
      <4> QED
        BY <3>2
    <3> QED
      BY <3>1, <3>3
  <2> HIDE DEF G, D, V, N, rank
  <2> QED
    BY <1>2, <2>1, <2>2 DEF WellRanked
<1>6. \E f : f = [q \in D |-> step(q, f)]
  <2>1. PICK f \in [D -> V] : \A q \in D : f[q] = G[q][f]
    <3> HIDE DEF G, D, V, N, rank
    <3> QED
      BY <1>5, Recursion
  <2>2. \A q \in D : f[q] = step(q, f)
    <3> HIDE DEF step, D, V
    <3> QED
      BY <2>1
  <2> HIDE DEF step, D, V
  <2> QED
    BY <2>2
<1>7. \A q \in D : \A f : body(q, f) = step(q, f)
  <2> SUFFICES ASSUME NEW q \in D, NEW f PROVE body(q, f) = step(q, f)
    OBVIOUS
  <2>1. /\ q \in stop <=> (q[1] = Null \/ q[2] >= limit)
        /\ nxt[q] = <<znode_offset(q[1], 1), q[2] + PerMember>>
    OBVIOUS
  <2> HIDE DEF D, V, stop, nxt
  <2> QED
    BY <2>1
<1>8. \A f : [q \in D |-> body(q, f)] = [q \in D |-> step(q, f)]
  <2> HIDE DEF body, step, D
  <2> QED
    BY <1>7
<1> DEFINE w == CHOOSE f : f = [q \in D |-> body(q, f)]
<1>9. do_zquery(key, offset, limit) = w[<<znode_offset(zset_seekge(key), offset), 0>>]
  BY DEF do_zquery
<1>10. w = [q \in D |-> body(q, w)]
  <2> HIDE DEF body, step, D
  <2> QED
    BY <1>6, <1>8
<1> HIDE DEF w
<1>11. ASSUME NEW m \in Names \cup {Null}, NEW k \in Nat
       PROVE  w[<<m, k>>] = IF m = Null \/ k >= limit THEN <<>>
                            ELSE <<m>> \o w[<<znode_offset(m, 1), k + PerMember>>]
  <2>1. PICK q : q = <<m, k>>
    OBVIOUS
  <2>2. q \in D /\ q[1] = m /\ q[2] = k
    BY <2>1
  <2>3. w[q] = body(q, w)
    <3> HIDE DEF body, D
    <3> QED
      BY <1>10, <2>2
  <2> QED
    BY <2>1, <2>2, <2>3
<1>12. \A k \in Nat : w[<<Null, k>>] = <<>>
  BY <1>11
<1>13. ASSUME NEW n \in Names, NEW k \in Nat
       PROVE w[<<n, k>>] = IF k >= limit THEN <<>> ELSE <<n>> \o w[<<avl_offset(n, 1), k + 2>>]
  <2>1. w[<<n, k>>] = IF n = Null \/ k >= limit THEN <<>>
                      ELSE <<n>> \o w[<<znode_offset(n, 1), k + PerMember>>]
    BY <1>11
  <2>2. znode_offset(n, 1) = avl_offset(n, 1) /\ k + PerMember = k + 2 /\ n # Null
    BY <1>0 DEF znode_offset, PerMember
  <2> QED
    BY <2>1, <2>2
<1> QED
  BY <1>9, <1>12, <1>13

\* the members from rank i on, many of them
Members(i, many) == [j \in 1 .. many |-> AtRank(i + j - 1)]

LEMMA MembersNext ==
    ASSUME NEW S, NEW i \in Nat, NEW many \in Nat, \A j \in 0 .. many : AtRank(i + j) \in S
    PROVE  <<AtRank(i)>> \o Members(i + 1, many) = Members(i, many + 1)
<1>1. \A j \in 1 .. many : i + 1 + j - 1 = i + j /\ j \in 0 .. many
  OBVIOUS
<1>2. \A j \in 1 .. many : Members(i + 1, many)[j] = AtRank(i + j) /\ AtRank(i + j) \in S
  BY <1>1 DEF Members
<1>3. Members(i + 1, many) \in Seq(S) /\ Len(Members(i + 1, many)) = many
  <2>1. Members(i + 1, many) \in [1 .. many -> S]
    BY <1>2 DEF Members
  <2> QED
    BY <2>1
<1>4. \A j \in 1 .. many + 1 : j - 1 \in 0 .. many /\ i + j - 1 = i + (j - 1)
  OBVIOUS
<1>5. \A j \in 1 .. many + 1 : Members(i, many + 1)[j] = AtRank(i + (j - 1)) /\ AtRank(i + (j - 1)) \in S
  BY <1>4 DEF Members
<1>6. Members(i, many + 1) \in Seq(S) /\ Len(Members(i, many + 1)) = many + 1
  <2>1. Members(i, many + 1) \in [1 .. many + 1 -> S]
    BY <1>5 DEF Members
  <2> QED
    BY <2>1
<1>7. PICK a, g, h : a = AtRank(i) /\ g = Members(i + 1, many) /\ h = Members(i, many + 1)
  OBVIOUS
<1>8. a \in S /\ h[1] = a
  <2>1. 1 \in 1 .. many + 1 /\ i + (1 - 1) = i
    OBVIOUS
  <2> QED
    BY <1>5, <1>7, <2>1
<1>9. \A j \in 1 .. many : h[j + 1] = g[j]
  <2> SUFFICES ASSUME NEW j \in 1 .. many PROVE h[j + 1] = g[j]
    OBVIOUS
  <2>1. j + 1 \in 1 .. many + 1 /\ i + ((j + 1) - 1) = i + j
    OBVIOUS
  <2>2. h[j + 1] = AtRank(i + j)
    BY <1>5, <1>7, <2>1
  <2> QED
    BY <1>2, <1>7, <2>2
<1>10. <<a>> \in Seq(S) /\ Len(<<a>>) = 1 /\ <<a>>[1] = a
  BY <1>8
<1>11. PICK t : t = <<a>> \o g
  OBVIOUS
<1>12. t \in Seq(S) /\ Len(t) = many + 1 /\ \A j \in 1 .. many + 1 : t[j] = IF j <= 1 THEN <<a>>[j] ELSE g[j - 1]
  BY <1>3, <1>7, <1>10, <1>11, ConcatProperties
<1>13. \A j \in 1 .. many + 1 : t[j] = h[j]
  <2> SUFFICES ASSUME NEW j \in 1 .. many + 1 PROVE t[j] = h[j]
    OBVIOUS
  <2>1. CASE j = 1
    BY <1>8, <1>10, <1>12, <2>1
  <2>2. CASE j # 1
    <3>1. PICK l : l = j - 1 /\ l \in 1 .. many /\ l + 1 = j
      BY <2>2
    <3>2. h[j] = g[l]
      BY <1>9, <3>1
    <3>3. ~(j <= 1)
      BY <2>2
    <3>4. t[j] = g[j - 1]
      BY <1>12, <3>3
    <3> QED
      BY <3>1, <3>2, <3>4
  <2> QED
    BY <2>1, <2>2
<1>14. t = h
  BY <1>6, <1>7, <1>12, <1>13, SeqEqual
<1> QED
  BY <1>7, <1>11, <1>14

\* how many members an array of size k still takes, in pairs, up to the limit
Room(limit, k, c) == IF k >= limit THEN c = 0 ELSE 2 * c = limit - k \/ 2 * c = limit - k + 1

\* how many members there are from rank i on, at most c
Many(i, c) == IF i >= Cardinality(InTree) THEN 0
              ELSE IF c < Cardinality(InTree) - i THEN c ELSE Cardinality(InTree) - i

\* From a rank on, do_zquery() returns the members in order until the limit is
\* reached or no member is left.
LEMMA QueryIs ==
    ASSUME NEW sub, Rest(sub), NEW limit \in Nat, NEW f,
           \A k \in Nat : f[<<Null, k>>] = <<>>,
           \A n \in Names, k \in Nat :
              f[<<n, k>>] = IF k >= limit THEN <<>> ELSE <<n>> \o f[<<avl_offset(n, 1), k + 2>>]
    PROVE  \A k, i, c \in Nat : Room(limit, k, c) => f[<<AtRank(i), k>>] = Members(i, Many(i, c))
<1>0. PICK M : M = Cardinality(InTree) /\ M \in Nat
  BY RestIs
<1>1. /\ \A i \in Nat : i >= M => AtRank(i) = Null
      /\ \A i \in Nat : i < M => AtRank(i) \in InTree /\ Rank(AtRank(i)) = i
      /\ InTree \subseteq Names
  BY <1>0, AtRankIs, RankOnto, RestIs
<1>2. \A i \in Nat : i < M => avl_offset(AtRank(i), 1) = AtRank(i + 1)
  BY <1>1, OffsetIs
<1>3. \A i : Members(i, 0) = <<>>
  BY DEF Members
<1>4. \A i, c \in Nat : Many(i, c) = IF i >= M THEN 0 ELSE IF c < M - i THEN c ELSE M - i
  BY <1>0 DEF Many
<1> DEFINE rank == [k \in Nat |-> IF k >= limit THEN 0 ELSE limit - k]
           Good == {k \in Nat : \A i, c \in Nat :
                       Room(limit, k, c) => f[<<AtRank(i), k>>] = Members(i, Many(i, c))}
<1>5. rank \in [Nat -> Nat]
  OBVIOUS
<1>6. ASSUME NEW k \in Nat, \A l \in Nat : rank[l] < rank[k] => l \in Good PROVE k \in Good
  <2> SUFFICES ASSUME NEW i \in Nat, NEW c \in Nat, Room(limit, k, c)
               PROVE  f[<<AtRank(i), k>>] = Members(i, Many(i, c))
    OBVIOUS
  <2>1. CASE i >= M
    <3>1. AtRank(i) = Null /\ Many(i, c) = 0
      BY <1>1, <1>4, <2>1
    <3> QED
      BY <1>3, <3>1
  <2>2. CASE i < M /\ k >= limit
    <3>1. c = 0
      BY <2>2 DEF Room
    <3>2. Many(i, c) = 0
      BY <1>0, <1>4, <2>2, <3>1
    <3>3. AtRank(i) \in Names
      BY <1>1, <2>2
    <3> QED
      BY <1>3, <2>2, <3>2, <3>3
  <2>3. CASE i < M /\ k < limit
    <3>1. 2 * c = limit - k \/ 2 * c = limit - k + 1
      BY <2>3 DEF Room
    <3>2. PICK d, l : d = c - 1 /\ l = k + 2 /\ d \in Nat /\ l \in Nat
      BY <2>3, <3>1
    <3>3. Room(limit, l, d)
      BY <2>3, <3>1, <3>2 DEF Room
    <3>4. rank[l] < rank[k]
      BY <2>3, <3>2
    <3>5. l \in Good
      <4> HIDE DEF Good, rank
      <4> QED
        BY <1>6, <3>2, <3>4
    <3>6. PICK p, many : p = i + 1 /\ many = Many(p, d) /\ p \in Nat
      OBVIOUS
    <3>7. f[<<AtRank(p), l>>] = Members(p, many)
      BY <3>2, <3>3, <3>5, <3>6
    <3>8. many \in Nat /\ Many(i, c) = many + 1 /\ i + many < M
      <4>1. many = IF p >= M THEN 0 ELSE IF d < M - p THEN d ELSE M - p
        BY <1>4, <3>2, <3>6
      <4>2. Many(i, c) = IF i >= M THEN 0 ELSE IF c < M - i THEN c ELSE M - i
        BY <1>4
      <4> QED
        BY <1>0, <2>3, <3>2, <3>6, <4>1, <4>2
    <3>9. \A j \in 0 .. many : AtRank(i + j) \in InTree
      <4> SUFFICES ASSUME NEW j \in 0 .. many PROVE AtRank(i + j) \in InTree
        OBVIOUS
      <4>1. i + j \in Nat /\ i + j < M
        BY <1>0, <3>8
      <4> QED
        BY <1>1, <4>1
    <3>10. <<AtRank(i)>> \o Members(i + 1, many) = Members(i, many + 1)
      BY <3>8, <3>9, MembersNext
    <3>11. AtRank(i) \in Names /\ avl_offset(AtRank(i), 1) = AtRank(p) /\ ~(k >= limit)
      BY <1>1, <1>2, <2>3, <3>6
    <3>12. f[<<AtRank(i), k>>] = <<AtRank(i)>> \o f[<<AtRank(p), l>>]
      BY <3>2, <3>11
    <3> QED
      BY <3>6, <3>7, <3>8, <3>10, <3>12
  <2> QED
    BY <1>0, <2>1, <2>2, <2>3
<1>7. Nat \subseteq Good
  <2> HIDE DEF Good, rank
  <2> QED
    BY ONLY <1>5, <1>6, RankInduction
<1> QED
  BY <1>7

LEMMA MinIs ==
    ASSUME NEW a \in Nat, NEW b \in Nat
    PROVE  Min({a, b}) = IF a < b THEN a ELSE b
<1>1. \E x \in {a, b} : \A y \in {a, b} : x <= y
  OBVIOUS
<1> DEFINE x == CHOOSE x \in {a, b} : \A y \in {a, b} : x <= y
<1>2. x \in {a, b} /\ \A y \in {a, b} : x <= y
  BY <1>1
<1>3. Min({a, b}) = x
  BY DEF Min
<1> HIDE DEF x
<1> QED
  BY <1>2, <1>3

LEMMA MaxZero ==
    ASSUME NEW d \in Int
    PROVE  Max({0, d}) = IF d >= 0 THEN d ELSE 0
<1>1. \E x \in {0, d} : \A y \in {0, d} : x >= y
  OBVIOUS
<1> DEFINE x == CHOOSE x \in {0, d} : \A y \in {0, d} : x >= y
<1>2. x \in {0, d} /\ \A y \in {0, d} : x >= y
  BY <1>1
<1>3. Max({0, d}) = x
  BY DEF Max
<1> HIDE DEF x
<1> QED
  BY <1>2, <1>3

\* half the limit, rounded up, is the room of an empty array
LEMMA HalfIs ==
    ASSUME NEW limit \in Nat
    PROVE  (limit + 1) \div 2 \in Nat /\ Room(limit, 0, (limit + 1) \div 2)
<1>1. PICK c : c = (limit + 1) \div 2
  OBVIOUS
<1>2. c \in Nat /\ (2 * c = limit + 1 \/ 2 * c = limit)
  BY <1>1
<1> QED
  BY <1>1, <1>2 DEF Room

\* the tuples less than a key
Less(key) == {m \in hmap : zless(Key(m), key)}

\* zquery for every key, offset and limit: the members from the first that is not
\* less than the key, moved by the offset.
LEMMA QueryWhole ==
    ASSUME NEW sub, Rest(sub), NEW key \in Int \X Int, NEW offset \in Int, NEW limit \in Nat,
           NEW less, less = Less(key), NEW from, from = Cardinality(less) + offset,
           NEW c \in Nat, Room(limit, 0, c)
    PROVE  do_zquery(key, offset, limit) =
              IF less # hmap /\ from >= 0 THEN Members(from, Many(from, c)) ELSE <<>>
<1>1. PICK f :
         /\ \A k \in Nat : f[<<Null, k>>] = <<>>
         /\ \A n \in Names, k \in Nat :
               f[<<n, k>>] = IF k >= limit THEN <<>> ELSE <<n>> \o f[<<avl_offset(n, 1), k + 2>>]
         /\ do_zquery(key, offset, limit) = f[<<znode_offset(zset_seekge(key), offset), 0>>]
  BY QueryWalk
<1>2. /\ less = hmap => zset_seekge(key) = Null
      /\ less # hmap => zset_seekge(key) \in InTree /\ Rank(zset_seekge(key)) = Cardinality(less)
  <2>1. less = {m \in hmap : zless(Key(m), key)}
    BY DEF Less
  <2> QED
    BY <2>1, SeekRank
<1>3. CASE less = hmap
  <2>1. znode_offset(zset_seekge(key), offset) = Null
    BY <1>2, <1>3 DEF znode_offset
  <2> QED
    BY <1>1, <1>3, <2>1
<1>4. CASE less # hmap
  <2>1. PICK n : n = zset_seekge(key) /\ n \in InTree /\ Rank(n) = Cardinality(less)
    BY <1>2, <1>4
  <2>2. n # Null /\ Rank(n) \in Nat
    BY <2>1, RestIs, RankIs
  <2>3. avl_offset(n, offset) = AtRank(from)
    BY <2>1, OffsetIs
  <2>4. znode_offset(zset_seekge(key), offset) = AtRank(from)
    BY <2>1, <2>2, <2>3 DEF znode_offset
  <2>5. from \in Int
    BY <2>1, <2>2
  <2>6. CASE from >= 0
    <3>1. from \in Nat
      BY <2>5, <2>6
    <3>2. f[<<AtRank(from), 0>>] = Members(from, Many(from, c))
      BY <1>1, <3>1, QueryIs
    <3> QED
      BY <1>1, <1>4, <2>4, <2>6, <3>2
  <2>7. CASE ~(from >= 0)
    <3>1. AtRank(from) = Null
      BY <2>5, <2>7, AtRankIs
    <3> QED
      BY <1>1, <1>4, <2>4, <2>7, <3>1
  <2> QED
    BY <2>6, <2>7
<1> QED
  BY <1>3, <1>4

\* zquery returns the members from the first that is not less than the key, moved
\* by the offset, in order, as many as half the limit, and none when the offset
\* leaves the set.
THEOREM QueryAlwaysExact == Spec => []QueryExact
<1>1. Inv => QueryExact
  <2> SUFFICES ASSUME Inv, pc = "idle", NEW n \in Names, NEW s \in Scores, NEW offset \in {-1, 0, 1}, NEW limit \in 0 .. 5
               PROVE  LET less == {m \in hmap : zless(Key(m), <<s, n>>)}
                          from == Cardinality(less) + offset
                          some == less # hmap /\ from >= 0
                          left == IF some THEN Max({0, Cardinality(hmap) - from}) ELSE 0
                      IN  do_zquery(<<s, n>>, offset, limit) =
                             [i \in 1 .. Min({left, (limit + 1) \div 2}) |-> AtRank(from + i - 1)]
    BY DEF QueryExact
  <2> DEFINE less == {m \in hmap : zless(Key(m), <<s, n>>)}
             from == Cardinality(less) + offset
             left == IF less # hmap /\ from >= 0 THEN Max({0, Cardinality(hmap) - from}) ELSE 0
  <2> SUFFICES do_zquery(<<s, n>>, offset, limit) =
                  [i \in 1 .. Min({left, (limit + 1) \div 2}) |-> AtRank(from + i - 1)]
    OBVIOUS
  <2>0. /\ less = {m \in hmap : zless(Key(m), <<s, n>>)}
        /\ from = Cardinality(less) + offset
        /\ left = IF less # hmap /\ from >= 0 THEN Max({0, Cardinality(hmap) - from}) ELSE 0
    OBVIOUS
  <2> HIDE DEF less, from, left
  <2>1. PICK sub : Rest(sub) /\ hmap = InTree
    BY RestIdle
  <2>2. <<s, n>> \in Int \X Int
    BY SortedSetAssumption
  <2>3. PICK c : c = (limit + 1) \div 2 /\ c \in Nat /\ Room(limit, 0, c)
    BY HalfIs
  <2>4. do_zquery(<<s, n>>, offset, limit) =
           IF less # hmap /\ from >= 0 THEN Members(from, Many(from, c)) ELSE <<>>
    <3>1. PICK key : key = <<s, n>>
      OBVIOUS
    <3>2. less = Less(key) /\ key \in Int \X Int
      BY <2>0, <2>2, <3>1 DEF Less
    <3>3. offset \in Int /\ limit \in Nat
      OBVIOUS
    <3>4. do_zquery(key, offset, limit) =
             IF less # hmap /\ from >= 0 THEN Members(from, Many(from, c)) ELSE <<>>
      <4>1. Rest(sub) /\ from = Cardinality(less) + offset /\ less = Less(key)
            /\ key \in Int \X Int /\ offset \in Int /\ limit \in Nat /\ c \in Nat /\ Room(limit, 0, c)
        BY <2>0, <2>1, <2>3, <3>2, <3>3
      <4> QED
        BY ONLY <4>1, QueryWhole
    <3> QED
      BY <3>1, <3>4
  <2>5. PICK M : M = Cardinality(hmap) /\ M \in Nat /\ M = Cardinality(InTree)
    BY <2>1, RestIs
  <2>6. less \subseteq hmap /\ IsFiniteSet(hmap)
    BY <2>0, <2>1, RestIs
  <2>7. Cardinality(less) \in Nat
    BY <2>6, FS_Subset, FS_CardinalityType
  <2>8. from \in Int
    BY <2>0, <2>7
  <2>9. CASE less # hmap /\ from >= 0
    <3>1. from \in Nat
      BY <2>8, <2>9
    <3>2. PICK d : d = M - from /\ d \in Int
      BY <2>5, <3>1
    <3>3. left = Max({0, d})
      BY <2>0, <2>5, <2>9, <3>2
    <3>4. left = IF d >= 0 THEN d ELSE 0
      BY <3>2, <3>3, MaxZero
    <3>5. left \in Nat
      BY <3>2, <3>4
    <3>6. Min({left, c}) = IF left < c THEN left ELSE c
      BY <2>3, <3>5, MinIs
    <3>7. Many(from, c) = IF from >= M THEN 0 ELSE IF c < M - from THEN c ELSE M - from
      BY <2>5 DEF Many
    <3>8. Min({left, c}) = Many(from, c)
      BY <2>3, <2>5, <3>1, <3>2, <3>4, <3>6, <3>7
    <3>9. do_zquery(<<s, n>>, offset, limit) = Members(from, Many(from, c))
      BY <2>4, <2>9
    <3> QED
      BY <2>3, <3>8, <3>9 DEF Members
  <2>10. CASE ~(less # hmap /\ from >= 0)
    <3>1. left = 0
      BY <2>0, <2>10
    <3>2. Min({left, c}) = 0
      BY <2>3, <3>1, MinIs
    <3>3. do_zquery(<<s, n>>, offset, limit) = <<>>
      BY <2>4, <2>10
    <3> QED
      BY <2>3, <3>2, <3>3
  <2> QED
    BY <2>9, <2>10
<1> QED
  BY <1>1, Invariant, PTL

=============================================================================
