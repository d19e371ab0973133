----------------------------- MODULE SortedSet ------------------------------
(***************************************************************************)
(* The sorted set of container/zset.cc over the AVL tree of                *)
(* container/avl.cc, with the pointers of the tree as they are: a node     *)
(* knows its parent, its children, and the height and size of its subtree. *)
(* Two indexes cover the same nodes, the tree by (score, name) and a hash  *)
(* table by name (module HashMap).                                         *)
(*                                                                         *)
(* A call is an action up to the loop of avl_fix(), each turn of the loop  *)
(* another, and the rest of avl_remove() the last. A node is identified    *)
(* with its name. The two directions of the tree are mirror images, so     *)
(* left and right are the values of a parameter.                           *)
(***************************************************************************)
EXTENDS Integers, Sequences, FiniteSetsExt

CONSTANTS Names,   \* names, numbered in the order of memcmp() and length
          Scores,  \* scores
          Null     \* a null pointer, no score

ASSUME SortedSetAssumption ==
    Names \subseteq Nat /\ Scores \subseteq Int /\ Null \notin Names \cup Scores

Sides == {"left", "right"}
Other(s) == IF s = "left" THEN "right" ELSE "left"

\* aux: the height and the size of the subtree, "auxiliary data"
AVLNode == [parent : Names \cup {Null}, kid : [Sides -> Names \cup {Null}],
            aux : [height : Nat, cnt : Nat]]

VARIABLES root, tree,      \* zset->root, and the AVLNode of every node
          hmap,            \* the names in zset->hmap
          score,           \* the score of every node, or Null: not allocated
          pc,              \* "idle", "insert", "remove", "removed" or "detached"
          node,            \* node of avl_fix()
          target, victim,  \* of avl_remove(): the node, and the one detached
          rescore          \* the new score of zset_update(), or Null

vars == <<root, tree, hmap, score, pc, node, target, victim, rescore>>
removal == <<target, victim, rescore>>

NoAux    == [height |-> 0, cnt |-> 0]
avl_init == [parent |-> Null, kid |-> [s \in Sides |-> Null],
             aux |-> [height |-> 1, cnt |-> 1]]
Freed    == [avl_init EXCEPT !.aux = NoAux]

Init ==
    /\ root = Null /\ tree = [n \in Names |-> Freed]
    /\ hmap = {} /\ score = [n \in Names |-> Null]
    /\ pc = "idle" /\ node = Null
    /\ target = Null /\ victim = Null /\ rescore = Null

-----------------------------------------------------------------------------
(* avl.cc                                                                  *)

\* avl_height() and avl_cnt()
Aux(t, n) == IF n = Null THEN NoAux ELSE t[n].aux
avl_height(t, n) == Aux(t, n).height

\* (mutation) cnt is that of the left subtree
GrowLeft(l, r) == [height |-> 1 + Max({l.height, r.height}), cnt |-> 1 + l.cnt]

\* what avl_update() makes of the data of the two subtrees
Grow(l, r) == [height |-> 1 + Max({l.height, r.height}), cnt |-> 1 + l.cnt + r.cnt]

avl_update(t, n) ==
    [t EXCEPT ![n].aux = Grow(Aux(t, t[n].kid["left"]), Aux(t, t[n].kid["right"]))]

\* (mutation) a child that moves is not told
LeaveParent(t, n, p) == t

SetParent(t, n, p) == IF n = Null THEN t ELSE [t EXCEPT ![n].parent = p]

\* rot_left() for s = "left": the right child of n takes its place
Rotate(t, n, s) ==
    LET top   == t[n].kid[Other(s)]
        inner == t[top].kid[s]
        low   == Grow(Aux(t, t[n].kid[s]), Aux(t, inner))
        high  == Grow(low, Aux(t, t[top].kid[Other(s)]))
    IN  SetParent([t EXCEPT ![n].kid[Other(s)] = inner, ![n].parent = top,
                            ![n].aux = low,
                            ![top].kid[s] = n, ![top].parent = t[n].parent,
                            ![top].aux = high], inner, n)

\* (mutation) the child is not turned first
TurnNone(n, s) == tree

\* the child of n on side s is turned first, if its inner subtree is the taller
TurnChild(n, s) ==
    LET c     == tree[n].kid[s]
        inner == tree[c].kid[Other(s)]
    IN  IF avl_height(tree, tree[c].kid[s]) < avl_height(tree, inner)
        THEN [Rotate(tree, c, s) EXCEPT ![n].kid[s] = inner] ELSE tree

\* the side of the node that is taller by 2, if any
Taller == {s \in Sides : avl_height(tree, tree[node].kid[s]) =
                         avl_height(tree, tree[node].kid[Other(s)]) + 2}

SideOf(p, n) == IF tree[p].kid["left"] = n THEN "left" ELSE "right"

\* the pointer of p to its child n, if there is a p, is set to m
Link(t, p, n, m) == IF p = Null THEN t ELSE [t EXCEPT ![p].kid[SideOf(p, n)] = m]

\* (mutation) the loop goes on with the top of the subtree
StayAt(p, top) == IF p = Null THEN Null ELSE top

\* the loop goes on with the parent
GoOnAt(p, top) == p

\* the subtree of the node has become the one of top in t
Ascend(t, top) ==
    LET p == tree[node].parent
    IN  /\ tree' = Link(t, p, node, top)
        /\ root' = IF p = Null THEN top ELSE root
        /\ node' = GoOnAt(p, top)
        /\ pc' = IF p # Null THEN pc ELSE IF pc = "insert" THEN "idle" ELSE "removed"
        /\ UNCHANGED <<hmap, score, removal>>

\* one turn of the loop; avl_fix_left() and avl_fix_right() are the cases of s
avl_fix ==
    /\ pc \in {"insert", "remove"}
    /\ \/ /\ Taller = {}
          /\ Ascend(avl_update(tree, node), node)
       \/ \E s \in Taller : \E t \in {TurnChild(node, s)} :
             Ascend(Rotate(t, node, Other(s)), t[node].kid[s])

\* without a parent there is nothing to rebalance
AfterDetach(p) == IF p = Null THEN "removed" ELSE "remove"

\* a node with one child at most is detached; the loop starts at its parent
avl_del_easy(n) ==
    LET s == IF tree[n].kid["left"] # Null THEN "left" ELSE "right"
        c == tree[n].kid[s]
        p == tree[n].parent
    IN  /\ tree' = Link(SetParent(tree, c, p), p, n, c)
        /\ root' = IF p = Null THEN c ELSE root
        /\ node' = p
        /\ pc' = AfterDetach(p)

\* the last node on the way to the left
Leftmost(n) ==
    LET walk[m \in Names] == IF tree[m].kid["left"] = Null THEN m
                             ELSE walk[tree[m].kid["left"]]
    IN  walk[n]

\* avl_remove() up to the loop: a node with two children is left in place, and
\* its successor is detached
avl_remove(n) ==
    /\ target' = n
    /\ victim' = IF Null \in {tree[n].kid[s] : s \in Sides} THEN n
                 ELSE Leftmost(tree[n].kid["right"])
    /\ avl_del_easy(victim')

\* the rest of avl_remove(): the successor takes the place of the node, which
\* the rotations may have moved
SwapWithVictim ==
    LET p == tree[target].parent
        t == SetParent(SetParent([tree EXCEPT ![victim] = tree[target]],
                                 tree[target].kid["left"], victim),
                       tree[target].kid["right"], victim)
    IN  /\ pc = "removed"
        /\ \/ /\ victim = target
              /\ UNCHANGED <<tree, root>>
           \/ /\ victim # target
              /\ tree' = Link(t, p, target, victim)
              /\ root' = IF p = Null THEN victim ELSE root
        /\ pc' = "detached" /\ victim' = Null
        /\ UNCHANGED <<hmap, score, node, target, rescore>>

-----------------------------------------------------------------------------
(* zset.cc                                                                 *)

\* tuples (score, name) in order
zless(a, b) == a[1] < b[1] \/ (a[1] = b[1] /\ a[2] < b[2])

Key(n) == <<score[n], n>>

\* where the search of tree_insert() for a key ends
Place(key) ==
    LET Side(m) == IF zless(key, Key(m)) THEN "left" ELSE "right"
        walk[m \in Names] == IF tree[m].kid[Side(m)] = Null THEN <<m, Side(m)>>
                             ELSE walk[tree[m].kid[Side(m)]]
    IN  walk[root]

\* node n is attached with score s, and rebalancing starts
tree_insert(n, s) ==
    LET at == Place(<<s, n>>)
    IN  /\ \/ /\ root = Null
              /\ root' = n /\ tree' = [tree EXCEPT ![n] = avl_init]
           \/ /\ root # Null
              /\ tree' = [tree EXCEPT ![n] = [avl_init EXCEPT !.parent = at[1]],
                                      ![at[1]].kid[at[2]] = n]
              /\ UNCHANGED root
        /\ score' = [score EXCEPT ![n] = s]
        /\ node' = n
        /\ pc' = "insert"

\* zset_lookup()
Found(n) == root # Null /\ n \in hmap

zset_insert(n, s) ==
    /\ pc = "idle"
    /\ \/ /\ ~Found(n)
          /\ hmap' = hmap \cup {n}
          /\ tree_insert(n, s)
          /\ UNCHANGED removal
       \/ /\ Found(n) /\ score[n] # s
          /\ avl_remove(n)
          /\ rescore' = s
          /\ UNCHANGED <<hmap, score>>

\* do_zrem() deletes a node that zset_lookup() has found
zset_delete(n) ==
    /\ pc = "idle"
    /\ Found(n)
    /\ hmap' = hmap \ {n}
    /\ avl_remove(n)
    /\ UNCHANGED <<score, rescore>>

\* zset_update() goes on: the node is inserted again
Reinsert ==
    /\ pc = "detached" /\ rescore # Null
    /\ tree_insert(target, rescore)
    /\ target' = Null /\ rescore' = Null
    /\ UNCHANGED <<hmap, victim>>

\* zset_delete() goes on: the node is freed
znode_del ==
    /\ pc = "detached" /\ rescore = Null
    /\ tree' = [tree EXCEPT ![target] = Freed]
    /\ score' = [score EXCEPT ![target] = Null]
    /\ pc' = "idle" /\ target' = Null
    /\ UNCHANGED <<root, hmap, node, victim, rescore>>

\* the nodes of the subtree at n, as tree_dispose() meets them
Subtree(n) ==
    LET walk[m \in Names \cup {Null}] ==
            IF m = Null THEN {}
            ELSE {m} \cup UNION {walk[tree[m].kid[s]] : s \in Sides}
    IN  walk[n]

\* entry_del_sync(): the nodes are freed, and the hash table goes with the entry
zset_clear ==
    /\ pc = "idle"
    /\ tree' = [n \in Names |-> IF n \in Subtree(root) THEN Freed ELSE tree[n]]
    /\ score' = [n \in Names |-> IF n \in Subtree(root) THEN Null ELSE score[n]]
    /\ root' = Null /\ hmap' = {}
    /\ UNCHANGED <<pc, node, removal>>

-----------------------------------------------------------------------------
(* Queries.                                                                *)

\* the first tuple that is not less than the key; the walk goes on with a node
\* and what was found so far
zset_seekge(key) ==
    LET walk[at \in (Names \cup {Null}) \X (Names \cup {Null})] ==
            IF at[1] = Null THEN at[2]
            ELSE IF zless(Key(at[1]), key) THEN walk[<<tree[at[1]].kid["right"], at[2]>>]
            ELSE walk[<<tree[at[1]].kid["left"], at[1]>>]
    IN  walk[<<root, Null>>]

\* (mutation) a node on the right of its parent is not counted
RankFromParent(n, s) == Aux(tree, tree[n].kid[Other(s)]).cnt

\* the difference in rank between a node and its parent, of which it is the
\* child on side s
RankFrom(n, s) == Aux(tree, tree[n].kid[Other(s)]).cnt + 1

\* the node offset places after n (before it, if negative), or Null; pos is
\* the rank of the current node relative to the first
avl_offset(n, offset) ==
    LET walk[at \in Names \X Int] ==
            LET m   == at[1]
                pos == at[2]
                l == tree[m].kid["left"]
                r == tree[m].kid["right"]
                p == tree[m].parent
            IN  IF pos = offset THEN m
                ELSE IF pos < offset /\ pos + Aux(tree, r).cnt >= offset
                THEN walk[<<r, pos + RankFrom(r, "right")>>]
                ELSE IF pos > offset /\ pos - Aux(tree, l).cnt <= offset
                THEN walk[<<l, pos - RankFrom(l, "left")>>]
                ELSE IF p = Null THEN Null
                ELSE IF tree[p].kid["right"] = m THEN walk[<<p, pos - RankFrom(m, "right")>>]
                ELSE walk[<<p, pos + RankFrom(m, "left")>>]
    IN  walk[<<n, 0>>]

znode_offset(n, offset) == IF n = Null THEN Null ELSE avl_offset(n, offset)

\* (mutation) limit counts members
PerMemberOne == 1

\* each member that do_zquery() returns takes two places of the array
PerMember == 2

\* the members that do_zquery() returns, in order, from a node on and with the
\* size that the array has
do_zquery(key, offset, limit) ==
    LET out[at \in (Names \cup {Null}) \X Nat] ==
            IF at[1] = Null \/ at[2] >= limit THEN <<>>
            ELSE <<at[1]>> \o out[<<znode_offset(at[1], 1), at[2] + PerMember>>]
    IN  out[<<znode_offset(zset_seekge(key), offset), 0>>]

-----------------------------------------------------------------------------
Continue == avl_fix \/ SwapWithVictim \/ Reinsert \/ znode_del

Next ==
    \/ \E n \in Names : zset_delete(n) \/ \E s \in Scores : zset_insert(n, s)
    \/ zset_clear
    \/ Continue

Spec == Init /\ [][Next]_vars

\* a call that was made runs to its end
FairSpec == Spec /\ WF_vars(Continue)

-----------------------------------------------------------------------------
(* Properties.                                                             *)

\* Every variable stays within the values its C++ counterpart can take; in
\* particular avl_fix() always has a node to work on.
TypeOK ==
    /\ root \in Names \cup {Null} /\ tree \in [Names -> AVLNode]
    /\ hmap \in SUBSET Names /\ score \in [Names -> Scores \cup {Null}]
    /\ pc \in {"idle", "insert", "remove", "removed", "detached"}
    /\ node \in IF pc \in {"insert", "remove"} THEN Names ELSE {Null}
    /\ target \in Names \cup {Null} /\ victim \in Names \cup {Null}
    /\ rescore \in Scores \cup {Null}

\* Between calls the two indexes hold the same nodes, all allocated and none
\* twice, and the pointers of the tree agree in both directions: no rotation and
\* no swap with the successor loses a subtree, and none leaves a pointer to a
\* node that was freed. The tree is ordered by (score, name), whatever scores
\* were changed. All variables have their types, during a call too.
IndexesAgree ==
    /\ TypeOK
    /\ pc = "idle" =>
        /\ Subtree(root) = hmap
        /\ hmap = {n \in Names : score[n] # Null}
        /\ root # Null => tree[root].parent = Null
        /\ \A n \in hmap, s \in Sides :
              LET c == tree[n].kid[s]
              IN  c # Null => tree[c].parent = n /\ tree[n].kid[Other(s)] # c
        /\ \A n \in hmap :
              /\ \A m \in Subtree(tree[n].kid["left"]) : zless(Key(m), Key(n))
              /\ \A m \in Subtree(tree[n].kid["right"]) : zless(Key(n), Key(m))

\* the length of the longest path down from n
Height(n) ==
    LET walk[m \in Names \cup {Null}] ==
            IF m = Null THEN 0 ELSE 1 + Max({walk[tree[m].kid[s]] : s \in Sides})
    IN  walk[n]

\* height and cnt, which every decision of the tree relies on, are those of the
\* subtree.
AuxiliaryExact ==
    pc = "idle" =>
        \A n \in hmap :
            /\ tree[n].aux.height = Height(n)
            /\ tree[n].aux.cnt = Cardinality(Subtree(n))

Lean(n, most) == \A s \in Sides :
    avl_height(tree, tree[n].kid[s]) <= avl_height(tree, tree[n].kid[Other(s)]) + most

\* the node that avl_remove() has taken out of the tree; its pointers are stale
TakenOut == IF pc = "detached" THEN target ELSE victim

\* Siblings differ in height by 1 at most, at every step and everywhere but at
\* the node avl_fix() works on (and the one that was taken out); there they
\* differ by 2 at most. avl_fix() repairs a difference of exactly 2 and would
\* pass over a greater one.
Balanced ==
    /\ \A n \in Names : score[n] # Null /\ n \notin {node, TakenOut} => Lean(n, 1)
    /\ node # Null => Lean(node, 2)

Rank(n) == Cardinality({m \in hmap : zless(Key(m), Key(n))})

\* the node at a rank, or Null
AtRank(i) == IF \E n \in hmap : Rank(n) = i
             THEN CHOOSE n \in hmap : Rank(n) = i ELSE Null

Offsets == -(Cardinality(Names) + 1) .. Cardinality(Names) + 1

\* avl_offset() finds the node at the given distance in either direction, and
\* none beyond the ends, from wherever it starts.
OffsetExact ==
    pc = "idle" =>
        \A n \in hmap, offset \in Offsets : avl_offset(n, offset) = AtRank(Rank(n) + offset)

\* zquery returns the members from the first that is not less than the key,
\* moved by the offset, in order, as many as half the limit (an odd one rounded
\* up), and none when the offset leaves the set.
QueryExact ==
    pc = "idle" =>
        \A n \in Names, s \in Scores, offset \in {-1, 0, 1}, limit \in 0 .. 5 :
            LET less == {m \in hmap : zless(Key(m), <<s, n>>)}
                from == Cardinality(less) + offset
                some == less # hmap /\ from >= 0
                left == IF some THEN Max({0, Cardinality(hmap) - from}) ELSE 0
            IN  do_zquery(<<s, n>>, offset, limit) =
                    [i \in 1 .. Min({left, (limit + 1) \div 2}) |-> AtRank(from + i - 1)]

\* The loop of avl_fix() ends: every call returns.
EveryCallReturns == []<>(pc = "idle")

=============================================================================
