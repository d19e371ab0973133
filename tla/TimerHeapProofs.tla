-------------------------- MODULE TimerHeapProofs ---------------------------
(***************************************************************************)
(* Proofs about the timer heap, for every number of entries and values.    *)
(* The invariant says, for every point of the sift loops, what they have   *)
(* still to repair: only the edges at the hole may be out of order, and    *)
(* only the item of the hole may not know its slot.                        *)
(***************************************************************************)
EXTENDS TimerHeap, FiniteSetTheorems, WellFoundedInduction, TLAPS

\* Where the loops are: what the control state says of the other locals.
Control ==
    /\ pc = "idle" <=> ent = None
    /\ pc \in {"idle", "pop"} => expire_at = NoTtl
    /\ InSift => hole \in Item /\ pos < size
    /\ pc = "down" => /\ len = (IF Removing THEN size - 1 ELSE size)
                      /\ old_pos <= pos
                      /\ pos < len \/ (len = 0 /\ ~fixing)
                      /\ ~fixing => old_pos = 0
    /\ pc = "up" => pos \in Used
    /\ Removing => size > 0 /\ Full[size - 1].ref = ent

\* Every entry has one item at most, and every item but the one in the hole
\* is where its entry's index says.
Refs ==
    /\ \A i, j \in 0 .. size - 1 : Full[i].ref = Full[j].ref => i = j
    /\ \A i \in Used : heap_idx[Full[i].ref] = i \/ (InSift /\ i = pos)
    /\ \A e \in Entries :
          heap_idx[e] # NoPos => \E i \in 0 .. size - 1 : Full[i].ref = e

Edges == {i \in Used : i > 0}
Ordered(i) == h[Parent(i)].val <= h[i].val

\* The edges away from the hole are in order; the hole's children are not less
\* than its parent; a loop that sinks has left a lesser item above the hole, a
\* loop that rises has greater ones below it.
Order ==
    /\ ~InSift => \A i \in Edges : Ordered(i)
    /\ InSift =>
          /\ \A i \in Edges : i # pos /\ Parent(i) # pos => Ordered(i)
          /\ \A i \in Edges :
                pos > 0 /\ Parent(i) = pos => h[Parent(pos)].val <= h[i].val
    /\ pc = "down" /\ pos > old_pos => h[Parent(pos)].val <= hole.val
    /\ pc = "up" => \A i \in Edges : Parent(i) = pos => hole.val <= h[i].val

Inv == TypeOK /\ Control /\ Refs /\ Order

-----------------------------------------------------------------------------
(* Arithmetic of the tree.                                                 *)

LEMMA ItemVal == \A t \in Item : t.val \in Nat /\ t.ref \in Entries
BY TimerHeapAssumption DEF Item

LEMMA ParentRange ==
    ASSUME NEW n \in Int, NEW i \in 1 .. n
    PROVE  Parent(i) \in 0 .. n - 1 /\ Parent(i) < i
BY DEF Parent

LEMMA ParentChild ==
    ASSUME NEW p \in Nat, NEW i \in Nat, i > 0
    PROVE  Parent(i) = p <=> i = Left(p) \/ i = Right(p)
BY DEF Parent, Left, Right

-----------------------------------------------------------------------------
(* The invariant holds initially and is preserved by every action.         *)

LEMMA InitInv == Init => Inv
<1> SUFFICES ASSUME Init PROVE Inv
  OBVIOUS
<1> USE DEF Init, NoPos, NoTtl
<1>0. 0 .. size - 1 = {} /\ h \in [{} -> Item]
  OBVIOUS
<1>1. TypeOK
  BY <1>0 DEF TypeOK
<1>2. Used = {} /\ ~InSift /\ Full = h /\ ~Removing
  BY DEF Used, InSift, Full, Removing
<1>3. Control /\ Refs /\ Order
  BY <1>2 DEF Control, Refs, Order, Edges, Used, InSift
<1> QED
  BY <1>1, <1>3 DEF Inv

LEMMA UpsertInv ==
    ASSUME Inv, NEW e \in Entries, NEW val \in Vals, heap_upsert(e, val)
    PROVE  Inv'
<1> DEFINE t == [ref |-> e, val |-> val]
           p == heap_idx[e]
<1> USE TimerHeapAssumption
<1>1. /\ pc = "idle" /\ ~InSift /\ ~Removing /\ Full = h /\ Used = 0 .. size - 1
      /\ size \in Nat /\ h \in [0 .. size - 1 -> Item] /\ t \in Item
      /\ heap_idx \in [Entries -> Nat \cup {NoPos}]
  BY DEF heap_upsert, Inv, TypeOK, Control, InSift, Removing, Full, Used, Item
<1>2. /\ ent' = e /\ expire_at' = val /\ ~Removing' /\ InSift'
      /\ Full' = [h' EXCEPT ![pos'] = hole'] /\ heap_idx' = heap_idx
      /\ Used' = 0 .. size' - 1
  BY DEF heap_upsert, SiftDown, SiftUp, Removing, InSift, Full, Placed, Used, NoTtl
<1>3. CASE p \in 0 .. size - 1
  <2>1. /\ h' = [h EXCEPT ![p] = t] /\ hole' = t /\ pos' = p /\ old_pos' = p
        /\ len' = size /\ size' = size /\ fixing' = TRUE /\ pc' = "down"
    BY <1>1, <1>3 DEF heap_upsert, SiftDown
  <2>2. h[p].ref = e
    BY <1>1, <1>3 DEF Inv, Refs, NoPos
  <2>3. Full' = [h EXCEPT ![p] = t] /\ \A i \in 0 .. size - 1 : Full'[i].ref = h[i].ref
    BY <1>1, <1>2, <1>3, <2>1, <2>2 DEF Item
  <2>4. TypeOK'
    BY <1>1, <1>2, <1>3, <2>1 DEF TypeOK, Inv, Item
  <2>5. Control'
    BY <1>1, <1>2, <1>3, <2>1 DEF Control
  <2>6. Refs'
    BY <1>1, <1>2, <1>3, <2>1, <2>3 DEF Refs, Inv
  <2>7. Order'
    <3>1. \A i \in 0 .. size - 1 : i # p => h'[i] = h[i]
      BY <1>1, <2>1
    <3>2. \A i \in 0 .. size - 1 : h[i].val \in Nat
      BY <1>1 DEF Item
    <3>3. Edges' = Edges /\ \A i \in Edges : Ordered(i)
      BY <1>1, <1>2, <2>1 DEF Inv, Order, Edges
    <3>4. \A i \in Edges : i \in 1 .. size - 1 /\ Parent(i) \in 0 .. size - 1
      <4>1. Edges = 1 .. size - 1
        BY <1>1 DEF Edges
      <4> QED
        BY <1>1, <4>1, ParentRange
    <3>5. \A i \in Edges : i # p /\ Parent(i) # p => Ordered(i)'
      BY <3>1, <3>3, <3>4 DEF Ordered
    <3>6. ASSUME NEW i \in Edges, p > 0, Parent(i) = p
          PROVE  h'[Parent(p)].val <= h'[i].val
      <4>1. p \in Edges /\ Parent(p) # p /\ i # p
        BY <1>1, <1>3, <3>4, <3>6, ParentRange DEF Edges
      <4>2. h'[i] = h[i] /\ h'[Parent(p)] = h[Parent(p)]
        BY <3>1, <3>4, <4>1
      <4> QED
        BY <3>2, <3>3, <3>4, <3>6, <4>1, <4>2 DEF Ordered
    <3> QED
      BY <1>2, <1>3, <2>1, <3>3, <3>5, <3>6 DEF Order
  <2> QED
    BY <2>4, <2>5, <2>6, <2>7 DEF Inv
<1>4. CASE p \notin 0 .. size - 1
  <2>1. /\ h' = push_back(t) /\ hole' = push_back(t)[size] /\ pos' = size
        /\ old_pos' = 0 /\ len' = 0 /\ fixing' = FALSE /\ pc' = "up" /\ size' = size + 1
    BY <1>1, <1>4 DEF heap_upsert, SiftUp
  <2>2. /\ h' \in [0 .. size -> Item] /\ hole' = t /\ h'[size] = t
        /\ \A i \in 0 .. size - 1 : h'[i] = h[i]
    BY <1>1, <2>1 DEF push_back
  <2>3. Full' = h'
    BY <1>1, <1>2, <2>1, <2>2
  <2>0. 0 .. size' - 1 = 0 .. size /\ h' \in [0 .. size' - 1 -> Item] /\ size' \in Nat
    BY <1>1, <2>1, <2>2
  <2>4. TypeOK'
    BY <1>1, <1>2, <2>0, <2>1, <2>2 DEF TypeOK, Inv
  <2>5. Control'
    BY <1>1, <1>2, <2>1, <2>2 DEF Control
  <2>6. p = NoPos /\ \A i \in 0 .. size - 1 : h[i].ref # e
    BY <1>1, <1>4 DEF Inv, Refs
  <2>7. Refs'
    <3>1. \A i, j \in 0 .. size : h'[i].ref = h'[j].ref => i = j
      BY <1>1, <2>2, <2>6 DEF Refs, Inv
    <3>2. \A i \in 0 .. size : heap_idx[h'[i].ref] = i \/ i = size
      BY <1>1, <2>2 DEF Refs, Inv
    <3>3. \A f \in Entries : heap_idx[f] # NoPos => \E i \in 0 .. size : h'[i].ref = f
      BY <1>1, <2>2 DEF Refs, Inv
    <3>4. Used' = 0 .. size /\ heap_idx' = heap_idx /\ InSift'
      BY <1>2, <2>0
    <3> QED
      BY <2>0, <2>1, <2>3, <3>1, <3>2, <3>3, <3>4 DEF Refs
  <2>8. Order'
    <3>1. \A i \in Edges' : i \in 1 .. size /\ Parent(i) \in 0 .. size - 1
      <4>1. Edges' = 1 .. size
        BY <1>1, <1>2, <2>1 DEF Edges
      <4> QED
        BY <1>1, <4>1, ParentRange
    <3>2. \A i \in Edges' : i # size => i \in Edges /\ Ordered(i)
      BY <1>1, <1>2, <2>1 DEF Inv, Order, Edges
    <3> QED
      BY <1>1, <1>2, <2>1, <2>2, <3>1, <3>2 DEF Order, Ordered
  <2> QED
    BY <2>4, <2>5, <2>7, <2>8 DEF Inv
<1> QED
  BY <1>3, <1>4

LEMMA RemoveInv ==
    ASSUME Inv, NEW e \in Entries, heap_remove(e)
    PROVE  Inv'
<1> DEFINE p == heap_idx[e]
           sw == Swap(p, size - 1)
<1> USE TimerHeapAssumption
<1>1. /\ pc = "idle" /\ ~InSift /\ ~Removing /\ Full = h /\ Used = 0 .. size - 1
      /\ size \in Nat /\ h \in [0 .. size - 1 -> Item]
      /\ heap_idx \in [Entries -> Nat \cup {NoPos}] /\ p # NoPos
  BY DEF heap_remove, Inv, TypeOK, Control, InSift, Removing, Full, Used
<1>2. p \in 0 .. size - 1 /\ h[p].ref = e
  <2>1. PICK i \in 0 .. size - 1 : h[i].ref = e
    BY <1>1 DEF Inv, Refs
  <2>2. heap_idx[h[i].ref] = i
    BY <1>1 DEF Inv, Refs
  <2> QED
    BY <2>1, <2>2
<1>0. \/ p = 0 /\ SiftDown(sw, size - 1, p, FALSE)
      \/ p > 0 /\ p < size - 1 /\ SiftDown(sw, size - 1, p, TRUE)
      \/ /\ p > 0 /\ p >= size - 1
         /\ pc' = "pop"
         /\ UNCHANGED <<h, hole, pos, len, old_pos, fixing>>
  BY DEF heap_remove
<1>3. /\ ent' = e /\ expire_at' = NoTtl /\ Removing' /\ size' = size
      /\ heap_idx' = heap_idx /\ Used' = 0 .. size - 2 /\ e # None
  BY <1>1 DEF heap_remove, Removing, Used
<1>4. CASE p = 0 \/ p < size - 1
  <2>1. /\ h' = sw /\ hole' = sw[p] /\ pos' = p /\ old_pos' = p /\ len' = size - 1
        /\ fixing' \in BOOLEAN /\ pc' = "down" /\ (fixing' => p < size - 1)
        /\ (~fixing' => p = 0)
    <3>1. CASE p = 0 /\ SiftDown(sw, size - 1, p, FALSE)
      BY <3>1 DEF SiftDown
    <3>2. CASE p > 0 /\ p < size - 1 /\ SiftDown(sw, size - 1, p, TRUE)
      BY <3>2 DEF SiftDown
    <3>3. ~(p > 0 /\ p >= size - 1)
      BY <1>1, <1>2, <1>4
    <3> QED
      BY <1>0, <3>1, <3>2, <3>3, Zenon
  <2>2. /\ sw \in [0 .. size - 1 -> Item] /\ sw[p] = h[size - 1] /\ sw[size - 1] = h[p]
        /\ \A i \in 0 .. size - 1 : i # p /\ i # size - 1 => sw[i] = h[i]
    BY <1>1, <1>2 DEF Swap
  <2>3. InSift' /\ Full' = sw
    BY <2>1, <2>2, <1>2 DEF InSift, Full, Placed
  <2>4. TypeOK'
    BY <1>1, <1>2, <1>3, <2>1, <2>2 DEF TypeOK, Inv
  <2>5. Control'
    BY <1>1, <1>2, <1>3, <2>1, <2>2, <2>3 DEF Control
  <2>6. Refs'
    <3>1. \A i, j \in 0 .. size - 1 : h[i].ref = h[j].ref => i = j
      BY <1>1 DEF Inv, Refs
    <3>2. \A i, j \in 0 .. size - 1 : sw[i].ref = sw[j].ref => i = j
      BY <1>1, <1>2, <2>2, <3>1
    <3>3. \A i \in 0 .. size - 2 : heap_idx[sw[i].ref] = i \/ i = p
      BY <1>1, <1>2, <2>2 DEF Inv, Refs
    <3>4. ASSUME NEW f \in Entries, heap_idx[f] # NoPos
          PROVE  \E i \in 0 .. size - 1 : sw[i].ref = f
      <4>1. PICK i \in 0 .. size - 1 : h[i].ref = f
        BY <1>1, <3>4 DEF Inv, Refs
      <4> QED
        BY <1>1, <1>2, <2>2, <4>1
    <3> QED
      BY <1>3, <2>1, <2>3, <3>2, <3>3, <3>4 DEF Refs
  <2>7. Order'
    <3>1. Edges = 1 .. size - 1 /\ Edges' = 1 .. size - 2
      BY <1>1, <1>3 DEF Edges
    <3>2. \A i \in 1 .. size - 1 : Ordered(i)
      BY <1>1, <3>1 DEF Inv, Order
    <3>3. \A i \in 0 .. size - 2 : i # p => h'[i] = h[i]
      BY <1>1, <2>1, <2>2
    <3>4. \A i \in 0 .. size - 1 : h[i].val \in Nat
      BY <1>1 DEF Item
    <3>5. \A i \in 1 .. size - 2 : Parent(i) \in 0 .. size - 3 /\ Parent(i) < i
      BY <1>1, ParentRange
    <3>6. \A i \in 1 .. size - 2 : i # p /\ Parent(i) # p => Ordered(i)'
      BY <1>1, <3>2, <3>3, <3>5 DEF Ordered
    <3>7. ASSUME NEW i \in 1 .. size - 2, p > 0, Parent(i) = p
          PROVE  h'[Parent(p)].val <= h'[i].val
      <4>1. p \in 1 .. size - 2 /\ Parent(p) \in 0 .. size - 3 /\ Parent(p) # p /\ i # p
        BY <1>1, <1>2, <3>5, <3>7
      <4>2. h'[i] = h[i] /\ h'[Parent(p)] = h[Parent(p)]
        BY <1>1, <3>3, <4>1
      <4>3. h[Parent(p)].val <= h[p].val /\ h[p].val <= h[i].val
        BY <1>1, <3>2, <3>7, <4>1 DEF Ordered
      <4> QED
        BY <1>1, <3>4, <4>1, <4>2, <4>3
    <3> QED
      BY <1>2, <2>1, <2>3, <3>1, <3>6, <3>7 DEF Order
  <2> QED
    BY <2>4, <2>5, <2>6, <2>7 DEF Inv
<1>5. CASE ~(p = 0 \/ p < size - 1)
  <2>1. /\ pc' = "pop" /\ p = size - 1 /\ size > 1
        /\ UNCHANGED <<h, hole, pos, len, old_pos, fixing>>
    <3>1. pc' = "pop" /\ UNCHANGED <<h, hole, pos, len, old_pos, fixing>>
      BY <1>0, <1>5, Zenon
    <3>2. p = size - 1 /\ size > 1
      BY <1>1, <1>2, <1>5
    <3> QED
      BY <3>1, <3>2
  <2>2. ~InSift' /\ Full' = h
    BY <2>1 DEF InSift, Full
  <2>3. TypeOK'
    BY <1>1, <1>3, <2>1 DEF TypeOK, Inv
  <2>4. Control'
    BY <1>1, <1>2, <1>3, <2>1, <2>2 DEF Control
  <2>5. Refs'
    BY <1>1, <1>3, <2>1, <2>2 DEF Refs, Inv
  <2>6. Order'
    BY <1>1, <1>3, <2>1, <2>2 DEF Order, Inv, Edges, Ordered
  <2> QED
    BY <2>3, <2>4, <2>5, <2>6 DEF Inv
<1> QED
  BY <1>4, <1>5

LEMMA PopBackInv == ASSUME Inv, PopBack PROVE Inv'
<1> USE TimerHeapAssumption
<1>1. /\ pc = "pop" /\ Removing /\ ~InSift /\ Full = h /\ ent \in Entries
      /\ size \in Nat /\ size > 0 /\ h \in [0 .. size - 1 -> Item]
      /\ heap_idx \in [Entries -> Nat \cup {NoPos}] /\ h[size - 1].ref = ent
      /\ Used = 0 .. size - 2
  BY DEF PopBack, Inv, TypeOK, Control, InSift, Removing, Full, Used
<1>2. /\ pc' = "idle" /\ ent' = None /\ expire_at' = NoTtl /\ size' = size - 1
      /\ heap_idx' = [heap_idx EXCEPT ![ent] = NoPos]
      /\ UNCHANGED <<hole, pos, len, old_pos, fixing>>
  BY DEF PopBack
<1>3. 0 .. size' - 1 = 0 .. size - 2 /\ size' \in Nat
  BY <1>1, <1>2
<1>4. h' \in [0 .. size - 2 -> Item] /\ \A i \in 0 .. size - 2 : h'[i] = h[i]
  BY <1>1 DEF PopBack, pop_back
<1>5. ~InSift' /\ Full' = h' /\ ~Removing' /\ Used' = 0 .. size - 2
  BY <1>2, <1>3 DEF InSift, Full, Removing, Used
<1>6. TypeOK'
  BY <1>1, <1>2, <1>3, <1>4 DEF TypeOK, Inv
<1>7. Control'
  BY <1>2, <1>5 DEF Control, InSift
<1>8. Refs'
  <2>1. \A i \in 0 .. size - 2 : h[i].ref # ent /\ heap_idx[h[i].ref] = i
    BY <1>1 DEF Inv, Refs
  <2>2. \A i \in 0 .. size - 2 : heap_idx'[h'[i].ref] = i
    BY <1>1, <1>2, <1>4, <2>1 DEF Item
  <2>3. \A i, j \in 0 .. size - 2 : h'[i].ref = h'[j].ref => i = j
    BY <1>1, <1>4 DEF Inv, Refs
  <2>4. ASSUME NEW f \in Entries, heap_idx'[f] # NoPos
        PROVE  \E i \in 0 .. size - 2 : h'[i].ref = f
    <3>1. f # ent /\ heap_idx[f] # NoPos
      BY <1>1, <1>2, <2>4
    <3>2. PICK i \in 0 .. size - 1 : h[i].ref = f
      BY <1>1, <3>1 DEF Inv, Refs
    <3> QED
      BY <1>1, <1>4, <3>1, <3>2
  <2> QED
    BY <1>3, <1>5, <2>2, <2>3, <2>4 DEF Refs
<1>9. Order'
  <2>1. Edges = 1 .. size - 2 /\ Edges' = 1 .. size - 2
    BY <1>1, <1>5 DEF Edges
  <2>2. \A i \in 1 .. size - 2 : Ordered(i)
    BY <1>1, <2>1 DEF Inv, Order
  <2>3. \A i \in 1 .. size - 2 : Parent(i) \in 0 .. size - 3
    BY <1>1, ParentRange
  <2>4. \A i \in 1 .. size - 2 : Ordered(i)'
    BY <1>1, <1>4, <2>2, <2>3 DEF Ordered
  <2> QED
    BY <1>2, <1>5, <2>1, <2>4 DEF Order
<1> QED
  BY <1>6, <1>7, <1>8, <1>9 DEF Inv

\* A turn of either loop exchanges the hole with another slot.
LEMMA FillRefs ==
    ASSUME Inv, InSift, NEW from \in Used, from # pos, pos \in Used, Fill(from)
    PROVE  /\ TypeOK' /\ Refs' /\ InSift' /\ Used' = Used /\ (Removing' <=> Removing)
           /\ h' \in [0 .. size - 1 -> Item] /\ h'[pos] = h[from]
           /\ \A i \in 0 .. size - 1 : i # pos => h'[i] = h[i]
           /\ Removing => Full'[size - 1].ref = ent
<1> USE TimerHeapAssumption
<1>1. /\ size \in Nat /\ h \in [0 .. size - 1 -> Item] /\ hole \in Item
      /\ heap_idx \in [Entries -> Nat \cup {NoPos}]
      /\ Used = 0 .. (IF Removing THEN size - 2 ELSE size - 1)
      /\ from \in 0 .. size - 1 /\ pos \in 0 .. size - 1 /\ pos \in Nat /\ from \in Nat
      /\ Removing => from # size - 1 /\ pos # size - 1 /\ size > 0
  BY DEF Inv, TypeOK, Control, Used
<1>2. /\ h' = [h EXCEPT ![pos] = h[from]] /\ pos' = from
      /\ heap_idx' = [heap_idx EXCEPT ![h[from].ref] = pos]
      /\ UNCHANGED <<size, pc, hole, len, old_pos, fixing, ent, expire_at>>
  BY DEF Fill, call
<1>3. InSift' /\ Used' = Used /\ (Removing' <=> Removing)
  BY <1>2 DEF InSift, Used, Removing
<1>4. /\ Full[pos] = hole /\ \A i \in 0 .. size - 1 : i # pos => Full[i] = h[i]
      /\ Full = [h EXCEPT ![pos] = hole]
  BY <1>1 DEF Full, Placed
<1>5. /\ h' \in [0 .. size - 1 -> Item] /\ h'[pos] = h[from]
      /\ \A i \in 0 .. size - 1 : i # pos => h'[i] = h[i]
  BY <1>1, <1>2
<1>6. Full' = [h' EXCEPT ![from] = hole]
  BY <1>2, <1>3 DEF Full, Placed
<1>7. /\ Full'[from] = hole /\ Full'[pos] = h[from]
      /\ \A i \in 0 .. size - 1 : i # pos /\ i # from => Full'[i] = h[i]
  BY <1>1, <1>5, <1>6
<1>8. TypeOK'
  <2>1. h[from].ref \in Entries
    BY <1>1 DEF Item
  <2>2. heap_idx' \in [Entries -> Nat \cup {NoPos}]
    BY <1>1, <1>2, <2>1
  <2> QED
    BY <1>1, <1>2, <1>5, <2>2 DEF TypeOK, Inv
<1>9. Refs'
  <2>1. \A i, j \in 0 .. size - 1 : Full[i].ref = Full[j].ref => i = j
    BY DEF Inv, Refs
  <2>2. \A i, j \in 0 .. size - 1 : Full'[i].ref = Full'[j].ref => i = j
    BY <1>1, <1>4, <1>7, <2>1
  <2>3. ASSUME NEW i \in Used, i # from
        PROVE  heap_idx'[Full'[i].ref] = i
    <3>1. i \in 0 .. size - 1
      BY <1>1
    <3>2. CASE i = pos
      BY <1>1, <1>2, <1>7, <3>2 DEF Item
    <3>3. CASE i # pos
      <4>1. Full'[i] = h[i] /\ Full[i] = h[i] /\ Full[from] = h[from]
        BY <1>1, <1>4, <1>7, <2>3, <3>1, <3>3
      <4>2. h[i].ref # h[from].ref /\ h[i].ref \in Entries
        BY <1>1, <2>1, <2>3, <3>1, <4>1 DEF Item
      <4>3. heap_idx[h[i].ref] = i
        BY <3>3, <4>1 DEF Inv, Refs
      <4> QED
        BY <1>1, <1>2, <4>1, <4>2, <4>3
    <3> QED
      BY <3>2, <3>3
  <2>4. ASSUME NEW f \in Entries, heap_idx'[f] # NoPos
        PROVE  \E i \in 0 .. size - 1 : Full'[i].ref = f
    <3>1. CASE f = h[from].ref
      BY <1>1, <1>7, <3>1
    <3>2. CASE f # h[from].ref
      <4>1. heap_idx[f] # NoPos
        BY <1>1, <1>2, <2>4, <3>2
      <4>2. PICK i \in 0 .. size - 1 : Full[i].ref = f
        BY <4>1 DEF Inv, Refs
      <4> QED
        BY <1>1, <1>4, <1>7, <3>2, <4>2
    <3> QED
      BY <3>1, <3>2
  <2> QED
    BY <1>2, <1>3, <2>2, <2>3, <2>4 DEF Refs
<1>10. Removing => Full'[size - 1].ref = ent
  BY <1>1, <1>4, <1>7 DEF Inv, Control
<1> QED
  BY <1>3, <1>5, <1>8, <1>9, <1>10

LEMMA ChildFacts ==
    ASSUME TypeOK, pc = "down", Control, Sinks
    PROVE  /\ Child \in Nat /\ Child < len /\ Child > pos /\ Parent(Child) = pos
           /\ len \in Nat /\ pos < len
           /\ Used = 0 .. len - 1 /\ len <= size /\ hole \in Item
           /\ hole.val > h[Child].val
           /\ \A i \in 1 .. len - 1 : Parent(i) = pos => h[Child].val <= h[i].val
<1> USE TimerHeapAssumption
<1>1. /\ pos \in Nat /\ len \in Nat /\ size \in Nat /\ hole \in Item
      /\ Left(pos) < len /\ hole.val > h[Child].val /\ h \in [0 .. size - 1 -> Item]
  BY DEF TypeOK, Control, InSift, Sinks
<1>2. /\ Left(pos) \in Nat /\ Right(pos) \in Nat /\ Left(pos) > pos
      /\ Right(pos) = Left(pos) + 1
  BY <1>1 DEF Left, Right
<1>3. /\ len = (IF Removing THEN size - 1 ELSE size) /\ pos < len
      /\ Used = 0 .. len - 1 /\ len <= size
  BY <1>1, <1>2 DEF Control, Used
<1>4. \A i \in 0 .. len - 1 : h[i].val \in Nat
  BY <1>1, <1>3, ItemVal
<1>5. Child \in {Left(pos), Right(pos)} /\ Child \in Nat /\ Child < len /\ Child > pos
  BY <1>1, <1>2 DEF Child
<1>6. Parent(Child) = pos
  BY <1>1, <1>5, ParentChild
<1>7. ASSUME NEW i \in 1 .. len - 1, Parent(i) = pos
      PROVE  h[Child].val <= h[i].val
  <2>1. i = Left(pos) \/ i = Right(pos)
    BY <1>1, <1>7, ParentChild
  <2>2. h[i].val \in Nat /\ h[Left(pos)].val \in Nat
    BY <1>1, <1>2, <1>4
  <2>3. CASE i = Left(pos)
    <3>1. CASE Right(pos) < len /\ h[Left(pos)].val > h[Right(pos)].val
      <4>1. Child = Right(pos) /\ h[Right(pos)].val \in Nat
        BY <1>1, <1>2, <1>4, <3>1 DEF Child
      <4> QED
        BY <2>2, <2>3, <3>1, <4>1
    <3>2. CASE ~(Right(pos) < len /\ h[Left(pos)].val > h[Right(pos)].val)
      BY <2>2, <2>3, <3>2 DEF Child
    <3> QED
      BY <3>1, <3>2
  <2>4. CASE i = Right(pos)
    <3>1. CASE h[Left(pos)].val > h[Right(pos)].val
      BY <1>1, <1>2, <2>2, <2>4, <3>1 DEF Child
    <3>2. CASE ~(h[Left(pos)].val > h[Right(pos)].val)
      <4>1. Child = Left(pos)
        BY <3>2 DEF Child
      <4> QED
        BY <2>2, <2>4, <3>2, <4>1
    <3> QED
      BY <3>1, <3>2
  <2> QED
    BY <2>1, <2>3, <2>4
<1> QED
  BY <1>1, <1>3, <1>5, <1>6, <1>7

LEMMA SiftDownStepInv == ASSUME Inv, SiftDownStep PROVE Inv'
<1> USE TimerHeapAssumption
<1> DEFINE c == Child
<1>1. /\ pc = "down" /\ InSift /\ Sinks /\ Fill(c) /\ pos \in Nat /\ size \in Nat
      /\ h \in [0 .. size - 1 -> Item]
  BY DEF SiftDownStep, InSift, Inv, TypeOK
<1>2. /\ c \in Nat /\ c < len /\ c > pos /\ Parent(c) = pos
      /\ len \in Nat /\ pos < len
      /\ Used = 0 .. len - 1 /\ len <= size /\ hole \in Item
      /\ hole.val > h[c].val
      /\ \A i \in 1 .. len - 1 : Parent(i) = pos => h[c].val <= h[i].val
  BY <1>1, ChildFacts DEF Inv
<1>3. pos \in Used /\ c \in Used /\ c # pos
  BY <1>1, <1>2
<1> HIDE DEF c
<1>4. /\ TypeOK' /\ Refs' /\ InSift' /\ Used' = Used /\ (Removing' <=> Removing)
      /\ h' \in [0 .. size - 1 -> Item] /\ h'[pos] = h[c]
      /\ \A i \in 0 .. size - 1 : i # pos => h'[i] = h[i]
      /\ Removing => Full'[size - 1].ref = ent
  BY <1>1, <1>3, FillRefs
<1>5. pos' = c /\ UNCHANGED <<size, pc, hole, len, old_pos, fixing, ent, expire_at>>
  BY <1>1 DEF Fill, call
<1>6. Control'
  BY <1>1, <1>2, <1>4, <1>5 DEF Inv, Control, TypeOK, InSift
<1>7. Order'
  <2>1. Edges = 1 .. len - 1 /\ Edges' = 1 .. len - 1
    BY <1>2, <1>4 DEF Edges
  <2>2. /\ \A i \in 1 .. len - 1 : i # pos /\ Parent(i) # pos => Ordered(i)
        /\ \A i \in 1 .. len - 1 :
              pos > 0 /\ Parent(i) = pos => h[Parent(pos)].val <= h[i].val
    BY <1>1, <2>1 DEF Inv, Order
  <2>3. \A i \in 1 .. len - 1 : Parent(i) \in 0 .. len - 2 /\ Parent(i) < i
    BY <1>2, ParentRange
  <2>4. \A i \in 0 .. len - 1 : h[i].val \in Nat
    BY <1>1, <1>2, ItemVal
  <2>5. \A i \in 0 .. len - 1 : i # pos => h'[i] = h[i]
    BY <1>1, <1>2, <1>4
  <2>6. ASSUME NEW i \in 1 .. len - 1, i # c, Parent(i) # c
        PROVE  h'[Parent(i)].val <= h'[i].val
    <3>1. CASE i = pos
      <4>1. Parent(pos) # pos /\ h'[Parent(pos)] = h[Parent(pos)] /\ c \in 1 .. len - 1
        BY <1>1, <1>2, <2>3, <2>5, <2>6, <3>1
      <4> QED
        BY <1>1, <1>2, <1>4, <2>2, <2>6, <3>1, <4>1
    <3>2. CASE i # pos /\ Parent(i) = pos
      BY <1>2, <1>4, <2>5, <2>6, <3>2
    <3>3. CASE i # pos /\ Parent(i) # pos
      BY <1>2, <2>2, <2>3, <2>5, <2>6, <3>3 DEF Ordered
    <3> QED
      BY <3>1, <3>2, <3>3
  <2>7. ASSUME NEW i \in 1 .. len - 1, Parent(i) = c
        PROVE  h'[Parent(c)].val <= h'[i].val
    <3>1. i # pos /\ c # pos /\ Ordered(i)
      BY <1>1, <1>2, <2>2, <2>3, <2>7
    <3> QED
      BY <1>1, <1>2, <1>4, <2>4, <2>5, <2>7, <3>1 DEF Ordered
  <2>8. h'[Parent(c)].val <= hole.val
    <3>1. h[c].val \in Nat /\ hole.val \in Nat
      BY <1>2, <2>4, ItemVal
    <3> QED
      BY <1>2, <1>4, <3>1
  <2> QED
    BY <1>1, <1>4, <1>5, <2>1, <2>6, <2>7, <2>8 DEF Order, Ordered
<1> QED
  BY <1>4, <1>6, <1>7 DEF Inv

LEMMA SiftUpStepInv == ASSUME Inv, SiftUpStep PROVE Inv'
<1> DEFINE q == Parent(pos)
<1>1. /\ pc = "up" /\ InSift /\ Fill(q) /\ pos \in Nat /\ size \in Nat
      /\ h \in [0 .. size - 1 -> Item] /\ hole \in Item
      /\ pos > 0 /\ h[q].val > hole.val /\ pos \in Used
  BY DEF SiftUpStep, Rises, InSift, Inv, TypeOK, Control
<1>2. PICK n \in Int : n <= size /\ Used = 0 .. n - 1
  BY <1>1 DEF Used
<1>3. q \in Used /\ q < pos /\ q \in Nat /\ q \in 0 .. n - 1 /\ pos \in 0 .. n - 1 /\ q # pos
  BY <1>1, <1>2, ParentRange
<1> HIDE DEF q
<1>4. /\ TypeOK' /\ Refs' /\ InSift' /\ Used' = Used /\ (Removing' <=> Removing)
      /\ h' \in [0 .. size - 1 -> Item] /\ h'[pos] = h[q]
      /\ \A i \in 0 .. size - 1 : i # pos => h'[i] = h[i]
      /\ Removing => Full'[size - 1].ref = ent
  BY <1>1, <1>3, FillRefs
<1>5. pos' = q /\ UNCHANGED <<size, pc, hole, len, old_pos, fixing, ent, expire_at>>
  BY <1>1 DEF Fill, call
<1>6. Control'
  BY <1>1, <1>2, <1>3, <1>4, <1>5 DEF Inv, Control, TypeOK, InSift
<1>7. Order'
  <2>1. Edges = 1 .. n - 1 /\ Edges' = 1 .. n - 1
    BY <1>2, <1>4 DEF Edges
  <2>2. /\ \A i \in 1 .. n - 1 : i # pos /\ Parent(i) # pos => Ordered(i)
        /\ \A i \in 1 .. n - 1 : Parent(i) = pos => h[q].val <= h[i].val
        /\ \A i \in 1 .. n - 1 : Parent(i) = pos => hole.val <= h[i].val
    BY <1>1, <2>1 DEF Inv, Order, q
  <2>3. \A i \in 1 .. n - 1 : Parent(i) \in 0 .. n - 2 /\ Parent(i) < i
    BY <1>2, ParentRange
  <2>4. hole.val \in Nat /\ \A i \in 0 .. n - 1 : h[i].val \in Nat
    BY <1>1, <1>2, ItemVal
  <2>5. \A i \in 0 .. n - 1 : i # pos => h'[i] = h[i]
    BY <1>1, <1>2, <1>4
  <2>6. Parent(pos) = q
    BY DEF q
  <2>7. ASSUME NEW i \in 1 .. n - 1, i # q, Parent(i) # q
        PROVE  h'[Parent(i)].val <= h'[i].val
    <3>1. CASE Parent(i) = pos
      BY <1>1, <1>4, <2>2, <2>3, <2>5, <3>1
    <3>2. CASE Parent(i) # pos
      <4>1. i # pos
        BY <2>6, <2>7
      <4> QED
        BY <2>2, <2>3, <2>5, <3>2, <4>1 DEF Ordered
    <3> QED
      BY <3>1, <3>2
  <2>8. ASSUME NEW i \in 1 .. n - 1, Parent(i) = q
        PROVE  h[q].val <= h'[i].val
    <3>1. CASE i = pos
      BY <1>3, <1>4, <2>4, <3>1
    <3>2. CASE i # pos
      BY <1>3, <2>2, <2>5, <2>8, <3>2 DEF Ordered
    <3> QED
      BY <3>1, <3>2
  <2>9. ASSUME NEW i \in 1 .. n - 1, Parent(i) = q
        PROVE  hole.val <= h'[i].val
    <3>1. h'[i].val \in Nat
      BY <1>1, <1>2, <1>3, <1>4, <2>4, <2>5
    <3> QED
      BY <1>1, <1>3, <2>4, <2>8, <2>9, <3>1
  <2>10. ASSUME NEW i \in 1 .. n - 1, Parent(i) = q, q > 0
         PROVE  h'[Parent(q)].val <= h'[i].val
    <3>1. q \in 1 .. n - 1 /\ Parent(q) \in 0 .. n - 1 /\ Parent(q) # pos
      BY <1>1, <1>3, <2>3, <2>10
    <3>2. h[Parent(q)].val <= h[q].val
      BY <1>3, <2>2, <3>1 DEF Ordered
    <3>3. h'[Parent(q)] = h[Parent(q)] /\ h'[i].val \in Nat
      BY <1>1, <1>2, <1>3, <1>4, <2>4, <2>5, <3>1
    <3> QED
      BY <1>3, <2>4, <2>8, <2>10, <3>1, <3>2, <3>3
  <2> QED
    BY <1>1, <1>4, <1>5, <2>1, <2>7, <2>9, <2>10 DEF Order, Ordered
<1> QED
  BY <1>4, <1>6, <1>7 DEF Inv

-----------------------------------------------------------------------------
(* The ends of the loops: the hole is filled.                              *)

LEMMA PlaceRefs ==
    ASSUME Inv, InSift, size' = size, Full' = Full, Used' = Used,
           heap_idx' = [heap_idx EXCEPT ![hole.ref] = pos]
    PROVE  Refs' /\ heap_idx' \in [Entries -> Nat \cup {NoPos}]
<1>1. /\ size \in Nat /\ h \in [0 .. size - 1 -> Item] /\ hole \in Item
      /\ heap_idx \in [Entries -> Nat \cup {NoPos}] /\ pos \in 0 .. size - 1 /\ pos \in Nat
      /\ Used \subseteq 0 .. size - 1 /\ hole.ref \in Entries
  BY ItemVal DEF Inv, TypeOK, Control, Used
<1>2. Full \in [0 .. size - 1 -> Item] /\ Full[pos] = hole
  BY <1>1 DEF Full, Placed
<1>3. \A i, j \in 0 .. size - 1 : Full[i].ref = Full[j].ref => i = j
  BY DEF Inv, Refs
<1>4. ASSUME NEW i \in Used PROVE heap_idx'[Full[i].ref] = i
  <2>1. CASE i = pos
    BY <1>1, <1>2, <2>1
  <2>2. CASE i # pos
    <3>1. Full[i].ref # hole.ref /\ Full[i].ref \in Entries
      BY <1>1, <1>2, <1>3, <2>2, ItemVal
    <3>2. heap_idx[Full[i].ref] = i
      BY <2>2 DEF Inv, Refs
    <3> QED
      BY <1>1, <3>1, <3>2
  <2> QED
    BY <2>1, <2>2
<1>5. ASSUME NEW f \in Entries, heap_idx'[f] # NoPos
      PROVE  \E i \in 0 .. size - 1 : Full[i].ref = f
  <2>1. CASE f = hole.ref
    BY <1>1, <1>2, <2>1
  <2>2. CASE f # hole.ref
    BY <1>1, <1>5, <2>2 DEF Inv, Refs
  <2> QED
    BY <2>1, <2>2
<1> QED
  BY <1>1, <1>3, <1>4, <1>5 DEF Refs

LEMMA PlaceOrder ==
    ASSUME Inv, InSift, h' = Placed,
           pos > 0 => h[Parent(pos)].val <= hole.val,
           \A i \in Edges : Parent(i) = pos => hole.val <= h[i].val
    PROVE  /\ h' \in [0 .. size - 1 -> Item]
           /\ \A i \in Edges : h'[Parent(i)].val <= h'[i].val
           /\ \A i \in 0 .. size - 1 : i # pos => h'[i] = h[i]
<1>1. /\ size \in Nat /\ h \in [0 .. size - 1 -> Item] /\ hole \in Item
      /\ pos \in 0 .. size - 1 /\ pos \in Nat
  BY DEF Inv, TypeOK, Control
<1>2. PICK n \in Int : n <= size /\ Used = 0 .. n - 1
  BY <1>1 DEF Used
<1>3. Edges = 1 .. n - 1
  BY <1>2 DEF Edges
<1>4. \A i \in 1 .. n - 1 : Parent(i) \in 0 .. n - 2 /\ Parent(i) < i
  BY <1>2, ParentRange
<1>5. /\ h' \in [0 .. size - 1 -> Item] /\ h'[pos] = hole
      /\ \A i \in 0 .. size - 1 : i # pos => h'[i] = h[i]
  BY <1>1 DEF Placed
<1>6. ASSUME NEW i \in 1 .. n - 1
      PROVE  h'[Parent(i)].val <= h'[i].val
  <2>1. i \in 0 .. size - 1 /\ Parent(i) \in 0 .. size - 1 /\ Parent(i) < i
    BY <1>1, <1>2, <1>4
  <2>2. CASE i = pos
    BY <1>1, <1>5, <2>1, <2>2
  <2>3. CASE Parent(i) = pos
    BY <1>1, <1>3, <1>5, <2>1, <2>3
  <2>4. CASE i # pos /\ Parent(i) # pos
    BY <1>1, <1>3, <1>5, <2>1, <2>4 DEF Inv, Order, Ordered
  <2> QED
    BY <2>2, <2>3, <2>4
<1> QED
  BY <1>3, <1>5, <1>6

\* What Return leaves behind, whichever loop it ends.
LEMMA ReturnInv ==
    ASSUME Inv, InSift, Return, h' = Placed, UNCHANGED size,
           heap_idx' = [heap_idx EXCEPT ![hole.ref] = pos],
           pos > 0 => h[Parent(pos)].val <= hole.val,
           \A i \in Edges : Parent(i) = pos => hole.val <= h[i].val
    PROVE  Inv'
<1> USE TimerHeapAssumption
<1>1. /\ size \in Nat /\ ent \in Entries /\ expire_at \in Vals \cup {NoTtl}
      /\ Full = Placed
  BY DEF Inv, TypeOK, Control, InSift, Full
<1>2. /\ hole' = None /\ pos' = 0 /\ old_pos' = 0 /\ len' = 0 /\ fixing' = FALSE
      /\ \/ Removing /\ pc' = "pop" /\ ent' = ent /\ expire_at' = expire_at
         \/ ~Removing /\ pc' = "idle" /\ ent' = None /\ expire_at' = NoTtl
  BY <1>1 DEF Return, Removing, call
<1>3. ~InSift' /\ (Removing' <=> Removing) /\ Full' = Full /\ Used' = Used
  BY <1>1, <1>2 DEF InSift, Removing, Full, Used
<1>4. Refs' /\ heap_idx' \in [Entries -> Nat \cup {NoPos}]
  BY <1>3, PlaceRefs
<1>5. /\ h' \in [0 .. size - 1 -> Item]
      /\ \A i \in Edges : h'[Parent(i)].val <= h'[i].val
  BY PlaceOrder
<1>6. TypeOK'
  BY <1>1, <1>2, <1>4, <1>5 DEF TypeOK, NoTtl
<1>7. Control'
  BY <1>1, <1>2, <1>3 DEF Control, Inv, Removing, InSift
<1>8. Order'
  BY <1>2, <1>3, <1>5 DEF Order, Ordered, Edges, InSift
<1> QED
  BY <1>4, <1>6, <1>7, <1>8 DEF Inv

LEMMA SiftUpEndInv == ASSUME Inv, SiftUpEnd PROVE Inv'
<1>1. /\ InSift /\ pc = "up" /\ ~Rises /\ pos \in Used /\ pos \in Nat /\ size \in Nat
      /\ h \in [0 .. size - 1 -> Item] /\ hole \in Item
  BY DEF SiftUpEnd, InSift, Inv, TypeOK, Control
<1>2. \A i \in Edges : Parent(i) = pos => hole.val <= h[i].val
  BY <1>1 DEF Inv, Order
<1>3. ASSUME pos > 0 PROVE h[Parent(pos)].val <= hole.val
  <2>1. pos \in 1 .. size - 1
    BY <1>1, <1>3 DEF Used
  <2>2. Parent(pos) \in 0 .. size - 1
    BY <1>1, <2>1, ParentRange
  <2>3. h[Parent(pos)].val \in Nat /\ hole.val \in Nat
    BY <1>1, <2>2, ItemVal
  <2> QED
    BY <1>1, <1>3, <2>3 DEF Rises
<1> QED
  BY <1>1, <1>2, <1>3, ReturnInv DEF SiftUpEnd

LEMMA SiftDownEndInv == ASSUME Inv, SiftDownEnd PROVE Inv'
<1> USE TimerHeapAssumption
<1>1. /\ InSift /\ pc = "down" /\ ~Sinks /\ pos \in Nat /\ size \in Nat /\ len \in Nat
      /\ pos < size /\ old_pos \in Nat /\ old_pos <= pos
      /\ h \in [0 .. size - 1 -> Item] /\ hole \in Item
      /\ len = (IF Removing THEN size - 1 ELSE size)
      /\ (pos < len \/ ~fixing) /\ (~fixing => old_pos = 0)
      /\ heap_idx' = [heap_idx EXCEPT ![hole.ref] = pos] /\ size' = size
  BY DEF SiftDownEnd, InSift, Inv, TypeOK, Control
<1>2. Used = 0 .. len - 1 /\ Edges = 1 .. len - 1 /\ len <= size
  BY <1>1 DEF Used, Edges
<1>3. ASSUME NEW i \in Edges, Parent(i) = pos PROVE hole.val <= h[i].val
  <2>1. /\ i = Left(pos) \/ i = Right(pos)
        /\ i \in 1 .. len - 1
    BY <1>1, <1>2, <1>3, ParentChild
  <2>2. Left(pos) \in Nat /\ Right(pos) = Left(pos) + 1 /\ Left(pos) < len
    BY <1>1, <2>1 DEF Left, Right
  <2>3. /\ h[i].val \in Nat /\ h[Left(pos)].val \in Nat /\ hole.val \in Nat
        /\ Right(pos) < len => h[Right(pos)].val \in Nat
    BY <1>1, <1>2, <2>1, <2>2, ItemVal
  <2>4. ~(hole.val > h[Child].val)
    BY <1>1, <2>2 DEF Sinks
  <2>5. CASE Right(pos) < len /\ h[Left(pos)].val > h[Right(pos)].val
    <3>1. Child = Right(pos)
      BY <2>5 DEF Child
    <3> QED
      BY <2>1, <2>3, <2>4, <2>5, <3>1
  <2>6. CASE ~(Right(pos) < len /\ h[Left(pos)].val > h[Right(pos)].val)
    <3>1. Child = Left(pos)
      BY <2>6 DEF Child
    <3>2. i = Right(pos) => Right(pos) < len
      BY <1>1, <2>1
    <3> QED
      BY <2>1, <2>3, <2>4, <2>6, <3>1, <3>2
  <2> QED
    BY <2>5, <2>6
<1>4. CASE fixing /\ pos = old_pos /\ SiftUp(Placed, pos) /\ UNCHANGED call
  <2>1. /\ h' = Placed /\ hole' = Placed[pos] /\ pos' = pos /\ old_pos' = 0
        /\ len' = 0 /\ fixing' = FALSE /\ pc' = "up" /\ ent' = ent
        /\ expire_at' = expire_at
    BY <1>4 DEF SiftUp, call
  <2>2. /\ Placed \in [0 .. size - 1 -> Item] /\ Placed[pos] = hole /\ Full = Placed
        /\ \A i \in 0 .. size - 1 : i # pos => Placed[i] = h[i]
    BY <1>1 DEF Placed, Full
  <2>3. /\ InSift' /\ (Removing' <=> Removing) /\ Used' = Used
        /\ Full' = Full
    BY <1>1, <2>1, <2>2 DEF InSift, Removing, Used, Full, Placed
  <2>4. Refs' /\ heap_idx' \in [Entries -> Nat \cup {NoPos}]
    BY <1>1, <2>3, PlaceRefs
  <2>5. TypeOK'
    BY <1>1, <2>1, <2>2, <2>4 DEF TypeOK, Inv
  <2>6. Control'
    BY <1>1, <1>2, <1>4, <2>1, <2>2, <2>3 DEF Control, Inv
  <2>7. Order'
    <3>1. \A i \in 1 .. len - 1 : Parent(i) \in 0 .. len - 2 /\ Parent(i) < i
      BY <1>1, ParentRange
    <3>2. Edges' = Edges
      BY <2>3 DEF Edges
    <3>3. \A i \in Edges : i # pos /\ Parent(i) # pos => Ordered(i)'
      BY <1>1, <1>2, <2>1, <2>2, <3>1 DEF Ordered, Inv, Order
    <3>4. ASSUME NEW i \in Edges, pos > 0, Parent(i) = pos
          PROVE  h'[Parent(pos)].val <= h'[i].val
      <4>1. h[Parent(pos)].val <= h[i].val
        BY <1>1, <3>4 DEF Inv, Order
      <4>2. i # pos /\ pos \in 1 .. len - 1 /\ Parent(pos) # pos
        BY <1>1, <1>2, <1>4, <3>1, <3>4
      <4>3. Parent(pos) \in 0 .. size - 1 /\ i \in 0 .. size - 1
        BY <1>1, <1>2, <3>1, <4>2
      <4> QED
        BY <2>1, <2>2, <4>1, <4>2, <4>3
    <3>5. ASSUME NEW i \in Edges, Parent(i) = pos
          PROVE  hole'.val <= h'[i].val
      <4>1. i # pos /\ i \in 0 .. size - 1
        BY <1>1, <1>2, <3>1, <3>5
      <4> QED
        BY <1>3, <2>1, <2>2, <3>5, <4>1
    <3> QED
      BY <2>1, <2>3, <3>2, <3>3, <3>4, <3>5 DEF Order
  <2> QED
    BY <2>4, <2>5, <2>6, <2>7 DEF Inv
<1>5. CASE (~fixing \/ pos > old_pos) /\ h' = Placed /\ Return
  <2>1. pos > 0 => h[Parent(pos)].val <= hole.val
    BY <1>1, <1>5 DEF Inv, Order
  <2> QED
    BY <1>1, <1>3, <1>5, <2>1, ReturnInv
<1> QED
  BY <1>4, <1>5 DEF SiftDownEnd

LEMMA NextInv == Inv /\ [Next]_vars => Inv'
<1> SUFFICES ASSUME Inv, [Next]_vars PROVE Inv'
  OBVIOUS
<1>1. CASE \E e \in Entries : heap_remove(e) \/ \E val \in Vals : heap_upsert(e, val)
  BY <1>1, RemoveInv, UpsertInv
<1>2. CASE Continue
  BY <1>2, SiftDownStepInv, SiftDownEndInv, SiftUpStepInv, SiftUpEndInv, PopBackInv
     DEF Continue
<1>3. CASE UNCHANGED vars
  BY <1>3 DEF vars, Inv, TypeOK, Control, Refs, Order, Edges, Ordered, Used, Removing,
              InSift, Full, Placed
<1> QED
  BY <1>1, <1>2, <1>3 DEF Next

-----------------------------------------------------------------------------
(* The theorems.                                                           *)

\* The inductive invariant holds in every reachable state of the heap.
THEOREM InvHolds == Spec => []Inv
BY InitInv, NextInv, PTL DEF Spec

\* Type correctness of the timer heap (see TypeOK).
THEOREM TypeCorrect == Spec => []TypeOK
<1>1. Inv => TypeOK
  BY DEF Inv
<1> QED
  BY <1>1, InvHolds, PTL

\* For a heap of any size: after every heap_upsert() and heap_remove() no item
\* is less than its parent.
THEOREM HeapOrder == Spec => []HeapOrdered
<1>1. Inv => HeapOrdered
  <2> SUFFICES ASSUME Inv, pc = "idle", NEW i \in 1 .. size - 1
               PROVE  h[Parent(i)].val <= h[i].val
    BY DEF HeapOrdered
  <2>1. ~InSift /\ ~Removing /\ size \in Nat
    BY DEF Inv, Control, TypeOK, InSift, Removing
  <2>2. i \in Edges
    BY <2>1 DEF Edges, Used
  <2> QED
    BY <2>1, <2>2 DEF Inv, Order, Ordered
<1> QED
  BY <1>1, InvHolds, PTL

\* For a heap of any size: after every call, every heap_idx is exact.
THEOREM ExactReferences == Spec => []RefsExact
<1>1. Inv => RefsExact
  <2> SUFFICES ASSUME Inv, pc = "idle"
               PROVE  /\ \A i \in 0 .. size - 1 : heap_idx[h[i].ref] = i
                      /\ \A e \in Entries : heap_idx[e] # NoPos =>
                            heap_idx[e] < size /\ h[heap_idx[e]].ref = e
    BY DEF RefsExact
  <2>1. ~InSift /\ ~Removing /\ size \in Nat /\ Full = h /\ Used = 0 .. size - 1
    BY DEF Inv, Control, TypeOK, InSift, Removing, Full, Used
  <2>2. \A i \in 0 .. size - 1 : heap_idx[h[i].ref] = i
    BY <2>1 DEF Inv, Refs
  <2>3. ASSUME NEW e \in Entries, heap_idx[e] # NoPos
        PROVE  heap_idx[e] < size /\ h[heap_idx[e]].ref = e
    <3>1. PICK i \in 0 .. size - 1 : h[i].ref = e
      BY <2>1, <2>3 DEF Inv, Refs
    <3> QED
      BY <2>1, <2>2, <3>1
  <2> QED
    BY <2>2, <2>3
<1> QED
  BY <1>1, InvHolds, PTL

-----------------------------------------------------------------------------
(* The top of the heap. The order of neighbours is an order of the whole   *)
(* heap by induction along the parents, here as the least slot that would  *)
(* hold an earlier deadline than h[0].                                     *)

\* The least-number principle: inclusion of finite sets is well founded, and
\* the intervals 0 .. m are ordered by it as their ends are.
LEMMA LeastElement ==
    ASSUME NEW T, T \subseteq Nat, T # {}
    PROVE  \E m \in T : \A k \in T : m <= k
<1> DEFINE F == {0 .. m : m \in T}
<1>1. F \subseteq FiniteSubsetsOf(Nat) /\ F # {}
  <2>1. \A m \in T : 0 .. m \in SUBSET Nat /\ IsFiniteSet(0 .. m)
    BY FS_Interval
  <2> QED
    BY <2>1 DEF FiniteSubsetsOf
<1>2. IsWellFoundedOn(StrictSubsetOrdering(Nat), FiniteSubsetsOf(Nat))
  BY FS_StrictSubsetOrderingWellFounded
<1>3. PICK x \in F : \A y \in F : <<y, x>> \notin StrictSubsetOrdering(Nat)
  <2> HIDE DEF F
  <2> QED
    BY <1>1, <1>2, WFMin
<1>4. PICK m \in T : x = 0 .. m
  OBVIOUS
<1>5. ASSUME NEW k \in T, k < m PROVE FALSE
  <2>1. 0 .. k \in F /\ 0 .. k \subseteq 0 .. m /\ 0 .. k # 0 .. m /\ m \in Nat
    BY <1>5
  <2>2. <<0 .. k, x>> \in StrictSubsetOrdering(Nat)
    BY <2>1, <1>4 DEF StrictSubsetOrdering
  <2> QED
    BY <2>1, <2>2, <1>3
<1> QED
  BY <1>5

LEMMA TopLeast ==
    ASSUME Inv, pc = "idle", NEW i \in 0 .. size - 1
    PROVE  h[0].val <= h[i].val
<1> DEFINE T == {j \in 0 .. size - 1 : h[j].val < h[0].val}
<1>1. /\ size \in Nat /\ h \in [0 .. size - 1 -> Item] /\ ~InSift
      /\ Used = 0 .. size - 1 /\ \A j \in 1 .. size - 1 : Ordered(j)
  <2>1. /\ size \in Nat /\ h \in [0 .. size - 1 -> Item] /\ ~InSift
        /\ Used = 0 .. size - 1
    BY DEF Inv, TypeOK, Control, InSift, Removing, Used
  <2>2. Edges = 1 .. size - 1
    BY <2>1 DEF Edges
  <2> QED
    BY <2>1, <2>2 DEF Inv, Order
<1>2. \A j \in 0 .. size - 1 : h[j].val \in Nat
  BY <1>1, ItemVal
<1>3. ASSUME NEW m \in T, \A k \in T : m <= k PROVE FALSE
  <2>1. m \in 1 .. size - 1 /\ h[m].val < h[0].val
    BY <1>1, <1>2
  <2>2. Parent(m) \in 0 .. size - 1 /\ Parent(m) < m
    BY <1>1, <2>1, ParentRange
  <2>3. h[Parent(m)].val <= h[m].val
    BY <1>1, <2>1 DEF Ordered
  <2>4. h[0].val \in Nat /\ h[m].val \in Nat /\ h[Parent(m)].val \in Nat
    BY <1>1, <1>2, <2>1, <2>2
  <2>5. Parent(m) \in T
    BY <2>1, <2>2, <2>3, <2>4
  <2> QED
    BY <1>3, <2>2, <2>5
<1>4. T \subseteq Nat
  BY <1>1
<1>5. T = {}
  <2> HIDE DEF T
  <2> QED
    BY <1>3, <1>4, LeastElement
<1> QED
  BY <1>1, <1>2, <1>5

-----------------------------------------------------------------------------
(* The heap as a map from entries to deadlines.                            *)

LEMMA FullItems ==
    ASSUME Inv
    PROVE  /\ Full \in [0 .. size - 1 -> Item] /\ Used \subseteq 0 .. size - 1
           /\ Items \subseteq Item
<1>1. Full \in [0 .. size - 1 -> Item]
  BY DEF Inv, TypeOK, Control, Full, Placed, InSift
<1>2. Used \subseteq 0 .. size - 1
  BY DEF Inv, TypeOK, Used
<1> QED
  BY <1>1, <1>2 DEF Items

\* Deadline is what the only item of an entry says.
Faithful ==
    \A e \in Entries :
        /\ \A t \in Items : t.ref = e => Deadline[e] = t.val
        /\ (\A t \in Items : t.ref # e) => Deadline[e] = NoTtl

LEMMA DeadlineIs == Inv => Faithful
<1> SUFFICES ASSUME Inv, NEW e \in Entries
             PROVE  /\ \A t \in Items : t.ref = e => Deadline[e] = t.val
                    /\ (\A t \in Items : t.ref # e) => Deadline[e] = NoTtl
  BY DEF Faithful
<1>1. \A t, u \in Items : t.ref = u.ref => t = u
  <2>1. \A i, j \in Used : Full[i].ref = Full[j].ref => i = j
    BY FullItems DEF Inv, Refs
  <2> QED
    BY <2>1 DEF Items
<1>2. Deadline[e] = IF \E t \in Items : t.ref = e
                    THEN (CHOOSE t \in Items : t.ref = e).val ELSE NoTtl
  BY DEF Deadline
<1> QED
  BY <1>1, <1>2

LEMMA DeadlineIsNext == Inv' => Faithful'
BY DeadlineIs, PTL

LEMMA SameItems == ASSUME Items' = Items PROVE Deadline' = Deadline
BY DEF Deadline

LEMMA SameSlots == ASSUME Full' = Full, Used' = Used PROVE Deadline' = Deadline
BY SameItems DEF Items

LEMMA SetDeadline ==
    ASSUME Inv, Inv', NEW e \in Entries, NEW t \in Item, t.ref = e,
           Items' = {u \in Items : u.ref # e} \cup {t}
    PROVE  Deadline' = [Deadline EXCEPT ![e] = t.val]
<1>1. /\ DOMAIN Deadline = Entries /\ DOMAIN Deadline' = Entries
      /\ Deadline = [f \in Entries |-> Deadline[f]]
      /\ Deadline' = [f \in Entries |-> Deadline'[f]]
  BY DEF Deadline
<1>2. Deadline'[e] = t.val
  BY DeadlineIsNext DEF Faithful
<1>3. ASSUME NEW f \in Entries, f # e PROVE Deadline'[f] = Deadline[f]
  <2>1. CASE \E u \in Items : u.ref = f
    BY <1>3, <2>1, DeadlineIs, DeadlineIsNext DEF Faithful
  <2>2. CASE \A u \in Items : u.ref # f
    BY <1>3, <2>2, DeadlineIs, DeadlineIsNext DEF Faithful
  <2> QED
    BY <2>1, <2>2
<1> QED
  BY <1>1, <1>2, <1>3

LEMMA DropDeadline ==
    ASSUME Inv, Inv', NEW e \in Entries, Items' = {u \in Items : u.ref # e}
    PROVE  Deadline' = [Deadline EXCEPT ![e] = NoTtl]
<1>1. /\ DOMAIN Deadline = Entries /\ DOMAIN Deadline' = Entries
      /\ Deadline = [f \in Entries |-> Deadline[f]]
      /\ Deadline' = [f \in Entries |-> Deadline'[f]]
  BY DEF Deadline
<1>2. Deadline'[e] = NoTtl
  BY DeadlineIsNext DEF Faithful
<1>3. ASSUME NEW f \in Entries, f # e PROVE Deadline'[f] = Deadline[f]
  <2>1. CASE \E u \in Items : u.ref = f
    BY <1>3, <2>1, DeadlineIs, DeadlineIsNext DEF Faithful
  <2>2. CASE \A u \in Items : u.ref # f
    BY <1>3, <2>2, DeadlineIs, DeadlineIsNext DEF Faithful
  <2> QED
    BY <2>1, <2>2
<1> QED
  BY <1>1, <1>2, <1>3

LEMMA UpsertSets ==
    ASSUME Inv, Inv', NEW e \in Entries, NEW val \in Vals, heap_upsert(e, val)
    PROVE  TQ!Set(e, val)
<1> DEFINE t == [ref |-> e, val |-> val]
           p == heap_idx[e]
<1> USE TimerHeapAssumption
<1>1. /\ pc = "idle" /\ ent = None /\ ~InSift /\ Full = h /\ Used = 0 .. size - 1
      /\ size \in Nat /\ h \in [0 .. size - 1 -> Item] /\ t \in Item
      /\ heap_idx \in [Entries -> Nat \cup {NoPos}]
  BY DEF heap_upsert, Inv, TypeOK, Control, InSift, Removing, Full, Used, Item
<1>2. /\ ent' = e /\ expire_at' = val /\ Used' = 0 .. size' - 1
      /\ Full' = [h' EXCEPT ![pos'] = hole']
  BY DEF heap_upsert, SiftDown, SiftUp, Removing, InSift, Full, Placed, Used, NoTtl
<1>3. Items' = {u \in Items : u.ref # e} \cup {t}
  <2>1. CASE p \in 0 .. size - 1
    <3>1. h' = [h EXCEPT ![p] = t] /\ hole' = t /\ pos' = p /\ size' = size
      BY <1>1, <2>1 DEF heap_upsert, SiftDown
    <3>2. h[p].ref = e /\ \A i \in 0 .. size - 1 : h[i].ref = e => i = p
      <4>1. p # NoPos /\ \A i \in 0 .. size - 1 : heap_idx[h[i].ref] = i
        BY <1>1, <2>1 DEF Inv, Refs, NoPos
      <4>2. PICK i \in 0 .. size - 1 : h[i].ref = e
        BY <1>1, <4>1 DEF Inv, Refs
      <4> QED
        BY <4>1, <4>2
    <3>3. Full'[p] = t /\ \A i \in 0 .. size - 1 : i # p => Full'[i] = h[i]
      BY <1>1, <1>2, <2>1, <3>1
    <3>4. Used' = Used /\ p \in Used /\ t.ref = e
      BY <1>1, <1>2, <2>1, <3>1
    <3> HIDE DEF p, t
    <3> QED
      BY <1>1, <3>2, <3>3, <3>4 DEF Items
  <2>2. CASE p \notin 0 .. size - 1
    <3>1. h' = push_back(t) /\ hole' = push_back(t)[size] /\ pos' = size /\ size' = size + 1
      BY <1>1, <2>2 DEF heap_upsert, SiftUp
    <3>2. \A i \in 0 .. size - 1 : h[i].ref # e
      <4>1. \A i \in 0 .. size - 1 : heap_idx[h[i].ref] = i
        BY <1>1 DEF Inv, Refs
      <4> QED
        BY <2>2, <4>1
    <3>3. Full'[size] = t /\ \A i \in 0 .. size - 1 : Full'[i] = h[i]
      BY <1>1, <1>2, <3>1 DEF push_back
    <3>4. Used' = Used \cup {size} /\ t.ref = e
      BY <1>1, <1>2, <3>1
    <3> HIDE DEF t
    <3> QED
      BY <1>1, <3>2, <3>3, <3>4 DEF Items
  <2> QED
    BY <2>1, <2>2
<1>4. Deadline' = [Deadline EXCEPT ![e] = val]
  <2> HIDE DEF t
  <2>1. t.ref = e /\ t.val = val
    BY DEF t
  <2> QED
    BY <1>1, <1>3, <2>1, SetDeadline
<1> QED
  BY <1>1, <1>2, <1>4 DEF TQ!Set, TQ!Call

LEMMA RemoveRemoves ==
    ASSUME Inv, Inv', NEW e \in Entries, heap_remove(e)
    PROVE  TQ!Remove(e)
<1> DEFINE p == heap_idx[e]
           sw == Swap(p, size - 1)
<1> USE TimerHeapAssumption
<1>1. /\ pc = "idle" /\ ent = None /\ Full = h /\ Used = 0 .. size - 1
      /\ size \in Nat /\ h \in [0 .. size - 1 -> Item]
      /\ heap_idx \in [Entries -> Nat \cup {NoPos}] /\ p # NoPos
  BY DEF heap_remove, Inv, TypeOK, Control, InSift, Removing, Full, Used
<1>2. p \in 0 .. size - 1 /\ h[p].ref = e /\ \A i \in 0 .. size - 1 : h[i].ref = e => i = p
  <2>1. PICK i \in 0 .. size - 1 : h[i].ref = e
    BY <1>1 DEF Inv, Refs
  <2>2. \A j \in 0 .. size - 1 : heap_idx[h[j].ref] = j
    BY <1>1 DEF Inv, Refs, InSift
  <2> QED
    BY <2>1, <2>2
<1>3. ent' = e /\ expire_at' = NoTtl /\ size' = size /\ Used' = 0 .. size - 2
  BY <1>1 DEF heap_remove, Removing, Used
<1>4. \/ h' = sw /\ hole' = sw[p] /\ pos' = p /\ pc' = "down"
      \/ pc' = "pop" /\ h' = h /\ p = size - 1
  BY <1>1, <1>2 DEF heap_remove, SiftDown
<1>5. Items' = {u \in Items : u.ref # e}
  <2>1. CASE h' = sw /\ hole' = sw[p] /\ pos' = p /\ pc' = "down"
    <3>1. /\ sw \in [0 .. size - 1 -> Item] /\ sw[p] = h[size - 1] /\ sw[size - 1] = h[p]
          /\ \A i \in 0 .. size - 1 : i # p /\ i # size - 1 => sw[i] = h[i]
      BY <1>1, <1>2 DEF Swap
    <3>2. Full' = sw
      BY <1>2, <2>1, <3>1 DEF InSift, Full, Placed
    <3> HIDE DEF sw, p
    <3>3. \A i \in 0 .. size - 2 : \E j \in 0 .. size - 1 : sw[i] = h[j] /\ j # p
      BY <1>1, <1>2, <3>1
    <3>4. \A j \in 0 .. size - 1 : j # p => \E i \in 0 .. size - 2 : sw[i] = h[j]
      BY <1>1, <1>2, <3>1
    <3>5. Items' = {sw[i] : i \in 0 .. size - 2} /\ Items = {h[i] : i \in 0 .. size - 1}
      BY <1>1, <1>3, <3>2 DEF Items
    <3> HIDE DEF sw
    <3> QED
      BY <1>2, <3>3, <3>4, <3>5
  <2>2. CASE pc' = "pop" /\ h' = h /\ p = size - 1
    <3>1. Full' = h /\ 0 .. size - 2 = {i \in 0 .. size - 1 : i # p}
      BY <1>1, <2>2 DEF InSift, Full
    <3> QED
      BY <1>1, <1>2, <1>3, <3>1 DEF Items
  <2> QED
    BY <1>4, <2>1, <2>2
<1>6. Deadline' = [Deadline EXCEPT ![e] = NoTtl]
  BY <1>5, DropDeadline
<1>7. Deadline[e] # NoTtl
  <2>1. h[p] \in Items /\ h[p].val \in Nat
    BY <1>1, <1>2, ItemVal DEF Items
  <2> QED
    BY <1>2, <2>1, DeadlineIs DEF Faithful, NoTtl
<1> QED
  BY <1>1, <1>3, <1>6, <1>7 DEF TQ!Remove, TQ!Call, TQ!NoTtl, NoTtl

LEMMA FillKeeps ==
    ASSUME Inv, InSift, NEW from \in Used, pos \in Used, Fill(from)
    PROVE  Deadline' = Deadline
<1>1. /\ size \in Nat /\ h \in [0 .. size - 1 -> Item] /\ hole \in Item
      /\ Used \subseteq 0 .. size - 1
  BY FullItems DEF Inv, TypeOK, Control
<1>2. /\ h' = [h EXCEPT ![pos] = h[from]] /\ pos' = from /\ hole' = hole
      /\ Used' = Used /\ InSift'
  BY DEF Fill, call, Used, Removing, InSift
<1>3. /\ Full[pos] = hole /\ \A i \in 0 .. size - 1 : i # pos => Full[i] = h[i]
      /\ Full'[from] = hole /\ (from # pos => Full'[pos] = h[from])
      /\ \A i \in 0 .. size - 1 : i # pos /\ i # from => Full'[i] = h[i]
  BY <1>1, <1>2 DEF Full, Placed
<1>4. Items' \subseteq Items /\ Items \subseteq Items'
  <2>1. \A i \in Used : \E j \in Used : Full'[i] = Full[j]
    BY <1>1, <1>3
  <2>2. \A i \in Used : \E j \in Used : Full[i] = Full'[j]
    BY <1>1, <1>3
  <2> QED
    BY <1>2, <2>1, <2>2 DEF Items
<1> QED
  BY <1>4, SameItems

LEMMA ReturnReturns ==
    ASSUME Inv, InSift, h' = Placed, Return, UNCHANGED size
    PROVE  [TQ!Return]_<<Deadline, ent, expire_at>>
<1>1. ent \in Entries /\ ent # None /\ Full = Placed
  BY TimerHeapAssumption DEF Inv, TypeOK, Control, InSift, Full
<1>2. \/ Removing /\ pc' = "pop" /\ ent' = ent /\ expire_at' = expire_at
      \/ ~Removing /\ pc' = "idle" /\ ent' = None /\ expire_at' = NoTtl
  BY <1>1 DEF Return, Removing, call
<1>3. Full' = Full /\ Used' = Used
  BY <1>1, <1>2 DEF InSift, Removing, Full, Used
<1>4. Deadline' = Deadline
  BY <1>3, SameSlots
<1> QED
  BY <1>1, <1>2, <1>4 DEF TQ!Return, TQ!NoTtl, NoTtl

LEMMA StepRefines ==
    Inv /\ Inv' /\ [Next]_vars => [TQ!Next]_<<Deadline, ent, expire_at>>
<1> SUFFICES ASSUME Inv, Inv', [Next]_vars
             PROVE  [TQ!Next]_<<Deadline, ent, expire_at>>
  OBVIOUS
<1>1. ASSUME NEW e \in Entries, heap_remove(e) PROVE TQ!Next
  BY <1>1, RemoveRemoves DEF TQ!Next
<1>2. ASSUME NEW e \in Entries, NEW val \in Vals, heap_upsert(e, val) PROVE TQ!Next
  BY <1>2, UpsertSets DEF TQ!Next
<1>3. CASE SiftDownStep
  <2>1. /\ InSift /\ Fill(Child) /\ UNCHANGED <<ent, expire_at>> /\ pos \in Nat /\ len \in Nat
        /\ size \in Nat /\ Used = 0 .. len - 1 /\ Left(pos) < len
    BY <1>3 DEF SiftDownStep, Sinks, Fill, call, InSift, Inv, TypeOK, Control, Used
  <2>2. Child \in Used /\ pos \in Used
    BY <2>1 DEF Child, Left, Right
  <2> QED
    BY <2>1, <2>2, FillKeeps
<1>4. CASE SiftUpStep
  <2>1. /\ InSift /\ Fill(Parent(pos)) /\ UNCHANGED <<ent, expire_at>> /\ pos \in Used
        /\ pos > 0 /\ pos \in Nat /\ size \in Nat
    BY <1>4 DEF SiftUpStep, Rises, Fill, call, InSift, Inv, TypeOK, Control
  <2>2. Parent(pos) \in Used
    BY <2>1 DEF Used, Parent
  <2> QED
    BY <2>1, <2>2, FillKeeps
<1>5. CASE SiftDownEnd
  <2>1. CASE SiftUp(Placed, pos) /\ UNCHANGED call
    <3>1. InSift /\ pos \in 0 .. size - 1 /\ h \in [0 .. size - 1 -> Item]
      BY <1>5 DEF SiftDownEnd, InSift, Inv, TypeOK, Control
    <3>2. UNCHANGED <<size, ent, expire_at, pos>> /\ h' = Placed /\ hole' = Placed[pos] /\ InSift'
      BY <1>5, <2>1 DEF SiftDownEnd, SiftUp, call, InSift
    <3>3. Full' = Full /\ Used' = Used
      BY <3>1, <3>2 DEF Full, Placed, Used, Removing
    <3> QED
      BY <3>2, <3>3, SameSlots
  <2>2. CASE h' = Placed /\ Return
    <3>1. InSift /\ UNCHANGED size
      BY <1>5 DEF SiftDownEnd, InSift
    <3> QED
      BY <2>2, <3>1, ReturnReturns DEF TQ!Next
  <2> QED
    BY <1>5, <2>1, <2>2 DEF SiftDownEnd
<1>6. CASE SiftUpEnd
  <2>1. InSift /\ h' = Placed /\ Return /\ UNCHANGED size
    BY <1>6 DEF SiftUpEnd, InSift
  <2> QED
    BY <2>1, ReturnReturns DEF TQ!Next
<1>7. CASE PopBack
  <2>1. /\ Removing /\ ent # None /\ Full = h /\ size \in Nat /\ size > 0
        /\ Used = 0 .. size - 2 /\ h \in [0 .. size - 1 -> Item]
    BY <1>7 DEF PopBack, Inv, TypeOK, Control, InSift, Removing, Full, Used
  <2>2. /\ pc' = "idle" /\ ent' = None /\ expire_at' = NoTtl /\ size' = size - 1
        /\ h' = pop_back
    BY <1>7 DEF PopBack
  <2>3. Used' = Used /\ Full' = h' /\ \A i \in Used : h'[i] = h[i]
    BY <2>1, <2>2 DEF Used, Removing, InSift, Full, pop_back
  <2>4. Deadline' = Deadline
    BY <2>1, <2>3, SameItems DEF Items
  <2> QED
    BY <2>1, <2>2, <2>4 DEF TQ!Next, TQ!Return, TQ!NoTtl, NoTtl
<1>8. CASE UNCHANGED vars
  <2>1. Full' = Full /\ Used' = Used
    BY <1>8 DEF vars, Full, Used, Removing, InSift, Placed
  <2> QED
    BY <1>8, <2>1, SameSlots DEF vars
<1> QED
  BY <1>1, <1>2, <1>3, <1>4, <1>5, <1>6, <1>7, <1>8 DEF Next, Continue

-----------------------------------------------------------------------------
\* For a heap of any size: h[0], the only item next_timer_ms() and
\* process_timers() look at, holds the earliest deadline of all.
THEOREM EarliestOnTop == Spec => []TopIsEarliest
<1>1. Inv => TopIsEarliest
  <2> SUFFICES ASSUME Inv, pc = "idle", NEW e \in Entries, Deadline[e] # NoTtl
               PROVE  h[0].val <= Deadline[e]
    BY DEF TopIsEarliest
  <2>1. PICK t \in Items : t.ref = e
    BY DeadlineIs DEF Faithful
  <2>2. PICK i \in Used : t = Full[i]
    BY DEF Items
  <2>3. Full = h /\ i \in 0 .. size - 1 /\ Deadline[e] = t.val
    BY <2>1, FullItems, DeadlineIs DEF Full, InSift, Faithful
  <2> QED
    BY <2>2, <2>3, TopLeast
<1> QED
  BY <1>1, InvHolds, PTL

\* For a heap of any size: the sift loops, whose items move one slot at a time
\* while one is out of the vector, implement a map from entries to deadlines
\* of which every call changes its own entry only, at once.
THEOREM RefinesTimerQueue == Spec => ImplementsTimerQueue
<1>1. Init => TQ!Init
  <2> SUFFICES ASSUME Init PROVE TQ!Init
    OBVIOUS
  <2>1. Items = {}
    BY DEF Init, Items, Used, Removing
  <2> QED
    BY <2>1 DEF Init, TQ!Init, Deadline, TQ!NoTtl, NoTtl
<1> QED
  BY <1>1, StepRefines, InvHolds, PTL DEF Spec, ImplementsTimerQueue, TQ!Spec
=============================================================================
