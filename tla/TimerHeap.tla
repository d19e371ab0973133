----------------------------- MODULE TimerHeap ------------------------------
(***************************************************************************)
(* The binary heap of container/heap.h as server/main.cc uses it, with     *)
(* std::greater: the least value is at h[0]. An item holds a pointer to    *)
(* the heap_idx of its entry, which every move of the item must update,    *)
(* because timers are changed and removed through it.                      *)
(*                                                                         *)
(* A call is one action, each turn of a sift loop another. The loops carry *)
(* the item they place in a local variable, hole, while its slot holds a   *)
(* stale copy.                                                             *)
(***************************************************************************)
EXTENDS Integers

CONSTANTS Entries,  \* entries of the database
          Vals,     \* points in time
          None      \* no entry, no item

ASSUME TimerHeapAssumption == Vals \subseteq Nat /\ None \notin Entries

NoPos == -1  \* Entry::heap_idx of an entry without a timer, (size_t)-1
NoTtl == -1  \* the deadline of a call that removes a timer

Item == [ref : Entries, val : Vals]

VARIABLES h, size,        \* the vector and its size; slots are 0 .. size - 1
          heap_idx,       \* heap_idx of each entry
          pc,             \* "idle", "down", "up" or "pop"
          hole, pos,      \* the item being placed, and the slot that awaits it
          len, old_pos,   \* arguments of __heap_sift_down
          fixing,         \* whether heap_fix() called it
          ent, expire_at  \* the call in progress: its entry and the deadline

vars == <<h, size, heap_idx, pc, hole, pos, len, old_pos, fixing, ent, expire_at>>
call == <<ent, expire_at>>

Init ==
    /\ h = [i \in {} |-> None] /\ size = 0
    /\ heap_idx = [e \in Entries |-> NoPos]
    /\ pc = "idle"
    /\ hole = None /\ pos = 0 /\ len = 0 /\ old_pos = 0
    /\ fixing = FALSE
    /\ ent = None /\ expire_at = NoTtl

-----------------------------------------------------------------------------
Parent(i) == (i - 1) \div 2
Left(i)   == 2 * i + 1
Right(i)  == 2 * i + 2

push_back(t) == [i \in 0 .. size |-> IF i = size THEN t ELSE h[i]]
pop_back     == [i \in 0 .. size - 2 |-> h[i]]
Swap(i, j)   == [h EXCEPT ![i] = h[j], ![j] = h[i]]

\* the entry of __heap_sift_down(arr, n, p), called by heap_fix() or not
SiftDown(arr, n, p, fix) ==
    /\ h' = arr /\ hole' = arr[p]
    /\ pos' = p /\ old_pos' = p /\ len' = n
    /\ fixing' = fix
    /\ pc' = "down"

\* the entry of __heap_sift_up(arr, p)
SiftUp(arr, p) ==
    /\ h' = arr /\ hole' = arr[p]
    /\ pos' = p
    /\ old_pos' = 0 /\ len' = 0 /\ fixing' = FALSE
    /\ pc' = "up"

\* a sift loop is over and its locals are gone; it is the end of the call,
\* unless heap_remove() has called it
Return ==
    /\ hole' = None
    /\ pos' = 0 /\ old_pos' = 0 /\ len' = 0 /\ fixing' = FALSE
    /\ \/ /\ expire_at = NoTtl
          /\ pc' = "pop"
          /\ UNCHANGED call
       \/ /\ expire_at # NoTtl
          /\ pc' = "idle"
          /\ ent' = None /\ expire_at' = NoTtl

-----------------------------------------------------------------------------
(* entry_set_ttl().                                                        *)

\* (mutation) an item is appended, whether the entry has one or not
UpsertAppends(e, val) ==
    /\ pc = "idle"
    /\ SiftUp(push_back([ref |-> e, val |-> val]), size)
    /\ size' = size + 1
    /\ ent' = e /\ expire_at' = val
    /\ UNCHANGED heap_idx

\* heap_upsert(): the item of an entry that has one is replaced and moved up
\* or down, another is appended and moved up
heap_upsert(e, val) ==
    LET t == [ref |-> e, val |-> val]
        p == heap_idx[e]
    IN  /\ pc = "idle"
        /\ \/ /\ p \in 0 .. size - 1
              /\ SiftDown([h EXCEPT ![p] = t], size, p, TRUE)
              /\ UNCHANGED size
           \/ /\ p \notin 0 .. size - 1
              /\ SiftUp(push_back(t), size)
              /\ size' = size + 1
        /\ ent' = e /\ expire_at' = val
        /\ UNCHANGED heap_idx

\* heap_remove() through heap_pop(): the last item takes the place of the one
\* at p, which goes to the end
heap_remove(e) ==
    LET p == heap_idx[e]
    IN  /\ pc = "idle"
        /\ p # NoPos
        /\ \/ p = 0 /\ SiftDown(Swap(p, size - 1), size - 1, p, FALSE)
           \/ /\ p > 0 /\ p < size - 1
              /\ SiftDown(Swap(p, size - 1), size - 1, p, TRUE)
           \/ /\ p > 0 /\ p >= size - 1
              /\ pc' = "pop"
              /\ UNCHANGED <<h, hole, pos, len, old_pos, fixing>>
        /\ ent' = e /\ expire_at' = NoTtl
        /\ UNCHANGED <<size, heap_idx>>

\* h.pop_back(), and the entry forgets its timer
PopBack ==
    /\ pc = "pop"
    /\ h' = pop_back /\ size' = size - 1
    /\ heap_idx' = [heap_idx EXCEPT ![ent] = NoPos]
    /\ ent' = None /\ expire_at' = NoTtl
    /\ pc' = "idle"
    /\ UNCHANGED <<hole, pos, len, old_pos, fixing>>

-----------------------------------------------------------------------------
(* The sift loops.                                                         *)

\* (mutation) the entry of the item that moves is not told
FillSilently(from) ==
    /\ h' = [h EXCEPT ![pos] = h[from]]
    /\ pos' = from
    /\ UNCHANGED <<size, heap_idx, pc, hole, len, old_pos, fixing, call>>

\* the item at from moves into the hole, and its entry learns of it
Fill(from) ==
    /\ h' = [h EXCEPT ![pos] = h[from]]
    /\ heap_idx' = [heap_idx EXCEPT ![h[from].ref] = pos]
    /\ pos' = from
    /\ UNCHANGED <<size, pc, hole, len, old_pos, fixing, call>>

\* (mutation) the right child is not looked at
ChildLeft == Left(pos)

\* the lesser of the children of the hole
Child == IF Right(pos) < len /\ h[Left(pos)].val > h[Right(pos)].val
         THEN Right(pos) ELSE Left(pos)

Sinks == Left(pos) < len /\ hole.val > h[Child].val

SiftDownStep == pc = "down" /\ Sinks /\ Fill(Child)

Placed == [h EXCEPT ![pos] = hole]

\* (mutation) heap_fix() sifts down only
SiftDownEndOnly ==
    /\ pc = "down" /\ ~Sinks
    /\ heap_idx' = [heap_idx EXCEPT ![hole.ref] = pos]
    /\ h' = Placed
    /\ Return
    /\ UNCHANGED size

\* the hole is filled; heap_fix() goes on to sift up when nothing moved
SiftDownEnd ==
    /\ pc = "down" /\ ~Sinks
    /\ heap_idx' = [heap_idx EXCEPT ![hole.ref] = pos]
    /\ \/ /\ fixing /\ pos = old_pos
          /\ SiftUp(Placed, pos)
          /\ UNCHANGED call
       \/ /\ ~fixing \/ pos > old_pos
          /\ h' = Placed
          /\ Return
    /\ UNCHANGED size

Rises == pos > 0 /\ h[Parent(pos)].val > hole.val

SiftUpStep == pc = "up" /\ Rises /\ Fill(Parent(pos))

SiftUpEnd ==
    /\ pc = "up" /\ ~Rises
    /\ h' = Placed
    /\ heap_idx' = [heap_idx EXCEPT ![hole.ref] = pos]
    /\ Return
    /\ UNCHANGED size

-----------------------------------------------------------------------------
Continue == SiftDownStep \/ SiftDownEnd \/ SiftUpStep \/ SiftUpEnd \/ PopBack

Next ==
    \/ \E e \in Entries : heap_remove(e) \/ \E val \in Vals : heap_upsert(e, val)
    \/ Continue

Spec == Init /\ [][Next]_vars

-----------------------------------------------------------------------------
(* Properties.                                                             *)

\* Every variable stays within the values its C++ counterpart can take.
TypeOK ==
    /\ size \in Nat /\ h \in [0 .. size - 1 -> Item]
    /\ heap_idx \in [Entries -> Nat \cup {NoPos}]
    /\ pc \in {"idle", "down", "up", "pop"}
    /\ hole \in Item \cup {None}
    /\ ent \in Entries \cup {None} /\ expire_at \in Vals \cup {NoTtl}
    /\ pos \in Nat /\ len \in Nat /\ old_pos \in Nat
    /\ fixing \in BOOLEAN

\* Between two calls no item is less than its parent, whichever slot an item
\* was changed in or removed from: heap_fix() must move it up or down, and the
\* item that takes the place of a removed one may have to rise.
HeapOrdered ==
    pc = "idle" => \A i \in 1 .. size - 1 : h[Parent(i)].val <= h[i].val

\* heap_idx is exact: the item it leads to is the entry's own, and an entry
\* without an item has none. A stale index would change or remove the timer of
\* another entry.
RefsExact ==
    pc = "idle" =>
        /\ \A i \in 0 .. size - 1 : heap_idx[h[i].ref] = i
        /\ \A e \in Entries : heap_idx[e] # NoPos =>
              heap_idx[e] < size /\ h[heap_idx[e]].ref = e

\* heap_remove() is in progress
Removing == ent # None /\ expire_at = NoTtl

\* the slots whose items count: the last one goes with the entry that is being
\* removed
Used == 0 .. (IF Removing THEN size - 2 ELSE size - 1)

\* the vector with the hole filled
InSift == pc \in {"down", "up"}
Full   == IF InSift THEN Placed ELSE h

Items == {Full[i] : i \in Used}

Deadline == [e \in Entries |->
                IF \E t \in Items : t.ref = e
                THEN (CHOOSE t \in Items : t.ref = e).val ELSE NoTtl]

\* next_timer_ms() and process_timers() look at h[0] only: it is the earliest
\* deadline of all.
TopIsEarliest ==
    pc = "idle" =>
        \A e \in Entries : Deadline[e] # NoTtl => h[0].val <= Deadline[e]

TQ == INSTANCE TimerQueue WITH deadline <- Deadline

\* Setting or removing a timer changes that timer and no other, and the loops
\* lose and duplicate none.
ImplementsTimerQueue == TQ!Spec

=============================================================================
