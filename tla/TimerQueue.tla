----------------------------- MODULE TimerQueue -----------------------------
(***************************************************************************)
(* What the heap of TTL timers promises to server/main.cc: it holds the    *)
(* deadline of every entry that has one, and a call changes the deadline   *)
(* it was given, at once, and no other.                                    *)
(***************************************************************************)
EXTENDS Integers

CONSTANTS Entries, Vals, None

NoTtl == -1

VARIABLES deadline,       \* of each entry, or NoTtl
          ent, expire_at  \* the call in progress: its entry and the deadline

Init ==
    /\ deadline = [e \in Entries |-> NoTtl]
    /\ ent = None /\ expire_at = NoTtl

Call(e, val) ==
    /\ ent = None
    /\ ent' = e /\ expire_at' = val
    /\ deadline' = [deadline EXCEPT ![e] = val]

Set(e, val) == Call(e, val)

Remove(e) == deadline[e] # NoTtl /\ Call(e, NoTtl)

Return ==
    /\ ent # None
    /\ ent' = None /\ expire_at' = NoTtl
    /\ UNCHANGED deadline

Next ==
    \/ \E e \in Entries : Remove(e) \/ \E val \in Vals : Set(e, val)
    \/ Return

Spec == Init /\ [][Next]_<<deadline, ent, expire_at>>

=============================================================================
