------------------------------- MODULE KeySet -------------------------------
(***************************************************************************)
(* What a hash table promises its users: a set. The call is part of the    *)
(* interface: a call that was made returns with its own effect, once, and  *)
(* nothing else changes the set. Module HashMap implements it.             *)
(***************************************************************************)
CONSTANTS Keys,
          Null    \* no call

VARIABLES content,
          call,   \* the operation in progress and its key, or Null
          found   \* the answer of the last lookup or removal

vars == <<content, call, found>>

Init == content = {} /\ call = Null /\ found = FALSE

Begin(op, k)  == call = Null /\ call' = <<op, k>>
Return(op, k) == call = <<op, k>> /\ call' = Null

\* callers insert only what they have not found; the key is there at once
Insert(k) == /\ Begin("insert", k)
             /\ k \notin content
             /\ content' = content \cup {k}
             /\ UNCHANGED found

Ask(k) == (Begin("lookup", k) \/ Begin("remove", k)) /\ UNCHANGED <<content, found>>

Inserted(k) == Return("insert", k) /\ UNCHANGED <<content, found>>

Lookup(k) == /\ Return("lookup", k)
             /\ found' = (k \in content)
             /\ UNCHANGED content

Remove(k) == /\ Return("remove", k)
             /\ found' = (k \in content)
             /\ content' = content \ {k}

Next == \E k \in Keys : Insert(k) \/ Ask(k) \/ Inserted(k) \/ Lookup(k) \/ Remove(k)

Spec == Init /\ [][Next]_vars

=============================================================================
