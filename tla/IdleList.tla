------------------------------ MODULE IdleList ------------------------------
(***************************************************************************)
(* The intrusive ring of container/list.h: a function from nodes to the    *)
(* two pointers of a ListNode. The head of a list is a node of the ring,   *)
(* and a node that is in no list points to itself.                         *)
(***************************************************************************)
EXTENDS Integers, FiniteSets

Alone(x) == [prev |-> x, next |-> x]

\* a ring of nodes none of which is in a list
Detached(nodes) == [x \in nodes |-> Alone(x)]

empty(list, head) == list[head].next = head

\* (mutation) the node after x still points back to it
DetachOneWay(list, x) == [list EXCEPT ![list[x].prev].next = list[x].next, ![x] = Alone(x)]

detach(list, x) ==
    [list EXCEPT ![list[x].prev].next = list[x].next,
                 ![list[x].next].prev = list[x].prev,
                 ![x] = Alone(x)]

insert_back(list, head, x) ==
    [list EXCEPT ![x] = [prev |-> list[head].prev, next |-> head],
                 ![list[head].prev].next = x,
                 ![head].prev = x]

\* The nodes of a set can be put in an order, each once, in which next leads
\* from head through all of them and back to head, and prev the other way.
IsRing(list, head, nodes) ==
    LET n == Cardinality(nodes)
    IN  \E order \in [1 .. n -> nodes] :
           LET at(i) == IF i \in 1 .. n THEN order[i] ELSE head
           IN  /\ {order[i] : i \in 1 .. n} = nodes
               /\ \A i \in 0 .. n : /\ list[at(i)].next = at(i + 1)
                                    /\ list[at(i + 1)].prev = at(i)

=============================================================================
