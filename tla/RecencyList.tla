------------------------------ MODULE RecencyList ------------------------------
(***************************************************************************)
(* What the reuse distance profiler asks of the tree of a slab class: a    *)
(* list of nodes, the least recently used first.  A node enters at the     *)
(* end, any node may leave, and the reuse distance of a node is the number *)
(* of nodes from it to the end, itself included.                           *)
(***************************************************************************)
EXTENDS Naturals, SequencesExt

CONSTANT Node

VARIABLE order

Init == order = <<>>

Insert(n) ==
    /\ n \notin ToSet(order)
    /\ order' = Append(order, n)

Delete(n) ==
    /\ n \in ToSet(order)
    /\ order' = Remove(order, n)

Next == \E n \in Node : Insert(n) \/ Delete(n)

Spec == Init /\ [][Next]_order

\* 1 for the most recently used node, as GetDistance counts the node itself.
Distance(n) == Len(order) + 1 - SelectInSeq(order, LAMBDA m : m = n)

================================================================================
