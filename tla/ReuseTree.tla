------------------------------- MODULE ReuseTree -------------------------------
(***************************************************************************)
(* The tree one slab class of the profiler keeps (rd-trace/                *)
(* RedBlackTree.cc): a red-black tree in an array, ordered by recency.     *)
(* There is no search key: a node only ever enters as the last one         *)
(* (InsertTail), any node leaves (DeleteNode), and the count of nodes in   *)
(* every subtree (sum) gives the reuse distance of a node as the number    *)
(* of nodes behind it.                                                     *)
(*                                                                         *)
(* One thread, the profiler's consumer, uses the tree; an operation is     *)
(* cut at the iterations of its loops.  pc says which loop is running.     *)
(***************************************************************************)
EXTENDS Integers, FiniteSets, SequencesExt

CONSTANT MaxNodes            \* bound on n_nodes, which realloc lets grow

ASSUME MaxNodesAssumption == MaxNodes \in Nat \ {0}

VARIABLES
    nodes,                   \* the array; nodes[nil] and nodes[root] are sentinels
    n_nodes,                 \* the first index never given out
    freelist,                \* the indices of deleted nodes, first in first out
    tail,                    \* taili, the most recently used node, or nil
    pc,                      \* "idle", or the loop that runs
    z,                       \* the node the operation inserts or deletes
    x,                       \* the loops' cursor
    fix,                     \* DeleteNode: where DeleteFixUp starts, or None
    rootLeft                 \* DeleteFixUp: the top of the tree when it started

local == <<z, x, fix, rootLeft>>
vars == <<nodes, n_nodes, freelist, tail, pc, local>>

nil == 0
root == 1
None == -1
Index == 0 .. MaxNodes + 1
Node == Index \ {nil, root}
Cell == [sum : Nat, red : BOOLEAN, left : Index, right : Index, parent : Index]

(***************************************************************************)
(* Reading the tree.                                                       *)
(***************************************************************************)
Parent(n) == nodes[n].parent
Red(n) == nodes[n].red
Top == nodes[root].left
Opposite(side) == IF side = "left" THEN "right" ELSE "left"
SideOf(n) == IF n = nodes[Parent(n)].left THEN "left" ELSE "right"
Sibling(n) == nodes[Parent(n)][Opposite(SideOf(n))]

\* The last node from n down one side.
Outermost(n, side) ==
    LET down[m \in Index] == IF nodes[m][side] = nil THEN m ELSE down[nodes[m][side]]
    IN  down[n]

\* The nearest ancestor of n that has n on its other side; nil when the climb
\* reaches the sentinel above the top.
Ascend(n, side) ==
    LET up[m \in Index] == IF Parent(m) = root THEN nil
                           ELSE IF nodes[Parent(m)][side] # m THEN Parent(m)
                           ELSE up[Parent(m)]
    IN  up[n]

\* Mutant: the left subtree of the node is forgotten.
PredecessorAbove(n) == Ascend(n, "left")

GetPredecessorOf(n) ==
    IF nodes[n].left # nil THEN Outermost(nodes[n].left, "right") ELSE Ascend(n, "left")

GetSuccessorOf(n) ==
    IF nodes[n].right # nil THEN Outermost(nodes[n].right, "left") ELSE Ascend(n, "right")

GetDistance(n) ==
    LET behind[m \in Index] ==
            IF m = Top THEN 0
            ELSE behind[Parent(m)]
                 + IF SideOf(m) = "left" THEN nodes[nodes[Parent(m)].right].sum + 1 ELSE 0
    IN  1 + nodes[nodes[n].right].sum + behind[n]

(***************************************************************************)
(* Changing the array T.                                                   *)
(***************************************************************************)
reassign_sum(T, n) == [T EXCEPT ![n].sum = T[T[n].left].sum + T[T[n].right].sum + 1]

\* LeftRotate for side "left", RightRotate for "right".  A nil that changes
\* parents keeps its parent field, on which DeleteFixUp relies.
Rotate(T, n, side) ==
    LET other == Opposite(side)
        y     == T[n][other]
        inner == T[y][side]
        p     == T[n].parent
        link  == IF n = T[p].left THEN "left" ELSE "right"
        T1    == [T EXCEPT ![n][other] = inner,
                           ![inner].parent = IF inner # nil THEN n ELSE @]
        T2    == [T1 EXCEPT ![y].parent = p, ![p][link] = y]
        T3    == [T2 EXCEPT ![y][side] = n, ![n].parent = y]
    IN  reassign_sum(reassign_sum(T3, n), y)

--------------------------------------------------------------------------------
Init ==
    /\ nodes = [n \in Index |-> [sum |-> 0, red |-> FALSE,
                                 left |-> nil, right |-> nil, parent |-> nil]]
    /\ n_nodes = 2
    /\ freelist = <<>>
    /\ tail = nil
    /\ pc = "idle"
    /\ z = nil /\ x = nil /\ fix = None /\ rootLeft = nil

\* AddNode: the index that has been free longest, or one never used.
AddNode(n) ==
    IF freelist # <<>>
    THEN n = Head(freelist) /\ freelist' = Tail(freelist) /\ UNCHANGED n_nodes
    ELSE n = n_nodes /\ n_nodes' = n_nodes + 1 /\ UNCHANGED freelist

(***************************************************************************)
(* InsertTail, as the callers use it: on the index AddNode returned.       *)
(***************************************************************************)
FirstNode(n) ==
    /\ nodes' = [nodes EXCEPT ![root].left = n,
                              ![n] = [sum |-> 1, red |-> FALSE, left |-> nil,
                                      right |-> nil, parent |-> root]]
    /\ tail' = n
    /\ UNCHANGED <<pc, local>>

LastNode(n) ==
    /\ nodes' = [nodes EXCEPT ![tail].right = n,
                              ![n] = [sum |-> 1, red |-> TRUE, left |-> nil,
                                      right |-> nil, parent |-> tail]]
    /\ pc' = "insert" /\ z' = n /\ x' = n
    /\ UNCHANGED <<tail, fix, rootLeft>>

InsertTail(n) ==
    /\ pc = "idle"
    /\ AddNode(n)
    /\ IF tail = nil THEN FirstNode(n) ELSE LastNode(n)

Grandparent(n) == Parent(Parent(n))
Uncle(n) == nodes[Grandparent(n)].left

InsertRecolor ==
    /\ pc = "insert" /\ Red(Parent(x)) /\ Red(Uncle(x))
    /\ nodes' = [nodes EXCEPT ![Parent(x)].red = FALSE,
                              ![Uncle(x)].red = FALSE,
                              ![Grandparent(x)].red = TRUE,
                              ![Parent(x)].sum = @ + 1,
                              ![Grandparent(x)].sum = @ + 1]
    /\ x' = Grandparent(x)
    /\ UNCHANGED <<n_nodes, freelist, tail, pc, z, fix, rootLeft>>

InsertRotate ==
    /\ pc = "insert" /\ Red(Parent(x)) /\ ~Red(Uncle(x))
    /\ nodes' = Rotate([nodes EXCEPT ![Parent(x)].red = FALSE,
                                     ![Grandparent(x)].red = TRUE],
                       Grandparent(x), "left")
    /\ UNCHANGED <<n_nodes, freelist, tail, pc, local>>

InsertEnd ==
    /\ pc = "insert" /\ ~Red(Parent(x))
    /\ nodes' = [nodes EXCEPT ![Top].red = FALSE]
    /\ pc' = "insertSums" /\ x' = Parent(x)
    /\ UNCHANGED <<n_nodes, freelist, tail, z, fix, rootLeft>>

(***************************************************************************)
(* FixupSums, from x up to the sentinel; then InsertTail moves the tail.   *)
(***************************************************************************)
\* Mutant: the loop does not climb.
SumsWithoutClimb ==
    /\ pc \in {"insertSums", "deleteSums"} /\ x # root
    /\ nodes' = reassign_sum(nodes, x)
    /\ UNCHANGED <<n_nodes, freelist, tail, pc, local>>

FixupSums ==
    /\ pc \in {"insertSums", "deleteSums"} /\ x # root
    /\ nodes' = reassign_sum(nodes, x)
    /\ x' = Parent(x)
    /\ UNCHANGED <<n_nodes, freelist, tail, pc, z, fix, rootLeft>>

InsertReturn ==
    /\ pc = "insertSums" /\ x = root
    /\ tail' = z
    /\ pc' = "idle"
    /\ UNCHANGED <<nodes, n_nodes, freelist, local>>

(***************************************************************************)
(* DeleteNode.  Splice takes y out of T, leaving its one child c in its    *)
(* place, and Replace puts y where n was when y was n's successor.         *)
(***************************************************************************)
Splice(T, y, c) ==
    [T EXCEPT ![c].parent = T[y].parent, ![T[y].parent][SideOf(y)] = c]

Replace(T, n, y) ==
    [T EXCEPT ![y] = [T[n] EXCEPT !.sum = T[y].sum],
              ![T[n].left].parent = y,
              ![T[n].right].parent = y,
              ![T[n].parent][SideOf(n)] = y]

DeleteNode(n) ==
    LET y  == IF nil \in {nodes[n].left, nodes[n].right} THEN n ELSE GetSuccessorOf(n)
        c  == IF nodes[y].left = nil THEN nodes[y].right ELSE nodes[y].left
        px == Parent(y)
        T  == Splice(nodes, y, c)
    IN  /\ pc = "idle"
        /\ tail' = IF tail = n THEN GetPredecessorOf(n) ELSE tail
        /\ nodes' = IF y = n THEN T ELSE Replace(T, n, y)
        /\ pc' = "deleteSums" /\ z' = n
        /\ x' = IF px = n THEN y ELSE px
        /\ fix' = IF Red(y) THEN None ELSE c
        /\ UNCHANGED <<n_nodes, freelist, rootLeft>>

DeleteReturn ==
    /\ freelist' = Append(freelist, z)
    /\ pc' = "idle"

\* The node taken out was red, so no colour is wrong.
DeleteRed ==
    /\ pc = "deleteSums" /\ x = root /\ fix = None
    /\ DeleteReturn
    /\ UNCHANGED <<nodes, n_nodes, tail, local>>

(***************************************************************************)
(* DeleteFixUp.  x has one black node too few above or in it.              *)
(***************************************************************************)
FixStart ==
    /\ pc = "deleteSums" /\ x = root /\ fix # None
    /\ pc' = "fixup" /\ x' = fix /\ rootLeft' = Top
    /\ UNCHANGED <<nodes, n_nodes, freelist, tail, z, fix>>

Fixing == pc = "fixup" /\ ~Red(x) /\ x # rootLeft

Nephew(side) == nodes[Sibling(x)][side]
Near == Nephew(SideOf(x))
Far == Nephew(Opposite(SideOf(x)))

FixRedSibling ==
    /\ Fixing /\ Red(Sibling(x))
    /\ nodes' = Rotate([nodes EXCEPT ![Sibling(x)].red = FALSE, ![Parent(x)].red = TRUE],
                       Parent(x), SideOf(x))
    /\ UNCHANGED <<n_nodes, freelist, tail, pc, local>>

FixBlackNephews ==
    /\ Fixing /\ ~Red(Sibling(x)) /\ ~Red(Near) /\ ~Red(Far)
    /\ nodes' = [nodes EXCEPT ![Sibling(x)].red = TRUE]
    /\ x' = Parent(x)
    /\ UNCHANGED <<n_nodes, freelist, tail, pc, z, fix, rootLeft>>

FixNearNephew ==
    /\ Fixing /\ ~Red(Sibling(x)) /\ Red(Near) /\ ~Red(Far)
    /\ nodes' = Rotate([nodes EXCEPT ![Near].red = FALSE, ![Sibling(x)].red = TRUE],
                       Sibling(x), Opposite(SideOf(x)))
    /\ UNCHANGED <<n_nodes, freelist, tail, pc, local>>

\* Mutant: the sibling takes the parent's place but not its colour.
SiblingStaysBlack ==
    /\ Fixing /\ ~Red(Sibling(x)) /\ Red(Far)
    /\ nodes' = Rotate([nodes EXCEPT ![Parent(x)].red = FALSE, ![Far].red = FALSE],
                       Parent(x), SideOf(x))
    /\ x' = rootLeft
    /\ UNCHANGED <<n_nodes, freelist, tail, pc, z, fix, rootLeft>>

FixFarNephew ==
    /\ Fixing /\ ~Red(Sibling(x)) /\ Red(Far)
    /\ nodes' = Rotate([nodes EXCEPT ![Sibling(x)].red = Red(Parent(x)),
                                     ![Parent(x)].red = FALSE,
                                     ![Far].red = FALSE],
                       Parent(x), SideOf(x))
    /\ x' = rootLeft
    /\ UNCHANGED <<n_nodes, freelist, tail, pc, z, fix, rootLeft>>

FixEnd ==
    /\ pc = "fixup" /\ (Red(x) \/ x = rootLeft)
    /\ nodes' = [nodes EXCEPT ![x].red = FALSE]
    /\ DeleteReturn
    /\ UNCHANGED <<n_nodes, tail, local>>

--------------------------------------------------------------------------------
\* The nodes from the least to the most recently used, by walking the tree.
Order ==
    LET walk[n \in Index] ==
            IF n = nil THEN <<>>
            ELSE walk[nodes[n].left] \o <<n>> \o walk[nodes[n].right]
    IN  walk[Top]

Stored == ToSet(Order)

InsertStep == InsertRecolor \/ InsertRotate \/ InsertEnd \/ InsertReturn

DeleteStep ==
    \/ DeleteRed \/ FixStart \/ FixEnd
    \/ FixRedSibling \/ FixBlackNephews \/ FixNearNephew \/ FixFarNephew

Continue == FixupSums \/ InsertStep \/ DeleteStep

Next ==
    \/ \E n \in Node : InsertTail(n)
    \/ \E n \in Stored : DeleteNode(n)
    \/ Continue

\* The thread that is in a loop runs on.
Spec == Init /\ [][Next]_vars /\ WF_vars(Continue)

--------------------------------------------------------------------------------
TypeOK ==
    /\ nodes \in [Index -> Cell]
    /\ n_nodes \in 2 .. MaxNodes + 2
    /\ freelist \in Seq(Node)
    /\ tail \in Index
    /\ pc \in {"idle", "insert", "insertSums", "deleteSums", "fixup"}
    /\ {z, x, rootLeft} \subseteq Index /\ fix \in Index \cup {None}

List == INSTANCE RecencyList WITH order <- Order

\* The tree is the recency list: whatever is rebuilt, its order changes only by
\* the node that enters at the end or leaves (refinement).
TreeIsRecencyList == List!Spec

\* Between two operations the climb from a node adds up to its exact distance:
\* how many different items of the class were used since it was.
Distances == pc = "idle" => \A n \in Stored : GetDistance(n) = List!Distance(n)

\* Between two operations the tree is red-black, so no operation walks more than
\* logarithmically far: no red node has a red child, and the children of a node
\* have the same number of black nodes below them.
RedBlack ==
    LET black[n \in Index] ==
            IF n = nil THEN 0
            ELSE black[nodes[n].left] + IF Red(n) THEN 0 ELSE 1
    IN  pc = "idle" =>
            /\ ~Red(Top)
            /\ \A n \in Stored :
                  /\ Red(n) => ~Red(nodes[n].left) /\ ~Red(nodes[n].right)
                  /\ black[nodes[n].left] = black[nodes[n].right]

\* What the code asserts: while InsertTail recolours, the cursor climbs the right
\* edge of the tree only, and neither sentinel ever turns red or is counted.
AssertionsHold ==
    /\ pc = "insert" /\ Red(Parent(x)) =>
          SideOf(Parent(x)) = "right" /\ (~Red(Uncle(x)) => SideOf(x) = "right")
    /\ \A n \in {nil, root} : ~Red(n) /\ nodes[n].sum = 0

\* An index is stored, free or on its way, and in one place only: none is given
\* out twice, none is lost.
IndicesAccounted ==
    LET moving == IF pc \in {"deleteSums", "fixup"} THEN <<z>> ELSE <<>>
        all    == Order \o freelist \o moving
    IN  /\ ToSet(all) = 2 .. n_nodes - 1
        /\ Len(all) = n_nodes - 2

\* What the tree's loops rely on, and its array.
TreeSound == TypeOK /\ RedBlack /\ AssertionsHold /\ IndicesAccounted /\ Distances

\* Every loop ends, the repair that turns back down after a rotation too: the
\* profiler's one consumer is never caught in the tree.
OperationsEnd == []<>(pc = "idle")

--------------------------------------------------------------------------------
(***************************************************************************)
(* For TLC: which index a node has makes no difference, so two states are  *)
(* one when the trees are alike with every node named by its rank, and     *)
(* what no step will read is left out (the cells of free nodes, the local  *)
(* variables of an operation that returned).                               *)
(***************************************************************************)
Shape ==
    LET order   == Order
        rank(n) == IF n \in {nil, root, None} THEN n
                   ELSE IF n \in ToSet(order) THEN 1 + SelectInSeq(order, LAMBDA m : m = n)
                   ELSE MaxNodes + 2
        cell(n) == <<nodes[n].sum, nodes[n].red, rank(nodes[n].left),
                     rank(nodes[n].right), rank(nodes[n].parent)>>
    IN  <<[i \in DOMAIN order |-> cell(order[i])], cell(nil), cell(root),
          n_nodes, Len(freelist), rank(tail), pc,
          IF pc = "idle" THEN <<>> ELSE <<rank(z), rank(x)>>,
          IF pc = "deleteSums" THEN rank(fix) ELSE None,
          IF pc = "fixup" THEN rank(rootLeft) ELSE None>>

================================================================================
