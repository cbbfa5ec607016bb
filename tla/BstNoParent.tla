---------------------------- MODULE BstNoParent ----------------------------
(***************************************************************************)
(* The binary search tree of src/bst_no_parent: as src/bst, but a node     *)
(* with one child is replaced by it, and the root is passed by reference.  *)
(***************************************************************************)
EXTENDS Integers, Sequences, FiniteSets

CONSTANTS Data,         \* positive integers
          MaxNodes      \* bound: the nodes in the tree

VARIABLES root,         \* the client's root pointer
          held          \* how often each datum was inserted and not deleted

vars == <<root, held>>

Nil == [data |-> 0]
Leaf(d) == [data |-> d, left |-> Nil, right |-> Nil]

\* bst_insert
RECURSIVE Inserted(_, _)
Inserted(t, d) ==
  IF t = Nil THEN Leaf(d)
  ELSE IF d > t.data THEN [t EXCEPT !.right = Inserted(@, d)]
  ELSE [t EXCEPT !.left = Inserted(@, d)]

RECURSIVE InIterate(_)
InIterate(t) == IF t = Nil THEN <<>> ELSE InIterate(t.left) \o <<t.data>> \o InIterate(t.right)
RECURSIVE Min(_)
Min(t) == IF t = Nil \/ t.left = Nil THEN t ELSE Min(t.left)
RECURSIVE Max(_)
Max(t) == IF t = Nil \/ t.right = Nil THEN t ELSE Max(t.right)

RECURSIVE Deleted(_, _)
\* The greatest of the left subtree is taken out by bst_min's rule.
Deleted_Min(t, d) ==
  LET Into(side, e) == LET r == Deleted(t[side], e)
                       IN [top |-> [t EXCEPT ![side] = r.top], rc |-> r.rc]
  IN IF t = Nil THEN [top |-> Nil, rc |-> -1]
     ELSE IF d > t.data THEN Into("right", d)
     ELSE IF d < t.data THEN Into("left", d)
     ELSE IF t.left # Nil /\ t.right # Nil
     THEN LET e == Min(t.left).data
              r == Deleted(t.left, e)
          IN [top |-> [t EXCEPT !.left = r.top, !.data = e], rc |-> r.rc]
     ELSE [top |-> IF t.left # Nil THEN t.left ELSE t.right, rc |-> 0]

\* bst_delete
Deleted(t, d) ==
  LET Into(side, e) == LET r == Deleted(t[side], e)
                       IN [top |-> [t EXCEPT ![side] = r.top], rc |-> r.rc]
  IN IF t = Nil THEN [top |-> Nil, rc |-> -1]
     ELSE IF d > t.data THEN Into("right", d)
     ELSE IF d < t.data THEN Into("left", d)
     ELSE IF t.left # Nil /\ t.right # Nil
     THEN LET e == Max(t.left).data
              r == Deleted(t.left, e)
          IN [top |-> [t EXCEPT !.left = r.top, !.data = e], rc |-> r.rc]
     ELSE [top |-> IF t.left # Nil THEN t.left ELSE t.right, rc |-> 0]

Init == root = Nil /\ held = [d \in Data |-> 0]

Insert(d) ==
  /\ Len(InIterate(root)) < MaxNodes
  /\ root' = Inserted(root, d)
  /\ held' = [held EXCEPT ![d] = @ + 1]

Delete(d) ==
  LET r == Deleted(root, d) IN
  /\ root' = r.top
  /\ held' = [held EXCEPT ![d] = IF r.rc = 0 THEN @ - 1 ELSE @]

Next == \E d \in Data : Insert(d) \/ Delete(d)
Spec == Init /\ [][Next]_vars
-----------------------------------------------------------------------------
\* The in-order walk is sorted and shows each datum as often as it was inserted
\* and not deleted; bst_min and bst_max are its ends.
HoldsExactly ==
  LET w == InIterate(root) IN
  /\ \A i \in 1..Len(w) - 1 : w[i] <= w[i + 1]
  /\ \A d \in Data : Cardinality({i \in 1..Len(w) : w[i] = d}) = held[d]
  /\ w # <<>> => Min(root).data = w[1] /\ Max(root).data = w[Len(w)]
=============================================================================
