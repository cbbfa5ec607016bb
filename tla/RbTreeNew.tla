----------------------------- MODULE RbTreeNew -----------------------------
(***************************************************************************)
(* The second red-black tree, src/rbtree_new.  One rotation serves both    *)
(* sides, rbtree_delete first swaps the node with its successor so that    *)
(* only a leaf is ever unlinked, and the code asserts what it believes at  *)
(* each case; "ok" is the conjunction of the assertions met.               *)
(***************************************************************************)
EXTENDS LinkedTree

CONSTANTS Replaced      \* the keys whose node a client replaces by another

VARIABLES tree,         \* the memory
          ok,           \* no assert has failed
          stale         \* the nodes whose parent pointer rb_replace left behind

vars == <<tree, ok, stale>>

\* rbtree_rotate: child comes up in the place of n.
Rotate(t, n, c) ==
  LET p  == t.parent[n]
      s  == SideOf(t, c, n)          \* the side the child hangs on
      o  == Opp(s)
      g  == Child(t, c, o)
      t1 == SetChild(Relink(t, n, p, c), n, s, g)
      t2 == IfNode(t1, g, SetParent(t1, g, n))
  IN SetParent(SetParent(SetChild(t2, c, o, n), n, c), c, p)

\* rbtree_insert_color
RECURSIVE InsertColor(_, _)
InsertColor(t, n) ==
  LET p == t.parent[n] IN
  IF p = NULL THEN SetColor(t, n, "black")
  ELSE IF ~IsRed(t, p) THEN t
  ELSE
    LET g  == t.parent[p]
        s  == SideOf(t, p, g)
        u  == Child(t, g, Opp(s))
        inner == Child(t, p, Opp(s)) = n
        t1 == IF inner THEN Rotate(t, p, n) ELSE t
        q  == IF inner THEN n ELSE p
    IN IF u # NULL /\ IsRed(t, u)
       THEN InsertColor(SetColor(SetColor(SetColor(t, g, "red"), p, "black"), u, "black"), g)
       ELSE SetColor(SetColor(Rotate(t1, g, q), q, "black"), g, "red")

\* rbtree_delete_color: the black leaf n, on side s of p, is about to go.  Case 1
\* rotates a red sibling away, case 2 colours a black one red and may go on with
\* p, case 3 brings its near child up, case 4 ends with the far one.
DeleteFar(t, p, s) ==                                                   \* case 4
  LET w == Child(t, p, Opp(s))
  IN SetColor(SetColor(SetColor(Rotate(t, p, w), w, t.color[p]), p, "black"), Child(t, w, Opp(s)), "black")
DeleteNear(t, p, s) ==                                                  \* case 3
  LET w == Child(t, p, Opp(s))
      near == Child(t, w, s)
  IN IF NullOrBlack(t, Child(t, w, Opp(s)))
     THEN SetColor(SetColor(Rotate(t, w, near), w, "red"), near, "black") ELSE t
DeleteSibling(t, p, s) ==                                               \* case 1
  LET w == Child(t, p, Opp(s))
  IN IF IsRed(t, w) THEN SetColor(SetColor(Rotate(t, p, w), w, "black"), p, "red") ELSE t
RECURSIVE DeleteColor(_, _)
DeleteColor(t, n) ==
  LET p == t.parent[n]
      s == SideOf(t, n, p)
      climb(u) ==                                                       \* case 2
        LET w == Child(u, p, Opp(s))
            up == SetColor(u, w, "red")
            checked(r) == [r EXCEPT !.ok = @ /\ ~IsRed(u, w)]
        IN checked(IF \E x \in Sides : ~NullOrBlack(u, Child(u, w, x))
                   THEN [t |-> DeleteFar(DeleteNear(u, p, s), p, s), ok |-> TRUE]
                   ELSE IF IsRed(up, p) \/ up.parent[p] = NULL
                   THEN [t |-> SetColor(up, p, "black"), ok |-> TRUE]
                   ELSE DeleteColor(up, p))
  IN IF p = NULL THEN [t |-> t, ok |-> ~IsRed(t, n)] ELSE climb(DeleteSibling(t, p, s))

\* The link of rbtree_insert: in an empty tree the test passes link = NULL or
\* link = &root->node; both leave the node black at the root.
LinkNode(t, n, p) ==
  LET t1 == [t EXCEPT !.parent[n] = p, !.kid[n] = [s \in Sides |-> NULL],
                      !.color[n] = IF t.root = NULL THEN "black" ELSE "red"]
  IN IF p = NULL THEN [t1 EXCEPT !.root = n]
     ELSE SetChild(t1, p, IF KeyOf(n) < KeyOf(p) THEN "left" ELSE "right", n)

\* The two nodes change places and keep their colours.
Swap_Colors(t, n, c) ==
  LET p == t.parent[c]
      l == Child(t, c, "left")
      r == Child(t, c, "right")
      nl == Child(t, n, "left")
      nr == Child(t, n, "right")
      t1 == IfNode(t, nl, SetParent(t, nl, c))
      t2 == SetChild(t1, c, "left", IF nl = c THEN n ELSE nl)
      t3 == IfNode(t2, nr, SetParent(t2, nr, c))
      t4 == SetChild(t3, c, "right", IF nr = c THEN n ELSE nr)
      t5 == SetParent(Relink(t4, n, t4.parent[n], c), c, t4.parent[n])
      t6 == IF p # NULL /\ p # n THEN SetChild(t5, p, SideOf(t5, c, p), n) ELSE t5
      t7 == SetParent(t6, n, IF p = n THEN c ELSE p)
      t8 == SetChild(IfNode(t7, l, SetParent(t7, l, n)), n, "left", l)
  IN SetChild(IfNode(t8, r, SetParent(t8, r, n)), n, "right", r)

\* rbtree_swap: c, below n, changes places and colour with it.
Swap(t, n, c) ==
  LET p == t.parent[c]
      l == Child(t, c, "left")
      r == Child(t, c, "right")
      nl == Child(t, n, "left")
      nr == Child(t, n, "right")
      t1 == IfNode(t, nl, SetParent(t, nl, c))
      t2 == SetChild(t1, c, "left", IF nl = c THEN n ELSE nl)
      t3 == IfNode(t2, nr, SetParent(t2, nr, c))
      t4 == SetChild(t3, c, "right", IF nr = c THEN n ELSE nr)
      t5 == SetParent(Relink(t4, n, t4.parent[n], c), c, t4.parent[n])
      t6 == IF p # NULL /\ p # n THEN SetChild(t5, p, SideOf(t5, c, p), n) ELSE t5
      t7 == SetParent(t6, n, IF p = n THEN c ELSE p)
      t8 == SetChild(IfNode(t7, l, SetParent(t7, l, n)), n, "left", l)
      t9 == SetChild(IfNode(t8, r, SetParent(t8, r, n)), n, "right", r)
  IN [t9 EXCEPT !.color[c] = t.color[n], !.color[n] = t.color[c]]

\* rbtree_unlink
Unlink(t, n) == Relink(t, n, t.parent[n], NULL)

\* rbtree_delete: n has at most one child when it is taken out.
DeleteLeaf(t, n) ==
  LET unlinked(r) == [r EXCEPT !.t = Unlink(@, n)]
  IN IF IsRed(t, n) THEN [t |-> Unlink(t, n), ok |-> TRUE] ELSE unlinked(DeleteColor(t, n))
DeleteAbove(t, n, s) ==
  LET c == Child(t, n, s)
      swapped(u) == [t |-> Unlink(u, n),
                     ok |-> /\ Child(t, n, Opp(s)) = NULL /\ ~IsRed(t, n) /\ IsRed(t, c)
                            /\ \A x \in Sides : Child(u, n, x) = NULL]     \* rbtree_unlink's
  IN swapped(Swap(t, n, c))
DeleteLow(t, n) ==
  IF \A s \in Sides : Child(t, n, s) = NULL THEN DeleteLeaf(t, n)
  ELSE DeleteAbove(t, n, CHOOSE s \in Sides : Child(t, n, s) # NULL)
Delete(t, n) ==
  DeleteLow(IF \A s \in Sides : Child(t, n, s) # NULL
            THEN Swap(t, n, Furthest(t, Child(t, n, "right"), "left")) ELSE t, n)

First(t) == IF t.root = NULL THEN NULL ELSE Furthest(t, t.root, "left")
Last(t) == IF t.root = NULL THEN NULL ELSE Furthest(t, t.root, "right")
PrevNode(t, n) == IF Child(t, n, "left") # NULL
                  THEN Furthest(t, Child(t, n, "left"), "right") ELSE Climb(t, n, "left")
NextNode(t, n) == IF Child(t, n, "right") # NULL
                  THEN Furthest(t, Child(t, n, "right"), "left") ELSE Climb(t, n, "right")

\* rb_replace copies the node but leaves the children's parent pointers.
Replace(t, old, new) ==
  [Relink(t, old, t.parent[old], new) EXCEPT
     !.kid[new] = t.kid[old], !.parent[new] = t.parent[old], !.color[new] = t.color[old]]

-----------------------------------------------------------------------------
Init == tree = Empty /\ ok = TRUE /\ stale = {}

Insert(n) ==
  LET p == Find(tree, KeyOf(n)) IN
  /\ stale = {} /\ n \in Keys
  /\ p = NULL \/ KeyOf(p) # KeyOf(n)
  /\ tree' = InsertColor(LinkNode(tree, n, p), n)
  /\ UNCHANGED <<ok, stale>>

Deleted(n, r) == tree' = Forget(r.t, n) /\ ok' = (ok /\ r.ok)
Remove(n) ==
  /\ stale = {} /\ n \in Linked(tree)
  /\ Deleted(n, Delete(tree, n))
  /\ UNCHANGED stale

\* While a stale pointer is around only searches are modelled: what insertion
\* and deletion make of it depends on the client's use of the old node.
ReplaceNode(n) ==
  /\ stale = {} /\ KeyOf(n) \in Replaced /\ n \in Linked(tree)
  /\ stale' = {Child(tree, n, s) : s \in Sides} \ {NULL}
  /\ tree' = IF stale' = {} THEN Forget(Replace(tree, n, Twin(n)), n)
             ELSE Replace(tree, n, Twin(n))
  /\ UNCHANGED ok

Next == \E n \in Nodes : Insert(n) \/ Remove(n) \/ ReplaceNode(n)
Spec == Init /\ [][Next]_vars
-----------------------------------------------------------------------------
\* Going from rbtree_first with rbtree_next, or from rbtree_last with
\* rbtree_prev, passes every node once in key order.
IterationExact(t) ==
  LET w == InOrder(t, t.root) IN
  /\ First(t) = IF w = <<>> THEN NULL ELSE w[1]
  /\ Last(t) = IF w = <<>> THEN NULL ELSE w[Len(w)]
  /\ \A i \in 1..Len(w) : /\ NextNode(t, w[i]) = IF i = Len(w) THEN NULL ELSE w[i + 1]
                          /\ PrevNode(t, w[i]) = IF i = 1 THEN NULL ELSE w[i - 1]

\* rbtree_insert and rbtree_delete keep the tree a red-black tree, with sound
\* parent pointers as long as rb_replace was used on leaves alone, and none of
\* their assertions fails.
TreeSound ==
  /\ ok /\ RedBlackTree(tree)
  /\ stale = {} => ParentsAgree(tree) /\ IterationExact(tree)

\* An operation changes the set of nodes by the node it names and no other.
OnlyNamed ==
  \/ \E n \in Nodes : Linked(tree') = Linked(tree) \cup {n}
  \/ \E n \in Nodes : Linked(tree') = Linked(tree) \ {n}
  \/ \E n \in Nodes : Linked(tree') = (Linked(tree) \ {n}) \cup {Twin(n)}
=============================================================================
