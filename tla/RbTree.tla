------------------------------- MODULE RbTree -------------------------------
(***************************************************************************)
(* The intrusive red-black tree of src/rbtree, whose client searches for   *)
(* the place, links the node as a red leaf and calls rb_insert_color.      *)
(*                                                                         *)
(* The code writes each case for the left and for the right; here the side *)
(* is a parameter.                                                         *)
(***************************************************************************)
EXTENDS LinkedTree

VARIABLES tree

vars == <<tree>>

-----------------------------------------------------------------------------
\* Both rotations: n goes down on side s, its other child comes up.
Rotate(t, n, s) ==
  LET o  == Opp(s)
      c  == Child(t, n, o)
      p  == t.parent[n]
      g  == Child(t, c, s)
      t1 == SetChild(t, n, o, g)
      t2 == IfNode(t1, g, SetParent(t1, g, n))
      t3 == SetParent(SetChild(t2, c, s, n), c, p)
  IN SetParent(Relink(t3, n, p, c), n, c)

RotateLeft(t, n) == Rotate(t, n, "left")
RotateRight(t, n) == Rotate(t, n, "right")
Rot(t, n, s) == IF s = "left" THEN RotateLeft(t, n) ELSE RotateRight(t, n)

\* rb_insert_color: one turn of the loop is one call.
RECURSIVE InsertColor(_, _)
InsertColor(t, n) ==
  LET p == t.parent[n] IN
  IF p = NULL \/ ~IsRed(t, p) THEN SetColor(t, t.root, "black")
  ELSE
    LET g == t.parent[p]
        s == SideOf(t, p, g)
        u == Child(t, g, Opp(s))
        inner == Child(t, p, Opp(s)) = n
        t1 == IF inner THEN Rot(t, p, s) ELSE t
        up == IF inner THEN n ELSE p
        low == IF inner THEN p ELSE n
    IN IF u # NULL /\ IsRed(t, u)
       THEN InsertColor(SetColor(SetColor(SetColor(t, u, "black"), p, "black"), g, "red"), g)
       ELSE InsertColor(Rot(SetColor(SetColor(t1, up, "black"), g, "red"), g, Opp(s)), low)

\* __rb_erase_color: n (possibly NULL) under p, on side s, is one black short.
\* A red sibling is rotated away; the near child of a black one comes up if the
\* far one is not red; then the far child takes the missing black.
EraseFar(t, p, s) ==
  LET w == Child(t, p, Opp(s))
      t1 == SetColor(SetColor(t, w, t.color[p]), p, "black")
      far == Child(t1, w, Opp(s))
  IN Rot(IfNode(t1, far, SetColor(t1, far, "black")), p, s)
EraseNear(t, p, s) ==
  LET w == Child(t, p, Opp(s))
      near == Child(t, w, s)
  IN IF NullOrBlack(t, Child(t, w, Opp(s)))
     THEN Rot(SetColor(IfNode(t, near, SetColor(t, near, "black")), w, "red"), w, Opp(s))
     ELSE t
EraseSibling(t, p, s) ==
  LET w == Child(t, p, Opp(s))
  IN IF IsRed(t, w) THEN Rot(SetColor(SetColor(t, w, "black"), p, "red"), p, s) ELSE t
BlackRoot(t) == IfNode(t, t.root, SetColor(t, t.root, "black"))
RECURSIVE EraseColor(_, _, _)
EraseColor(t, n, p) ==
  LET s == SideOf(t, n, p)
      climb(u) ==
        LET w == Child(u, p, Opp(s))
        IN IF \A x \in Sides : NullOrBlack(u, Child(u, w, x))
           THEN EraseColor(SetColor(u, w, "red"), p, u.parent[p])
           ELSE BlackRoot(EraseFar(EraseNear(u, p, s), p, s))
  IN IF ~NullOrBlack(t, n) \/ n = t.root THEN IfNode(t, n, SetColor(t, n, "black"))
     ELSE climb(EraseSibling(t, p, s))

\* The successor's child always goes to the left of the successor's parent.
EraseTwo_Left(t, old) ==
  LET n  == Furthest(t, Child(t, old, "right"), "left")
      c  == Child(t, n, "right")
      p  == t.parent[n]
      t1 == IfNode(t, c, SetParent(t, c, p))
      t2 == SetChild(t1, p, "left", c)
      t3 == [t2 EXCEPT !.parent[n] = t2.parent[old], !.color[n] = t2.color[old],
                       !.kid[n] = [t2.kid[old] EXCEPT !["right"] = IF p = old THEN NULL ELSE @]]
      t4 == Relink(t3, old, t3.parent[old], n)
      l  == Child(t4, n, "left")
      r  == Child(t4, n, "right")
      t5 == IfNode(t4, l, SetParent(t4, l, n))
  IN [t |-> IfNode(t5, r, SetParent(t5, r, n)), child |-> c,
      parent |-> IF p = old THEN n ELSE p, color |-> "red"]

\* rb_erase up to the label color: the tree with n out, and what the fixup
\* starts from.
EraseOne(t, n, c) ==            \* n has at most the child c
  LET p  == t.parent[n]
      t1 == IfNode(t, c, SetParent(t, c, p))
  IN [t |-> Relink(t1, n, p, c), child |-> c, parent |-> p, color |-> t.color[n]]

EraseTwo(t, old) ==             \* the successor takes the place of old
  LET n  == Furthest(t, Child(t, old, "right"), "left")
      c  == Child(t, n, "right")
      p  == t.parent[n]
      t1 == IfNode(t, c, SetParent(t, c, p))
      t2 == SetChild(t1, p, IF p = old THEN "right" ELSE "left", c)
      t3 == [t2 EXCEPT !.parent[n] = t2.parent[old], !.color[n] = t2.color[old],
                       !.kid[n] = t2.kid[old]]
      t4 == Relink(t3, old, t3.parent[old], n)
      t5 == SetParent(t4, Child(t4, old, "left"), n)
      r  == Child(t5, old, "right")
  IN [t |-> IfNode(t5, r, SetParent(t5, r, n)), child |-> c,
      parent |-> IF p = old THEN n ELSE p, color |-> t.color[n]]

Recolored(e) == IF e.color = "black" THEN EraseColor(e.t, e.child, e.parent) ELSE e.t
Erase(t, n) ==
  Recolored(IF Child(t, n, "left") = NULL THEN EraseOne(t, n, Child(t, n, "right"))
            ELSE IF Child(t, n, "right") = NULL THEN EraseOne(t, n, Child(t, n, "left"))
            ELSE EraseTwo(t, n))

\* rb_first, rb_last, rb_next and rb_prev
First(t) == IF t.root = NULL THEN NULL ELSE Furthest(t, t.root, "left")
Last(t) == IF t.root = NULL THEN NULL ELSE Furthest(t, t.root, "right")

NextNode(t, n) == IF Child(t, n, "right") # NULL
                  THEN Furthest(t, Child(t, n, "right"), "left") ELSE Climb(t, n, "right")
PrevNode(t, n) == IF Child(t, n, "left") # NULL
                  THEN Furthest(t, Child(t, n, "left"), "right") ELSE Climb(t, n, "left")

\* The right child goes on naming the node replaced as its parent.
Replace_Right(t, victim, new) ==
  LET l  == Child(t, victim, "left")
      t1 == Relink(t, victim, t.parent[victim], new)
      t2 == IfNode(t1, l, SetParent(t1, l, new))
  IN [t2 EXCEPT !.kid[new] = t2.kid[victim], !.parent[new] = t2.parent[victim],
                !.color[new] = t2.color[victim]]

\* rb_replace_node
Replace(t, victim, new) ==
  LET l  == Child(t, victim, "left")
      r  == Child(t, victim, "right")
      t1 == Relink(t, victim, t.parent[victim], new)
      t2 == IfNode(t1, l, SetParent(t1, l, new))
      t3 == IfNode(t2, r, SetParent(t2, r, new))
  IN [t3 EXCEPT !.kid[new] = t3.kid[victim], !.parent[new] = t3.parent[victim],
                !.color[new] = t3.color[victim]]

-----------------------------------------------------------------------------
\* rb_link_node
LinkNode(t, n, p) ==
  LET t1 == [t EXCEPT !.parent[n] = p, !.color[n] = "red",
                      !.kid[n] = [s \in Sides |-> NULL]]
  IN IF p = NULL THEN [t1 EXCEPT !.root = n]
     ELSE SetChild(t1, p, IF KeyOf(n) < KeyOf(p) THEN "left" ELSE "right", n)

Init == tree = Empty

Insert(n) ==
  LET p == Find(tree, KeyOf(n)) IN
  /\ p = NULL \/ KeyOf(p) # KeyOf(n)
  /\ tree' = InsertColor(LinkNode(tree, n, p), n)

Remove(n) ==
  /\ n \in Linked(tree)
  /\ tree' = Forget(Erase(tree, n), n)

ReplaceNode(n) ==
  /\ n \in Linked(tree)
  /\ tree' = Forget(Replace(tree, n, Twin(n)), n)

Next == \E n \in Nodes : Insert(n) \/ Remove(n) \/ ReplaceNode(n)
Spec == Init /\ [][Next]_vars
-----------------------------------------------------------------------------
\* Going from rb_first with rb_next, or from rb_last with rb_prev, passes every
\* node once in key order.
IterationExact(t) ==
  LET w == InOrder(t, t.root) IN
  /\ First(t) = IF w = <<>> THEN NULL ELSE w[1]
  /\ Last(t) = IF w = <<>> THEN NULL ELSE w[Len(w)]
  /\ \A i \in 1..Len(w) : /\ NextNode(t, w[i]) = IF i = Len(w) THEN NULL ELSE w[i + 1]
                          /\ PrevNode(t, w[i]) = IF i = 1 THEN NULL ELSE w[i - 1]

\* rb_insert_color, rb_erase and rb_replace_node keep the tree a red-black tree
\* with sound parent pointers, whatever was inserted, erased and replaced.
TreeSound == RedBlackTree(tree) /\ ParentsAgree(tree) /\ IterationExact(tree)

\* An operation changes the set of nodes by the node it names and no other.
OnlyNamed ==
  \/ \E n \in Nodes : Linked(tree') = Linked(tree) \cup {n}
  \/ \E n \in Nodes : Linked(tree') = Linked(tree) \ {n}
  \/ \E n \in Nodes : Linked(tree') = (Linked(tree) \ {n}) \cup {Twin(n)}
=============================================================================
