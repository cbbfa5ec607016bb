----------------------------- MODULE LinkedTree -----------------------------
(***************************************************************************)
(* The memory two red-black trees work on (src/rbtree, src/rbtree_new): a  *)
(* root pointer and, for each node, two children, the parent and the       *)
(* colour.  A node is embedded in the client's record; here it is its own  *)
(* key, and Twin(n) is a second node with the same key, to replace n by.   *)
(* A NULL the code would follow is an application of a function outside    *)
(* its domain, so TLC reports it.                                          *)
(***************************************************************************)
EXTENDS Integers, Sequences, FiniteSets

CONSTANTS Keys          \* a finite set of positive integers

NULL == 0
Nodes == Keys \cup {-k : k \in Keys}
Twin(n) == -n
KeyOf(n) == IF n < 0 THEN -n ELSE n
Sides == {"left", "right"}
Opp(s) == IF s = "left" THEN "right" ELSE "left"

Child(t, n, s) == t.kid[n][s]
SetChild(t, n, s, c) == [t EXCEPT !.kid[n][s] = c]
SetParent(t, n, p) == [t EXCEPT !.parent[n] = p]
SetColor(t, n, c) == [t EXCEPT !.color[n] = c]
IsRed(t, n) == t.color[n] = "red"
NullOrBlack(t, n) == n = NULL \/ ~IsRed(t, n)
IfNode(t, n, u) == IF n = NULL THEN t ELSE u       \* "if (n) ..."
SideOf(t, n, p) == IF n = Child(t, p, "left") THEN "left" ELSE "right"

Empty == [root |-> NULL, kid |-> [n \in Nodes |-> [s \in Sides |-> NULL]],
          parent |-> [n \in Nodes |-> NULL], color |-> [n \in Nodes |-> "red"]]

\* The link that points at n now points at m: a child of p, or the root.
Relink(t, n, p, m) ==
  IF p = NULL THEN [t EXCEPT !.root = m] ELSE SetChild(t, p, SideOf(t, n, p), m)

\* Down to the last node on side s.
RECURSIVE Furthest(_, _, _)
Furthest(t, n, s) == IF Child(t, n, s) = NULL THEN n ELSE Furthest(t, Child(t, n, s), s)

\* Up from n until a step does not come from side s.
RECURSIVE Climb(_, _, _)
Climb(t, n, s) ==
  LET p == t.parent[n]
  IN IF p # NULL /\ n = Child(t, p, s) THEN Climb(t, p, s) ELSE p

RECURSIVE Below(_, _)
Below(t, n) == IF n = NULL THEN {}
               ELSE {n} \cup Below(t, Child(t, n, "left")) \cup Below(t, Child(t, n, "right"))
Linked(t) == Below(t, t.root)

\* The client's search core, as rbtree.h writes it: the node with the key, or
\* the last node on the way to where it would hang.
RECURSIVE Descend(_, _, _)
Descend(t, n, k) ==
  LET s == IF k < KeyOf(n) THEN "left" ELSE "right"
  IN IF k = KeyOf(n) \/ Child(t, n, s) = NULL THEN n ELSE Descend(t, Child(t, n, s), k)

Find(t, k) == IF t.root = NULL THEN NULL ELSE Descend(t, t.root, k)

\* A node out of the tree holds nothing the code reads again before linking or
\* replacing writes it.
Forget(t, n) == [t EXCEPT !.kid[n] = [s \in Sides |-> NULL], !.parent[n] = NULL,
                          !.color[n] = "red"]

-----------------------------------------------------------------------------
RECURSIVE InOrder(_, _)
InOrder(t, n) == IF n = NULL THEN <<>>
                 ELSE InOrder(t, Child(t, n, "left")) \o <<n>> \o InOrder(t, Child(t, n, "right"))

\* -1 when two paths below n disagree.
RECURSIVE BlackHeight(_, _)
BlackHeight(t, n) ==
  IF n = NULL THEN 1
  ELSE LET l == BlackHeight(t, Child(t, n, "left"))
           r == BlackHeight(t, Child(t, n, "right"))
       IN IF l = -1 \/ l # r THEN -1 ELSE l + (IF IsRed(t, n) THEN 0 ELSE 1)

\* A red-black tree: ordered, the root black, no red node under a red one, as
\* many black nodes on every path down.
RedBlackTree(t) ==
  LET w == InOrder(t, t.root) IN
  /\ \A i \in 1..Len(w) - 1 : KeyOf(w[i]) < KeyOf(w[i + 1])
  /\ t.root # NULL => ~IsRed(t, t.root)
  /\ \A n \in Linked(t) : IsRed(t, n) => \A s \in Sides : NullOrBlack(t, Child(t, n, s))
  /\ BlackHeight(t, t.root) # -1

\* Every parent pointer is the inverse of a child pointer.
ParentsAgree(t) ==
  /\ t.root # NULL => t.parent[t.root] = NULL
  /\ \A n \in Linked(t), s \in Sides : LET c == Child(t, n, s)
                                       IN c # NULL => t.parent[c] = n

=============================================================================
