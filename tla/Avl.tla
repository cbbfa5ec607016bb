-------------------------------- MODULE Avl --------------------------------
(***************************************************************************)
(* The AVL tree of src/avl: objects with a header (magic number and the    *)
(* number of trees that hold them) kept in trees whose nodes carry a       *)
(* balance.  A node has no parent pointer and hangs under exactly one      *)
(* link, so a tree is the nested record its root link points at, and       *)
(* "*top = x" in the code is the subtree an operator returns.              *)
(*                                                                         *)
(* The code writes every rotation twice, once for each side; here the side *)
(* is a parameter.                                                         *)
(***************************************************************************)
EXTENDS Integers, Sequences, FiniteSets

CONSTANTS Objects,      \* what a client may allocate: positive integers
          Key,          \* what the client's compare_fn orders them by
          Trees,        \* the handles
          MaxCount,     \* bound: how far a leaking tree counter is followed
          ThreadSafe    \* the trees are made without OPTION_NOT_THREADSAFE

VARIABLES root,         \* the tree behind each handle
          node_cnt,     \* struct avl_tree.node_cnt
          open,         \* the handles between init and shutdown
          count,        \* object header: internal_data, -1 when not allocated
          walk          \* the walk_safe in progress, or Idle

vars == <<root, node_cnt, open, count, walk>>

NoObject == 0
Nil == [obj |-> NoObject]
Sides == {"left", "right"}
Opp(s) == IF s = "left" THEN "right" ELSE "left"
Heavy(s) == IF s = "left" THEN -1 ELSE 1          \* LEFT_HEAVY, RIGHT_HEAVY
NewNode(o) == [obj |-> o, balance |-> 0, left |-> Nil, right |-> Nil]

\* A level is taken for lost after every single rotation.
Lowered_Single(e, s) ==
  LET o == Opp(s)
      c == e[o]
      g == c[s]
  IN CASE e.balance = Heavy(s) -> [top |-> [e EXCEPT !.balance = 0], more |-> TRUE]
       [] e.balance = 0 -> [top |-> [e EXCEPT !.balance = Heavy(o)], more |-> FALSE]
       [] c.balance = Heavy(s) ->
            [top |-> [g EXCEPT
               ![o] = [c EXCEPT ![s] = g[o], !.balance = IF g.balance = Heavy(s) THEN Heavy(o) ELSE 0],
               ![s] = [e EXCEPT ![o] = g[s], !.balance = IF g.balance = Heavy(o) THEN Heavy(s) ELSE 0],
               !.balance = 0], more |-> TRUE]
       [] OTHER -> [top |-> [c EXCEPT ![s] = [e EXCEPT ![o] = c[s], !.balance = -c.balance],
                                      !.balance = 0], more |-> TRUE]

\* A subtree that lost a level on side s; "more" is *balancing_needed.
Lowered(e, s) ==
  LET o == Opp(s)
      c == e[o]
  IN CASE e.balance = Heavy(s) ->
            [top |-> [e EXCEPT !.balance = 0], more |-> TRUE]
       [] e.balance = 0 ->
            [top |-> [e EXCEPT !.balance = Heavy(o)], more |-> FALSE]
       [] e.balance = Heavy(o) /\ c.balance = 0 ->
            [top |-> [c EXCEPT ![s] = [e EXCEPT ![o] = c[s]],
                               !.balance = Heavy(s)], more |-> FALSE]
       [] e.balance = Heavy(o) /\ c.balance = Heavy(o) ->
            [top |-> [c EXCEPT ![s] = [e EXCEPT ![o] = c[s], !.balance = 0],
                               !.balance = 0], more |-> TRUE]
       [] OTHER ->
            LET g == c[s]
            IN [top |-> [g EXCEPT
                  ![o] = [c EXCEPT ![s] = g[o],
                            !.balance = IF g.balance = Heavy(s) THEN Heavy(o) ELSE 0],
                  ![s] = [e EXCEPT ![o] = g[s],
                            !.balance = IF g.balance = Heavy(o) THEN Heavy(s) ELSE 0],
                  !.balance = 0], more |-> TRUE]

BalanceRight(e) == Lowered(e, "right")
BalanceLeft(e) == Lowered(e, "left")

\* A subtree that gained a level on side s.
Raised(e, s) ==
  LET o == Opp(s)
      c == e[s]
  IN CASE e.balance = Heavy(o) ->
            [top |-> [e EXCEPT !.balance = 0], more |-> FALSE]
       [] e.balance = 0 ->
            [top |-> [e EXCEPT !.balance = Heavy(s)], more |-> TRUE]
       [] e.balance = Heavy(s) /\ c.balance = Heavy(s) ->
            [top |-> [c EXCEPT ![o] = [e EXCEPT ![s] = c[o], !.balance = 0],
                               !.balance = 0], more |-> FALSE]
       [] OTHER ->
            LET g == c[o]
            IN [top |-> [g EXCEPT
                  ![s] = [c EXCEPT ![o] = g[s],
                            !.balance = IF g.balance = Heavy(o) THEN Heavy(s) ELSE 0],
                  ![o] = [e EXCEPT ![s] = g[o],
                            !.balance = IF g.balance = Heavy(s) THEN Heavy(o) ELSE 0],
                  !.balance = 0], more |-> FALSE]

\* avl_insert_internal: the object the tree holds for o's key afterwards is
\* "node"; "new" is *is_new_node.
RECURSIVE InsertInternal(_, _)
InsertInternal(t, o) ==
  IF t = Nil THEN [top |-> NewNode(o), more |-> TRUE, node |-> o, new |-> TRUE]
  ELSE IF Key[o] = Key[t.obj]
  THEN [top |-> t, more |-> FALSE, node |-> t.obj, new |-> FALSE]
  ELSE LET s == IF Key[o] < Key[t.obj] THEN "left" ELSE "right"
           r == InsertInternal(t[s], o)
           e == [t EXCEPT ![s] = r.top]
           b == IF r.more THEN Raised(e, s) ELSE [top |-> e, more |-> FALSE]
       IN [r EXCEPT !.top = b.top, !.more = b.more]

\* avl_delete_replacement_internal: takes the greatest node out.
RECURSIVE DeleteReplacement(_)
DeleteReplacement(t) ==
  IF t.right = Nil THEN [top |-> t.left, more |-> TRUE, del |-> t]
  ELSE LET r == DeleteReplacement(t.right)
           e == [t EXCEPT !.right = r.top]
           b == IF r.more THEN BalanceRight(e) ELSE [top |-> e, more |-> FALSE]
       IN [top |-> b.top, more |-> b.more, del |-> r.del]

\* avl_delete_internal: "del" is the object of the node taken out.
RECURSIVE DeleteInternal(_, _)
DeleteInternal(t, o) ==
  IF t = Nil THEN [top |-> Nil, more |-> FALSE, del |-> NoObject]
  ELSE IF Key[o] # Key[t.obj]
  THEN LET s == IF Key[o] < Key[t.obj] THEN "left" ELSE "right"
           r == DeleteInternal(t[s], o)
           e == [t EXCEPT ![s] = r.top]
           b == IF r.more
                THEN IF s = "left" THEN BalanceLeft(e) ELSE BalanceRight(e)
                ELSE [top |-> e, more |-> FALSE]
       IN [top |-> b.top, more |-> b.more, del |-> r.del]
  ELSE IF t.right = Nil THEN [top |-> t.left, more |-> TRUE, del |-> t.obj]
  ELSE IF t.left = Nil THEN [top |-> t.right, more |-> TRUE, del |-> t.obj]
  ELSE LET r == DeleteReplacement(t.left)
           e == [t EXCEPT !.left = r.top, !.obj = r.del.obj]
           b == IF r.more THEN BalanceLeft(e) ELSE [top |-> e, more |-> FALSE]
       IN [top |-> b.top, more |-> b.more, del |-> t.obj]

-----------------------------------------------------------------------------
\* avl_tree_get_first, avl_tree_get_last
RECURSIVE GetFirst(_)
GetFirst(t) == IF t = Nil \/ t.left = Nil THEN t.obj ELSE GetFirst(t.left)
RECURSIVE GetLast(_)
GetLast(t) == IF t = Nil \/ t.right = Nil THEN t.obj ELSE GetLast(t.right)

RECURSIVE SearchInternal(_, _)
SearchInternal(t, o) ==
  IF t = Nil \/ Key[t.obj] = Key[o] THEN t.obj
  ELSE SearchInternal(IF Key[t.obj] < Key[o] THEN t.right ELSE t.left, o)

RECURSIVE GetNextInternal(_, _, _)
\* On the way up from a left subtree without a result, the node is forgotten.
GetNextInternal_NoUp(t, o, match) ==
  IF t = Nil THEN [obj |-> NoObject, eq |-> FALSE]
  ELSE IF Key[t.obj] = Key[o]
  THEN [obj |-> IF match THEN t.obj ELSE GetFirst(t.right), eq |-> match]
  ELSE IF Key[t.obj] < Key[o] THEN GetNextInternal(t.right, o, match)
  ELSE IF t.left = Nil THEN [obj |-> t.obj, eq |-> FALSE]
  ELSE GetNextInternal(t.left, o, match)

\* The guts of get_next/get_greater_equal; "eq" is *is_equal, which the code
\* clears on the way up from a left subtree.
GetNextInternal(t, o, match) ==
  IF t = Nil THEN [obj |-> NoObject, eq |-> FALSE]
  ELSE IF Key[t.obj] = Key[o]
  THEN [obj |-> IF match THEN t.obj ELSE GetFirst(t.right), eq |-> match]
  ELSE IF Key[t.obj] < Key[o] THEN GetNextInternal(t.right, o, match)
  ELSE LET r == GetNextInternal(t.left, o, match)
       IN [obj |-> IF r.obj # NoObject THEN r.obj ELSE t.obj, eq |-> FALSE]

RECURSIVE GetPrevInternal(_, _, _)
GetPrevInternal(t, o, match) ==
  IF t = Nil THEN [obj |-> NoObject, eq |-> FALSE]
  ELSE IF Key[t.obj] = Key[o]
  THEN [obj |-> IF match THEN t.obj ELSE GetLast(t.left), eq |-> match]
  ELSE IF Key[t.obj] > Key[o] THEN GetPrevInternal(t.left, o, match)
  ELSE LET r == GetPrevInternal(t.right, o, match)
       IN [obj |-> IF r.obj # NoObject THEN r.obj ELSE t.obj, eq |-> FALSE]

Options == {"EQ", "LT", "LE", "GT", "GE", "MIN", "MAX"}

\* avl_tree_search: the object found and *result, which only LE and GE set.
Search(t, opt, o) ==
  CASE opt = "EQ"  -> [obj |-> SearchInternal(t, o), result |-> "unset"]
    [] opt = "LT"  -> [obj |-> GetPrevInternal(t, o, FALSE).obj, result |-> "unset"]
    [] opt = "GT"  -> [obj |-> GetNextInternal(t, o, FALSE).obj, result |-> "unset"]
    [] opt = "LE"  -> LET r == GetPrevInternal(t, o, TRUE)
                      IN [obj |-> r.obj, result |-> IF r.eq THEN "EQ" ELSE "LT"]
    [] opt = "GE"  -> LET r == GetNextInternal(t, o, TRUE)
                      IN [obj |-> r.obj, result |-> IF r.eq THEN "EQ" ELSE "GT"]
    [] opt = "MIN" -> [obj |-> GetFirst(t), result |-> "unset"]
    [] opt = "MAX" -> [obj |-> GetLast(t), result |-> "unset"]

\* avl_walk_internal with a walk_fn that answers AVL_STOP_WALK at the objects
\* in stop: the objects it was called with.
RECURSIVE WalkInternal(_, _)
WalkInternal(t, stop) ==
  IF t = Nil THEN <<>>
  ELSE LET Stopped(w) == w # <<>> /\ w[Len(w)] \in stop
           l == WalkInternal(t.left, stop)
           n == Append(l, t.obj)
       IN IF Stopped(l) THEN l
          ELSE IF Stopped(n) THEN n
          ELSE n \o WalkInternal(t.right, stop)

-----------------------------------------------------------------------------
Idle == [on |-> FALSE]
Contents(t) == LET w == WalkInternal(t, {}) IN {w[i] : i \in 1..Len(w)}
HeldBy(o) == {t \in open : o \in Contents(root[t])}

Init ==
  /\ root = [t \in Trees |-> Nil]
  /\ node_cnt = [t \in Trees |-> 0]
  /\ open = {}
  /\ count = [o \in Objects |-> -1]
  /\ walk = Idle

\* avl_tree_init, avl_tree_init_v2
TreeInit(t) ==
  /\ t \notin open /\ ~walk.on
  /\ open' = open \cup {t}
  /\ root' = [root EXCEPT ![t] = Nil]
  /\ node_cnt' = [node_cnt EXCEPT ![t] = 0]
  /\ UNCHANGED <<count, walk>>

AllocateObject(o) ==
  /\ open # {} /\ count[o] = -1 /\ ~walk.on
  /\ count' = [count EXCEPT ![o] = 0]
  /\ UNCHANGED <<root, node_cnt, open, walk>>

\* The object is freed although a tree holds it.
FreeObject_Held(c, o) == [c EXCEPT ![o] = -1]

\* The header after avl_tree_free_object: refused while a tree holds the object.
FreeObject(c, o) == IF c[o] = 0 THEN [c EXCEPT ![o] = -1] ELSE c

ClientFree(o) ==
  /\ open # {} /\ count[o] # -1 /\ ~walk.on
  /\ count' = FreeObject(count, o)
  /\ UNCHANGED <<root, node_cnt, open, walk>>

Insert(t, o) ==
  LET r == InsertInternal(root[t], o) IN
  /\ t \in open /\ count[o] \in 0..MaxCount - 1 /\ ~walk.on
  /\ root' = [root EXCEPT ![t] = r.top]
  /\ node_cnt' = [node_cnt EXCEPT ![t] = @ + (IF r.new THEN 1 ELSE 0)]
  /\ count' = [count EXCEPT ![o] = @ + (IF r.new THEN 1 ELSE 0)]
  /\ UNCHANGED <<open, walk>>

\* What avl_tree_delete does with the lock held and after it, o being the
\* object compared with; "keep" when the caller passes deleted_object.
TakenOut(t, r, keep) ==
  LET c == [count EXCEPT ![r.del] = @ - 1]
  IN /\ root' = [root EXCEPT ![t] = r.top]
     /\ IF r.del = NoObject THEN UNCHANGED <<node_cnt, count>>
        ELSE /\ node_cnt' = [node_cnt EXCEPT ![t] = @ - 1]
             /\ count' = IF keep THEN c ELSE FreeObject(c, r.del)
Remove(t, o, keep) == TakenOut(t, DeleteInternal(root[t], o), keep)

Delete(t, o, keep) ==
  /\ t \in open /\ count[o] # -1 /\ ~walk.on
  /\ Remove(t, o, keep)
  /\ UNCHANGED <<open, walk>>

\* The loop of avl_tree_shutdown.  The decrement is skipped once rc is set,
\* and rc is the answer of the last avl_tree_free_object.
RECURSIVE Emptied(_, _, _, _)
Emptied(t, c, free, rc) ==
  IF t = Nil THEN c
  ELSE LET o  == t.obj
           c1 == IF rc = 0 THEN [c EXCEPT ![o] = @ - 1] ELSE c
           c2 == IF free THEN FreeObject(c1, o) ELSE c1
       IN Emptied(DeleteInternal(t, o).top, c2, free,
                  IF free THEN IF c1[o] = 0 THEN 0 ELSE -1 ELSE rc)

Shutdown(t, free) ==
  /\ t \in open /\ ~walk.on
  /\ count' = Emptied(root[t], count, free, 0)
  /\ root' = [root EXCEPT ![t] = Nil]
  /\ node_cnt' = [node_cnt EXCEPT ![t] = 0]
  /\ open' = open \ {t}
  /\ UNCHANGED walk

\* avl_tree_walk_safe: the successor is looked up before the callback runs.
WalkBegin(t) ==
  /\ t \in open /\ root[t] # Nil /\ ~walk.on
  /\ walk' = [on |-> TRUE, tree |-> t, at |-> GetFirst(root[t]), seen |-> <<>>,
              all |-> WalkInternal(root[t], {}), blocked |-> FALSE]
  /\ UNCHANGED <<root, node_cnt, open, count>>

\* The successor is looked up after the callback.
WalkStep_Late(answer, del) ==
  /\ walk.on /\ ~walk.blocked /\ walk.at # NoObject
  /\ LET t == walk.tree
         o == walk.at
     IN /\ IF del /\ ~ThreadSafe THEN Remove(t, o, FALSE)
           ELSE UNCHANGED <<root, node_cnt, count>>
        /\ walk' = IF del /\ ThreadSafe THEN [walk EXCEPT !.blocked = TRUE]
                   ELSE IF answer = "STOP" THEN Idle
                   ELSE [walk EXCEPT !.seen = Append(@, o),
                           !.at = IF o \in Contents(root'[t])
                                  THEN GetNextInternal(root'[t], o, FALSE).obj ELSE NoObject]
  /\ UNCHANGED open

\* One callback.  It may delete the object it was called with, for which
\* avl_tree_delete takes the mutex the walk holds.
WalkStep(answer, del) ==
  /\ walk.on /\ ~walk.blocked /\ walk.at # NoObject
  /\ LET t == walk.tree
         o == walk.at
         next == GetNextInternal(root[t], o, FALSE).obj
     IN /\ IF del /\ ~ThreadSafe THEN Remove(t, o, FALSE)
           ELSE UNCHANGED <<root, node_cnt, count>>
        /\ walk' = IF del /\ ThreadSafe THEN [walk EXCEPT !.blocked = TRUE]
                   ELSE IF answer = "STOP" THEN Idle
                   ELSE [walk EXCEPT !.at = next, !.seen = Append(@, o)]
  /\ UNCHANGED open

WalkEnd ==
  /\ walk.on /\ walk.at = NoObject
  /\ walk' = Idle
  /\ UNCHANGED <<root, node_cnt, open, count>>

Next ==
  \/ \E t \in Trees : TreeInit(t) \/ WalkBegin(t)
  \/ \E o \in Objects : AllocateObject(o) \/ ClientFree(o)
  \/ \E t \in Trees, o \in Objects : Insert(t, o)
  \/ \E t \in Trees, o \in Objects, keep \in BOOLEAN : Delete(t, o, keep)
  \/ \E t \in Trees, free \in BOOLEAN : Shutdown(t, free)
  \/ \E answer \in {"CONT", "STOP"}, del \in BOOLEAN : WalkStep(answer, del)
  \/ WalkEnd

Spec == Init /\ [][Next]_vars
-----------------------------------------------------------------------------
RECURSIVE Height(_)
Height(t) == IF t = Nil THEN 0
             ELSE 1 + LET l == Height(t.left)
                          r == Height(t.right)
                      IN IF l > r THEN l ELSE r

RECURSIVE BalanceExact(_)
BalanceExact(t) ==
  t = Nil \/ /\ t.balance = Height(t.right) - Height(t.left)
             /\ t.balance \in {-1, 0, 1}
             /\ BalanceExact(t.left) /\ BalanceExact(t.right)

Ordered(w) == \A i \in 1..Len(w) - 1 : Key[w[i]] < Key[w[i + 1]]

\* Every tree is a search tree whose stored balance is the difference of the
\* heights of its two subtrees, so that the next rotation is chosen rightly
\* (avl_balance_left_internal, avl_balance_right_internal, avl_insert_internal).
Balanced == \A t \in Trees : BalanceExact(root[t]) /\ Ordered(WalkInternal(root[t], {}))

\* node_cnt, which avl_tree_count answers, is the number of objects in the tree.
CountExact == \A t \in open : node_cnt[t] = Cardinality(Contents(root[t]))

\* No tree holds an object that has been freed: internal_data is never below
\* the number of trees that hold the object, which is what
\* avl_tree_free_object relies on.
ObjectsLive == \A o \in Objects : HeldBy(o) # {} => count[o] >= Cardinality(HeldBy(o))

\* The two nearest neighbours a search may answer with.
Best(S, R(_, _)) == IF S = {} THEN NoObject
                    ELSE CHOOSE o \in S : \A p \in S : R(Key[o], Key[p])

\* avl_tree_search answers with the object the option names: the equal one, the
\* greatest below, the least above, the least, the greatest.  When *result says
\* EQ the object is equal (the converse fails for LE and GE: the flag is
\* cleared on the way up).
SearchExact ==
  \A t \in open, o \in Objects, opt \in Options :
    LET S == Contents(root[t])
        r == Search(root[t], opt, o)
        Le(a, b) == a <= b
        Ge(a, b) == a >= b
    IN /\ r.obj = CASE opt = "EQ"  -> Best({p \in S : Key[p] = Key[o]}, Le)
                    [] opt = "LT"  -> Best({p \in S : Key[p] < Key[o]}, Ge)
                    [] opt = "LE"  -> Best({p \in S : Key[p] <= Key[o]}, Ge)
                    [] opt = "GT"  -> Best({p \in S : Key[p] > Key[o]}, Le)
                    [] opt = "GE"  -> Best({p \in S : Key[p] >= Key[o]}, Le)
                    [] opt = "MIN" -> Best(S, Le)
                    [] opt = "MAX" -> Best(S, Ge)
       /\ r.result = "EQ" => Key[r.obj] = Key[o]

\* A walk_safe visits what the tree held when it began, in order and without
\* skipping or repeating, and never stands on an object that was freed,
\* although the callback deletes what it visits.
WalkComplete ==
  walk.on =>
    IF walk.at = NoObject THEN walk.seen = walk.all
    ELSE /\ walk.at \in Contents(root[walk.tree])
         /\ walk.all = walk.seen \o SelectSeq(walk.all, LAMBDA o : Key[o] >= Key[walk.at])
=============================================================================
