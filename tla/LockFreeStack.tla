--------------------------- MODULE LockFreeStack ----------------------------
(***************************************************************************)
(* include/stack.h: a stack whose top is moved by compare-and-swap.  Any   *)
(* thread pushes; one thread pops and clears, as the warning in the header *)
(* demands.  Each step reads or writes shared memory once.                 *)
(***************************************************************************)
EXTENDS Integers, Sequences

CONSTANTS Nodes, Pushers,  \* the nodes; the threads that push
          NULL

StackAssumption == NULL \notin Nodes

VARIABLES top, next,       \* struct stack, struct stack_node
          pc, node, seen,  \* each pusher: place, its node, the top it read
          qpc, qtop, qnext,\* the popping thread: place, the top and next it read
          content          \* history: the nodes of the stack, topmost first

pusher == <<pc, node, seen>>
popper == <<qpc, qtop, qnext>>
vars == <<top, next, pusher, popper, content>>

TypeOK ==
    /\ top \in Nodes \cup {NULL} /\ next \in [Nodes -> Nodes \cup {NULL}]
    /\ pc \in [Pushers -> {"idle", "read", "link", "cas"}]
    /\ node \in [Pushers -> Nodes \cup {NULL}] /\ seen \in [Pushers -> Nodes \cup {NULL}]
    /\ qpc \in {"idle", "top", "next", "cas", "clear", "swap"}
    /\ qtop \in Nodes \cup {NULL} /\ qnext \in Nodes \cup {NULL}
    /\ content \in Seq(Nodes)

Init ==
    /\ top = NULL /\ next = [n \in Nodes |-> NULL]
    /\ pc = [p \in Pushers |-> "idle"] /\ node = [p \in Pushers |-> NULL]
    /\ seen = [p \in Pushers |-> NULL]
    /\ qpc = "idle" /\ qtop = NULL /\ qnext = NULL
    /\ content = << >>

Goto(p, from, to) == pc[p] = from /\ pc' = [pc EXCEPT ![p] = to]
QGoto(from, to) == qpc = from /\ qpc' = to

Free(n) == /\ \A i \in 1 .. Len(content) : content[i] # n
           /\ \A p \in Pushers : node[p] # n

-----------------------------------------------------------------------------
(* stack_push                                                              *)

PushCall(p, n) ==
    /\ Free(n) /\ Goto(p, "idle", "read")
    /\ node' = [node EXCEPT ![p] = n]
    /\ UNCHANGED <<top, next, seen, popper, content>>

PushRead(p) ==
    /\ Goto(p, "read", "link")
    /\ seen' = [seen EXCEPT ![p] = top]
    /\ UNCHANGED <<top, next, node, popper, content>>

PushLink(p) ==
    /\ Goto(p, "link", "cas")
    /\ next' = [next EXCEPT ![node[p]] = seen[p]]
    /\ UNCHANGED <<top, node, seen, popper, content>>

(* Mutant: the top is stored without comparing it. *)
PushCas_Store(p) ==
    /\ Goto(p, "cas", "idle")
    /\ top' = node[p] /\ content' = <<node[p]>> \o content
    /\ node' = [node EXCEPT ![p] = NULL] /\ seen' = [seen EXCEPT ![p] = NULL]
    /\ UNCHANGED <<next, popper>>

PushCas(p) ==
    /\ \/ /\ top = seen[p] /\ Goto(p, "cas", "idle")
          /\ top' = node[p] /\ content' = <<node[p]>> \o content
          /\ node' = [node EXCEPT ![p] = NULL]
       \/ /\ top # seen[p] /\ Goto(p, "cas", "read")
          /\ UNCHANGED <<top, node, content>>
    /\ seen' = [seen EXCEPT ![p] = NULL]
    /\ UNCHANGED <<next, popper>>

-----------------------------------------------------------------------------
(* stack_pop and stack_clear, by one thread                                *)

PopTop ==
    /\ \/ QGoto("idle", "next") /\ qtop' = top /\ top # NULL
       \/ QGoto("top", IF top = NULL THEN "idle" ELSE "next") /\ qtop' = top
    /\ UNCHANGED <<top, next, pusher, qnext, content>>

PopNext ==
    /\ QGoto("next", "cas") /\ qnext' = next[qtop]
    /\ UNCHANGED <<top, next, pusher, qtop, content>>

PopCas ==
    /\ \/ top = qtop /\ QGoto("cas", "idle") /\ top' = qnext /\ content' = Tail(content)
       \/ top # qtop /\ QGoto("cas", "top") /\ UNCHANGED <<top, content>>
    /\ qtop' = NULL /\ qnext' = NULL
    /\ UNCHANGED <<next, pusher>>

ClearTop ==
    /\ QGoto("idle", "swap") \/ QGoto("clear", "swap")
    /\ qtop' = top
    /\ UNCHANGED <<top, next, pusher, qnext, content>>

ClearCas ==
    /\ \/ top = qtop /\ QGoto("swap", "idle") /\ top' = NULL /\ content' = << >>
       \/ top # qtop /\ QGoto("swap", "clear") /\ UNCHANGED <<top, content>>
    /\ qtop' = NULL
    /\ UNCHANGED <<next, pusher, qnext>>

Next ==
    \/ \E p \in Pushers : \/ \E n \in Nodes : PushCall(p, n)
                          \/ PushRead(p) \/ PushLink(p) \/ PushCas(p)
    \/ PopTop \/ PopNext \/ PopCas \/ ClearTop \/ ClearCas

Spec == Init /\ [][Next]_vars

-----------------------------------------------------------------------------
(* The nodes reachable from the top are those pushed and not yet popped or *)
(* cleared, latest first: the successful compare-and-swap is the moment a  *)
(* push or a pop takes effect, although a node is used again as soon as it *)
(* was popped.                                                             *)
ChainIsContent ==
    /\ top = IF content = << >> THEN NULL ELSE content[1]
    /\ \A i \in 1 .. Len(content) :
          next[content[i]] = IF i = Len(content) THEN NULL ELSE content[i + 1]
=============================================================================
