----------------------------- MODULE BoundedFifo -----------------------------
(***************************************************************************)
(* What a channel promises, without threads, semaphores or a ring: a queue *)
(* of at most Capacity elements, in which elements leave in the order they *)
(* entered, none lost, none duplicated, until it is closed.  Channel       *)
(* implements it.                                                          *)
(***************************************************************************)
EXTENDS Naturals, Sequences

CONSTANTS Elements,   \* what may be put in the channel
          Capacity    \* how many elements it holds

VARIABLES queue,      \* elements put and not yet got, oldest first
          sent,       \* every element ever put, in order
          received,   \* every element ever got, in order
          open        \* whether it can be used

vars == <<queue, sent, received, open>>

Init == queue = << >> /\ sent = << >> /\ received = << >> /\ open = TRUE

Put(e) ==
    /\ open /\ Len(queue) < Capacity
    /\ queue' = Append(queue, e)
    /\ sent' = Append(sent, e)
    /\ UNCHANGED <<received, open>>

Get ==
    /\ open /\ queue # << >>
    /\ queue' = Tail(queue)
    /\ received' = Append(received, Head(queue))
    /\ UNCHANGED <<sent, open>>

Close == open /\ open' = FALSE /\ UNCHANGED <<queue, sent, received>>

Next == Get \/ Close \/ \E e \in Elements : Put(e)

Safety == Init /\ [][Next]_vars

(* While it is open, an element that was put is eventually got.            *)
Spec == Safety /\ WF_vars(Get)
=============================================================================
