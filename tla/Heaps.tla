------------------------------- MODULE Heaps --------------------------------
(***************************************************************************)
(* The two binary heaps: the timer of src/heap_timer and, below, src/heap. *)
(*                                                                         *)
(* heap_timer/heap_timer.c: events in a binary min-heap ordered by clock.  *)
(* heap_timer_run pops every event that is due, calls it and pushes it     *)
(* back if it repeats.  There is no lock: a callback may register and      *)
(* cancel events itself, and time passes throughout.                       *)
(***************************************************************************)
EXTENDS Integers, Sequences, FiniteSets

CONSTANTS max_evts,   \* heap_timer_create's argument
          Requests,   \* timer_event_register's delay, interval and count
          MaxNow,     \* bound: the last clock
          None

VARIABLES heap,       \* struct heap_timer: the first nevts events of heap
          pc, ev,     \* heap_timer_run's place and the event it popped
          now,        \* system_clock
          given       \* history: the running callback has registered an event

vars == <<heap, pc, ev, now, given>>

(* struct timer_event, and two histories: how often the event was called,  *)
(* and how often it was to be called, 0 for ever.                          *)
Event == [clock : Nat, interval : Nat, count : Nat, enable : BOOLEAN, fired : Nat, asked : Nat]

Init == heap = << >> /\ pc = "idle" /\ ev = None /\ now = 0 /\ given = FALSE

TypeOK ==
    /\ heap \in Seq(Event) /\ Len(heap) <= max_evts
    /\ pc \in {"idle", "loop", "callback", "aborted"} /\ ev \in Event \cup {None}
    /\ now \in 0 .. MaxNow /\ given \in BOOLEAN

-----------------------------------------------------------------------------
(* The heap, from position 1: heap_insert moves an event up, heap_delete   *)
(* moves one down.                                                         *)

Exchange(h, i, j) == [h EXCEPT ![i] = h[j], ![j] = h[i]]

RECURSIVE heap_insert(_, _)
heap_insert(h, i) ==
    IF i <= 1 THEN h
    ELSE LET p == i \div 2 IN
         IF h[p].clock <= h[i].clock THEN h
         ELSE heap_insert(Exchange(h, p, i), p)

(* Mutant: an event never sinks below its right child. *)
Least_Left(h, i) ==
    LET l == 2 * i
    IN  IF l <= Len(h) /\ h[i].clock > h[l].clock THEN l ELSE i

(* The least of position i and its children, the earlier on a tie.         *)
Least(h, i) ==
    LET l == 2 * i
        r == 2 * i + 1
        m == IF l <= Len(h) /\ h[i].clock > h[l].clock THEN l ELSE i
    IN  IF r <= Len(h) /\ h[m].clock > h[r].clock THEN r ELSE m

RECURSIVE heap_delete(_, _)
heap_delete(h, i) ==
    IF i > Len(h) \/ Least(h, i) = i THEN h
    ELSE heap_delete(Exchange(h, i, Least(h, i)), Least(h, i))

(* event_heap_pop: the last event takes the root's place.                  *)
event_heap_pop ==
    LET last == heap[Len(heap)]
        rest == SubSeq(heap, 1, Len(heap) - 1)
    IN  heap_delete(IF rest = << >> THEN rest ELSE [rest EXCEPT ![1] = last], 1)

(* event_heap_push stores past the array when all max_evts places are      *)
(* taken, and its assertion ends the program.                              *)
event_heap_push(e, place) ==
    IF Len(heap) >= max_evts
    THEN pc' = "aborted" /\ UNCHANGED heap
    ELSE pc' = place /\ heap' = heap_insert(Append(heap, e), Len(heap) + 1)

-----------------------------------------------------------------------------
(* Time passes between the calls and inside them.                          *)
Pass ==
    /\ now < MaxNow /\ pc # "aborted" /\ now' = now + 1
    /\ UNCHANGED <<heap, pc, ev, given>>

(* Mutant: one event more than max_evts is taken. *)
HasRoom_OneMore == Len(heap) <= max_evts

HasRoom == Len(heap) < max_evts

(* timer_event_register, by the program or by a callback.                  *)
timer_event_register(delay, repeat, times) ==
    /\ pc \in {"idle", "callback"} /\ HasRoom
    /\ event_heap_push([clock |-> now + delay, interval |-> repeat, count |-> times,
                        enable |-> TRUE, fired |-> 0,
                        asked |-> IF repeat = 0 THEN 1 ELSE IF times = 0 THEN 0 ELSE times + 1],
                       pc)
    /\ given' = (pc = "callback")
    /\ UNCHANGED <<ev, now>>

(* timer_event_cancel of an event in the heap, or of the callback's own.   *)
CancelHeaped(i) ==
    /\ pc \in {"idle", "callback"} /\ heap[i].enable
    /\ heap' = [heap EXCEPT ![i].enable = FALSE]
    /\ UNCHANGED <<pc, ev, now, given>>

CancelOwn ==
    /\ pc = "callback" /\ ev.enable
    /\ ev' = [ev EXCEPT !.enable = FALSE]
    /\ UNCHANGED <<heap, pc, now, given>>

Run ==
    /\ pc = "idle" /\ pc' = "loop"
    /\ UNCHANGED <<heap, ev, now, given>>

Due == heap # << >> /\ heap[1].clock <= now

(* An event that is due is called, unless it was cancelled.                *)
Called(e) == e.enable

RunPop ==
    /\ pc = "loop" /\ Due
    /\ ev' = [heap[1] EXCEPT !.fired = IF Called(heap[1]) THEN @ + 1 ELSE @]
    /\ heap' = event_heap_pop
    /\ pc' = "callback"
    /\ UNCHANGED <<now, given>>

RunReturn ==
    /\ pc = "loop" /\ ~Due /\ pc' = "idle"
    /\ UNCHANGED <<heap, ev, now, given>>

Again(e) == e.enable /\ e.interval > 0

(* Mutant: the last repetition does not clear the interval. *)
LastTime_Never(e) == FALSE

LastTime(e) == e.count = 1

(* event_re_enqueue, when the callback has returned.                       *)
event_re_enqueue ==
    /\ pc = "callback" /\ Again(ev)
    /\ event_heap_push([ev EXCEPT !.clock = @ + ev.interval,
                                  !.count = IF @ > 0 THEN @ - 1 ELSE @,
                                  !.interval = IF LastTime(ev) THEN 0 ELSE @], "loop")
    /\ ev' = None /\ given' = (given /\ pc' = "aborted")
    /\ UNCHANGED now

(* The event is left to its owner, who frees it.                           *)
Finish ==
    /\ pc = "callback" /\ ~Again(ev)
    /\ pc' = "loop" /\ ev' = None /\ given' = FALSE
    /\ UNCHANGED <<heap, now>>

Next ==
    \/ Pass \/ Run \/ RunPop \/ RunReturn \/ event_re_enqueue \/ Finish
    \/ CancelOwn \/ \E i \in 1 .. Len(heap) : CancelHeaped(i)
    \/ \E r \in Requests : timer_event_register(r[1], r[2], r[3])

Spec == Init /\ [][Next]_vars

-----------------------------------------------------------------------------
(* An event is popped when it is due, and no event that was due before it  *)
(* is still waiting: heap_insert and heap_delete keep the earliest event   *)
(* at the root through every sequence of pushes and pops, those of the     *)
(* callbacks included.                                                     *)
EarliestFirst ==
    RunPop => /\ ev'.clock <= now
              /\ \A i \in 1 .. Len(heap') : ev'.clock <= heap'[i].clock

(* An event is called once if it has no interval, count times more if it   *)
(* has one, for ever if count is 0; a cancelled event, which stays in the  *)
(* heap until it is due, is not called again.                              *)
RepeatsExactly ==
    pc = "callback" =>
        /\ ev.asked # 0 => ev.fired <= ev.asked
        /\ ev.enable /\ ev.asked # 0 => (Again(ev) <=> ev.fired < ev.asked)

(* An event that is called leaves a place in the heap, and finds it again  *)
(* when it repeats, whatever the program registered and cancelled before:  *)
(* event_heap_push fails its assertion only behind a callback that has     *)
(* itself registered an event.                                             *)
RoomForOwn ==
    /\ pc = "callback" => Len(heap) < max_evts \/ given
    /\ pc = "aborted" => given

-----------------------------------------------------------------------------
(***************************************************************************)
(* The binary heap of src/heap, over a growing array of pointers that a    *)
(* client-supplied less() compares.  elts is the array of the code, index  *)
(* 0 first, up to its size.                                                *)
(***************************************************************************)
CONSTANTS Values,       \* what the pointers point at, ordered by less()
          Grow,         \* the 2014 of heap_push
          MaxSize       \* bound: the elements pushed and not popped

VARIABLES elts, size, capacity,
          held          \* how often each value was pushed and not popped

HeapVars == <<elts, size, capacity, held>>

Less(a, b) == a < b

\* heap_swap
Swapped(e, l, r) == [e EXCEPT ![l] = e[r], ![r] = e[l]]

\* heap_percolate_up from index n
RECURSIVE PercolateUp(_, _)
PercolateUp(e, n) ==
  LET p == (n - 1) \div 2
  IN IF n = 0 \/ Less(e[p], e[n]) THEN e ELSE PercolateUp(Swapped(e, p, n), p)

\* The right child is compared with n, not with the left child.
MinChild_NotLeast(e, n, last) ==
  LET l == IF 2 * n + 1 < last /\ Less(e[2 * n + 1], e[n]) THEN 2 * n + 1 ELSE n
  IN IF 2 * n + 2 < last /\ Less(e[2 * n + 2], e[n]) THEN 2 * n + 2 ELSE l

\* The child of n that is less than n and than the other one, or n; the last
\* index is left out, its element being the one that moved to the root.
MinChild(e, n, last) ==
  LET l == IF 2 * n + 1 < last /\ Less(e[2 * n + 1], e[n]) THEN 2 * n + 1 ELSE n
  IN IF 2 * n + 2 < last /\ Less(e[2 * n + 2], e[l]) THEN 2 * n + 2 ELSE l

RECURSIVE Sift(_, _, _)
Sift(e, n, last) ==
  LET m == MinChild(e, n, last)
  IN IF n >= last \/ m = n THEN e ELSE Sift(Swapped(e, m, n), m, last)

\* heap_percolate_down, sz being heap->size before the decrement
PercolateDown(e, sz) == Sift([e EXCEPT ![0] = e[sz - 1]], 0, sz - 1)

First(e, n) == [i \in 0..n - 1 |-> e[i]]

heap_create ==
  /\ elts = [i \in {} |-> 0] /\ size = 0 /\ capacity = 0
  /\ held = [v \in Values |-> 0]

\* heap_reserve; realloc may answer NULL
heap_reserve(n) ==
  /\ capacity < n
  /\ capacity' = n
  /\ UNCHANGED <<elts, size, held>>

\* heap_push: reserves first when the array is full but for one.
heap_push(v) ==
  /\ size < MaxSize
  /\ capacity' \in IF size + 1 >= capacity THEN {capacity, size + Grow} ELSE {capacity}
  /\ IF size + 1 >= capacity'
     THEN UNCHANGED <<elts, size, held>>                    \* -ENOMEM
     ELSE /\ elts' = PercolateUp([i \in 0..size |-> IF i = size THEN v ELSE elts[i]], size)
          /\ size' = size + 1
          /\ held' = [held EXCEPT ![v] = @ + 1]

heap_pop ==
  /\ size >= 1
  /\ elts' = First(PercolateDown(elts, size), size - 1)
  /\ size' = size - 1
  /\ held' = [held EXCEPT ![elts[0]] = @ - 1]
  /\ UNCHANGED capacity

\* heap_destroy, and heap_create for another heap
heap_destroy ==
  /\ elts' = [i \in {} |-> 0] /\ size' = 0 /\ capacity' = 0
  /\ held' = [v \in Values |-> 0]

HeapNext == (\E v \in Values : heap_push(v)) \/ heap_pop \/ (\E n \in 1..MaxSize : heap_reserve(n)) \/ heap_destroy
HeapSpec == heap_create /\ [][HeapNext]_HeapVars
-----------------------------------------------------------------------------
\* heap_top is a least element and no element is less than its parent, each
\* pushed value is there as often as it was pushed and not popped, and no
\* element lies outside the array (heap_push, heap_pop, heap_reserve).
TopIsLeast ==
  /\ \A i \in 0..size - 1 : ~Less(elts[i], elts[0])
  /\ \A v \in Values : Cardinality({i \in 0..size - 1 : elts[i] = v}) = held[v]
  /\ size > 0 => size < capacity
  /\ \A i \in 1..size - 1 : ~Less(elts[i], elts[(i - 1) \div 2])
=============================================================================
