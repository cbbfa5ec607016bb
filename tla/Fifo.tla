-------------------------------- MODULE Fifo --------------------------------
(***************************************************************************)
(* fifo.c: a ring of 2^k elements with one producer and one consumer and   *)
(* no lock.  The indices in and out are unsigned words that run freely and *)
(* wrap; only their difference and their low bits mean anything.  A call   *)
(* is three steps: it reads the other side's index, copies, and moves its  *)
(* own index.  The copies and the index stores happen in program order.    *)
(* An element is its number in the order of production.                    *)
(***************************************************************************)
EXTENDS Integers, Sequences, FiniteSets

CONSTANTS Word,    \* 2^32 in the code: the indices are uint32_t
          Sizes,   \* the values of nelem passed to fifo_alloc or fifo_init
          MaxBatch,\* the largest nelem passed to fifo_in, fifo_out, fifo_peek
          MaxIn    \* bound on the elements produced

FifoAssumption ==
    /\ Word \in Nat \ {0} /\ \E k \in 1 .. 32 : Word = 2 ^ k
    /\ Sizes \subseteq 0 .. Word - 1
    /\ MaxBatch \in Nat /\ MaxIn \in Nat

(* is_power_of_2: the words that divide 2^32.                              *)
Powers == {n \in 1 .. Word - 1 : Word % n = 0}

(* CLZ_32 and rounddown_pow_of_two, exported for clients that choose a     *)
(* size.  A word with its highest bit set shifts by the width of the word. *)
CLZ_32(n) == Cardinality({p \in Powers : n < p})

rounddown_pow_of_two(n) ==
    IF n = 0 \/ n \in Powers THEN n
    ELSE 2 ^ (Cardinality(Powers) - CLZ_32(n))

VARIABLES in, out, mask, data,  \* struct fifo
          ppc, pn,              \* the producer: place, elements it copies
          cpc, cn, buf,         \* the consumer: place, elements, its buffer
          produced, received    \* elements stored so far; elements taken out

producer == <<ppc, pn>>
consumer == <<cpc, cn, buf>>
vars == <<in, out, mask, data, producer, consumer, produced, received>>

Size == mask + 1
Lesser(a, b) == IF a < b THEN a ELSE b
Minus(a, b) == (a + Word - b) % Word

Slots(from, n) == {(from + i) % Size : i \in 0 .. n - 1}

TypeOK ==
    /\ in \in 0 .. Word - 1 /\ out \in 0 .. Word - 1 /\ mask \in 0 .. Word - 1
    /\ data = << >> \/ data \in [0 .. mask -> Int]
    /\ ppc \in {"idle", "copy", "publish"} /\ pn \in 0 .. MaxBatch
    /\ cpc \in {"idle", "copy", "advance"} /\ cn \in 0 .. MaxBatch
    /\ buf \in Seq(Int) /\ produced \in 0 .. MaxIn /\ received \in 0 .. MaxIn

Init ==
    /\ in = 0 /\ out = 0 /\ mask = 0 /\ data = << >>
    /\ ppc = "idle" /\ pn = 0 /\ cpc = "idle" /\ cn = 0 /\ buf = << >>
    /\ produced = 0 /\ received = 0

(* Mutant: any size of at least 2 is taken. *)
fifo_alloc_AnySize(nelem) ==
    /\ data = << >> /\ produced = 0 /\ nelem >= 2
    /\ mask' = nelem - 1
    /\ data' = [i \in 0 .. nelem - 1 |-> -1]
    /\ in' = 0 /\ out' = 0
    /\ UNCHANGED <<producer, consumer, produced, received>>

(* fifo_alloc and fifo_init: only a power of two of at least 2 is taken,   *)
(* if there is memory for it.                                              *)
fifo_alloc(nelem) ==
    /\ data = << >> /\ produced = 0
    /\ \/ /\ nelem \in Powers /\ nelem >= 2
          /\ mask' = nelem - 1
          /\ data' = [i \in 0 .. nelem - 1 |-> -1]
          /\ in' = 0 /\ out' = 0
       \/ /\ nelem \in Powers
          /\ mask' = 0 /\ in' = 0 /\ out' = 0 /\ UNCHANGED data
       \/ /\ nelem \notin Powers
          /\ mask' = 0 /\ UNCHANGED <<in, out, data>>
    /\ UNCHANGED <<producer, consumer, produced, received>>

(* A client passes the size it wants, or lets it be rounded first.         *)
Alloc(n) == fifo_alloc(n) \/ fifo_alloc(rounddown_pow_of_two(n))

fifo_free ==
    /\ data # << >> /\ ppc = "idle" /\ cpc = "idle"
    /\ in' = 0 /\ out' = 0 /\ mask' = 0 /\ data' = << >>
    /\ produced' = 0 /\ received' = 0
    /\ UNCHANGED <<producer, consumer>>

-----------------------------------------------------------------------------
(* Mutant: the indices are compared as if they did not wrap. *)
fifo_unused_NoWrap == Size - (IF in > out THEN in - out ELSE 0)

fifo_unused == Minus(Size, Minus(in, out))

InBegin(nelem) ==
    /\ data # << >> /\ ppc = "idle" /\ produced + nelem <= MaxIn
    /\ pn' = Lesser(nelem, fifo_unused) /\ ppc' = "copy"
    /\ UNCHANGED <<in, out, mask, data, consumer, produced, received>>

fifo_copy_in ==
    /\ ppc = "copy" /\ ppc' = "publish"
    /\ data' = [k \in 0 .. mask |->
                   LET i == ((k + Size) - (in % Size)) % Size
                   IN  IF i < pn THEN produced + i ELSE data[k]]
    /\ UNCHANGED <<in, out, mask, pn, consumer, produced, received>>

(* Mutant: the index does not wrap. *)
InEnd_NoWrap ==
    /\ ppc = "publish" /\ ppc' = "idle"
    /\ in' = in + pn /\ produced' = produced + pn
    /\ UNCHANGED <<out, mask, data, pn, consumer, received>>

InEnd ==
    /\ ppc = "publish" /\ ppc' = "idle"
    /\ in' = (in + pn) % Word /\ produced' = produced + pn
    /\ UNCHANGED <<out, mask, data, pn, consumer, received>>

-----------------------------------------------------------------------------
(* fifo_peek and fifo_out, which is a peek followed by the move of out.    *)

OutBegin(nelem) ==
    /\ data # << >> /\ cpc = "idle"
    /\ cn' = Lesser(nelem, Minus(in, out)) /\ cpc' = "copy"
    /\ UNCHANGED <<in, out, mask, data, producer, buf, produced, received>>

fifo_copy_out ==
    /\ cpc = "copy" /\ cpc' = "advance"
    /\ buf' = [i \in 1 .. cn |-> data[(out + i - 1) % Size]]
    /\ UNCHANGED <<in, out, mask, data, producer, cn, produced, received>>

(* fifo_peek returns here.                                                 *)
PeekEnd ==
    /\ cpc = "advance" /\ cpc' = "idle" /\ buf' = << >>
    /\ UNCHANGED <<in, out, mask, data, producer, cn, produced, received>>

OutEnd ==
    /\ cpc = "advance" /\ cpc' = "idle" /\ buf' = << >>
    /\ out' = (out + cn) % Word /\ received' = received + cn
    /\ UNCHANGED <<in, mask, data, producer, cn, produced>>

Next ==
    \/ \E n \in Sizes : Alloc(n)
    \/ fifo_free
    \/ \E n \in 0 .. MaxBatch : InBegin(n) \/ OutBegin(n)
    \/ fifo_copy_in \/ InEnd \/ fifo_copy_out \/ PeekEnd \/ OutEnd

Spec == Init /\ [][Next]_vars

-----------------------------------------------------------------------------
(* Although fifo_in and fifo_out run at the same time, the elements one    *)
(* writes and the elements the other reads are never the same memory.      *)
CopiesDisjoint ==
    (ppc = "copy" /\ cpc = "copy") => Slots(in, pn) \cap Slots(out, cn) = {}

(* What fifo_out and fifo_peek copy are the oldest elements produced and   *)
(* not taken out, in order, wherever the indices and the ring have wrapped.*)
OutInOrder == cpc = "advance" => \A i \in 1 .. cn : buf[i] = received + i - 1
=============================================================================
