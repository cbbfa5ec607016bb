-------------------------------- MODULE MPool -------------------------------
(***************************************************************************)
(* mpool/mpool.c: a pool of max items in memory that several processes     *)
(* share.  mpool_init is followed statement by statement: any number of    *)
(* processes attach at the same time.  The callers are taken to keep three *)
(* rules the code does not enforce: a cleanup does not overlap an init,    *)
(* gets and puts do not overlap each other, and the last process detaches  *)
(* when no item is in use.  head and tail are words that wrap.             *)
(***************************************************************************)
EXTENDS Integers, FiniteSets

CONSTANTS Procs,   \* the processes
          Max,     \* how many items the memory has room for
          Word,    \* 2^32 in the code
          MaxRef   \* bound on an item's references

MPoolAssumption ==
    /\ IsFiniteSet(Procs) /\ MaxRef \in Nat \ {0}
    /\ Max \in Nat \ {0} /\ Word \in Nat /\ Max < Word

(* Where it holds, a place of the queue is the same before and after head  *)
(* and tail wrap; mpool_init does not ask for it.                          *)
MaxDividesWord == \E k \in 1 .. Word : Word = k * Max

Items == 0 .. Max - 1

VARIABLES ready, ref,         \* mpool_ctx_t: MPOOL_FLAG_READY, ref
          head, tail, queue,
          iref,               \* each item's ref
          pc,                 \* each process in mpool_init or mpool_cleanup
          unexpected          \* history: an item in use was dequeued

ring == <<head, tail, queue>>
vars == <<ready, ref, ring, iref, pc, unexpected>>

TypeOK ==
    /\ ready \in BOOLEAN /\ ref \in 0 .. Cardinality(Procs)
    /\ head \in 0 .. Word - 1 /\ tail \in 0 .. Word - 1
    /\ queue \in [Items -> Items] /\ iref \in [Items -> 0 .. MaxRef]
    /\ pc \in [Procs -> {"out", "cas", "setup", "spin", "inc", "in", "clear"}]
    /\ unexpected \in BOOLEAN

(* The shared memory is zeroed before the first process comes.             *)
Init ==
    /\ ready = FALSE /\ ref = 0
    /\ head = 0 /\ tail = 0 /\ queue = [i \in Items |-> 0]
    /\ iref = [i \in Items |-> 0]
    /\ pc = [p \in Procs |-> "out"] /\ unexpected = FALSE

Goto(p, from, to) == pc[p] = from /\ pc' = [pc EXCEPT ![p] = to]

-----------------------------------------------------------------------------
(* mpool_init                                                              *)

InitFlag(p) ==
    /\ \A q \in Procs : pc[q] # "clear"
    /\ Goto(p, "out", IF ready THEN "inc" ELSE "cas")
    /\ UNCHANGED <<ready, ref, ring, iref, unexpected>>

(* Mutant: the lock is tested and taken without comparing. *)
InitCas_Blind(p) ==
    /\ Goto(p, "cas", "setup") /\ ref' = 1
    /\ UNCHANGED <<ready, ring, iref, unexpected>>

InitCas(p) ==
    /\ \/ ref = 0 /\ Goto(p, "cas", "setup") /\ ref' = 1
       \/ ref # 0 /\ Goto(p, "cas", "spin") /\ UNCHANGED ref
    /\ UNCHANGED <<ready, ring, iref, unexpected>>

InitSetup(p) ==
    /\ Goto(p, "setup", "in")
    /\ head' = 0 /\ tail' = Max /\ queue' = [i \in Items |-> i]
    /\ ready' = TRUE
    /\ UNCHANGED <<ref, iref, unexpected>>

InitSpin(p) ==
    /\ ready /\ Goto(p, "spin", "inc")
    /\ UNCHANGED <<ready, ref, ring, iref, unexpected>>

InitInc(p) ==
    /\ Goto(p, "inc", "in") /\ ref' = ref + 1
    /\ UNCHANGED <<ready, ring, iref, unexpected>>

(* mpool_cleanup                                                           *)
CleanupDec(p) ==
    /\ \A q \in Procs : pc[q] \in {"out", "in", "clear"}
    /\ (\A q \in Procs \ {p} : pc[q] # "in") => \A i \in Items : iref[i] = 0
    /\ Goto(p, "in", IF ref = 1 THEN "clear" ELSE "out")
    /\ ref' = ref - 1
    /\ UNCHANGED <<ready, ring, iref, unexpected>>

CleanupClear(p) ==
    /\ Goto(p, "clear", "out") /\ ready' = FALSE
    /\ UNCHANGED <<ref, ring, iref, unexpected>>

-----------------------------------------------------------------------------
(* Items                                                                   *)

Minus(a, b) == (a + Word - b) % Word
mpool_empty == Minus(tail, head) >= Max
mpool_full == tail = head
mpool_count == Minus(Max + head, tail)

(* mpool_get: dequeue an item and take its first reference; an item that   *)
(* is in use is dropped and nothing is returned.                           *)
mpool_get(p) ==
    LET item == queue[head % Max] IN
    /\ pc[p] = "in" /\ ~mpool_full
    /\ head' = (head + 1) % Word
    /\ iref' = [iref EXCEPT ![item] = IF @ = 0 THEN 1 ELSE @]
    /\ unexpected' = (unexpected \/ iref[item] # 0)
    /\ UNCHANGED <<ready, ref, tail, queue, pc>>

mpool_ref_inc(p, i) ==
    /\ pc[p] = "in" /\ iref[i] \in 1 .. MaxRef - 1
    /\ iref' = [iref EXCEPT ![i] = @ + 1]
    /\ UNCHANGED <<ready, ref, ring, pc, unexpected>>

(* Mutant: the item goes back while it is still referenced. *)
LastRef_Any(i) == TRUE

LastRef(i) == iref[i] = 1

(* An item that does not fit is dropped.                                   *)
mpool_enqueue(i) ==
    IF mpool_empty THEN UNCHANGED <<tail, queue>>
    ELSE tail' = (tail + 1) % Word /\ queue' = [queue EXCEPT ![tail % Max] = i]

(* mpool_put and mpool_ref_dec.                                            *)
mpool_ref_dec(p, i) ==
    /\ pc[p] = "in" /\ iref[i] > 0
    /\ iref' = [iref EXCEPT ![i] = @ - 1]
    /\ IF LastRef(i) THEN mpool_enqueue(i) ELSE UNCHANGED <<tail, queue>>
    /\ UNCHANGED <<ready, ref, head, pc, unexpected>>

Next ==
    \E p \in Procs :
        \/ InitFlag(p) \/ InitCas(p) \/ InitSetup(p) \/ InitSpin(p) \/ InitInc(p)
        \/ CleanupDec(p) \/ CleanupClear(p)
        \/ mpool_get(p)
        \/ \E i \in Items : mpool_ref_inc(p, i) \/ mpool_ref_dec(p, i)

Spec == Init /\ [][Next]_vars

-----------------------------------------------------------------------------
(* Exactly one process sets the pool up, and never under the feet of       *)
(* another: while it does, nobody is attached (mpool_init's compare-and-   *)
(* swap of ref), and ref counts the processes that use it, so that the     *)
(* last one to leave, and only that one, takes the pool down.              *)
SetupAlone ==
    /\ \A p \in Procs : pc[p] = "setup" => \A q \in Procs \ {p} : pc[q] \notin {"setup", "in"}
    /\ ref = Cardinality({p \in Procs : pc[p] \in {"setup", "in"}})

(* While the pool is in use every item is free, and then in the queue      *)
(* exactly once, or referenced, and then not in the queue; mpool_count is  *)
(* the number of those in use.                                             *)
ItemsConserved ==
    (\E p \in Procs : pc[p] = "in") =>
        /\ \A i \in Items :
              Cardinality({k \in 0 .. Minus(tail, head) - 1 : queue[((head + k) % Word) % Max] = i})
                  = IF iref[i] = 0 THEN 1 ELSE 0
        /\ mpool_count = Cardinality({i \in Items : iref[i] > 0})

(* mpool_get never meets an item that is in use: the message of            *)
(* mpool.c:248, "Un-expected package in queue!", is never printed.         *)
NothingUnexpected == ~unexpected

(* What mpool_init, mpool_get, mpool_put and mpool_cleanup keep.           *)
PoolSound == SetupAlone /\ ItemsConserved
=============================================================================
