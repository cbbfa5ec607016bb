---------------------------- MODULE MCStructures ----------------------------
(* The data structures side by side: trees, heap, bitmap and boxes, the two  *)
(* timers, and the buffers that threads or processes share.  They have no    *)
(* state in common; a behaviour exercises the one that part names.  The fifo *)
(* has variables of its own, the others share v1 to v14, and those that a    *)
(* structure has no use for stay 0.                                          *)
EXTENDS Fifo, TLC

CONSTANTS Procs,             \* of the shared pool
          StackNodes, Pushers, \* of the stack
          Timers, Workers,   \* of the time wheel
          NoLink,            \* the null pointer of the stack and the time wheel
          None

VARIABLES part, v1, v2, v3, v4, v5, v6, v7, v8, v9, v10, v11, v12, v13, v14

shared == <<v1, v2, v3, v4, v5, v6, v7, v8, v9, v10, v11, v12, v13, v14>>
all == <<part, vars, shared>>

(* One tree with distinct keys, deep enough for every double rotation; two   *)
(* trees that share objects, two of which have the same key.                 *)
Avl == INSTANCE Avl WITH
  Objects <- 1..6, Key <- [o \in 1..6 |-> o], Trees <- {"t"}, ThreadSafe <- FALSE, MaxCount <- 3,
  root <- v1, node_cnt <- v2, open <- v3, count <- v4, walk <- v5
Shared == INSTANCE Avl WITH
  Objects <- 1..3, Key <- <<1, 1, 2>>, Trees <- {"t", "u"}, ThreadSafe <- FALSE, MaxCount <- 3,
  root <- v1, node_cnt <- v2, open <- v3, count <- v4, walk <- v5

Rb == INSTANCE RbTree WITH Keys <- 1..6, tree <- v1
RbNew == INSTANCE RbTreeNew WITH Keys <- 1..7, Replaced <- {3, 6}, tree <- v1, ok <- v2, stale <- v3
Bst == INSTANCE BstNoParent WITH Data <- 1..4, MaxNodes <- 5, root <- v1, held <- v2
Bits == INSTANCE Bitmap WITH
  nbits <- 19, Long <- 2, Points <- {0, 1, 5, 8, 12, 16, 18, 19}, MaxOps <- 2,
  bitmap <- v1, src <- v2, ones <- v3, ops <- v4

(* Two keys with the same text, and a value whose count may start anywhere.  *)
Boxes == {"k1", "k2", "v", "l", "d"}
Box == INSTANCE Sbox WITH
  Box <- Boxes, MaxRefs <- 2,
  Type <- [k1 |-> "str", k2 |-> "str", v |-> "int", l |-> "list", d |-> "dict"],
  Text <- [b \in Boxes |-> IF b \in {"k1", "k2"} THEN "a" ELSE ""],
  Garbage <- [b \in Boxes |-> IF b = "v" THEN {0, -1} ELSE {0}],
  count <- v1, live <- v2, made <- v3, elems <- v4, pairs <- v5, owned <- v6, lost <- v7, spin <- v8

(* An expiry in the past, a delay of the second wheel and one of the third;  *)
(* the wheels beyond are left to Turn.                                       *)
TW == INSTANCE TimeWheel WITH
  TVR_BITS <- 1, TVN_BITS <- 1, Delays <- {-1, 2, 5}, Steps <- {2}, MaxClock <- 18, NULL <- NoLink,
  clock <- v1, count <- v2, locker <- v3, at <- v4, pprev <- v5, expire <- v6, pc <- v7, target <- v8,
  level <- v9, chain <- v10, tick <- v11, cur <- v12, due <- v13

(* One timer, every delay up to the last one in range, and a clock that      *)
(* turns the last wheel once.                                                *)
Turn == INSTANCE TimeWheel WITH
  Timers <- {<<7, 0>>}, Workers <- {0}, TVR_BITS <- 1, TVN_BITS <- 1, Delays <- -1 .. 31, Steps <- {1},
  MaxClock <- 40, NULL <- NoLink,
  clock <- v1, count <- v2, locker <- v3, at <- v4, pprev <- v5, expire <- v6, pc <- v7, target <- v8,
  level <- v9, chain <- v10, tick <- v11, cur <- v12, due <- v13

(* An event that repeats once, and loses its interval then, and one that     *)
(* repeats for ever.                                                         *)
HT == INSTANCE Heaps WITH
  max_evts <- 4, Requests <- {<<0, 1, 1>>, <<2, 1, 0>>}, MaxNow <- 2,
  heap <- v1, pc <- v2, ev <- v3, now <- v4, given <- v5,
  Values <- 1..3, Grow <- 3, MaxSize <- 6, elts <- v1, size <- v2, capacity <- v3, held <- v4

(* The two ways of using a ring table: as a plain queue and with the refill  *)
(* mechanism.                                                                *)
RT == INSTANCE RingTab WITH
  n_items <- 3, Concurrent <- FALSE,
  Uses <- {<<{"put_item"}, {"use_item", "get_item"}>>,
           <<{"produce_item", "cleanup", "get_dirty"}, {"use_item", "done_item", "consume_item"}>>},
  head <- v1, tail <- v2, dirty <- v3, in_use <- v4, full <- v5, slot <- v6, ppc <- v7, pop <- v8,
  pitem <- v9, cpc <- v10, cop <- v11, holding <- v12, use <- v13, lost <- v14
MP == INSTANCE MPool WITH
  Max <- 2, MaxRef <- 2,
  ready <- v1, ref <- v2, head <- v3, tail <- v4, queue <- v5, iref <- v6, pc <- v7, unexpected <- v8
ST == INSTANCE LockFreeStack WITH
  Nodes <- StackNodes, NULL <- NoLink,
  top <- v1, next <- v2, pc <- v3, node <- v4, seen <- v5, qpc <- v6, qtop <- v7, qnext <- v8, content <- v9

Zero13 == v14 = 0
Zero9 == v10 = 0 /\ v11 = 0 /\ v12 = 0 /\ v13 = 0 /\ Zero13
Zero8 == v9 = 0 /\ Zero9
Zero5 == v6 = 0 /\ v7 = 0 /\ v8 = 0 /\ Zero8
Zero4 == v5 = 0 /\ Zero5
Zero3 == v4 = 0 /\ Zero4
Zero2 == v3 = 0 /\ Zero3
Zero1 == v2 = 0 /\ Zero2

AnyInit ==
  /\ Init
  /\ \/ part = "avl" /\ Avl!Init /\ Zero5
     \/ part = "shared" /\ Shared!Init /\ Zero5
     \/ part = "rb" /\ Rb!Init /\ Zero1
     \/ part = "rbnew" /\ RbNew!Init /\ Zero3
     \/ part = "bst" /\ Bst!Init /\ Zero2
     \/ part = "heap" /\ HT!heap_create /\ Zero4
     \/ part = "bitmap" /\ Bits!Init /\ Zero4
     \/ part = "sbox" /\ Box!Init /\ Zero8
     \/ part = "wheel" /\ TW!Init /\ Zero13
     \/ part = "turn" /\ Turn!Init /\ Zero13
     \/ part = "timer" /\ HT!Init /\ Zero5
     \/ part = "ringtab" /\ RT!Init
     \/ part = "mpool" /\ MP!Init /\ Zero8
     \/ part = "stack" /\ ST!Init /\ Zero9
     \/ part = "fifo" /\ v1 = 0 /\ Zero1

Same13 == UNCHANGED v14
Same9 == UNCHANGED <<v10, v11, v12, v13, v14>>
Same8 == UNCHANGED v9 /\ Same9
Same5 == UNCHANGED <<v6, v7, v8>> /\ Same8
Same4 == UNCHANGED v5 /\ Same5
Same3 == UNCHANGED v4 /\ Same4
Same2 == UNCHANGED v3 /\ Same3
Same1 == UNCHANGED v2 /\ Same2

(* The clients of these may rest; the buffers must always let someone go on. *)
MayRest == part \in {"avl", "shared", "rb", "rbnew", "bst", "heap", "bitmap", "sbox", "wheel", "turn",
                   "timer"}

AnyNext ==
  /\ UNCHANGED part
  /\ \/ /\ UNCHANGED vars
        /\ \/ part = "avl" /\ Avl!Next /\ Same5
           \/ part = "shared" /\ Shared!Next /\ Same5
           \/ part = "rb" /\ Rb!Next /\ Same1
           \/ part = "rbnew" /\ RbNew!Next /\ Same3
           \/ part = "bst" /\ Bst!Next /\ Same2
           \/ part = "heap" /\ HT!HeapNext /\ Same4
           \/ part = "bitmap" /\ Bits!Next /\ Same4
           \/ part = "sbox" /\ Box!Next /\ Same8
           \/ part = "wheel" /\ TW!Next /\ Same13
           \/ part = "turn" /\ Turn!Next /\ Same13
           \/ part = "timer" /\ HT!Next /\ Same5
           \/ part = "ringtab" /\ RT!Next
           \/ part = "mpool" /\ MP!Next /\ Same8
           \/ part = "stack" /\ ST!Next /\ Same9
           \/ MayRest /\ UNCHANGED shared
     \/ part = "fifo" /\ Next /\ UNCHANGED shared

AnySpec == AnyInit /\ [][AnyNext]_all

ASSUME SharedAssumptions ==
  /\ FifoAssumption /\ MP!MPoolAssumption /\ MP!MaxDividesWord
  /\ ST!StackAssumption
  /\ TW!TimeWheelAssumption /\ Turn!TimeWheelAssumption

AllSizes == 0 .. 4
Symmetry ==
  UNION {Permutations(Procs), Permutations(StackNodes), Permutations(Pushers), Permutations(Workers),
         Permutations(Timers)}
-----------------------------------------------------------------------------
(* The states of the buffers and timers are well typed (struct fifo,         *)
(* ringtab_hdr_t, mpool_ctx_t, struct stack, struct time_wheel, struct       *)
(* heap_timer).                                                              *)
AllTypeOK ==
  /\ TypeOK
  /\ part = "wheel" => TW!TypeOK
  /\ part = "turn" => Turn!TypeOK
  /\ part = "timer" => HT!TypeOK
  /\ part = "ringtab" => RT!TypeOK
  /\ part = "mpool" => MP!TypeOK
  /\ part = "stack" => ST!TypeOK

(* Insertion, deletion and replacement keep every balanced tree a search     *)
(* tree with the balance the next rotation relies on: stored heights that    *)
(* are the true ones (avl), colours and parent pointers of a red-black tree  *)
(* (rbtree, rbtree_new) with none of its assertions failing, and node_cnt    *)
(* exact.                                                                    *)
TreesSound ==
  /\ part = "avl" => Avl!Balanced /\ Avl!CountExact
  /\ part = "shared" => Shared!Balanced /\ Shared!CountExact
  /\ part = "rb" => Rb!TreeSound
  /\ part = "rbnew" => RbNew!TreeSound

(* An operation on a red-black tree changes the set of linked nodes by the   *)
(* node it names and no other, however far the recolouring climbs (rb_erase, *)
(* rb_replace_node, rbtree_delete, rb_replace).                              *)
OnlyNamedChange ==
  [][/\ part = "rb" => Rb!OnlyNamed
     /\ part = "rbnew" => RbNew!OnlyNamed]_all

(* Every query answers from what was put in and not taken out: the searches  *)
(* of the avl tree with their options, the walk and the ends of              *)
(* bst_no_parent, heap_top, and the scans and counts of a bitmap.            *)
QueriesExact ==
  /\ part = "avl" => Avl!SearchExact
  /\ part = "shared" => Shared!SearchExact
  /\ part = "bst" => Bst!HoldsExactly
  /\ part = "heap" => HT!TopIsLeast
  /\ part = "bitmap" => Bits!AnswersExact

(* Nothing a container still holds is freed: the tree counter of an avl      *)
(* object covers the trees that hold it (avl_tree_free_object); a walk whose *)
(* callback deletes what it visits passes every object in order and never    *)
(* stands on a freed one (avl_tree_walk_safe); the count of a box is the     *)
(* number of its owners (sbox_release).                                      *)
NoneFreedHeld ==
  /\ part = "avl" => Avl!ObjectsLive /\ Avl!WalkComplete
  /\ part = "shared" => Shared!ObjectsLive /\ Shared!WalkComplete
  /\ part = "sbox" => Box!CountsExact

(* The lists of the time wheel are linked both ways and counted, and no      *)
(* started timer is left behind the clock (twtimer_process, twtimer_stop);   *)
(* an event of the heap timer is called as often as was asked for, and the   *)
(* place it left is there when it comes back, unless its own callback has    *)
(* given it away (event_re_enqueue, timer_event_register).                   *)
TimersSound ==
  /\ part = "wheel" => TW!ListsSound /\ TW!NoneOverdue
  /\ part = "turn" => Turn!ListsSound /\ Turn!NoneOverdue
  /\ part = "timer" => HT!RepeatsExactly /\ HT!RoomForOwn

(* A timer of the wheel fires at the tick it is due and only while started   *)
(* (twtimer_process); an event of the heap timer when it is due and before   *)
(* all that are due later (heap_timer_run).                                  *)
FiresWhenDue ==
  [][/\ part = "wheel" => TW!FiresNow
     /\ part = "turn" => Turn!FiresNow
     /\ part = "timer" => HT!EarliestFirst]_all

(* What a buffer hands out was put in and not given up, the oldest first or  *)
(* the latest: fifo_in and fifo_out copy disjoint slots, in order            *)
(* whatever has wrapped; ringtab_use_item, ringtab_get_dirty and the peeks   *)
(* give only queued or finished items, ringtab_put_item only free slots, and *)
(* ringtab_items_used counts; the nodes reachable from a stack's top are     *)
(* those pushed and not popped.                                              *)
ContentKept ==
  /\ part = "fifo" => CopiesDisjoint /\ OutInOrder
  /\ part = "ringtab" =>
       /\ RT!UseIsPut /\ RT!PutIsFree /\ RT!ReleaseOnlyDone /\ RT!ItemsUsedExact
       /\ "produce_item" \in v13[1] => RT!PeekIsQueued
  /\ part = "stack" => ST!ChainIsContent

(* One process at a time sets the pool up, with nobody attached, and ref     *)
(* counts those that use it (mpool_init); every item is free and queued      *)
(* once, or in use and not queued (mpool_get, mpool_put).                    *)
PoolSound == part = "mpool" => MP!PoolSound
=============================================================================
