------------------------------ MODULE RingTab -------------------------------
(***************************************************************************)
(* ringtab.c: a table of n_items slots between one producer and one        *)
(* consumer.  head == tail is told apart by flags.full.  Items the         *)
(* consumer is done with stay dirty until the producer releases them.      *)
(* Each step reads or writes the shared header once; with Concurrent false *)
(* a call runs to its end before the other side begins one.                *)
(***************************************************************************)
EXTENDS Integers, FiniteSets

CONSTANTS n_items,      \* the size of the table
          Concurrent,   \* whether producer and consumer run at the same time
          Uses          \* how the table is used: the producer's and the consumer's calls

PutOps == {"put_item", "produce_item", "cleanup", "get_dirty"}
UseOps == {"use_item", "get_item", "done_item", "consume_item"}

(* Putting, using and getting items; and producing, consuming and cleaning *)
(* up, where the slots are kept and filled again.                           *)
PlainUse == {<<{"put_item"}, {"use_item", "get_item"}>>}
RefillUse ==
    {<<{"produce_item", "cleanup", "get_dirty"}, {"use_item", "done_item", "consume_item"}>>}

RINGTAB_ITEM_NONE == -1

VARIABLES head, tail, dirty, in_use, full,  \* ringtab_hdr_t
          slot,                 \* what each slot holds
          ppc, pop, pitem,      \* the producer: place, call, item
          cpc, cop, holding,    \* the consumer: place, call, whether it has an item
          use,                  \* how this table is used
          lost                  \* an item was done with and never released

header == <<head, tail, dirty, in_use, full>>
producer == <<ppc, pop, pitem>>
consumer == <<cpc, cop, holding>>
vars == <<header, slot, producer, consumer, use, lost>>

Index == 0 .. n_items - 1
Inc(i) == (i + 1) % n_items

TypeOK ==
    /\ head \in Index /\ tail \in Index /\ full \in BOOLEAN
    /\ dirty \in Index \cup {RINGTAB_ITEM_NONE} /\ in_use \in Index \cup {RINGTAB_ITEM_NONE}
    /\ slot \in [Index -> {"empty", "claimed", "written", "done", "got"}]
    /\ ppc \in {"idle", "dirty", "inuse", "step", "wrap", "full", "tail", "test", "set", "write"}
    /\ cpc \in {"idle", "full", "diff", "use", "head", "dirty", "mark", "next", "move", "clear"}
    /\ pop \in PutOps \cup {"none"}
    /\ cop \in UseOps \cup {"none"}
    /\ pitem \in Index /\ holding \in BOOLEAN /\ lost \in BOOLEAN /\ use \in Uses

Init ==
    /\ head = 0 /\ tail = 0 /\ full = FALSE
    /\ dirty = RINGTAB_ITEM_NONE /\ in_use = RINGTAB_ITEM_NONE
    /\ slot = [i \in Index |-> "empty"]
    /\ ppc = "idle" /\ pop = "none" /\ pitem = 0
    /\ cpc = "idle" /\ cop = "none" /\ holding = FALSE /\ lost = FALSE
    /\ use \in Uses

ringtab_items_used ==
    IF full THEN n_items
    ELSE IF tail >= head THEN tail - head ELSE n_items + tail - head

ringtab_items_left == n_items - ringtab_items_used

(* The slot in_use + 1, or the head when nothing was used yet.             *)
ringtab_peek_next ==
    IF in_use = RINGTAB_ITEM_NONE THEN head ELSE Inc(in_use)

(* Mutant: the slot at the tail itself. *)
ringtab_peek_last_Tail == tail

ringtab_peek_last == (IF tail = 0 THEN n_items ELSE tail) - 1

PGoto(from, to) == ppc = from /\ ppc' = to
CGoto(from, to) == cpc = from /\ cpc' = to

-----------------------------------------------------------------------------
(* Producer: ringtab_put_item; ringtab_produce_item, which cleans up and   *)
(* then puts; ringtab_cleanup; and one ringtab_get_dirty.                  *)

PBegin(op) ==
    /\ PGoto("idle", IF op = "put_item" THEN "full" ELSE "dirty")
    /\ Concurrent \/ cpc = "idle"
    /\ pop' = op
    /\ UNCHANGED <<header, slot, pitem, consumer, use, lost>>

Cleaned == IF pop = "produce_item" THEN "full" ELSE "idle"

DirtyTest ==
    /\ PGoto("dirty", IF dirty = RINGTAB_ITEM_NONE THEN Cleaned ELSE "inuse")
    /\ UNCHANGED <<header, slot, pop, pitem, consumer, use, lost>>

DirtyInUse ==
    /\ PGoto("inuse", IF dirty = in_use THEN Cleaned ELSE "step")
    /\ UNCHANGED <<header, slot, pop, pitem, consumer, use, lost>>

(* Mutant: the index moves before the item is taken. *)
DirtyStep_After ==
    /\ PGoto("step", "wrap")
    /\ pitem' = Inc(dirty) /\ dirty' = Inc(dirty)
    /\ UNCHANGED <<head, tail, in_use, full, slot, pop, consumer, use, lost>>

DirtyStep ==
    /\ PGoto("step", "wrap")
    /\ pitem' = dirty /\ dirty' = Inc(dirty)
    /\ UNCHANGED <<head, tail, in_use, full, slot, pop, consumer, use, lost>>

(* The item returned is released by the caller.                            *)
DirtyWrap ==
    /\ PGoto("wrap", IF pop = "get_dirty" THEN "idle" ELSE "dirty")
    /\ dirty' = IF dirty = head THEN RINGTAB_ITEM_NONE ELSE dirty
    /\ slot' = [slot EXCEPT ![pitem] = "empty"]
    /\ UNCHANGED <<head, tail, in_use, full, pop, pitem, consumer, use, lost>>

(* Mutant: the full flag is not looked at. *)
PutUsed_NoFlag ==
    /\ PGoto("full", "tail")
    /\ UNCHANGED <<header, slot, pop, pitem, consumer, use, lost>>

(* Unless the flag is set, tail - head is less than n_items whatever the   *)
(* consumer does to head.                                                  *)
PutUsed ==
    /\ PGoto("full", IF full THEN "idle" ELSE "tail")
    /\ UNCHANGED <<header, slot, pop, pitem, consumer, use, lost>>

(* Mutant: the tail does not wrap. *)
PutTail_NoWrap ==
    /\ PGoto("tail", "test")
    /\ pitem' = tail /\ tail' = tail + 1
    /\ slot' = [slot EXCEPT ![tail] = "claimed"]
    /\ lost' = (lost \/ slot[tail] = "done")
    /\ UNCHANGED <<head, dirty, in_use, full, pop, consumer, use>>

PutTail ==
    /\ PGoto("tail", "test")
    /\ pitem' = tail /\ tail' = Inc(tail)
    /\ slot' = [slot EXCEPT ![tail] = "claimed"]
    /\ lost' = (lost \/ slot[tail] = "done")
    /\ UNCHANGED <<head, dirty, in_use, full, pop, consumer, use>>

(* Mutant: the last free slot does not set the flag. *)
PutTest_NoFlag ==
    /\ PGoto("test", "write")
    /\ UNCHANGED <<header, slot, pop, pitem, consumer, use, lost>>

PutTest ==
    /\ PGoto("test", IF tail = head THEN "set" ELSE "write")
    /\ UNCHANGED <<header, slot, pop, pitem, consumer, use, lost>>

PutFull ==
    /\ PGoto("set", "write") /\ full' = TRUE
    /\ UNCHANGED <<head, tail, dirty, in_use, slot, pop, pitem, consumer, use, lost>>

(* The caller writes the item through the pointer it got.                  *)
PutWrite ==
    /\ PGoto("write", "idle")
    /\ slot' = [slot EXCEPT ![pitem] = IF @ = "claimed" THEN "written" ELSE @]
    /\ UNCHANGED <<header, pop, pitem, consumer, use, lost>>

-----------------------------------------------------------------------------
(* Consumer: ringtab_use_item, ringtab_get_item, ringtab_done_item and     *)
(* ringtab_consume_item, which is done followed by use.  An item is done   *)
(* with only while the consumer has one.                                   *)

CBegin(op) ==
    /\ Concurrent \/ ppc = "idle"
    /\ op \in {"done_item", "consume_item"} => holding
    /\ CGoto("idle", IF op \in {"done_item", "consume_item"} THEN "dirty" ELSE "full")
    /\ cop' = op
    /\ UNCHANGED <<header, slot, producer, holding, use, lost>>

UseFull ==
    /\ CGoto("full", IF full THEN "use" ELSE "diff")
    /\ UNCHANGED <<header, slot, producer, cop, holding, use, lost>>

UseDiff ==
    /\ CGoto("diff", IF tail = head THEN "idle" ELSE "use")
    /\ UNCHANGED <<header, slot, producer, cop, holding, use, lost>>

UseHead ==
    /\ CGoto("use", IF cop = "get_item" THEN "head" ELSE "idle")
    /\ in_use' = head /\ holding' = TRUE
    /\ UNCHANGED <<head, tail, dirty, full, slot, producer, cop, use, lost>>

GetHead ==
    /\ CGoto("head", "clear")
    /\ head' = Inc(head)
    /\ slot' = [slot EXCEPT ![in_use] = "got"] /\ holding' = FALSE
    /\ UNCHANGED <<tail, dirty, in_use, full, producer, cop, use, lost>>

DoneDirty ==
    /\ CGoto("dirty", IF dirty = RINGTAB_ITEM_NONE THEN "mark" ELSE "next")
    /\ UNCHANGED <<header, slot, producer, cop, holding, use, lost>>

DoneMark ==
    /\ CGoto("mark", "next") /\ dirty' = in_use
    /\ UNCHANGED <<head, tail, in_use, full, slot, producer, cop, holding, use, lost>>

DoneNext ==
    /\ CGoto("next", "move") /\ in_use' = Inc(in_use)
    /\ slot' = [slot EXCEPT ![in_use] = "done"] /\ holding' = FALSE
    /\ UNCHANGED <<head, tail, dirty, full, producer, cop, use, lost>>

DoneHead ==
    /\ CGoto("move", "clear") /\ head' = in_use
    /\ UNCHANGED <<tail, dirty, in_use, full, slot, producer, cop, holding, use, lost>>

(* Mutant: the flag is not cleared. *)
ClearFull_Never ==
    /\ CGoto("clear", IF cop = "consume_item" THEN "full" ELSE "idle")
    /\ UNCHANGED <<header, slot, producer, cop, holding, use, lost>>

ClearFull ==
    /\ CGoto("clear", IF cop = "consume_item" THEN "full" ELSE "idle")
    /\ full' = FALSE
    /\ UNCHANGED <<head, tail, dirty, in_use, slot, producer, cop, holding, use, lost>>

-----------------------------------------------------------------------------
(* ringtab_cleanup_all, while neither side is inside a call: release what  *)
(* ringtab_cleanup releases and what ringtab_get_item returns, then        *)
(* ringtab_init.                                                           *)

Distance(i, j) == (j + n_items - i) % n_items

CleanedUp ==
    IF dirty \in {RINGTAB_ITEM_NONE, in_use} THEN {}
    ELSE {i \in Index : \/ Distance(dirty, i) < Distance(dirty, head)
                        \/ dirty = head} \cap
         {i \in Index : \/ Distance(dirty, i) < Distance(dirty, in_use)}

Queued == {i \in Index : Distance(head, i) < ringtab_items_used}

ringtab_cleanup_all ==
    /\ ppc = "idle" /\ cpc = "idle"
    /\ lost' = (lost \/ \E i \in Index : slot[i] = "done" /\ i \notin CleanedUp \cup Queued)
    /\ head' = 0 /\ tail' = 0 /\ full' = FALSE
    /\ dirty' = RINGTAB_ITEM_NONE /\ in_use' = RINGTAB_ITEM_NONE
    /\ slot' = [i \in Index |-> "empty"]
    /\ holding' = FALSE
    /\ UNCHANGED <<producer, cpc, cop, use>>

PStep ==
    \/ \E op \in use[1] : PBegin(op)
    \/ DirtyTest \/ DirtyInUse \/ DirtyStep \/ DirtyWrap
    \/ PutUsed \/ PutTail \/ PutTest \/ PutFull \/ PutWrite
CStep ==
    \/ \E op \in use[2] : CBegin(op)
    \/ UseFull \/ UseDiff \/ UseHead \/ GetHead
    \/ DoneDirty \/ DoneMark \/ DoneNext \/ DoneHead \/ ClearFull

Next == PStep \/ CStep \/ ringtab_cleanup_all

Spec == Init /\ [][Next]_vars

-----------------------------------------------------------------------------
(* The item the consumer has is one the producer put and the consumer has  *)
(* not given up: ringtab_use_item never returns an empty or a dirty slot.  *)
UseIsPut == (holding /\ cpc = "idle") => slot[in_use] \in {"claimed", "written"}

(* ringtab_put_item never hands out a slot whose item is still queued.     *)
PutIsFree == ppc = "tail" => slot[tail] \notin {"claimed", "written"}

(* ringtab_get_dirty returns only items the consumer is done with, and     *)
(* each of them once.                                                      *)
ReleaseOnlyDone == ppc = "wrap" => slot[pitem] = "done"

(* The number of items in the table is ringtab_items_used, between calls.  *)
ItemsUsedExact ==
    (ppc = "idle" /\ cpc = "idle") =>
        ringtab_items_used = Cardinality({i \in Index : slot[i] \in {"claimed", "written"}})

(* Between calls ringtab_peek_next, called with more than one item in the  *)
(* table, and ringtab_peek_last, called with at least one, give an item    *)
(* that is queued.                                                         *)
PeekIsQueued ==
    (ppc = "idle" /\ cpc = "idle") =>
        /\ ringtab_items_used > 1 => slot[ringtab_peek_next] = "written"
        /\ ringtab_items_left < n_items => slot[ringtab_peek_last] = "written"

(* Every item the consumer is done with is released before its slot is     *)
(* used again: the producer cleans up all dirty items.                     *)
NothingLost == ~lost
=============================================================================
