-------------------------------- MODULE Sbox --------------------------------
(***************************************************************************)
(* The reference-counted boxes of src/sbox: strings and integers, lists    *)
(* and dictionaries of boxes.  A container owns one reference to each of   *)
(* its elements; sbox_dict_insert and sbox_list_append take over the       *)
(* caller's, sbox_dict_get and sbox_dict_del consume the key they are      *)
(* called with.  A dictionary, a red-black tree in the code (RbTree), is   *)
(* here the set of its pairs.                                              *)
(*                                                                         *)
(* malloc leaves count uninitialised in the boxes sbox_new_int and         *)
(* sbox_new_str make, so their count starts at one plus any value.         *)
(***************************************************************************)
EXTENDS Integers, Sequences, SequencesExt, FiniteSets

CONSTANTS Box,          \* the boxes a client makes, each once
          Type,         \* [Box -> {"str", "int", "list", "dict"}]
          Text,         \* [Box -> string]: what a str box holds, strcmp's view
          Garbage,      \* [Box -> SUBSET Int]: what malloc's memory may hold where count is
          MaxRefs       \* bound: sbox_hold is called below this many references

VARIABLES count,        \* box->count
          live,         \* the boxes allocated and not freed
          made,         \* "no"; "clean": its count started from zero; "dirty"
          elems,        \* the list behind a list box
          pairs,        \* the pairs behind a dict box
          owned,        \* the references the client still has to give back
          lost,         \* references dropped by an insertion of the same value
          spin          \* sbox_list_del goes round for ever

mem == <<count, live, elems, pairs>>
vars == <<count, live, made, elems, pairs, owned, lost, spin>>

Memory == [count |-> count, live |-> live, elems |-> elems, pairs |-> pairs]
Becomes(m) == /\ count' = m.count /\ live' = m.live
              /\ elems' = m.elems /\ pairs' = m.pairs

\* sbox_release, with __list_free_helper and __dict_free_helper: the boxes in s
\* are released one after the other.
RECURSIVE ReleaseAll(_, _)
ReleaseAll(m, s) ==
  IF s = <<>> THEN m
  ELSE LET b  == Head(s)
           m1 == [m EXCEPT !.count[b] = @ - 1]
           inner == IF Type[b] = "list" THEN m.elems[b]
                    ELSE IF Type[b] = "dict" THEN FlattenSeq(SetToSeq(m.pairs[b])) ELSE <<>>
           m2 == IF m1.count[b] # 0 THEN m1
                 ELSE [ReleaseAll(m1, inner) EXCEPT
                         !.live = @ \ {b}, !.elems[b] = <<>>, !.pairs[b] = {}]
       IN ReleaseAll(m2, Tail(s))
Release(m, b) == ReleaseAll(m, <<b>>)

\* The references to b: the client's, those of containers, those dropped.
Among(s, b) == Cardinality({i \in 1..Len(s) : s[i] = b})
InContainers(b) ==
  LET n[S \in SUBSET Box] ==
        IF S = {} THEN 0
        ELSE LET c == CHOOSE c \in S : TRUE
             IN n[S \ {c}] + Among(elems[c], b) + Among(FlattenSeq(SetToSeq(pairs[c])), b)
  IN n[Box]
Refs(b) == owned[b] + InContainers(b) + lost[b]

\* __dict_get: the pair whose key compares equal, as a set of at most one
DictGet(d, k) == {p \in pairs[d] : Text[p[1]] = Text[k]}
-----------------------------------------------------------------------------
Init ==
  /\ count = [b \in Box |-> 0] /\ live = {} /\ made = [b \in Box |-> "no"]
  /\ elems = [b \in Box |-> <<>>] /\ pairs = [b \in Box |-> {}]
  /\ owned = [b \in Box |-> 0] /\ lost = [b \in Box |-> 0]
  /\ spin = FALSE

\* sbox_new_int, sbox_new_str; sbox_new_list and sbox_new_dict clear the memory
New(b, g) ==
  /\ made[b] = "no"
  /\ Type[b] \in {"list", "dict"} => g = 0
  /\ count' = [count EXCEPT ![b] = g + 1]
  /\ live' = live \cup {b}
  /\ made' = [made EXCEPT ![b] = IF g = 0 THEN "clean" ELSE "dirty"]
  /\ owned' = [owned EXCEPT ![b] = 1]
  /\ UNCHANGED <<elems, pairs, lost, spin>>

\* The client uses a reference of its own only while the box is there.
Mine(b) == ~spin /\ owned[b] > 0 /\ b \in live

Hold(b) ==
  /\ Mine(b) /\ Refs(b) < MaxRefs
  /\ count' = [count EXCEPT ![b] = @ + 1]
  /\ owned' = [owned EXCEPT ![b] = @ + 1]
  /\ UNCHANGED <<live, made, elems, pairs, lost, spin>>

ClientRelease(b) ==
  /\ Mine(b)
  /\ Becomes(Release(Memory, b))
  /\ owned' = [owned EXCEPT ![b] = @ - 1]
  /\ UNCHANGED <<made, lost, spin>>

\* The pair there is overwritten and its references are forgotten.
DictInsert_NoRelease(d, k, v) ==
  LET old == DictGet(d, k) IN
  /\ Type[d] = "dict" /\ Type[k] = "str" /\ Type[v] \in {"int", "list"}
  /\ Mine(d) /\ Mine(k) /\ Mine(v)
  /\ owned' = [owned EXCEPT ![k] = @ - 1, ![v] = @ - 1]
  /\ pairs' = [pairs EXCEPT ![d] = (@ \ old) \cup {<<k, v>>}]
  /\ UNCHANGED <<count, live, elems, lost, made, spin>>

DictInsert(d, k, v) ==
  LET old == DictGet(d, k)
      p == CHOOSE p \in old : TRUE
  IN /\ Type[d] = "dict" /\ Type[k] = "str" /\ Type[v] \in {"int", "list"}
     /\ Mine(d) /\ Mine(k) /\ Mine(v)
     /\ owned' = [owned EXCEPT ![k] = @ - 1, ![v] = @ - 1]
     /\ IF old = {}
        THEN /\ pairs' = [pairs EXCEPT ![d] = @ \cup {<<k, v>>}]
             /\ UNCHANGED <<count, live, elems, lost>>
        ELSE IF p[2] # v
        THEN /\ Becomes([ReleaseAll(Memory, p) EXCEPT !.pairs[d] = (@ \ {p}) \cup {<<k, v>>}])
             /\ UNCHANGED lost
        ELSE /\ lost' = [lost EXCEPT ![k] = @ + 1, ![v] = @ + 1]
             /\ UNCHANGED mem
     /\ UNCHANGED <<made, spin>>

\* sbox_dict_get answers with a value the dictionary goes on owning.
DictLookup(d, k) ==
  /\ Type[d] = "dict" /\ Type[k] = "str" /\ Mine(d) /\ Mine(k)
  /\ Becomes(Release(Memory, k))
  /\ owned' = [owned EXCEPT ![k] = @ - 1]
  /\ UNCHANGED <<made, lost, spin>>

DictDel(d, k) ==
  LET old == DictGet(d, k)
      m == [Memory EXCEPT !.pairs[d] = @ \ old]
  IN /\ Type[d] = "dict" /\ Type[k] = "str" /\ Mine(d) /\ Mine(k)
     /\ Becomes(Release(ReleaseAll(m, FlattenSeq(SetToSeq(old))), k))
     /\ owned' = [owned EXCEPT ![k] = @ - 1]
     /\ UNCHANGED <<made, lost, spin>>

ListAppend(l, b) ==
  /\ Type[l] = "list" /\ Type[b] \in {"int", "str"} /\ Mine(l) /\ Mine(b)
  /\ elems' = [elems EXCEPT ![l] = Append(@, b)]
  /\ owned' = [owned EXCEPT ![b] = @ - 1]
  /\ UNCHANGED <<count, live, made, pairs, lost, spin>>

\* sbox_list_del: the head is compared; else the node after the head, as long
\* as there is one, since the loop never moves p.  Only the last node taken
\* out is released.  An empty list is a NULL the code would follow.
ListDel(l, b) ==
  LET s == elems[l]
      rest == Tail(s)
      others == {i \in 1..Len(rest) : rest[i] # b}
  IN /\ Type[l] = "list" /\ Mine(l) /\ s # <<>> /\ b \in live
     /\ IF s[1] = b THEN Becomes(Release([Memory EXCEPT !.elems[l] = rest], b)) /\ UNCHANGED <<spin, lost>>
        ELSE IF others # {}
        THEN spin' = TRUE /\ UNCHANGED <<mem, lost>>
        ELSE IF rest = <<>> THEN UNCHANGED <<mem, spin, lost>>
        ELSE /\ Becomes(Release([Memory EXCEPT !.elems[l] = <<s[1]>>], b))
             /\ lost' = [lost EXCEPT ![b] = @ + Len(rest) - 1]
             /\ UNCHANGED spin
     /\ UNCHANGED <<made, owned>>

Next ==
  \/ \E b \in Box : \E g \in Garbage[b] : New(b, g)
  \/ \E b \in Box : Hold(b) \/ ClientRelease(b)
  \/ \E d, k, v \in Box : DictInsert(d, k, v)
  \/ \E d, k \in Box : DictLookup(d, k) \/ DictDel(d, k)
  \/ \E l, b \in Box : ListAppend(l, b) \/ ListDel(l, b)
Spec == Init /\ [][Next]_vars
-----------------------------------------------------------------------------
\* The count of a box is the number of its owners (client, lists, dictionaries,
\* and the references an insertion of the value already there drops), and a
\* box is freed exactly when that number reaches zero: nothing a live
\* container holds has been freed.  Boxes whose count started from
\* uninitialised memory are out of the reach of this.
CountsExact ==
  \A b \in {c \in Box : made[c] = "clean"} :
    count[b] = Refs(b) /\ (b \in live <=> Refs(b) > 0)
=============================================================================
