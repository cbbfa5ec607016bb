-------------------------------- MODULE Amf ---------------------------------
(* codec/amf: AMF0 values written into a buffer and read into the places a   *)
(* caller names.  A text is a sequence of octets; a length is two or four of *)
(* them to the base Base (256), a number NumberOctets (8) in memory order.   *)
(* The writers have no call for a named container, a strict array or a null  *)
(* with a name: those come from another encoder.  Dates are left out: the    *)
(* writer puts the zone over the number's last octet.                        *)
EXTENDS Integers, Sequences, SequencesExt, TLC

CONSTANTS Base, NumberOctets, Room,   \* the octets of the buffer
          Calls,                      \* what a caller may write: [op, name, v]
          MaxCalls, MaxDepth,
          Items                       \* what the reader is asked for: [type, name, size, items]

VARIABLES text,     \* the octets up to ptr
          null,     \* whether ptr is NULL
          open,     \* the containers begun, innermost first: [key, type, count, size]
          log,      \* history: the values, each [path, v]
          tops,     \* history: the types of the values at the top
          calls

vars == <<text, null, open, log, tops, calls>>

AMF_NUMBER == 0
AMF_BOOLEAN == 1
AMF_STRING == 2
AMF_OBJECT == 3
AMF_NULL == 5
AMF_UNDEFINED == 6
AMF_ECMA_ARRAY == 8
AMF_OBJECT_END == 9
AMF_STRICT_ARRAY == 10
AMF_LONG_STRING == 12

------------------------------------------------------------------------------
(* The writers: the octets of a call.                                        *)
AMFWriteInt16(v) == <<v \div Base, v % Base>>
AMFWriteInt32(v) == [i \in 1..4 |-> (v \div Base ^ (4 - i)) % Base]
AMFWriteNull == <<AMF_NULL>>
AMFWriteUndefined == <<AMF_UNDEFINED>>
AMFWriteBoolean(v) == <<AMF_BOOLEAN, IF v = 0 THEN 0 ELSE 1>>
AMFWriteDouble(v) == <<AMF_NUMBER>> \o Reverse(v)
AMFWriteString(v) ==
    IF Len(v) < Base ^ 2 THEN <<AMF_STRING>> \o AMFWriteInt16(Len(v)) \o v
    ELSE <<AMF_LONG_STRING>> \o AMFWriteInt32(Len(v)) \o v
AMFWriteECMAArarry == <<AMF_ECMA_ARRAY>> \o AMFWriteInt32(0)
AMFWriteObject == <<AMF_OBJECT>>
AMFWriteObjectEnd == <<0, 0, AMF_OBJECT_END>>
AMFWriteString16(name) == AMFWriteInt16(Len(name)) \o name

(* What a call puts out behind its name.                                     *)
Octets(c) ==
    CASE c.op = "number" -> AMFWriteDouble(c.v)
      [] c.op = "boolean" -> AMFWriteBoolean(c.v[1])
      [] c.op = "string" -> AMFWriteString(c.v)
      [] c.op = "null" -> AMFWriteNull
      [] c.op = "undefined" -> AMFWriteUndefined
      [] c.op = "object" -> AMFWriteObject
      [] c.op = "ecma" -> AMFWriteECMAArarry
      [] c.op = "strict" -> <<AMF_STRICT_ARRAY>> \o AMFWriteInt32(c.v[1])

InObject == open # <<>> /\ Head(open).type # AMF_STRICT_ARRAY
Key(c) ==      \* the name of a field, or the place of an element
    IF InObject THEN c.name ELSE <<IF open = <<>> THEN Len(tops) + 1 ELSE Head(open).count + 1>>
Path(k) == Append(Reverse([i \in DOMAIN open |-> [key |-> open[i].key, type |-> open[i].type]]), k)

(* An array is closed by its last element, which may close others.           *)
LOCAL Counted(o) == IF o # <<>> THEN <<[Head(o) EXCEPT !.count = @ + 1]>> \o Tail(o) ELSE o
LOCAL Full(o) == o # <<>> /\ Head(o).type = AMF_STRICT_ARRAY /\ Head(o).count = Head(o).size
LOCAL Closed(o) ==
    LET shut == {n \in 0..Len(o) : \A i \in 1..n : Full(SubSeq(o, i, Len(o)))}
    IN SubSeq(o, (CHOOSE n \in shut : \A m \in shut : m <= n) + 1, Len(o))

Write(c) ==
    /\ ~null /\ calls < MaxCalls /\ calls' = calls + 1
    /\ c.op \in {"object", "ecma", "strict"} => Len(open) < MaxDepth
    /\ open = <<>> => Len(tops) < Len(Items)
    /\ LET out == (IF InObject THEN AMFWriteString16(c.name) ELSE <<>>) \o Octets(c)
           type == Octets(c)[1]
           k == [key |-> Key(c), type |-> type]
           began == [key |-> Key(c), type |-> type, count |-> 0, size |-> IF c.op = "strict" THEN c.v[1] ELSE -1]
       IN IF Len(text) + Len(out) > Room THEN null' = TRUE /\ UNCHANGED <<text, open, log, tops>>
          ELSE /\ text' = text \o out
               /\ log' = IF c.op \in {"number", "boolean", "string"}
                         THEN Append(log, [path |-> Path(k), v |-> c.v]) ELSE log
               /\ open' = Closed(IF c.op \in {"object", "ecma", "strict"}
                                 THEN <<began>> \o Counted(open) ELSE Counted(open))
               /\ tops' = IF open = <<>> THEN Append(tops, type) ELSE tops
               /\ UNCHANGED null

End ==
    /\ ~null /\ InObject
    /\ IF Len(text) + 3 > Room THEN null' = TRUE /\ UNCHANGED <<text, open>>
       ELSE text' = text \o AMFWriteObjectEnd /\ open' = Closed(Tail(open)) /\ UNCHANGED null
    /\ UNCHANGED <<log, tops, calls>>

Init == text = <<>> /\ null = FALSE /\ open = <<>> /\ log = <<>> /\ tops = <<>> /\ calls = 0
Next == (\E c \in Calls : Write(c)) \/ End
Spec == Init /\ [][Next]_vars

------------------------------------------------------------------------------
(* The readers: at is the place of the next octet, or Null; got is what was  *)
(* stored, by the path of the item that asked for it.  item is <<>> where no *)
(* item fits.                                                                *)
Null == 0
LOCAL Fail(got) == [at |-> Null, got |-> got]
LOCAL Value(s, at, n) == FoldLeft(LAMBDA a, i : (a * Base) + s[at + i - 1], 0, [i \in 1..n |-> i])
LOCAL Store(s, at, n, path, item, got, v) ==
    [at |-> at + n, got |-> IF item = <<>> THEN got ELSE (path :> v) @@ got]

AMFReadBoolean(s, at, path, item, got) ==
    IF at + 1 > Len(s) + 1 THEN Fail(got) ELSE Store(s, at, 1, path, item, got, <<s[at]>>)
AMFReadDouble(s, at, path, item, got) ==
    IF at + NumberOctets > Len(s) + 1 THEN Fail(got)
    ELSE Store(s, at, NumberOctets, path, item, got, Reverse(SubSeq(s, at, at + NumberOctets - 1)))
AMFReadString(s, at, n, path, item, got) ==
    IF at + n > Len(s) + 1 THEN Fail(got)
    ELSE LET len == Value(s, at, n)
             fits == item # <<>> /\ item[1].size > len
         IN IF at + n + len > Len(s) + 1 THEN Fail(got)
            ELSE Store(s, at, n + len, path, IF fits THEN item ELSE <<>>, got, SubSeq(s, at + n, at + n + len - 1))

(* An object may be asked for and an array of names or a null be there.  A   *)
(* slip: an object takes its own kind only.                                  *)
amf_read_item_type_check_Same(type0, itemtype) == type0 = itemtype
amf_read_item_type_check(type0, itemtype) ==
    type0 = itemtype \/ (itemtype = AMF_OBJECT /\ type0 \in {AMF_ECMA_ARRAY, AMF_NULL})

RECURSIVE amf_read_object(_, _, _, _, _), amf_read_strict_array(_, _, _, _, _, _, _)
amf_read_item(s, at, type, path, item, got) ==
    LET items == IF item = <<>> THEN <<>> ELSE item[1].items
    IN CASE type = AMF_BOOLEAN -> AMFReadBoolean(s, at, path, item, got)
         [] type = AMF_NUMBER -> AMFReadDouble(s, at, path, item, got)
         [] type = AMF_STRING -> AMFReadString(s, at, 2, path, item, got)
         [] type = AMF_LONG_STRING -> AMFReadString(s, at, 4, path, item, got)
         [] type \in {AMF_NULL, AMF_UNDEFINED} -> [at |-> at, got |-> got]
         [] type \in {AMF_OBJECT, AMF_ECMA_ARRAY} ->
              IF type = AMF_ECMA_ARRAY /\ at + 4 > Len(s) + 1 THEN Fail(got)
              ELSE amf_read_object(s, IF type = AMF_ECMA_ARRAY THEN at + 4 ELSE at, path, items, got)
         [] type = AMF_STRICT_ARRAY ->
              IF at + 4 > Len(s) + 1 THEN Fail(got)
              ELSE amf_read_strict_array(s, at + 4, 0, Value(s, at, 4), path, items, got)
         [] OTHER -> Fail(got)

amf_read_strict_array(s, at, i, count, path, items, got) ==
    IF i = count \/ at > Len(s) THEN [at |-> at, got |-> got]
    ELSE LET fits == i < Len(items) /\ amf_read_item_type_check(s[at], items[i + 1].type)
             on(r) == IF r.at = Null THEN r ELSE amf_read_strict_array(s, r.at, i + 1, count, path, items, r.got)
         IN on(amf_read_item(s, at + 1, s[at], Append(path, <<i + 1>>),
                             IF fits THEN <<items[i + 1]>> ELSE <<>>, got))

amf_read_object(s, at, path, items, got) ==
    LET len == Value(s, at, 2)
        name == SubSeq(s, at + 2, at + 1 + len)
        value == at + 2 + len
        fits == {i \in DOMAIN items : items[i].name = name /\ amf_read_item_type_check(s[value], items[i].type)}
        item == IF fits = {} THEN <<>> ELSE <<items[CHOOSE i \in fits : \A j \in fits : i <= j]>>
        ended(end) == IF end <= Len(s) /\ s[end] = AMF_OBJECT_END THEN [at |-> end + 1, got |-> got] ELSE Fail(got)
        on(r) == IF r.at = Null THEN r ELSE amf_read_object(s, r.at, path, items, r.got)
    IN IF at + 2 > Len(s) + 1 THEN ended(at)
       ELSE IF len = 0 THEN ended(at + 2)
       ELSE IF value + 1 > Len(s) + 1 THEN Fail(got)
       ELSE on(amf_read_item(s, value + 1, s[value], Append(path, name), item, got))

RECURSIVE ReadItems(_, _, _, _)
ReadItems(s, at, i, got) ==
    IF i > Len(Items) \/ at > Len(s) THEN [at |-> at, got |-> got]
    ELSE IF ~amf_read_item_type_check(s[at], Items[i].type) THEN Fail(got)
    ELSE LET on(r) == IF r.at = Null THEN r ELSE ReadItems(s, r.at, i + 1, r.got)
         IN on(amf_read_item(s, at + 1, s[at], <<<<i>>>>, <<Items[i]>>, got))
amf_read_items(s) == ReadItems(s, 1, 1, <<>>)

------------------------------------------------------------------------------
TypeOK == Len(text) <= Room /\ null \in BOOLEAN /\ Len(open) <= MaxCalls /\ Len(tops) <= calls

(* The values that the items ask for, each the last one of its path.         *)
RECURSIVE Wanted(_, _)
Wanted(path, items) ==
    LET fits == {i \in DOMAIN items : /\ items[i].name = path[1].key
                                      /\ \/ items[i].type = path[1].type
                                         \/ items[i].type = AMF_OBJECT /\ path[1].type = AMF_ECMA_ARRAY}
    IN fits # {} /\ (Len(path) = 1 \/ Wanted(Tail(path), items[CHOOSE i \in fits : \A j \in fits : i <= j].items))
Asked ==
    FoldLeft(LAMBDA f, e : IF Wanted(e.path, Items) THEN ([i \in DOMAIN e.path |-> e.path[i].key] :> e.v) @@ f ELSE f,
             <<>>, log)

(* A text that was written whole is read to its end, and every place the     *)
(* reader was asked to fill holds the value that was written for it, however *)
(* deep and among whatever else (amf_read_items, amf_read_object); the       *)
(* reader of a text that ends too soon never looks beyond its end, and takes *)
(* nothing for a value that is none.                                         *)
AmfComesBack ==
    /\ /\ open = <<>> /\ Len(tops) <= Len(Items)
       /\ \A i \in DOMAIN tops : tops[i] = Items[i].type \/ {tops[i], Items[i].type} = {AMF_OBJECT, AMF_ECMA_ARRAY}
       => amf_read_items(text) = [at |-> Len(text) + 1, got |-> Asked]
    /\ \A n \in 0..Len(text) : \A r \in {amf_read_items(SubSeq(text, 1, n))} :
         r.at <= n + 1 /\ \A p \in DOMAIN r.got : \E i \in DOMAIN log : log[i].v = r.got[p]
==============================================================================
