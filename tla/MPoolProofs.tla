----------------------------- MODULE MPoolProofs ----------------------------
(***************************************************************************)
(* Proofs about MPool for any number of processes and items: who sets the  *)
(* shared pool up, and, where the number of items divides 2^32, that no    *)
(* item is lost or handed out twice.                                       *)
(***************************************************************************)
EXTENDS MPool, Sequences, FiniteSetTheorems, TLAPS

Attached == {p \in Procs : pc[p] \in {"setup", "in"}}

(* The pool is ready as long as it is used or being taken down; the one    *)
(* that sets it up or takes it down finds nobody else inside.              *)
Attaching ==
    /\ ready <=> \E p \in Procs : pc[p] \in {"in", "clear"}
    /\ \A p \in Procs :
          /\ pc[p] = "setup" => \A q \in Procs \ {p} : pc[q] \in {"out", "cas", "spin"}
          /\ pc[p] = "clear" => \A q \in Procs \ {p} : pc[q] = "out"
          /\ pc[p] = "inc" => ready
    /\ ref = Cardinality(Attached)

(* The item in the k-th place of the queue, and the items in use.          *)
Place(k) == ((head + k) % Word) % Max
At(k) == queue[Place(k)]
Length == Minus(tail, head)
Used == {i \in Items : iref[i] > 0}

(* The queue holds the free items, each once.                              *)
FreeQueued ==
    /\ Length <= Max /\ Length + Cardinality(Used) = Max
    /\ \A k \in 0 .. Length - 1 : iref[At(k)] = 0
    /\ \A j, k \in 0 .. Length - 1 : At(j) = At(k) => j = k
    /\ \A i \in Items : iref[i] = 0 => \E k \in 0 .. Length - 1 : At(k) = i

QueueSound ==
    /\ IF \E p \in Procs : pc[p] = "in" THEN FreeQueued ELSE \A i \in Items : iref[i] = 0
    /\ ~unexpected

-----------------------------------------------------------------------------
(* Unsigned arithmetic.                                                    *)
LEMMA ModWord ==
    ASSUME NEW w \in Nat \ {0}, NEW x \in 0 .. 2 * w - 1
    PROVE  x % w = IF x < w THEN x ELSE x - w
OBVIOUS

(* An index below 2^32 is itself modulo 2^32.                              *)
LEMMA SmallMod ==
    ASSUME NEW w \in Nat \ {0}, NEW x \in 0 .. w - 1  PROVE x % w = x
OBVIOUS

(* The place that head % max names is one of the queue's.                  *)
LEMMA ModType ==
    ASSUME NEW m \in Nat \ {0}, NEW n \in Nat  PROVE n % m \in 0 .. m - 1
OBVIOUS

(* No multiple of max lies strictly between 0 and max: two different       *)
(* places of a queue of at most max items are two different slots.         *)
LEMMA NoMultiple ==
    ASSUME NEW m \in Nat \ {0}, NEW n \in Int  PROVE ~(0 < m * n /\ m * n < m)
<1>1. CASE n <= 0
  BY <1>1, SMTT(30)
<1>2. CASE n >= 1
  BY <1>2, SMTT(30)
<1>. QED  BY <1>1, <1>2

(* Two numbers with the same remainder differ by a multiple.               *)
LEMMA SameRemainder ==
    ASSUME NEW m \in Nat \ {0}, NEW x \in Nat, NEW y \in Nat, x % m = y % m
    PROVE  \E n \in Int : y - x = m * n
<1>1. /\ x = (m * (x \div m)) + (x % m) /\ x \div m \in Int
      /\ y = (m * (y \div m)) + (y % m) /\ y \div m \in Int
  OBVIOUS
<1>. DEFINE n == (y \div m) - (x \div m)
<1>2. y - x = m * n
  BY <1>1
<1>3. n \in Int
  BY <1>1
<1>. HIDE DEF n
<1>4. WITNESS n \in Int
<1>. QED  BY <1>2

(* Up to Max places in a row are different places.                         *)
LEMMA PlacesDiffer ==
    ASSUME MPoolAssumption, MaxDividesWord, NEW h \in 0 .. Word - 1,
           NEW j \in 0 .. Max - 1, NEW k \in 0 .. Max - 1, j < k
    PROVE  ((h + j) % Word) % Max # ((h + k) % Word) % Max
<1>. DEFINE x == (h + j) % Word
            y == (h + k) % Word
<1>0. Max \in Nat \ {0} /\ Word \in Nat \ {0} /\ Max < Word
  BY DEF MPoolAssumption
<1>1. PICK w \in 1 .. Word : Word = w * Max
  BY DEF MaxDividesWord
<1>2. x \in Nat /\ y \in Nat /\ (y - x = k - j \/ y - x = (k - j) - Word)
  <2>1. h + j \in 0 .. 2 * Word - 1 /\ h + k \in 0 .. 2 * Word - 1
    BY <1>0
  <2>2. /\ x = IF h + j < Word THEN h + j ELSE (h + j) - Word
        /\ y = IF h + k < Word THEN h + k ELSE (h + k) - Word
    BY <1>0, <2>1, ModWord, Zenon
  <2>. HIDE DEF x, y
  <2>. QED  BY <1>0, <2>1, <2>2
<1>. HIDE DEF x, y
<1>3. SUFFICES ASSUME x % Max = y % Max  PROVE FALSE
  BY DEF x, y
<1>4. PICK n \in Int : y - x = Max * n
  BY <1>0, <1>2, <1>3, SameRemainder, Zenon
<1>5. \E m \in Int : k - j = Max * m
  <2>1. CASE y - x = k - j
    BY <1>4, <2>1
  <2>2. CASE y - x = (k - j) - Word
    <3>1. k - j = Max * n + w * Max
      BY <1>0, <1>1, <1>4, <2>2
    <3>2. k - j = Max * (n + w)
      BY <1>0, <1>1, <1>4, <3>1
    <3>. QED  BY <1>1, <1>4, <3>2
  <2>. QED  BY <1>2, <2>1, <2>2
<1>6. PICK m \in Int : k - j = Max * m
  BY <1>5
<1>7. 0 < Max * m /\ Max * m < Max
  BY <1>0, <1>6
<1>. QED  BY <1>0, <1>6, <1>7, NoMultiple

(* ref++ and mpool_put: one more process is attached, one more item is     *)
(* free.                                                                   *)
LEMMA Enter ==
    ASSUME NEW S, NEW T, NEW U, NEW t, IsFiniteSet(U), S \subseteq U, t \notin S, T = S \cup {t}
    PROVE  Cardinality(S) \in Nat /\ Cardinality(T) = Cardinality(S) + 1
<1>1. IsFiniteSet(S)
  BY FS_Subset
<1>. QED  BY <1>1, FS_AddElement, FS_CardinalityType

(* ref-- and mpool_get: one process fewer is attached, one item fewer is   *)
(* free.                                                                   *)
LEMMA Leave ==
    ASSUME NEW S, NEW T, NEW U, NEW t, IsFiniteSet(U), S \subseteq U, t \in S, T = S \ {t}
    PROVE  Cardinality(S) \in Nat \ {0} /\ Cardinality(T) = Cardinality(S) - 1
<1>1. IsFiniteSet(S)
  BY FS_Subset
<1>2. Cardinality(T) = Cardinality(S) - 1 /\ IsFiniteSet(T)
  BY <1>1, FS_RemoveElement
<1>3. Cardinality(S) \in Nat /\ Cardinality(T) \in Nat
  BY <1>1, <1>2, FS_CardinalityType
<1>. QED  BY <1>2, <1>3

(* ref stays within the number of processes.                               *)
LEMMA RefBound ==
    ASSUME NEW S, IsFiniteSet(Procs), S \subseteq Procs
    PROVE  Cardinality(S) \in 0 .. Cardinality(Procs) /\ (Cardinality(S) = 0 <=> S = {})
<1>1. IsFiniteSet(S) /\ Cardinality(S) <= Cardinality(Procs)
  BY FS_Subset
<1>. QED  BY <1>1, FS_CardinalityType, FS_EmptySet

-----------------------------------------------------------------------------
(* mpool_init and mpool_cleanup keep the processes apart.                  *)
LEMMA AttachingStep ==
    ASSUME MPoolAssumption, TypeOK, Attaching, [Next]_vars
    PROVE  Attaching'
<1>. DEFINE PC == {"out", "cas", "setup", "spin", "inc", "in", "clear"}
<1>0. /\ pc \in [Procs -> PC] /\ IsFiniteSet(Procs) /\ Attached \subseteq Procs
      /\ Cardinality(Attached) \in Nat /\ ready \in BOOLEAN
  BY RefBound DEF TypeOK, MPoolAssumption, Attached
<1>1. ASSUME UNCHANGED <<ready, ref, pc>>  PROVE Attaching'
  BY <1>1 DEF Attaching, Attached
<1>2. CASE UNCHANGED vars
  BY <1>1, <1>2 DEF vars
<1>3. ASSUME NEW p \in Procs, InitFlag(p)  PROVE Attaching'
  <2>1. /\ pc[p] = "out" /\ UNCHANGED <<ready, ref>> /\ \A q \in Procs : pc[q] # "clear"
        /\ \A q \in Procs : pc'[q] = IF q # p THEN pc[q] ELSE IF ready THEN "inc" ELSE "cas"
    BY <1>0, <1>3 DEF InitFlag, Goto
  <2>2. Attached' = Attached
    BY <2>1 DEF Attached
  <2>3. \A q \in Procs : pc[q] = "setup" => ~ready
    BY <2>1 DEF Attaching
  <2>. QED  BY <2>1, <2>2, <2>3 DEF Attaching
<1>4. ASSUME NEW p \in Procs, InitCas(p)  PROVE Attaching'
  <2>1. pc[p] = "cas" /\ UNCHANGED ready
    BY <1>4 DEF InitCas, Goto
  <2>2. CASE ref = 0 /\ pc' = [pc EXCEPT ![p] = "setup"] /\ ref' = 1
    <3>1. \A q \in Procs : pc'[q] = IF q # p THEN pc[q] ELSE "setup"
      BY <1>0, <2>2
    <3>2. Attached = {}
      BY <1>0, <2>2, RefBound, Zenon DEF Attaching
    <3>3. Attached' = {p}
      BY <3>1, <3>2 DEF Attached
    <3>4. Cardinality(Attached') = 1
      BY <3>3, FS_Singleton
    <3>5. \A q \in Procs : pc[q] \notin {"setup", "in", "clear"}
      BY <2>1, <3>2 DEF Attached, Attaching
    <3>6. ~ready
      BY <3>5 DEF Attaching
    <3>7. \A q \in Procs \ {p} : pc[q] \in {"out", "cas", "spin"}
      BY <1>0, <3>5, <3>6 DEF Attaching
    <3>. QED  BY <2>1, <2>2, <3>1, <3>4, <3>5, <3>6, <3>7 DEF Attaching
  <2>3. CASE pc' = [pc EXCEPT ![p] = "spin"] /\ UNCHANGED ref
    <3>1. \A q \in Procs : pc'[q] = IF q # p THEN pc[q] ELSE "spin"
      BY <1>0, <2>3
    <3>2. Attached' = Attached
      BY <2>1, <3>1 DEF Attached
    <3>. QED  BY <2>1, <2>3, <3>1, <3>2 DEF Attaching
  <2>. QED  BY <1>4, <2>2, <2>3 DEF InitCas, Goto
<1>5. ASSUME NEW p \in Procs, InitSetup(p)  PROVE Attaching'
  <2>1. /\ pc[p] = "setup" /\ ready' = TRUE /\ UNCHANGED ref
        /\ \A q \in Procs : pc'[q] = IF q # p THEN pc[q] ELSE "in"
    BY <1>0, <1>5 DEF InitSetup, Goto
  <2>2. Attached' = Attached
    BY <2>1 DEF Attached
  <2>3. \A q \in Procs \ {p} : pc[q] \in {"out", "cas", "spin"}
    BY <2>1 DEF Attaching
  <2>. QED  BY <2>1, <2>2, <2>3 DEF Attaching
<1>6. ASSUME NEW p \in Procs, InitSpin(p)  PROVE Attaching'
  <2>1. /\ pc[p] = "spin" /\ ready /\ UNCHANGED <<ready, ref>>
        /\ \A q \in Procs : pc'[q] = IF q # p THEN pc[q] ELSE "inc"
    BY <1>0, <1>6 DEF InitSpin, Goto
  <2>2. Attached' = Attached
    BY <2>1 DEF Attached
  <2>3. \A q \in Procs : pc[q] # "setup" /\ pc[q] # "clear"
    BY <2>1 DEF Attaching
  <2>. QED  BY <2>1, <2>2, <2>3 DEF Attaching
<1>7. ASSUME NEW p \in Procs, InitInc(p)  PROVE Attaching'
  <2>1. /\ pc[p] = "inc" /\ ref' = ref + 1 /\ UNCHANGED ready
        /\ \A q \in Procs : pc'[q] = IF q # p THEN pc[q] ELSE "in"
    BY <1>0, <1>7 DEF InitInc, Goto
  <2>2. p \notin Attached /\ Attached' = Attached \cup {p}
    BY <2>1 DEF Attached
  <2>3. Cardinality(Attached') = Cardinality(Attached) + 1
    BY <1>0, <2>2, Enter
  <2>4. ready /\ \A q \in Procs : pc[q] # "setup" /\ pc[q] # "clear"
    BY <2>1 DEF Attaching
  <2>. QED  BY <2>1, <2>3, <2>4 DEF Attaching
<1>8. ASSUME NEW p \in Procs, CleanupDec(p)  PROVE Attaching'
  <2>1. /\ pc[p] = "in" /\ ref' = ref - 1 /\ UNCHANGED ready
        /\ \A q \in Procs : pc[q] \in {"out", "in", "clear"}
        /\ \A q \in Procs : pc'[q] = IF q # p THEN pc[q] ELSE IF ref = 1 THEN "clear" ELSE "out"
    BY <1>0, <1>8 DEF CleanupDec, Goto
  <2>2. p \in Attached /\ Attached' = Attached \ {p}
    BY <2>1 DEF Attached
  <2>3. Cardinality(Attached') = Cardinality(Attached) - 1
    BY <1>0, <2>2, Leave
  <2>4. ready /\ \A q \in Procs : pc[q] # "clear"
    BY <2>1 DEF Attaching
  <2>5. Attached' \subseteq Procs /\ (Cardinality(Attached') = 0 <=> Attached' = {})
    BY <1>0, <2>2, RefBound
  <2>6. CASE ref = 1
    <3>1. Attached' = {}
      BY <2>3, <2>5, <2>6 DEF Attaching
    <3>2. \A q \in Procs \ {p} : pc[q] = "out"
      BY <2>1, <2>2, <2>4, <3>1 DEF Attached
    <3>. QED  BY <2>1, <2>3, <2>4, <2>6, <3>2 DEF Attaching
  <2>7. CASE ref # 1
    <3>1. Attached' # {}
      BY <1>0, <2>3, <2>5, <2>7 DEF Attaching
    <3>2. \E q \in Procs \ {p} : pc[q] = "in"
      BY <2>1, <2>2, <3>1 DEF Attached
    <3>. QED  BY <2>1, <2>3, <2>4, <2>7, <3>2 DEF Attaching
  <2>. QED  BY <2>6, <2>7
<1>9. ASSUME NEW p \in Procs, CleanupClear(p)  PROVE Attaching'
  <2>1. /\ pc[p] = "clear" /\ ready' = FALSE /\ UNCHANGED ref
        /\ \A q \in Procs : pc'[q] = IF q # p THEN pc[q] ELSE "out"
    BY <1>0, <1>9 DEF CleanupClear, Goto
  <2>2. Attached' = Attached
    BY <2>1 DEF Attached
  <2>3. \A q \in Procs \ {p} : pc[q] = "out"
    BY <2>1 DEF Attaching
  <2>. QED  BY <2>1, <2>2, <2>3 DEF Attaching
<1>10. ASSUME NEW p \in Procs,
              mpool_get(p) \/ \E i \in Items : mpool_ref_inc(p, i) \/ mpool_ref_dec(p, i)
       PROVE  Attaching'
  BY <1>1, <1>10 DEF mpool_get, mpool_ref_inc, mpool_ref_dec
<1>. QED
  BY <1>2, <1>3, <1>4, <1>5, <1>6, <1>7, <1>8, <1>9, <1>10 DEF Next
(* Every variable keeps its type.                                          *)
LEMMA TypeStep ==
    ASSUME MPoolAssumption, TypeOK, Attaching, [Next]_vars, Attaching'
    PROVE  TypeOK'
<1>. DEFINE PC == {"out", "cas", "setup", "spin", "inc", "in", "clear"}
            Rest == /\ head' \in 0 .. Word - 1 /\ tail' \in 0 .. Word - 1
                    /\ queue' \in [Items -> Items] /\ iref' \in [Items -> 0 .. MaxRef]
                    /\ ready' \in BOOLEAN /\ unexpected' \in BOOLEAN
<1>0. /\ Max \in Nat \ {0} /\ Word \in Nat \ {0} /\ MaxRef \in Nat \ {0} /\ Max < Word
      /\ pc \in [Procs -> PC] /\ iref \in [Items -> 0 .. MaxRef] /\ queue \in [Items -> Items]
      /\ head \in 0 .. Word - 1 /\ tail \in 0 .. Word - 1
      /\ ready \in BOOLEAN /\ unexpected \in BOOLEAN
  BY DEF MPoolAssumption, TypeOK
<1>1. ref' \in 0 .. Cardinality(Procs)
  <2>1. Attached' \subseteq Procs
    BY DEF Attached
  <2>. QED  BY <2>1, RefBound DEF Attaching, MPoolAssumption
<1>2. pc' \in [Procs -> PC]
  <2>1. CASE UNCHANGED pc
    BY <1>0, <2>1
  <2>2. ASSUME NEW p \in Procs, \E to \in PC : pc' = [pc EXCEPT ![p] = to]
        PROVE  pc' \in [Procs -> PC]
    BY <1>0, <2>2
  <2>3. ASSUME NEW p \in Procs,
               \/ InitFlag(p) \/ InitCas(p) \/ InitSetup(p) \/ InitSpin(p) \/ InitInc(p)
               \/ CleanupDec(p) \/ CleanupClear(p)
        PROVE  \E to \in PC : pc' = [pc EXCEPT ![p] = to]
    BY <2>3 DEF InitFlag, InitCas, InitSetup, InitSpin, InitInc, CleanupDec, CleanupClear, Goto
  <2>4. ASSUME NEW p \in Procs,
               mpool_get(p) \/ \E i \in Items : mpool_ref_inc(p, i) \/ mpool_ref_dec(p, i)
        PROVE  UNCHANGED pc
    BY <2>4 DEF mpool_get, mpool_ref_inc, mpool_ref_dec
  <2>. QED  BY <2>1, <2>2, <2>3, <2>4 DEF Next, vars
<1>3. /\ head % Max \in Items /\ tail % Max \in Items
      /\ (head + 1) % Word \in 0 .. Word - 1 /\ (tail + 1) % Word \in 0 .. Word - 1
  <2>1. head \in Nat /\ tail \in Nat /\ head + 1 \in Nat /\ tail + 1 \in Nat
    BY <1>0
  <2>. QED  BY <1>0, <2>1, ModType, Zenon DEF Items
<1>4. Rest
  <2>1. CASE UNCHANGED <<ring, iref, unexpected>> /\ ready' \in BOOLEAN
    BY <1>0, <2>1 DEF ring
  <2>2. ASSUME NEW p \in Procs,
               \/ InitFlag(p) \/ InitCas(p) \/ InitSpin(p) \/ InitInc(p)
               \/ CleanupDec(p) \/ CleanupClear(p)
        PROVE  UNCHANGED <<ring, iref, unexpected>> /\ ready' \in BOOLEAN
    BY <1>0, <2>2, Zenon DEF InitFlag, InitCas, InitSpin, InitInc, CleanupDec, CleanupClear
  <2>3. ASSUME NEW p \in Procs, InitSetup(p)  PROVE Rest
    BY <1>0, <2>3 DEF InitSetup, Items
  <2>4. ASSUME NEW p \in Procs, mpool_get(p)  PROVE Rest
    <3>. DEFINE item == queue[head % Max]
    <3>1. item \in Items
      BY <1>0, <1>3
    <3>. HIDE DEF item
    <3>2. /\ head' = (head + 1) % Word /\ iref' = [iref EXCEPT ![item] = IF @ = 0 THEN 1 ELSE @]
          /\ UNCHANGED <<ready, tail, queue>>
      BY <2>4 DEF mpool_get, item
    <3>3. unexpected' = (unexpected \/ iref[item] # 0)
      BY <2>4 DEF mpool_get, item
    <3>4. iref' \in [Items -> 0 .. MaxRef]
      BY <1>0, <3>1, <3>2
    <3>5. head' \in 0 .. Word - 1
      BY <1>0, <1>3, <3>2
    <3>6. unexpected' \in BOOLEAN
      BY <3>3
    <3>. QED  BY <1>0, <3>2, <3>4, <3>5, <3>6
  <2>5. ASSUME NEW p \in Procs, NEW i \in Items, mpool_ref_inc(p, i)  PROVE Rest
    BY <1>0, <2>5 DEF mpool_ref_inc, ring
  <2>6. ASSUME NEW p \in Procs, NEW i \in Items, mpool_ref_dec(p, i)  PROVE Rest
    <3>1. /\ iref[i] > 0 /\ iref' = [iref EXCEPT ![i] = @ - 1]
          /\ \/ UNCHANGED <<tail, queue>>
             \/ tail' = (tail + 1) % Word /\ queue' = [queue EXCEPT ![tail % Max] = i]
          /\ UNCHANGED <<ready, head, unexpected>>
      BY <2>6 DEF mpool_ref_dec, mpool_enqueue
    <3>2. iref' \in [Items -> 0 .. MaxRef]
      BY <1>0, <3>1
    <3>3. tail' \in 0 .. Word - 1 /\ queue' \in [Items -> Items]
      <4>1. CASE UNCHANGED <<tail, queue>>
        BY <1>0, <4>1
      <4>2. CASE tail' = (tail + 1) % Word /\ queue' = [queue EXCEPT ![tail % Max] = i]
        BY <1>0, <1>3, <4>2
      <4>. QED  BY <3>1, <4>1, <4>2
    <3>. QED  BY <1>0, <3>1, <3>2, <3>3
  <2>. QED  BY <1>0, <2>1, <2>2, <2>3, <2>4, <2>5, <2>6 DEF Next, vars
<1>. QED  BY <1>1, <1>2, <1>4 DEF TypeOK

(* The inductive invariant of attaching, for any number of items.          *)
THEOREM AttachingHolds == ASSUME MPoolAssumption PROVE Spec => [](TypeOK /\ Attaching)
<1>1. Init => TypeOK /\ Attaching
  <2>. SUFFICES ASSUME Init  PROVE TypeOK /\ Attaching
    OBVIOUS
  <2>1. Attached = {} /\ Cardinality(Attached) = 0
    BY FS_EmptySet DEF Init, Attached
  <2>2. Cardinality(Procs) \in Nat
    BY FS_CardinalityType DEF MPoolAssumption
  <2>3. Attaching
    BY <2>1 DEF Init, Attaching
  <2>4. TypeOK
    <3>1. 0 \in Items /\ 0 \in 0 .. MaxRef /\ 0 \in 0 .. Word - 1 /\ 0 \in 0 .. Cardinality(Procs)
      BY <2>2 DEF Items, MPoolAssumption
    <3>. QED  BY <3>1, Zenon DEF Init, TypeOK
  <2>. QED  BY <2>3, <2>4
<1>2. TypeOK /\ Attaching /\ [Next]_vars => (TypeOK /\ Attaching)'
  BY AttachingStep, TypeStep
<1>. QED  BY <1>1, <1>2, PTL DEF Spec

(* Exactly one process sets the pool up, with nobody attached, and ref     *)
(* counts the processes that use it (mpool_init, mpool_cleanup).           *)
THEOREM SetupHolds == ASSUME MPoolAssumption PROVE Spec => []SetupAlone
<1>1. Attaching => SetupAlone
  BY DEF Attaching, SetupAlone, Attached
<1>. QED  BY AttachingHolds, <1>1, PTL
-----------------------------------------------------------------------------
(* How far tail is ahead of head, and what one more place ahead means.     *)
LEMMA Ahead ==
    ASSUME MPoolAssumption, NEW h \in 0 .. Word - 1, NEW t \in 0 .. Word - 1
    PROVE  /\ Minus(t, h) = IF t >= h THEN t - h ELSE (t + Word) - h
           /\ Minus(t, h) \in 0 .. Word - 1
           /\ (h + Minus(t, h)) % Word = t
           /\ t # h => Minus(t, (h + 1) % Word) = Minus(t, h) - 1
           /\ Minus(t, h) < Word - 1 => Minus((t + 1) % Word, h) = Minus(t, h) + 1
<1>0. Max \in Nat \ {0} /\ Word \in Nat \ {0} /\ Max < Word
  BY DEF MPoolAssumption
<1>1. ASSUME NEW a \in 0 .. Word - 1, NEW b \in 0 .. Word - 1
      PROVE  Minus(a, b) = IF a >= b THEN a - b ELSE (a + Word) - b
  <2>1. (a + Word) - b \in 0 .. 2 * Word - 1
    BY <1>0
  <2>2. ((a + Word) - b) % Word = IF (a + Word) - b < Word THEN (a + Word) - b ELSE ((a + Word) - b) - Word
    BY <1>0, <2>1, ModWord, Zenon
  <2>. QED  BY <1>0, <2>2 DEF Minus
<1>2. ASSUME NEW a \in 0 .. Word - 1
      PROVE  (a + 1) % Word = (IF a + 1 < Word THEN a + 1 ELSE 0) /\ (a + 1) % Word \in 0 .. Word - 1
  <2>1. a + 1 \in 0 .. 2 * Word - 1
    BY <1>0
  <2>2. (a + 1) % Word = IF a + 1 < Word THEN a + 1 ELSE (a + 1) - Word
    BY <1>0, <2>1, ModWord, Zenon
  <2>. QED  BY <1>0, <2>2
<1>3. Minus(t, h) = (IF t >= h THEN t - h ELSE (t + Word) - h) /\ Minus(t, h) \in 0 .. Word - 1
  BY <1>0, <1>1
<1>4. (h + Minus(t, h)) % Word = t
  <2>. DEFINE x == h + Minus(t, h)
  <2>1. x \in 0 .. 2 * Word - 1 /\ x = IF t >= h THEN t ELSE t + Word
    BY <1>0, <1>3
  <2>. HIDE DEF x
  <2>2. x % Word = IF x < Word THEN x ELSE x - Word
    BY <1>0, <2>1, ModWord, Zenon
  <2>3. x % Word = t
    BY <1>0, <2>1, <2>2
  <2>. QED  BY <2>3 DEF x
<1>5. t # h => Minus(t, (h + 1) % Word) = Minus(t, h) - 1
  BY <1>0, <1>1, <1>2, <1>3
<1>6. Minus(t, h) < Word - 1 => Minus((t + 1) % Word, h) = Minus(t, h) + 1
  <2>. DEFINE u == (t + 1) % Word
  <2>1. u = (IF t + 1 < Word THEN t + 1 ELSE 0) /\ u \in 0 .. Word - 1
    BY <1>2
  <2>. HIDE DEF u
  <2>2. Minus(u, h) = IF u >= h THEN u - h ELSE (u + Word) - h
    BY <1>1, <2>1
  <2>3. Minus(t, h) < Word - 1 => Minus(u, h) = Minus(t, h) + 1
    BY <1>0, <1>3, <2>1, <2>2
  <2>. QED  BY <2>3 DEF u
<1>. QED  BY <1>3, <1>4, <1>5, <1>6

(* After head++ the k-th place is what was place k + 1, also where head    *)
(* wraps.                                                                  *)
LEMMA NextPlace ==
    ASSUME MPoolAssumption, NEW h \in 0 .. Word - 1, NEW k \in 0 .. Max - 1
    PROVE  (((h + 1) % Word) + k) % Word = (h + (k + 1)) % Word
<1>0. Max \in Nat \ {0} /\ Word \in Nat \ {0} /\ Max < Word
  BY DEF MPoolAssumption
<1>1. CASE h + 1 < Word
  <2>1. h + 1 \in 0 .. 2 * Word - 1
    BY <1>0
  <2>2. (h + 1) % Word = h + 1
    BY <1>0, <1>1, <2>1, ModWord, Zenon
  <2>. QED  BY <1>0, <2>2
<1>2. CASE h + 1 >= Word
  <2>1. h + 1 = Word /\ k \in 0 .. 2 * Word - 1 /\ h + (k + 1) \in 0 .. 2 * Word - 1
        /\ h + 1 \in 0 .. 2 * Word - 1
    BY <1>0, <1>2
  <2>2. (h + 1) % Word = 0
    BY <1>0, <2>1, ModWord
  <2>3. k % Word = k
    BY <1>0, <2>1, ModWord
  <2>4. (h + (k + 1)) % Word = k
    BY <1>0, <2>1, ModWord
  <2>. QED  BY <1>0, <2>2, <2>3, <2>4
<1>. QED  BY <1>0, <1>1, <1>2

(* mpool_get takes the first item, which is free.                          *)
LEMMA GetStep ==
    ASSUME MPoolAssumption, TypeOK, FreeQueued, NEW p \in Procs, mpool_get(p)
    PROVE  FreeQueued' /\ unexpected' = unexpected
<1>. DEFINE item == queue[head % Max]
            n == Length
<1>0. /\ Max \in Nat \ {0} /\ Word \in Nat \ {0} /\ Max < Word /\ MaxRef \in Nat \ {0}
      /\ head \in 0 .. Word - 1 /\ tail \in 0 .. Word - 1
      /\ iref \in [Items -> 0 .. MaxRef] /\ queue \in [Items -> Items] /\ tail # head
      /\ unexpected \in BOOLEAN /\ IsFiniteSet(Items)
  <2>1. Max - 1 \in Int
    BY DEF MPoolAssumption
  <2>2. IsFiniteSet(Items)
    BY <2>1, FS_Interval DEF Items
  <2>. QED  BY <2>2 DEF MPoolAssumption, TypeOK, mpool_get, mpool_full
<1>1. /\ head' = (head + 1) % Word /\ iref' = [iref EXCEPT ![item] = IF @ = 0 THEN 1 ELSE @]
      /\ unexpected' = (unexpected \/ iref[item] # 0) /\ UNCHANGED <<tail, queue>>
  BY DEF mpool_get
<1>2. n \in 1 .. Max /\ Length' = n - 1
  <2>1. /\ Minus(tail, head) = (IF tail >= head THEN tail - head ELSE (tail + Word) - head)
        /\ Minus(tail, (head + 1) % Word) = Minus(tail, head) - 1
    BY <1>0, Ahead
  <2>2. Minus(tail, head)' = Minus(tail, (head + 1) % Word)
    BY <1>1 DEF Minus
  <2>. QED  BY <1>0, <2>1, <2>2 DEF Length, FreeQueued
<1>3. item = At(0) /\ item \in Items
  <2>1. head + 0 = head /\ head \in Nat /\ head \in 0 .. 2 * Word - 1
    BY <1>0
  <2>2. head % Word = head
    BY <1>0, SmallMod
  <2>3. head % Max \in Items
    BY <1>0, <2>1, ModType, Zenon DEF Items
  <2>. QED  BY <1>0, <2>1, <2>2, <2>3 DEF At, Place
<1>. HIDE DEF item, n
<1>4. iref[item] = 0
  BY <1>0, <1>2, <1>3 DEF FreeQueued, n
<1>5. unexpected' = unexpected
  BY <1>0, <1>1, <1>4
<1>6. \A i \in Items : iref'[i] = IF i = item THEN 1 ELSE iref[i]
  BY <1>0, <1>1, <1>3, <1>4
<1>7. ASSUME NEW k \in 0 .. n - 2  PROVE At(k)' = At(k + 1) /\ k + 1 \in 0 .. n - 1 /\ At(k + 1) \in Items
  <2>1. k \in 0 .. Max - 1 /\ k + 1 \in 0 .. n - 1
    BY <1>0, <1>2
  <2>2. Place(k)' = Place(k + 1)
    BY <1>0, <1>1, <2>1, NextPlace DEF Place
  <2>3. (head + (k + 1)) % Word \in Nat
    BY <1>0, <2>1, ModType
  <2>4. Place(k + 1) \in Items
    BY <1>0, <2>3, ModType, Zenon DEF Place, Items
  <2>. QED  BY <1>0, <1>1, <2>1, <2>2, <2>4 DEF At
<1>8. Cardinality(Used') = Cardinality(Used) + 1 /\ Cardinality(Used) \in Nat
  <2>1. item \notin Used /\ Used' = Used \cup {item} /\ Used \subseteq Items
    BY <1>0, <1>3, <1>4, <1>6 DEF Used
  <2>. QED  BY <1>0, <2>1, Enter
<1>9. Length' <= Max /\ Length' + Cardinality(Used') = Max /\ Length' = n - 1
  BY <1>0, <1>2, <1>8 DEF FreeQueued, n
<1>10. \A k \in 0 .. n - 2 : iref'[At(k)'] = 0
  <2>. SUFFICES ASSUME NEW k \in 0 .. n - 2  PROVE iref'[At(k)'] = 0
    OBVIOUS
  <2>1. iref[At(k + 1)] = 0 /\ At(k + 1) # At(0)
    BY <1>0, <1>2, <1>7 DEF FreeQueued, n
  <2>. QED  BY <1>3, <1>6, <1>7, <2>1
<1>11. \A j, k \in 0 .. n - 2 : At(j)' = At(k)' => j = k
  <2>. SUFFICES ASSUME NEW j \in 0 .. n - 2, NEW k \in 0 .. n - 2, At(j)' = At(k)'  PROVE j = k
    OBVIOUS
  <2>1. j + 1 = k + 1
    BY <1>7 DEF FreeQueued, n
  <2>. QED  BY <1>2, <2>1
<1>12. \A i \in Items : iref'[i] = 0 => \E k \in 0 .. n - 2 : At(k)' = i
  <2>. SUFFICES ASSUME NEW i \in Items, iref'[i] = 0  PROVE \E k \in 0 .. n - 2 : At(k)' = i
    OBVIOUS
  <2>1. iref[i] = 0 /\ i # item
    BY <1>6
  <2>2. PICK k \in 0 .. n - 1 : At(k) = i
    BY <2>1 DEF FreeQueued, n
  <2>3. k # 0
    BY <1>3, <2>1, <2>2
  <2>4. k - 1 \in 0 .. n - 2 /\ (k - 1) + 1 = k
    BY <1>2, <2>3
  <2>. QED  BY <1>7, <2>2, <2>4
<1>13. Length' - 1 = n - 2
  BY <1>2
<1>. QED  BY <1>5, <1>9, <1>10, <1>11, <1>12, <1>13 DEF FreeQueued
(* mpool_put of the last reference puts the item behind the others.        *)
LEMMA PutStep ==
    ASSUME MPoolAssumption, MaxDividesWord, TypeOK, FreeQueued, NEW p \in Procs,
           NEW i \in Items, mpool_ref_dec(p, i)
    PROVE  FreeQueued'
<1>0. /\ Max \in Nat \ {0} /\ Word \in Nat \ {0} /\ Max < Word /\ MaxRef \in Nat \ {0}
      /\ head \in 0 .. Word - 1 /\ tail \in 0 .. Word - 1
      /\ iref \in [Items -> 0 .. MaxRef] /\ queue \in [Items -> Items] /\ IsFiniteSet(Items)
  <2>1. Max - 1 \in Int
    BY DEF MPoolAssumption
  <2>2. IsFiniteSet(Items)
    BY <2>1, FS_Interval DEF Items
  <2>. QED  BY <2>2 DEF MPoolAssumption, TypeOK
<1>1. /\ iref[i] > 0 /\ iref' = [iref EXCEPT ![i] = @ - 1] /\ UNCHANGED head
      /\ IF iref[i] = 1 THEN mpool_enqueue(i) ELSE UNCHANGED <<tail, queue>>
  BY DEF mpool_ref_dec, LastRef
<1>2. \A x \in Items : iref'[x] = IF x = i THEN iref[i] - 1 ELSE iref[x]
  BY <1>0, <1>1
<1>3. PICK n \in 0 .. Max : n = Length /\ tail = (head + n) % Word
  <2>1. Length \in 0 .. Word - 1 /\ (head + Length) % Word = tail
    BY <1>0, Ahead, Zenon DEF Length
  <2>2. Length \in 0 .. Max
    BY <1>0, <2>1 DEF FreeQueued
  <2>. QED  BY <2>1, <2>2
<1>4. ASSUME NEW k \in 0 .. Max  PROVE Place(k) \in Items
  <2>1. (head + k) % Word \in Nat
    BY <1>0, ModType
  <2>. QED  BY <1>0, <2>1, ModType, Zenon DEF Place, Items
<1>5. i \in Used /\ Used \subseteq Items
  BY <1>0, <1>1 DEF Used
<1>6. Cardinality(Used) \in Nat \ {0} /\ Cardinality(Used \ {i}) = Cardinality(Used) - 1
  BY <1>0, <1>5, Leave
<1>7. CASE iref[i] # 1
  <2>1. Used' = Used
    BY <1>0, <1>1, <1>2, <1>7 DEF Used
  <2>2. Length' = Length
    BY <1>1, <1>7 DEF Length, Minus
  <2>3. \A k \in 0 .. Length - 1 : At(k)' = At(k)
    BY <1>1, <1>7 DEF At, Place
  <2>4. \A k \in 0 .. Length - 1 : At(k) \in Items /\ At(k) # i
    BY <1>0, <1>1, <1>3, <1>4 DEF At, FreeQueued
  <2>5. \A x \in Items : iref'[x] = 0 => iref[x] = 0
    BY <1>0, <1>1, <1>2, <1>7
  <2>. QED  BY <1>2, <2>1, <2>2, <2>3, <2>4, <2>5 DEF FreeQueued
<1>8. CASE iref[i] = 1
  <2>1. n + Cardinality(Used) = Max /\ n \in 0 .. Max - 1
    BY <1>0, <1>3, <1>6 DEF FreeQueued
  <2>2. tail' = (tail + 1) % Word /\ queue' = [queue EXCEPT ![tail % Max] = i]
    BY <1>0, <1>1, <1>3, <1>8, <2>1 DEF mpool_enqueue, mpool_empty, Length
  <2>3. Length' = n + 1
    <3>1. Minus(tail, head) < Word - 1
      BY <1>0, <1>3, <2>1 DEF Length
    <3>2. Minus((tail + 1) % Word, head) = Minus(tail, head) + 1
      BY <1>0, <3>1, Ahead
    <3>. QED  BY <1>1, <1>3, <2>2, <3>2 DEF Length, Minus
  <2>4. Place(n) = tail % Max /\ Place(n) \in Items
    BY <1>3, <1>4, <2>1 DEF Place
  <2>5. \A k \in 0 .. n - 1 : Place(k) \in Items /\ Place(k) # Place(n)
    <3>. SUFFICES ASSUME NEW k \in 0 .. n - 1  PROVE Place(k) \in Items /\ Place(k) # Place(n)
      OBVIOUS
    <3>1. k \in 0 .. Max - 1 /\ k < n
      BY <1>0, <1>3, <2>1
    <3>2. ((head + k) % Word) % Max # ((head + n) % Word) % Max
      BY <1>0, <2>1, <3>1, PlacesDiffer, Zenon
    <3>3. k \in 0 .. Max
      BY <1>0, <3>1
    <3>. QED  BY <1>4, <3>2, <3>3 DEF Place
  <2>6. \A k \in 0 .. n - 1 : At(k)' = At(k) /\ At(k) \in Items /\ At(k) # i
    <3>1. \A k \in 0 .. n - 1 : At(k)' = At(k) /\ At(k) \in Items
      BY <1>0, <1>1, <2>2, <2>4, <2>5, Zenon DEF At, Place
    <3>. QED  BY <1>1, <1>3, <3>1 DEF FreeQueued
  <2>7. At(n)' = i
    BY <1>0, <1>1, <2>2, <2>4 DEF At, Place
  <2>8. \A k \in 0 .. n : k = n \/ k \in 0 .. n - 1
    BY <2>1
  <2>9. Cardinality(Used') = Cardinality(Used) - 1
    <3>1. Used' = Used \ {i}
      BY <1>0, <1>2, <1>8 DEF Used
    <3>. QED  BY <1>6, <3>1
  <2>10. Length' <= Max /\ Length' + Cardinality(Used') = Max
    BY <1>0, <1>6, <2>1, <2>3, <2>9
  <2>11. \A k \in 0 .. n : iref'[At(k)'] = 0
    BY <1>2, <1>3, <1>8, <2>6, <2>7, <2>8 DEF FreeQueued
  <2>12. \A j, k \in 0 .. n : At(j)' = At(k)' => j = k
    BY <1>3, <2>6, <2>7, <2>8 DEF FreeQueued
  <2>13. \A x \in Items : iref'[x] = 0 => \E k \in 0 .. n : At(k)' = x
    <3>. SUFFICES ASSUME NEW x \in Items, iref'[x] = 0  PROVE \E k \in 0 .. n : At(k)' = x
      OBVIOUS
    <3>1. CASE x = i
      BY <2>1, <2>7, <3>1
    <3>2. CASE x # i
      <4>1. PICK k \in 0 .. n - 1 : At(k) = x
        BY <1>2, <1>3, <3>2 DEF FreeQueued
      <4>2. k \in 0 .. n
        BY <2>1
      <4>. QED  BY <2>6, <4>1, <4>2
    <3>. QED  BY <3>1, <3>2
  <2>14. Length' - 1 = n
    BY <2>1, <2>3
  <2>. QED  BY <2>10, <2>11, <2>12, <2>13, <2>14 DEF FreeQueued
<1>. QED  BY <1>7, <1>8

(* mpool_init fills the queue.                                             *)
LEMMA SetupStep ==
    ASSUME MPoolAssumption, TypeOK, \A i \in Items : iref[i] = 0, NEW p \in Procs, InitSetup(p)
    PROVE  FreeQueued'
<1>0. Max \in Nat \ {0} /\ Word \in Nat \ {0} /\ Max < Word
  BY DEF MPoolAssumption
<1>1. head' = 0 /\ tail' = Max /\ queue' = [i \in Items |-> i] /\ UNCHANGED iref
  BY DEF InitSetup
<1>2. Length' = Max
  <2>1. Minus(Max, 0) = Max
    <3>1. 0 \in 0 .. Word - 1 /\ Max \in 0 .. Word - 1
      BY <1>0
    <3>2. Minus(Max, 0) = IF Max >= 0 THEN Max - 0 ELSE (Max + Word) - 0
      BY <3>1, Ahead
    <3>. QED  BY <1>0, <3>2
  <2>. QED  BY <1>1, <2>1 DEF Length, Minus
<1>3. Used' = {} /\ Cardinality(Used') = 0
  BY <1>1, FS_EmptySet DEF Used
<1>4. \A k \in 0 .. Max - 1 : At(k)' = k /\ k \in Items
  <2>. SUFFICES ASSUME NEW k \in 0 .. Max - 1  PROVE At(k)' = k /\ k \in Items
    OBVIOUS
  <2>1. 0 + k = k /\ k \in 0 .. Word - 1 /\ k \in Items
    BY <1>0 DEF Items
  <2>2. k % Word = k /\ k % Max = k
    BY <1>0, <2>1, SmallMod
  <2>. QED  BY <1>1, <2>1, <2>2 DEF At, Place
<1>5. \A i \in Items : i \in 0 .. Max - 1
  BY DEF Items
<1>. QED  BY <1>0, <1>1, <1>2, <1>3, <1>4, <1>5 DEF FreeQueued

(* Every step of mpool_init, mpool_get, mpool_put and mpool_cleanup keeps  *)
(* the queue sound.                                                        *)
LEMMA QueueStep ==
    ASSUME MPoolAssumption, MaxDividesWord, TypeOK, Attaching, QueueSound, [Next]_vars
    PROVE  QueueSound'
<1>. DEFINE Inside == \E p \in Procs : pc[p] = "in"
            PC == {"out", "cas", "setup", "spin", "inc", "in", "clear"}
<1>0. pc \in [Procs -> PC]
  BY DEF TypeOK
<1>1. ASSUME UNCHANGED <<ring, iref, unexpected>>, Inside' <=> Inside  PROVE QueueSound'
  <2>1. FreeQueued' <=> FreeQueued
    BY <1>1 DEF FreeQueued, ring, Length, Minus, Used, At, Place
  <2>. QED  BY <1>1, <2>1 DEF QueueSound
<1>2. CASE UNCHANGED vars
  BY <1>1, <1>2 DEF vars
<1>3. ASSUME NEW p \in Procs, InitFlag(p) \/ InitCas(p) \/ InitSpin(p) \/ CleanupClear(p)
      PROVE  QueueSound'
  <2>1. PICK to \in PC \ {"in"} : pc' = [pc EXCEPT ![p] = to]
    BY <1>3 DEF InitFlag, InitCas, InitSpin, CleanupClear, Goto
  <2>2. pc[p] # "in"
    BY <1>3 DEF InitFlag, InitCas, InitSpin, CleanupClear, Goto
  <2>3. Inside' <=> Inside
    BY <1>0, <2>1, <2>2
  <2>. QED  BY <1>1, <1>3, <2>3 DEF InitFlag, InitCas, InitSpin, CleanupClear
<1>4. ASSUME NEW p \in Procs, InitInc(p)  PROVE QueueSound'
  <2>1. pc[p] = "inc" /\ pc' = [pc EXCEPT ![p] = "in"]
    BY <1>4 DEF InitInc, Goto
  <2>2. PICK q \in Procs : pc[q] \in {"in", "clear"}
    BY <2>1 DEF Attaching
  <2>3. pc[q] = "in"
    BY <2>1, <2>2 DEF Attaching
  <2>4. Inside /\ Inside'
    BY <1>0, <2>1, <2>3
  <2>. QED  BY <1>1, <1>4, <2>4 DEF InitInc
<1>5. ASSUME NEW p \in Procs, InitSetup(p)  PROVE QueueSound'
  <2>1. pc[p] = "setup" /\ pc' = [pc EXCEPT ![p] = "in"] /\ UNCHANGED unexpected
    BY <1>5 DEF InitSetup, Goto
  <2>2. ~Inside /\ Inside'
    BY <1>0, <2>1 DEF Attaching
  <2>3. FreeQueued'
    BY <1>5, <2>2, SetupStep DEF QueueSound
  <2>. QED  BY <2>1, <2>2, <2>3 DEF QueueSound
<1>6. ASSUME NEW p \in Procs, CleanupDec(p)  PROVE QueueSound'
  <2>1. /\ pc[p] = "in" /\ UNCHANGED <<ring, iref, unexpected>>
        /\ (\A q \in Procs \ {p} : pc[q] # "in") => \A i \in Items : iref[i] = 0
        /\ \A q \in Procs : q # p => pc'[q] = pc[q]
        /\ pc'[p] # "in"
    BY <1>0, <1>6 DEF CleanupDec, Goto
  <2>2. CASE \E q \in Procs \ {p} : pc[q] = "in"
    <3>1. Inside /\ Inside'
      BY <2>1, <2>2
    <3>. QED  BY <1>1, <2>1, <3>1
  <2>3. CASE \A q \in Procs \ {p} : pc[q] # "in"
    <3>1. ~Inside'
      BY <2>1, <2>3
    <3>. QED  BY <2>1, <2>3, <3>1 DEF QueueSound
  <2>. QED  BY <2>2, <2>3
<1>7. ASSUME NEW p \in Procs, mpool_get(p)  PROVE QueueSound'
  <2>1. Inside /\ Inside'
    BY <1>7 DEF mpool_get
  <2>. QED  BY <1>7, <2>1, GetStep DEF QueueSound
<1>8. ASSUME NEW p \in Procs, NEW i \in Items, mpool_ref_inc(p, i)  PROVE QueueSound'
  <2>1. /\ Inside /\ Inside' /\ UNCHANGED <<head, tail, queue, unexpected>>
        /\ iref[i] > 0 /\ iref' = [iref EXCEPT ![i] = iref[i] + 1]
        /\ iref \in [Items -> 0 .. MaxRef]
    BY <1>8 DEF mpool_ref_inc, ring, TypeOK
  <2>2. \A x \in Items : (iref'[x] = 0 <=> iref[x] = 0) /\ (iref'[x] > 0 <=> iref[x] > 0)
    BY <2>1
  <2>3. Used' = Used
    BY <2>2 DEF Used
  <2>4. \A k \in 0 .. Length - 1 : At(k) \in Items
    <3>. SUFFICES ASSUME NEW k \in 0 .. Length - 1  PROVE At(k) \in Items
      OBVIOUS
    <3>0. /\ Max \in Nat \ {0} /\ Word \in Nat \ {0} /\ head \in 0 .. Word - 1
          /\ tail \in 0 .. Word - 1 /\ queue \in [Items -> Items]
      BY DEF MPoolAssumption, TypeOK
    <3>1. Length \in Nat /\ k \in Nat
      BY <3>0, Ahead DEF Length
    <3>2. (head + k) % Word \in Nat
      BY <3>0, <3>1, ModType
    <3>3. Place(k) \in Items
      BY <3>0, <3>2, ModType DEF Place, Items
    <3>. QED  BY <3>0, <3>3 DEF At
  <2>5. Length' = Length /\ \A k \in 0 .. Length - 1 : At(k)' = At(k)
    BY <2>1 DEF Length, Minus, At, Place
  <2>6. FreeQueued'
    BY <2>1, <2>2, <2>3, <2>4, <2>5 DEF FreeQueued, QueueSound
  <2>. QED  BY <2>1, <2>6 DEF QueueSound
<1>9. ASSUME NEW p \in Procs, NEW i \in Items, mpool_ref_dec(p, i)  PROVE QueueSound'
  <2>1. Inside /\ Inside' /\ UNCHANGED unexpected
    BY <1>9 DEF mpool_ref_dec
  <2>. QED  BY <1>9, <2>1, PutStep DEF QueueSound
<1>. QED
  BY <1>2, <1>3, <1>4, <1>5, <1>6, <1>7, <1>8, <1>9 DEF Next

(* The inductive invariant of the queue of free items.                     *)
THEOREM QueueHolds ==
    ASSUME MPoolAssumption, MaxDividesWord
    PROVE  Spec => [](TypeOK /\ QueueSound)
<1>1. Init => QueueSound
  BY DEF Init, QueueSound
<1>2. TypeOK /\ Attaching /\ QueueSound /\ [Next]_vars => QueueSound'
  BY QueueStep
<1>. QED  BY AttachingHolds, <1>1, <1>2, PTL DEF Spec

(* An item that mpool_get dequeues is free: "Un-expected package in queue" *)
(* is not printed where the number of items divides 2^32.  (The run        *)
(* mpool_wrap shows it printed where the number does not.)                 *)
THEOREM NeverUnexpected ==
    ASSUME MPoolAssumption, MaxDividesWord
    PROVE  Spec => []NothingUnexpected
<1>1. QueueSound => NothingUnexpected
  BY DEF QueueSound, NothingUnexpected
<1>. QED  BY QueueHolds, <1>1, PTL

(* Every item is free and queued once or in use and not queued, and        *)
(* mpool_count counts those in use (mpool_get, mpool_put).                 *)
THEOREM ItemsKept ==
    ASSUME MPoolAssumption, MaxDividesWord
    PROVE  Spec => []ItemsConserved
<1>1. TypeOK /\ QueueSound => ItemsConserved
  <2>. SUFFICES ASSUME TypeOK, QueueSound, \E p \in Procs : pc[p] = "in"
                PROVE  /\ \A i \in Items : Cardinality({k \in 0 .. Minus(tail, head) - 1 :
                                                 queue[((head + k) % Word) % Max] = i})
                                             = IF iref[i] = 0 THEN 1 ELSE 0
                       /\ mpool_count = Cardinality({i \in Items : iref[i] > 0})
    BY Zenon DEF ItemsConserved
  <2>0. /\ Max \in Nat \ {0} /\ Word \in Nat \ {0} /\ Max < Word /\ FreeQueued
        /\ head \in 0 .. Word - 1 /\ tail \in 0 .. Word - 1
        /\ iref \in [Items -> 0 .. MaxRef] /\ MaxRef \in Nat
    BY DEF MPoolAssumption, TypeOK, QueueSound
  <2>1. ASSUME NEW i \in Items
        PROVE  Cardinality({k \in 0 .. Length - 1 : At(k) = i}) = IF iref[i] = 0 THEN 1 ELSE 0
    <3>1. CASE iref[i] = 0
      <4>1. PICK k \in 0 .. Length - 1 : At(k) = i
        BY <2>0, <3>1 DEF FreeQueued
      <4>2. {j \in 0 .. Length - 1 : At(j) = i} = {k}
        BY <2>0, <4>1 DEF FreeQueued
      <4>. QED  BY <3>1, <4>2, FS_Singleton, Zenon
    <3>2. CASE iref[i] # 0
      <4>1. {j \in 0 .. Length - 1 : At(j) = i} = {}
        BY <2>0, <3>2 DEF FreeQueued
      <4>. QED  BY <3>2, <4>1, FS_EmptySet
    <3>. QED  BY <3>1, <3>2
  <2>2. mpool_count = Cardinality(Used)
    <3>1. Length = IF tail >= head THEN tail - head ELSE (tail + Word) - head
      BY <2>0, Ahead DEF Length
    <3>2. Length + Cardinality(Used) = Max /\ Length \in 0 .. Max
      BY <2>0, <3>1 DEF FreeQueued
    <3>. DEFINE n == Max - Length
    <3>3. n \in 0 .. Word - 1 /\ n + Length = Max
      BY <2>0, <3>2
    <3>4. Max + head + Word - tail = n + Word \/ Max + head + Word - tail = (n + Word) + Word
      BY <2>0, <3>1, <3>2
    <3>. HIDE DEF n
    <3>5. (n + Word) % Word = n /\ ((n + Word) + Word) % Word = n
      BY <2>0, <3>3
    <3>6. mpool_count = n
      BY <3>4, <3>5 DEF mpool_count, Minus
    <3>7. Cardinality(Used) \in Nat
      <4>1. IsFiniteSet(Items)
        BY <2>0, FS_Interval DEF Items
      <4>2. IsFiniteSet(Used)
        BY <4>1, FS_Subset DEF Used
      <4>. QED  BY <4>2, FS_CardinalityType
    <3>. QED  BY <2>0, <3>2, <3>3, <3>6, <3>7
  <2>. QED  BY <2>1, <2>2, Zenon DEF Length, At, Place, Used
<1>. QED  BY QueueHolds, <1>1, PTL

(* One process sets the pool up while nobody is attached (mpool_init), and *)
(* from then on no item is lost or handed out twice (mpool_get, mpool_put).*)
THEOREM PoolKept ==
    ASSUME MPoolAssumption, MaxDividesWord
    PROVE  Spec => []PoolSound
<1>1. SetupAlone /\ ItemsConserved => PoolSound
  BY DEF PoolSound
<1>. QED  BY SetupHolds, ItemsKept, <1>1, PTL

-----------------------------------------------------------------------------
(***************************************************************************)
(* Proof that the stack of include/stack.h is what was pushed and not      *)
(* popped, for any number of nodes and of pushing threads.                 *)
(***************************************************************************)
CONSTANTS Nodes, Pushers, NULL

VARIABLES top, next, spc, node, seen, qpc, qtop, qnext, content

ST == INSTANCE LockFreeStack WITH pc <- spc

OnStack(n) == \E i \in 1 .. Len(content) : content[i] = n

(* A node is in the stack at most once, or with one thread that pushes it. *)
OnePlace ==
    /\ \A i, j \in 1 .. Len(content) : content[i] = content[j] => i = j
    /\ \A p \in Pushers : /\ spc[p] = "idle" <=> node[p] = NULL
                          /\ \A i \in 1 .. Len(content) : content[i] # node[p]
                          /\ \A q \in Pushers : node[q] = node[p] /\ node[p] # NULL => p = q

(* A pusher's node is linked to the top it has read; the one popping       *)
(* thread keeps what it has read of a node in the stack, since nobody else *)
(* takes nodes out and the next of a node in the stack does not change.    *)
ReadStays ==
    /\ \A p \in Pushers : spc[p] = "cas" => next[node[p]] = seen[p]
    /\ qpc \in {"next", "cas"} => OnStack(qtop)
    /\ qpc = "cas" => qnext = next[qtop]

StackInv == ST!TypeOK /\ OnePlace /\ ReadStays /\ ST!ChainIsContent

-----------------------------------------------------------------------------
(* Every variable keeps its type.                                          *)
LEMMA StackTypeStep ==
    ASSUME ST!StackAssumption, StackInv, [ST!Next]_(ST!vars)
    PROVE  ST!TypeOK'
<1>0. ST!TypeOK
  BY DEF StackInv
<1>1. CASE UNCHANGED ST!vars
  BY <1>0, <1>1 DEF ST!vars, ST!pusher, ST!popper, ST!TypeOK
<1>2. ASSUME NEW p \in Pushers, NEW n \in Nodes, ST!PushCall(p, n)  PROVE ST!TypeOK'
  BY <1>0, <1>2 DEF ST!PushCall, ST!Goto, ST!popper, ST!TypeOK
<1>3. ASSUME NEW p \in Pushers, ST!PushRead(p)  PROVE ST!TypeOK'
  BY <1>0, <1>3 DEF ST!PushRead, ST!Goto, ST!popper, ST!TypeOK
<1>4. ASSUME NEW p \in Pushers, ST!PushLink(p)  PROVE ST!TypeOK'
  BY <1>0, <1>4, Zenon DEF ST!PushLink, ST!Goto, ST!popper, ST!TypeOK
<1>5. ASSUME NEW p \in Pushers, ST!PushCas(p)  PROVE ST!TypeOK'
  <2>1. spc' \in [Pushers -> {"idle", "read", "link", "cas"}]
    BY <1>0, <1>5 DEF ST!PushCas, ST!Goto, ST!TypeOK
  <2>2. spc[p] # "idle"
    BY <1>5 DEF ST!PushCas, ST!Goto
  <2>3. node[p] \in Nodes
    BY <1>0, <2>2 DEF StackInv, OnePlace, ST!TypeOK
  <2>4. content' \in Seq(Nodes) /\ top' \in Nodes \cup {NULL}
    <3>1. CASE top' = node[p] /\ content' = <<node[p]>> \o content
      BY <1>0, <2>3, <3>1 DEF ST!TypeOK
    <3>2. CASE UNCHANGED <<top, content>>
      BY <1>0, <3>2 DEF ST!TypeOK
    <3>. QED  BY <1>5, <3>1, <3>2 DEF ST!PushCas
  <2>5. node' \in [Pushers -> Nodes \cup {NULL}] /\ seen' \in [Pushers -> Nodes \cup {NULL}]
    BY <1>0, <1>5, Zenon DEF ST!PushCas, ST!TypeOK
  <2>. QED  BY <1>0, <1>5, <2>1, <2>4, <2>5 DEF ST!PushCas, ST!popper, ST!TypeOK
<1>6. CASE ST!PopTop \/ ST!PopNext \/ ST!ClearTop
  <2>1. qpc = "next" => qtop \in Nodes
    BY <1>0 DEF StackInv, ReadStays, OnStack, ST!TypeOK
  <2>. QED  BY <1>0, <1>6, <2>1 DEF ST!PopTop, ST!PopNext, ST!ClearTop, ST!QGoto, ST!pusher, ST!TypeOK
<1>7. CASE ST!PopCas
  <2>1. content # << >> => Tail(content) \in Seq(Nodes)
    BY <1>0 DEF ST!TypeOK
  <2>2. qpc = "cas" => content # << >>
    BY <1>0 DEF StackInv, ReadStays, OnStack, ST!TypeOK
  <2>. QED  BY <1>0, <1>7, <2>1, <2>2 DEF ST!PopCas, ST!QGoto, ST!pusher, ST!TypeOK
<1>8. CASE ST!ClearCas
  <2>1. content' \in Seq(Nodes)
    <3>1. CASE content' = << >>
      BY <3>1
    <3>2. CASE content' = content
      BY <1>0, <3>2 DEF ST!TypeOK
    <3>. QED  BY <1>8, <3>1, <3>2 DEF ST!ClearCas
  <2>. QED  BY <1>0, <1>8, <2>1 DEF ST!ClearCas, ST!QGoto, ST!pusher, ST!TypeOK
<1>. QED  BY <1>1, <1>2, <1>3, <1>4, <1>5, <1>6, <1>7, <1>8 DEF ST!Next

(* The swap of stack_push.                                                 *)
LEMMA PushCasStep ==
    ASSUME ST!StackAssumption, StackInv, NEW p \in Pushers, ST!PushCas(p)
    PROVE  OnePlace' /\ ReadStays' /\ ST!ChainIsContent'
<1>0. /\ ST!TypeOK /\ NULL \notin Nodes /\ content \in Seq(Nodes) /\ Len(content) \in Nat
      /\ \A i \in 1 .. Len(content) : content[i] \in Nodes
      /\ spc[p] = "cas" /\ seen' = [seen EXCEPT ![p] = NULL] /\ UNCHANGED <<next, qpc, qtop, qnext>>
  BY DEF StackInv, ST!TypeOK, ST!StackAssumption, ST!PushCas, ST!Goto, ST!popper
<1>1. node[p] \in Nodes /\ next[node[p]] = seen[p]
  BY <1>0 DEF StackInv, OnePlace, ReadStays, ST!TypeOK
<1>2. CASE /\ top = seen[p] /\ spc' = [spc EXCEPT ![p] = "idle"]
           /\ top' = node[p] /\ content' = <<node[p]>> \o content
           /\ node' = [node EXCEPT ![p] = NULL]
  <2>1. /\ Len(content') = Len(content) + 1 /\ content'[1] = node[p]
        /\ \A i \in 2 .. Len(content) + 1 : content'[i] = content[i - 1]
        /\ content' # << >>
    BY <1>0, <1>1, <1>2
  <2>2. \A i \in 1 .. Len(content) : content[i] # node[p]
    BY DEF StackInv, OnePlace
  <2>3. \A q \in Pushers : /\ spc'[q] = IF q = p THEN "idle" ELSE spc[q]
                           /\ node'[q] = IF q = p THEN NULL ELSE node[q]
                           /\ seen'[q] = IF q = p THEN NULL ELSE seen[q]
    BY <1>0, <1>2 DEF ST!TypeOK
  <2>4. \A i \in 1 .. Len(content') : i = 1 \/ (i \in 2 .. Len(content) + 1 /\ i - 1 \in 1 .. Len(content))
    BY <1>0, <2>1
  <2>5. \A i, j \in 1 .. Len(content') : content'[i] = content'[j] => i = j
    <3>. SUFFICES ASSUME NEW i \in 1 .. Len(content'), NEW j \in 1 .. Len(content'),
                         content'[i] = content'[j]
                  PROVE  i = j
      OBVIOUS
    <3>1. CASE i = 1 /\ j = 1
      BY <3>1
    <3>2. CASE i = 1 /\ j # 1
      BY <2>1, <2>2, <2>4, <3>2
    <3>3. CASE i # 1 /\ j = 1
      BY <2>1, <2>2, <2>4, <3>3
    <3>4. CASE i # 1 /\ j # 1
      <4>1. content[i - 1] = content[j - 1]
        BY <2>1, <2>4, <3>4
      <4>2. i - 1 = j - 1
        BY <2>4, <3>4, <4>1 DEF StackInv, OnePlace
      <4>. QED  BY <4>2
    <3>. QED  BY <3>1, <3>2, <3>3, <3>4
  <2>6. ASSUME NEW q \in Pushers
        PROVE  /\ spc'[q] = "idle" <=> node'[q] = NULL
               /\ \A i \in 1 .. Len(content') : content'[i] # node'[q]
               /\ \A u \in Pushers : node'[u] = node'[q] /\ node'[q] # NULL => q = u
    <3>1. CASE q = p
      BY <1>0, <1>1, <2>1, <2>3, <2>4, <3>1
    <3>2. CASE q # p
      <4>1. node[q] # node[p]
        BY <1>0, <1>1, <3>2 DEF StackInv, OnePlace
      <4>2. \A i \in 1 .. Len(content') : content'[i] # node'[q]
        BY <2>1, <2>3, <2>4, <3>2, <4>1 DEF StackInv, OnePlace
      <4>. QED  BY <2>3, <3>2, <4>2 DEF StackInv, OnePlace
    <3>. QED  BY <3>1, <3>2
  <2>7. qpc \in {"next", "cas"} => OnStack(qtop)'
    <3>. SUFFICES ASSUME qpc \in {"next", "cas"}  PROVE OnStack(qtop)'
      OBVIOUS
    <3>1. PICK i \in 1 .. Len(content) : content[i] = qtop
      BY DEF StackInv, ReadStays, OnStack
    <3>2. i + 1 \in 1 .. Len(content') /\ content'[i + 1] = qtop
      BY <1>0, <2>1, <3>1
    <3>. QED  BY <1>0, <3>2 DEF OnStack
  <2>8. ReadStays'
    BY <1>0, <2>3, <2>7 DEF StackInv, ReadStays
  <2>9. ST!ChainIsContent'
    <3>1. next[node[p]] = IF 1 = Len(content') THEN NULL ELSE content'[2]
      <4>1. CASE content = << >>
        BY <1>0, <1>1, <1>2, <2>1, <4>1 DEF StackInv, ST!ChainIsContent
      <4>2. CASE content # << >>
        <5>1. Len(content) > 0 /\ top = content[1]
          BY <1>0, <4>2 DEF StackInv, ST!ChainIsContent
        <5>. QED  BY <1>0, <1>1, <1>2, <2>1, <5>1
      <4>. QED  BY <4>1, <4>2
    <3>2. ASSUME NEW i \in 1 .. Len(content'), i # 1
          PROVE  next[content'[i]] = IF i = Len(content') THEN NULL ELSE content'[i + 1]
      <4>1. i - 1 \in 1 .. Len(content) /\ content'[i] = content[i - 1]
        BY <2>1, <2>4, <3>2
      <4>2. next[content[i - 1]] = IF i - 1 = Len(content) THEN NULL ELSE content[(i - 1) + 1]
        BY <4>1 DEF StackInv, ST!ChainIsContent
      <4>3. i # Len(content') => content'[i + 1] = content[i]
        BY <1>0, <2>1
      <4>4. (i - 1) + 1 = i /\ (i - 1 = Len(content) <=> i = Len(content'))
        BY <1>0, <2>1
      <4>. QED  BY <4>1, <4>2, <4>3, <4>4
    <3>3. content'[1] = node[p] /\ top' = content'[1] /\ content' # << >> /\ next' = next
      BY <1>0, <1>2, <2>1
    <3>4. ASSUME NEW i \in 1 .. Len(content')
          PROVE  next[content'[i]] = IF i = Len(content') THEN NULL ELSE content'[i + 1]
      <4>1. CASE i = 1
        BY <3>1, <3>3, <4>1
      <4>. QED  BY <3>2, <4>1
    <3>. QED  BY <3>3, <3>4 DEF ST!ChainIsContent
  <2>. QED  BY <2>5, <2>6, <2>8, <2>9 DEF OnePlace
<1>3. CASE spc' = [spc EXCEPT ![p] = "read"] /\ UNCHANGED <<top, node, content>>
  <2>1. \A q \in Pushers : /\ spc'[q] = IF q = p THEN "read" ELSE spc[q]
                           /\ seen'[q] = IF q = p THEN NULL ELSE seen[q]
    BY <1>0, <1>3 DEF ST!TypeOK
  <2>2. OnePlace'
    BY <1>0, <1>3, <2>1 DEF StackInv, OnePlace
  <2>. QED  BY <1>0, <1>3, <2>1, <2>2 DEF StackInv, ReadStays, ST!ChainIsContent, OnStack
<1>. QED  BY <1>2, <1>3 DEF ST!PushCas, ST!Goto

(* The swap of stack_pop.                                                  *)
LEMMA PopCasStep ==
    ASSUME ST!StackAssumption, StackInv, ST!PopCas
    PROVE  OnePlace' /\ ReadStays' /\ ST!ChainIsContent'
<1>0. /\ ST!TypeOK /\ content \in Seq(Nodes) /\ Len(content) \in Nat
      /\ qpc = "cas" /\ UNCHANGED <<next, spc, node, seen>>
  BY DEF StackInv, ST!TypeOK, ST!PopCas, ST!QGoto, ST!pusher
<1>1. CASE top = qtop /\ qpc' = "idle" /\ top' = qnext /\ content' = Tail(content)
  <2>1. content # << >> /\ Len(content) > 0
    BY <1>0 DEF StackInv, ReadStays, OnStack
  <2>2. /\ Len(content') = Len(content) - 1
        /\ \A i \in 1 .. Len(content') : content'[i] = content[i + 1] /\ i + 1 \in 1 .. Len(content)
    BY <1>0, <1>1, <2>1
  <2>3. OnePlace'
    <3>1. \A i, j \in 1 .. Len(content') : content'[i] = content'[j] => i = j
      <4>. SUFFICES ASSUME NEW i \in 1 .. Len(content'), NEW j \in 1 .. Len(content'),
                           content'[i] = content'[j]
                    PROVE  i = j
        OBVIOUS
      <4>1. i + 1 = j + 1
        BY <2>2, Zenon DEF StackInv, OnePlace
      <4>. QED  BY <4>1
    <3>2. \A p \in Pushers : \A i \in 1 .. Len(content') : content'[i] # node[p]
      BY <2>2 DEF StackInv, OnePlace
    <3>. QED  BY <1>0, <3>1, <3>2 DEF StackInv, OnePlace
  <2>4. ReadStays'
    BY <1>0, <1>1 DEF StackInv, ReadStays
  <2>5. top' = IF Len(content) = 1 THEN NULL ELSE content[2]
    <3>1. top' = next[qtop]
      BY <1>0, <1>1 DEF StackInv, ReadStays
    <3>2. qtop = content[1] /\ 1 \in 1 .. Len(content)
      BY <1>0, <1>1, <2>1 DEF StackInv, ST!ChainIsContent
    <3>3. next[content[1]] = IF 1 = Len(content) THEN NULL ELSE content[1 + 1]
      BY <3>2 DEF StackInv, ST!ChainIsContent
    <3>. QED  BY <3>1, <3>2, <3>3
  <2>6. top' = IF content' = << >> THEN NULL ELSE content'[1]
    BY <1>0, <1>1, <2>1, <2>2, <2>5
  <2>7. ASSUME NEW i \in 1 .. Len(content')
        PROVE  next[content'[i]] = IF i = Len(content') THEN NULL ELSE content'[i + 1]
    <3>1. next[content[i + 1]] = IF i + 1 = Len(content) THEN NULL ELSE content[(i + 1) + 1]
      BY <2>2 DEF StackInv, ST!ChainIsContent
    <3>2. i # Len(content') => content'[i + 1] = content[(i + 1) + 1]
      BY <1>0, <2>2
    <3>3. i = Len(content') <=> i + 1 = Len(content)
      BY <1>0, <2>2
    <3>. QED  BY <2>2, <3>1, <3>2, <3>3
  <2>. QED  BY <1>0, <2>3, <2>4, <2>6, <2>7 DEF ST!ChainIsContent
<1>2. CASE qpc' = "top" /\ UNCHANGED <<top, content>>
  BY <1>0, <1>2 DEF StackInv, OnePlace, ReadStays, ST!ChainIsContent
<1>. QED  BY <1>1, <1>2 DEF ST!PopCas, ST!QGoto

(* The inductive invariant of the stack.                                   *)
THEOREM StackInvHolds == ASSUME ST!StackAssumption PROVE ST!Spec => []StackInv
<1>1. ST!Init => StackInv
  BY DEF ST!Init, StackInv, ST!TypeOK, OnePlace, ReadStays, ST!ChainIsContent, ST!StackAssumption
<1>2. StackInv /\ [ST!Next]_(ST!vars) => StackInv'
  <2>. SUFFICES ASSUME StackInv, [ST!Next]_(ST!vars)  PROVE StackInv'
    OBVIOUS
  <2>0. /\ ST!TypeOK /\ ST!TypeOK' /\ NULL \notin Nodes
        /\ spc \in [Pushers -> {"idle", "read", "link", "cas"}]
        /\ \A i \in 1 .. Len(content) : content[i] \in Nodes
    BY StackTypeStep DEF StackInv, ST!TypeOK, ST!StackAssumption
  <2>1. CASE UNCHANGED ST!vars
    BY <2>0, <2>1 DEF ST!vars, ST!pusher, ST!popper, StackInv, OnePlace, ReadStays, ST!ChainIsContent, OnStack
  <2>2. ASSUME NEW p \in Pushers, NEW n \in Nodes, ST!PushCall(p, n)  PROVE StackInv'
    <3>1. \A q \in Pushers : /\ spc'[q] = IF q = p THEN "read" ELSE spc[q]
                             /\ node'[q] = IF q = p THEN n ELSE node[q]
      BY <2>0, <2>2 DEF ST!PushCall, ST!Goto, ST!TypeOK
    <3>2. /\ \A i \in 1 .. Len(content) : content[i] # n
          /\ \A q \in Pushers : node[q] # n
      BY <2>2 DEF ST!PushCall, ST!Free
    <3>3. UNCHANGED <<top, next, seen, qpc, qtop, qnext, content>>
      BY <2>2 DEF ST!PushCall, ST!popper
    <3>4. OnePlace'
      BY <2>0, <3>1, <3>2, <3>3 DEF StackInv, OnePlace
    <3>5. ReadStays' /\ ST!ChainIsContent'
      BY <3>1, <3>3 DEF StackInv, ReadStays, ST!ChainIsContent, OnStack
    <3>. QED  BY <2>0, <3>4, <3>5 DEF StackInv
  <2>3. ASSUME NEW p \in Pushers, ST!PushRead(p)  PROVE StackInv'
    <3>1. \A q \in Pushers : /\ spc'[q] = IF q = p THEN "link" ELSE spc[q]
                             /\ q # p => seen'[q] = seen[q]
      BY <2>0, <2>3 DEF ST!PushRead, ST!Goto, ST!TypeOK
    <3>2. spc[p] = "read" /\ UNCHANGED <<top, next, node, qpc, qtop, qnext, content>>
      BY <2>3 DEF ST!PushRead, ST!Goto, ST!popper
    <3>. QED
      BY <2>0, <3>1, <3>2 DEF StackInv, OnePlace, ReadStays, ST!ChainIsContent, OnStack
  <2>4. ASSUME NEW p \in Pushers, ST!PushLink(p)  PROVE StackInv'
    <3>1. /\ spc[p] = "link" /\ spc' = [spc EXCEPT ![p] = "cas"]
          /\ next' = [next EXCEPT ![node[p]] = seen[p]]
          /\ UNCHANGED <<top, node, seen, qpc, qtop, qnext, content>>
      BY <2>4 DEF ST!PushLink, ST!Goto, ST!popper
    <3>2. \A q \in Pushers : spc'[q] = IF q = p THEN "cas" ELSE spc[q]
      BY <2>0, <3>1
    <3>3. node[p] \in Nodes /\ \A m \in Nodes : next'[m] = IF m = node[p] THEN seen[p] ELSE next[m]
      BY <2>0, <3>1 DEF StackInv, OnePlace, ST!TypeOK
    <3>4. \A i \in 1 .. Len(content) : next'[content[i]] = next[content[i]]
      BY <2>0, <3>3 DEF StackInv, OnePlace
    <3>5. OnePlace'
      BY <3>1, <3>2 DEF StackInv, OnePlace
    <3>6. \A q \in Pushers : spc'[q] = "cas" => next'[node[q]] = seen[q]
      <4>. SUFFICES ASSUME NEW q \in Pushers, spc'[q] = "cas"  PROVE next'[node[q]] = seen[q]
        OBVIOUS
      <4>1. CASE q = p
        BY <3>3, <4>1
      <4>2. CASE q # p
        <5>1. spc[q] = "cas" /\ node[q] \in Nodes /\ node[q] # node[p]
          BY <2>0, <3>2, <3>3, <4>2 DEF StackInv, OnePlace, ST!TypeOK
        <5>. QED  BY <3>3, <5>1 DEF StackInv, ReadStays
      <4>. QED  BY <4>1, <4>2
    <3>7. ReadStays'
      BY <3>1, <3>4, <3>6 DEF StackInv, ReadStays, OnStack
    <3>8. ST!ChainIsContent'
      BY <3>1, <3>4 DEF StackInv, ST!ChainIsContent
    <3>. QED  BY <2>0, <3>5, <3>7, <3>8 DEF StackInv
  <2>5. ASSUME NEW p \in Pushers, ST!PushCas(p)  PROVE StackInv'
    BY <2>0, <2>5, PushCasStep DEF StackInv
  <2>6. CASE ST!PopTop
    <3>1. UNCHANGED <<top, next, spc, node, seen, content>> /\ qtop' = top
      BY <2>6 DEF ST!PopTop, ST!pusher
    <3>2. qpc' = "next" => top # NULL /\ qpc' # "cas"
      BY <2>6 DEF ST!PopTop, ST!QGoto
    <3>3. top # NULL => OnStack(top)
      BY <2>0 DEF StackInv, ST!ChainIsContent, OnStack, ST!TypeOK
    <3>4. qpc' # "cas"
      BY <2>6 DEF ST!PopTop, ST!QGoto
    <3>. QED
      BY <2>0, <3>1, <3>2, <3>3, <3>4 DEF StackInv, OnePlace, ReadStays, ST!ChainIsContent, OnStack
  <2>7. CASE ST!PopNext
    BY <2>0, <2>7 DEF ST!PopNext, ST!QGoto, ST!pusher, StackInv, OnePlace, ReadStays, ST!ChainIsContent, OnStack
  <2>8. CASE ST!PopCas
    BY <2>0, <2>8, PopCasStep DEF StackInv
  <2>9. CASE ST!ClearTop
    BY <2>0, <2>9 DEF ST!ClearTop, ST!QGoto, ST!pusher, StackInv, OnePlace, ReadStays, ST!ChainIsContent, OnStack
  <2>10. CASE ST!ClearCas
    BY <2>0, <2>10 DEF ST!ClearCas, ST!QGoto, ST!pusher, StackInv, OnePlace, ReadStays, ST!ChainIsContent, OnStack
  <2>. QED
    BY <2>1, <2>2, <2>3, <2>4, <2>5, <2>6, <2>7, <2>8, <2>9, <2>10 DEF ST!Next
<1>. QED  BY <1>1, <1>2, PTL DEF ST!Spec

(* The chain from the top is exactly what stack_push put there and         *)
(* stack_pop and stack_clear have not taken, latest first: the swap of a   *)
(* pusher that has read an older top, or the same top after it was popped  *)
(* and pushed again, links no node twice and loses none.                   *)
THEOREM ChainKept == ASSUME ST!StackAssumption PROVE ST!Spec => []ST!ChainIsContent
<1>1. StackInv => ST!ChainIsContent
  BY DEF StackInv
<1>. QED  BY StackInvHolds, <1>1, PTL
=============================================================================
