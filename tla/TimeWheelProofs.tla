--------------------------- MODULE TimeWheelProofs --------------------------
(***************************************************************************)
(* Proofs about TimeWheel for any number of timers and of threads that     *)
(* process the wheel: the lists are sound whenever the lock is free.       *)
(***************************************************************************)
EXTENDS TimeWheel, FiniteSetTheorems, TLAPS

(* The lock is held exactly from twtimer_process's lock to its unlock,     *)
(* callbacks excepted; a tick is processed only before the target.         *)
LockHeld ==
    \A w \in Workers :
        /\ IF locker = w THEN pc[w] \notin {"idle", "callback"} ELSE pc[w] \in {"idle", "callback"}
        /\ pc[w] \in {"cascade", "readd", "move"} => clock < target[w]
        /\ pc[w] \notin {"trigger", "callback"} => at[Local(w)] = NULL

(* A timer whose pprev is out of date: the first of a list that a cascade  *)
(* or twtimer_process has just moved.                                      *)
Moved(t) == \E w \in Workers : \/ pc[w] = "readd" /\ chain[w] = t
                               \/ pc[w] = "trigger" /\ at[Local(w)] = t

(* No two cells point to one timer, and but for such a timer the lists are *)
(* sound; the timers in them are within the range of the wheels.           *)
Linked ==
    /\ \A c, d \in Cells : at[c] # NULL /\ at[c] = at[d] => c = d
    /\ \A c \in Cells : at[c] # NULL =>
          pprev[at[c]] = c \/ \E w \in Workers : pc[w] = "trigger" /\ c = Local(w)
    /\ \A t \in Timers :
          IF pprev[t] = NULL THEN at[t] = NULL /\ \A c \in Cells : at[c] # t
          ELSE (at[pprev[t]] = t \/ Moved(t)) /\ InRange(expire[t])
    /\ \A w \in Workers : pc[w] = "readd" /\ chain[w] # NULL =>
          pprev[chain[w]] # NULL /\ \A c \in Cells : at[c] # chain[w]

Started == {t \in Timers : pprev[t] # NULL}
Counted == count = Cardinality(Started)

IInv == TypeOK /\ LockHeld /\ Linked /\ Counted
-----------------------------------------------------------------------------
(* The buckets of the wheels, a worker's own and the timers' next are      *)
(* different cells.                                                        *)
LEMMA Places ==
    ASSUME TimeWheelAssumption
    PROVE  /\ \A w \in Workers : Local(w) \in Cells \ (Wheel \cup Timers)
           /\ \A v, w \in Workers : Local(v) = Local(w) => v = w
           /\ Timers \subseteq Cells \ Wheel /\ Wheel \subseteq Cells
           /\ NULL \notin Cells /\ NULL \notin Timers /\ NULL \notin Workers
<1>1. \A w \in Workers : Local(w) \notin Wheel
  BY DEF Local, Wheel
<1>. QED  BY <1>1 DEF TimeWheelAssumption, Cells, Local

(* A non-negative clock indexes a bucket of every wheel.                   *)
LEMMA IndexType ==
    ASSUME TimeWheelAssumption, NEW e \in Nat
    PROVE  /\ <<1, TVR_INDEX(e)>> \in Wheel
           /\ \A n \in 0 .. 3 : <<n + 2, TVN_INDEX(e, n)>> \in Wheel
<1>1. TVR_INDEX(e) \in 0 .. TVR_SIZE - 1
  <2>1. TVR_SIZE \in Nat \ {0}
    BY DEF TimeWheelAssumption
  <2>. QED  BY <2>1 DEF TVR_INDEX
<1>2. ASSUME NEW n \in 0 .. 3 PROVE TVN_INDEX(e, n) \in 0 .. TVN_SIZE - 1
  <2>1. TVN_SIZE \in Nat \ {0} /\ Span(n) \in Nat \ {0}
    BY DEF TimeWheelAssumption
  <2>2. e \div Span(n) \in Nat
    BY <2>1
  <2>. QED  BY <2>1, <2>2 DEF TVN_INDEX
<1>. QED  BY <1>1, <1>2 DEF Wheel

(* twtimer_add finds a bucket for every expiry in range.                   *)
LEMMA BucketType ==
    ASSUME TimeWheelAssumption, clock \in Nat, NEW e \in Int, InRange(e)
    PROVE  Bucket(e) \in Wheel
<1>1. CASE e < clock
  <2>1. <<1, TVR_INDEX(clock)>> \in Wheel
    BY IndexType, Zenon
  <2>. QED  BY <1>1, <2>1 DEF Bucket
<1>2. CASE e >= clock /\ e - clock < Span(0)
  <2>1. e \in Nat
    BY <1>2
  <2>2. <<1, TVR_INDEX(e)>> \in Wheel
    BY <2>1, IndexType, Zenon
  <2>. QED  BY <1>2, <2>2 DEF Bucket
<1>3. CASE e >= clock /\ ~ (e - clock < Span(0))
  <2>. DEFINE P(i) == /\ e - clock < Span(i + 1)
                      /\ \A j \in 0 .. i - 1 : e - clock >= Span(j + 1)
  <2>1. Span(1) \in Nat /\ Span(2) \in Nat /\ Span(3) \in Nat /\ Span(4) \in Nat
    BY DEF TimeWheelAssumption
  <2>2. \E i \in 0 .. 3 : P(i)
    <3>1. CASE e - clock < Span(1)
      <4>1. P(0)
        BY <3>1
      <4>. QED  BY <4>1
    <3>2. CASE e - clock >= Span(1) /\ e - clock < Span(2)
      <4>1. P(1)
        <5>1. \A j \in 0 .. 0 : j = 0
          OBVIOUS
        <5>. QED  BY <3>2, <5>1
      <4>. QED  BY <4>1
    <3>3. CASE e - clock >= Span(1) /\ e - clock >= Span(2) /\ e - clock < Span(3)
      <4>1. P(2)
        <5>1. \A j \in 0 .. 1 : j = 0 \/ j = 1
          OBVIOUS
        <5>. QED  BY <3>3, <5>1
      <4>. QED  BY <4>1
    <3>4. CASE /\ e - clock >= Span(1) /\ e - clock >= Span(2)
               /\ e - clock >= Span(3) /\ e - clock < Span(4)
      <4>1. P(3)
        <5>1. \A j \in 0 .. 2 : j = 0 \/ j = 1 \/ j = 2
          OBVIOUS
        <5>. QED  BY <3>4, <5>1
      <4>. QED  BY <4>1
    <3>. HIDE DEF P
    <3>. QED  BY <2>1, <3>1, <3>2, <3>3, <3>4 DEF InRange
  <2>3. (CHOOSE i \in 0 .. 3 : P(i)) \in 0 .. 3
    BY <2>2
  <2>4. Bucket(e) = LET n == CHOOSE i \in 0 .. 3 : P(i) IN <<n + 2, TVN_INDEX(e, n)>>
    BY <1>3 DEF Bucket
  <2>5. e \in Nat
    BY <1>3
  <2>. HIDE DEF P
  <2>. QED  BY <2>3, <2>4, <2>5, IndexType, Zenon
<1>. QED  BY <1>1, <1>2, <1>3
(* twtimer_add writes the two cells and the two pprevs that it means to.   *)
LEMMA InsertCells ==
    ASSUME TimeWheelAssumption, TypeOK, NEW t \in Timers, NEW b \in Wheel, Insert(t, b)
    PROVE  /\ at' \in [Cells -> Timers \cup {NULL}]
           /\ pprev' \in [Timers -> Cells \cup {NULL}]
           /\ \A c \in Cells : at'[c] = IF c = b THEN t ELSE IF c = t THEN at[b] ELSE at[c]
           /\ \A p \in Timers :
                 pprev'[p] = IF p = t THEN b ELSE IF p = at[b] THEN t ELSE pprev[p]
<1>1. b \in Cells /\ t \in Cells /\ t # b
  BY Places
<1>2. at \in [Cells -> Timers \cup {NULL}] /\ pprev \in [Timers -> Cells \cup {NULL}]
  BY DEF TypeOK
<1>3. /\ at' = [at EXCEPT ![t] = at[b], ![b] = t]
      /\ pprev' = [p \in Timers |-> IF p = t THEN b ELSE IF p = at[b] THEN t ELSE pprev[p]]
  BY DEF Insert
<1>. QED  BY <1>1, <1>2, <1>3

(* Adding a timer that no cell points to keeps the lists sound, but for    *)
(* the timer that was behind it in a cascade's list.                       *)
LEMMA InsertLinks ==
    ASSUME TimeWheelAssumption, TypeOK, Linked, NEW t \in Timers, NEW b \in Wheel,
           Insert(t, b), pc' = pc, \A c \in Cells : at[c] # t
    PROVE  /\ \A c, d \in Cells : at'[c] # NULL /\ at'[c] = at'[d] => c = d
           /\ \A c \in Cells : at'[c] # NULL =>
                 pprev'[at'[c]] = c \/ \E w \in Workers : pc'[w] = "trigger" /\ c = Local(w)
           /\ pprev'[t] = b /\ at'[b] = t
           /\ \A p \in Timers \ {t} :
                 /\ pprev[p] = NULL => pprev'[p] = NULL /\ at'[p] = NULL
                                       /\ \A c \in Cells : at'[c] # p
                 /\ pprev[p] # NULL => pprev'[p] # NULL
                 /\ pprev[p] # NULL /\ at[pprev[p]] = p /\ at[t] # p => at'[pprev'[p]] = p
           /\ \A w \in Workers : at'[Local(w)] = at[Local(w)]
<1>. DEFINE Own(c) == \E w \in Workers : pc[w] = "trigger" /\ c = Local(w)
<1>1. /\ at \in [Cells -> Timers \cup {NULL}] /\ pprev \in [Timers -> Cells \cup {NULL}]
  BY DEF TypeOK
<1>2. /\ \A c, d \in Cells : at[c] # NULL /\ at[c] = at[d] => c = d
      /\ \A c \in Cells : at[c] # NULL => pprev[at[c]] = c \/ Own(c)
      /\ \A p \in Timers : pprev[p] = NULL => at[p] = NULL /\ \A c \in Cells : at[c] # p
  BY DEF Linked
<1>3. /\ b \in Cells /\ t \in Cells /\ t # b /\ ~ Own(b) /\ ~ Own(t)
      /\ NULL \notin Cells /\ NULL \notin Timers /\ Timers \subseteq Cells /\ b \notin Timers
      /\ \A w \in Workers : Local(w) \in Cells /\ Local(w) # b /\ Local(w) # t
  BY Places
<1>4. /\ \A c \in Cells : at'[c] = IF c = b THEN t ELSE IF c = t THEN at[b] ELSE at[c]
      /\ \A p \in Timers : pprev'[p] = IF p = t THEN b ELSE IF p = at[b] THEN t ELSE pprev[p]
  BY InsertCells
<1>5. pc' = pc
  OBVIOUS
<1>6. \A c \in Cells : at[c] # t
  OBVIOUS
<1>. HIDE DEF Own
<1>7. \A c, d \in Cells : at'[c] # NULL /\ at'[c] = at'[d] => c = d
  BY <1>1, <1>2, <1>3, <1>4, <1>6
<1>8. \A c \in Cells : at'[c] # NULL => pprev'[at'[c]] = c \/ Own(c)
  <2>. TAKE c \in Cells
  <2>. HAVE at'[c] # NULL
  <2>1. CASE c = b
    BY <2>1, <1>1, <1>3, <1>4
  <2>2. CASE c = t
    BY <2>2, <1>1, <1>3, <1>4, <1>6
  <2>3. CASE c # b /\ c # t
    BY <2>3, <1>1, <1>2, <1>3, <1>4, <1>6
  <2>. QED  BY <2>1, <2>2, <2>3
<1>9. pprev'[t] = b /\ at'[b] = t
  BY <1>3, <1>4
<1>10. ASSUME NEW p \in Timers \ {t}
       PROVE  /\ pprev[p] = NULL => pprev'[p] = NULL /\ at'[p] = NULL
                                    /\ \A c \in Cells : at'[c] # p
              /\ pprev[p] # NULL => pprev'[p] # NULL
  BY <1>1, <1>2, <1>3, <1>4
<1>11. ASSUME NEW p \in Timers \ {t}, pprev[p] # NULL, at[pprev[p]] = p, at[t] # p
       PROVE  at'[pprev'[p]] = p
  <2>1. pprev[p] \in Cells
    BY <1>1, <1>11
  <2>. QED  BY <2>1, <1>1, <1>3, <1>4, <1>11
<1>12. \A w \in Workers : at'[Local(w)] = at[Local(w)]
  BY <1>3, <1>4
<1>. QED  BY <1>5, <1>7, <1>8, <1>9, <1>10, <1>11, <1>12 DEF Own
-----------------------------------------------------------------------------
(* count: a timer enters or leaves the started ones.                       *)
LEMMA Enter ==
    ASSUME NEW S, NEW T, NEW U, NEW t, IsFiniteSet(U), S \subseteq U, t \notin S, T = S \cup {t}
    PROVE  Cardinality(S) \in Nat /\ Cardinality(T) = Cardinality(S) + 1
<1>1. IsFiniteSet(S)
  BY FS_Subset
<1>. QED  BY <1>1, FS_AddElement, FS_CardinalityType

(* count--: a timer leaves the started ones.                               *)
LEMMA Leave ==
    ASSUME NEW S, NEW T, NEW U, NEW t, IsFiniteSet(U), S \subseteq U, t \in S, T = S \ {t}
    PROVE  Cardinality(S) \in Nat \ {0} /\ Cardinality(T) = Cardinality(S) - 1
<1>1. IsFiniteSet(S)
  BY FS_Subset
<1>2. Cardinality(T) = Cardinality(S) - 1 /\ IsFiniteSet(T)
  BY <1>1, FS_RemoveElement
<1>3. Cardinality(S) \in Nat /\ Cardinality(T) \in Nat
  BY <1>1, <1>2, FS_CardinalityType
<1>. QED  BY <1>2, <1>3

(* twtimer_start: the timer was in no list, so no cell points to it.       *)
LEMMA StartStep ==
    ASSUME TimeWheelAssumption, IInv, NEW t \in Timers, NEW d \in Delays, Start(t, d)
    PROVE  IInv'
<1>. DEFINE b == Bucket(clock + d)
<1>1. d \in Int /\ clock \in Nat /\ clock + d \in Int /\ InRange(clock + d)
  BY DEF Start, IInv, TypeOK, TimeWheelAssumption
<1>2. b \in Wheel
  BY <1>1, BucketType
<1>3. TypeOK /\ Linked /\ LockHeld /\ Counted
  BY DEF IInv
<1>4. /\ Insert(t, b) /\ pprev[t] = NULL /\ locker = NULL
      /\ pc' = pc /\ clock' = clock /\ locker' = locker /\ target' = target /\ level' = level
      /\ chain' = chain /\ tick' = tick /\ cur' = cur /\ count' = count + 1
      /\ expire' = [expire EXCEPT ![t] = clock + d]
      /\ due' = [due EXCEPT ![t] = IF d < 0 THEN clock ELSE clock + d]
      /\ clock + d >= 0
  BY DEF Start, local
<1>. HIDE DEF b
<1>5. \A c \in Cells : at[c] # t
  BY <1>3, <1>4 DEF Linked
<1>6. /\ \A c, e \in Cells : at'[c] # NULL /\ at'[c] = at'[e] => c = e
      /\ \A c \in Cells : at'[c] # NULL =>
            pprev'[at'[c]] = c \/ \E w \in Workers : pc'[w] = "trigger" /\ c = Local(w)
      /\ pprev'[t] = b /\ at'[b] = t
      /\ \A p \in Timers \ {t} :
            /\ pprev[p] = NULL => pprev'[p] = NULL /\ at'[p] = NULL
                                  /\ \A c \in Cells : at'[c] # p
            /\ pprev[p] # NULL => pprev'[p] # NULL
            /\ pprev[p] # NULL /\ at[pprev[p]] = p /\ at[t] # p => at'[pprev'[p]] = p
      /\ \A w \in Workers : at'[Local(w)] = at[Local(w)]
  BY <1>2, <1>3, <1>4, <1>5, InsertLinks
<1>7. TypeOK'
  <2>1. at' \in [Cells -> Timers \cup {NULL}] /\ pprev' \in [Timers -> Cells \cup {NULL}]
    BY <1>2, <1>3, <1>4, InsertCells
  <2>2. expire' \in [Timers -> Int] /\ due' \in [Timers -> Nat \cup {NotDue}]
    BY <1>1, <1>3, <1>4 DEF TypeOK
  <2>. QED  BY <1>3, <1>4, <2>1, <2>2 DEF TypeOK
<1>8. LockHeld'
  BY <1>3, <1>4, <1>6 DEF LockHeld
<1>9. Linked'
  <2>1. \A w \in Workers : pc[w] \notin {"readd", "trigger"}
    BY <1>3, <1>4, Places DEF LockHeld
  <2>2. \A p \in Timers : ~ Moved(p)
    BY <2>1 DEF Moved
  <2>3. at[t] = NULL
    BY <1>3, <1>4 DEF Linked
  <2>4. b # NULL /\ NULL \notin Timers
    BY <1>2, Places
  <2>5. \A p \in Timers \ {t} : expire'[p] = expire[p]
    BY <1>3, <1>4 DEF TypeOK
  <2>6. InRange(expire[t])'
    BY <1>1, <1>3, <1>4 DEF InRange, TypeOK, Span
  <2>7. \A p \in Timers : pprev[p] # NULL => at[pprev[p]] = p /\ InRange(expire[p])
    BY <1>3, <2>2 DEF Linked
  <2>8. \A p \in Timers \ {t} : pprev[p] # NULL => InRange(expire[p])'
    BY <1>4, <2>5, <2>7 DEF InRange, Span
  <2>9. ASSUME NEW p \in Timers
        PROVE  (IF pprev[p] = NULL THEN at[p] = NULL /\ \A c \in Cells : at[c] # p
                ELSE (at[pprev[p]] = p \/ Moved(p)) /\ InRange(expire[p]))'
    <3>1. CASE p = t
      BY <3>1, <1>6, <2>4, <2>6
    <3>2. CASE p # t /\ pprev[p] = NULL
      BY <3>2, <1>6
    <3>3. CASE p # t /\ pprev[p] # NULL
      BY <3>3, <1>6, <2>3, <2>4, <2>7, <2>8
    <3>. QED  BY <3>1, <3>2, <3>3
  <2>. QED  BY <1>4, <1>6, <2>1, <2>9 DEF Linked
<1>10. Counted'
  <2>1. Started' = Started \cup {t} /\ t \notin Started /\ Started \subseteq Timers
    BY <1>2, <1>4, <1>6, Places DEF Started
  <2>2. IsFiniteSet(Timers)
    BY DEF TimeWheelAssumption
  <2>3. Cardinality(Started') = Cardinality(Started) + 1
    BY <2>1, <2>2, Enter
  <2>. QED  BY <1>3, <1>4, <2>3 DEF Counted
<1>. QED  BY <1>7, <1>8, <1>9, <1>10 DEF IInv
(* twtimer_stop, whose lock finds the lists sound: on a started timer and  *)
(* on one that is not.                                                     *)
LEMMA StopStep ==
    ASSUME TimeWheelAssumption, IInv, NEW t \in Timers, Stop(t)
    PROVE  IInv'
<1>1. TypeOK /\ Linked /\ LockHeld /\ Counted
  BY DEF IInv
<1>2. /\ locker = NULL
      /\ pc' = pc /\ clock' = clock /\ locker' = locker /\ target' = target /\ level' = level
      /\ chain' = chain /\ tick' = tick /\ cur' = cur
      /\ count' = IF pprev[t] # NULL THEN count - 1 ELSE count
      /\ expire' = [expire EXCEPT ![t] = 0] /\ due' = [due EXCEPT ![t] = NotDue]
      /\ at' = [c \in Cells |-> IF c = t THEN NULL ELSE IF c = pprev[t] THEN at[t] ELSE at[c]]
      /\ pprev' = [p \in Timers |-> IF p = t THEN NULL ELSE IF p = at[t] THEN pprev[t] ELSE pprev[p]]
  BY DEF Stop, local, Forget, Unlink
<1>3. /\ at \in [Cells -> Timers \cup {NULL}] /\ pprev \in [Timers -> Cells \cup {NULL}]
  BY <1>1 DEF TypeOK
<1>4. /\ t \in Cells /\ NULL \notin Cells /\ NULL \notin Timers /\ Timers \subseteq Cells
      /\ \A w \in Workers : Local(w) \in Cells /\ Local(w) # t
  BY Places
<1>5. \A w \in Workers : pc[w] \notin {"readd", "trigger"}
  BY <1>1, <1>2, Places DEF LockHeld
<1>6. /\ \A c, d \in Cells : at[c] # NULL /\ at[c] = at[d] => c = d
      /\ \A c \in Cells : at[c] # NULL => pprev[at[c]] = c
      /\ \A p \in Timers : IF pprev[p] = NULL THEN at[p] = NULL /\ \A c \in Cells : at[c] # p
                            ELSE at[pprev[p]] = p /\ InRange(expire[p])
  BY <1>1, <1>5 DEF Linked, Moved
<1>7. /\ \A c \in Cells : at'[c] = IF c = t THEN NULL ELSE IF c = pprev[t] THEN at[t] ELSE at[c]
      /\ \A p \in Timers : pprev'[p] = IF p = t THEN NULL ELSE IF p = at[t] THEN pprev[t] ELSE pprev[p]
  BY <1>2
<1>8. Counted' /\ count' \in Nat
  <2>1. IsFiniteSet(Timers) /\ Started \subseteq Timers
    BY DEF TimeWheelAssumption, Started
  <2>2. count \in Nat
    BY <1>1 DEF TypeOK
  <2>3. CASE pprev[t] = NULL
    <3>1. Started' = Started
      BY <2>3, <1>3, <1>4, <1>6, <1>7 DEF Started
    <3>. QED  BY <2>2, <2>3, <3>1, <1>1, <1>2 DEF Counted
  <2>4. CASE pprev[t] # NULL
    <3>1. t \in Started /\ Started' = Started \ {t}
      BY <2>4, <1>3, <1>4, <1>6, <1>7 DEF Started
    <3>2. Cardinality(Started) \in Nat \ {0} /\ Cardinality(Started') = Cardinality(Started) - 1
      BY <2>1, <3>1, Leave
    <3>. QED  BY <2>4, <3>2, <1>1, <1>2 DEF Counted
  <2>. QED  BY <2>3, <2>4
<1>9. TypeOK'
  <2>1. at' \in [Cells -> Timers \cup {NULL}]
    BY <1>2, <1>3, <1>4
  <2>2. pprev' \in [Timers -> Cells \cup {NULL}]
    BY <1>2, <1>3, <1>4
  <2>3. expire' \in [Timers -> Int] /\ due' \in [Timers -> Nat \cup {NotDue}]
    BY <1>1, <1>2 DEF TypeOK
  <2>. QED  BY <1>1, <1>2, <1>8, <2>1, <2>2, <2>3 DEF TypeOK
<1>10. LockHeld'
  <2>1. \A w \in Workers : at[Local(w)] = NULL => at'[Local(w)] = NULL
    <3>. TAKE w \in Workers
    <3>. HAVE at[Local(w)] = NULL
    <3>1. pprev[t] # Local(w)
      BY <1>4, <1>6
    <3>. QED  BY <3>1, <1>4, <1>7
  <2>. QED  BY <1>1, <1>2, <2>1 DEF LockHeld
<1>11. Linked'
  <2>1. \A c, d \in Cells : at'[c] # NULL /\ at'[c] = at'[d] => c = d
    BY <1>3, <1>4, <1>6, <1>7
  <2>2. \A c \in Cells : at'[c] # NULL => pprev'[at'[c]] = c
    BY <1>3, <1>4, <1>6, <1>7
  <2>3. ASSUME NEW p \in Timers
        PROVE  (IF pprev[p] = NULL THEN at[p] = NULL /\ \A c \in Cells : at[c] # p
                ELSE (at[pprev[p]] = p \/ Moved(p)) /\ InRange(expire[p]))'
    <3>1. CASE pprev'[p] = NULL
      <4>1. p = t \/ pprev[p] = NULL
        BY <3>1, <1>3, <1>4, <1>6, <1>7
      <4>2. at'[p] = NULL
        BY <4>1, <1>3, <1>4, <1>6, <1>7
      <4>3. \A c \in Cells : at'[c] # p
        BY <4>1, <1>3, <1>4, <1>6, <1>7, <2>2, <3>1
      <4>. QED  BY <3>1, <4>2, <4>3
    <3>2. CASE pprev'[p] # NULL
      <4>1. p # t /\ pprev[p] # NULL
        BY <3>2, <1>3, <1>4, <1>6, <1>7
      <4>2. at'[pprev'[p]] = p
        BY <4>1, <1>3, <1>4, <1>6, <1>7
      <4>3. InRange(expire[p])'
        BY <4>1, <1>1, <1>2, <1>6 DEF InRange, Span, TypeOK
      <4>. QED  BY <3>2, <4>2, <4>3
    <3>. QED  BY <3>1, <3>2
  <2>. QED  BY <1>2, <1>5, <2>1, <2>2, <2>3 DEF Linked
<1>. QED  BY <1>8, <1>9, <1>10, <1>11 DEF IInv
(* While a worker holds the lock, every other one is idle or in a callback *)
LEMMA Alone ==
    ASSUME LockHeld, NEW w \in Workers, pc[w] \notin {"idle", "callback"}
    PROVE  locker = w /\ \A v \in Workers \ {w} : pc[v] \in {"idle", "callback"}
BY DEF LockHeld

(* twtimer_cascade takes a bucket's list: its first timer's pprev is stale *)
LEMMA TakeStep ==
    ASSUME TimeWheelAssumption, IInv, NEW w \in Workers, CascadeTake(w)
    PROVE  IInv'
<1>. DEFINE b == <<level[w] + 2, TVN_INDEX(clock, level[w])>>
<1>1. TypeOK /\ Linked /\ LockHeld /\ Counted
  BY DEF IInv
<1>2. /\ pc[w] = "cascade" /\ pc' = [pc EXCEPT ![w] = "readd"]
      /\ chain' = [chain EXCEPT ![w] = at[b]] /\ at' = [at EXCEPT ![b] = NULL]
      /\ clock' = clock /\ count' = count /\ locker' = locker /\ pprev' = pprev
      /\ expire' = expire /\ target' = target /\ level' = level /\ tick' = tick
      /\ cur' = cur /\ due' = due
  BY DEF CascadeTake, Goto
<1>3. /\ at \in [Cells -> Timers \cup {NULL}] /\ pprev \in [Timers -> Cells \cup {NULL}]
      /\ chain \in [Workers -> Timers \cup {NULL}] /\ level[w] \in 0 .. 3 /\ clock \in Nat
      /\ pc \in [Workers -> {"idle", "loop", "cascade", "readd", "move", "trigger", "callback"}]
  BY <1>1 DEF TypeOK
<1>4. b \in Wheel
  BY <1>3, IndexType, Zenon
<1>. HIDE DEF b
<1>5. /\ b \in Cells /\ NULL \notin Cells /\ NULL \notin Timers /\ Timers \subseteq Cells
      /\ \A v \in Workers : Local(v) \in Cells /\ Local(v) # b
  BY <1>4, Places
<1>6. locker = w /\ \A v \in Workers \ {w} : pc[v] \in {"idle", "callback"}
  BY <1>1, <1>2, Alone
<1>7. \A v \in Workers : pc[v] \notin {"readd", "trigger"}
  BY <1>2, <1>6
<1>8. /\ \A c, d \in Cells : at[c] # NULL /\ at[c] = at[d] => c = d
      /\ \A c \in Cells : at[c] # NULL => pprev[at[c]] = c
      /\ \A p \in Timers : IF pprev[p] = NULL THEN at[p] = NULL /\ \A c \in Cells : at[c] # p
                            ELSE at[pprev[p]] = p /\ InRange(expire[p])
  BY <1>1, <1>7 DEF Linked, Moved
<1>9. /\ \A c \in Cells : at'[c] = IF c = b THEN NULL ELSE at[c]
      /\ \A v \in Workers : pc'[v] = IF v = w THEN "readd" ELSE pc[v]
      /\ chain'[w] = at[b]
  BY <1>2, <1>3, <1>5
<1>10. TypeOK'
  <2>1. at' \in [Cells -> Timers \cup {NULL}] /\ chain' \in [Workers -> Timers \cup {NULL}]
    BY <1>2, <1>3, <1>5
  <2>2. pc' \in [Workers -> {"idle", "loop", "cascade", "readd", "move", "trigger", "callback"}]
    BY <1>2, <1>3
  <2>. QED  BY <1>1, <1>2, <2>1, <2>2 DEF TypeOK
<1>11. LockHeld'
  BY <1>1, <1>2, <1>5, <1>6, <1>9 DEF LockHeld
<1>12. Linked'
  <2>1. \A c, d \in Cells : at'[c] # NULL /\ at'[c] = at'[d] => c = d
    BY <1>8, <1>9
  <2>2. \A c \in Cells : at'[c] # NULL => pprev'[at'[c]] = c
    BY <1>2, <1>8, <1>9
  <2>3. ASSUME NEW p \in Timers
        PROVE  (IF pprev[p] = NULL THEN at[p] = NULL /\ \A c \in Cells : at[c] # p
                ELSE (at[pprev[p]] = p \/ Moved(p)) /\ InRange(expire[p]))'
    <3>1. CASE pprev[p] = NULL
      BY <3>1, <1>2, <1>5, <1>8, <1>9
    <3>2. CASE pprev[p] # NULL
      <4>1. InRange(expire[p])'
        BY <3>2, <1>2, <1>8 DEF InRange, Span
      <4>2. pprev[p] = b => Moved(p)'
        BY <3>2, <1>8, <1>9 DEF Moved
      <4>3. pprev[p] # b => at'[pprev[p]] = p
        BY <3>2, <1>3, <1>8, <1>9
      <4>. QED  BY <3>2, <1>2, <4>1, <4>2, <4>3
    <3>. QED  BY <3>1, <3>2
  <2>4. ASSUME NEW v \in Workers, pc'[v] = "readd", chain'[v] # NULL
        PROVE  pprev'[chain'[v]] # NULL /\ \A c \in Cells : at'[c] # chain'[v]
    BY <2>4, <1>2, <1>3, <1>5, <1>7, <1>8, <1>9
  <2>. QED  BY <2>1, <2>2, <2>3, <2>4 DEF Linked
<1>13. Counted'
  BY <1>1, <1>2 DEF Counted, Started
<1>. QED  BY <1>10, <1>11, <1>12, <1>13 DEF IInv

(* twtimer_cascade adds the first timer of that list again: it is the only *)
(* one with a stale pprev, and the timer behind it becomes the next.       *)
LEMMA AddStep ==
    ASSUME TimeWheelAssumption, IInv, NEW w \in Workers, CascadeAdd(w)
    PROVE  IInv'
<1>. DEFINE t == chain[w]
            b == Bucket(expire[t])
<1>1. TypeOK /\ Linked /\ LockHeld /\ Counted
  BY DEF IInv
<1>2. /\ pc[w] = "readd" /\ t # NULL /\ Insert(t, b)
      /\ chain' = [chain EXCEPT ![w] = at[t]]
      /\ clock' = clock /\ count' = count /\ locker' = locker /\ pc' = pc
      /\ expire' = expire /\ target' = target /\ level' = level /\ tick' = tick
      /\ cur' = cur /\ due' = due
  BY DEF CascadeAdd
<1>3. /\ at \in [Cells -> Timers \cup {NULL}] /\ pprev \in [Timers -> Cells \cup {NULL}]
      /\ chain \in [Workers -> Timers \cup {NULL}] /\ clock \in Nat
      /\ t \in Timers /\ expire[t] \in Int
  BY <1>1, <1>2 DEF TypeOK
<1>4. pprev[t] # NULL /\ \A c \in Cells : at[c] # t
  BY <1>1, <1>2 DEF Linked
<1>5. InRange(expire[t])
  BY <1>1, <1>3, <1>4 DEF Linked
<1>6. b \in Wheel
  BY <1>3, <1>5, BucketType
<1>. HIDE DEF b
<1>7. /\ b \in Cells /\ NULL \notin Cells /\ NULL \notin Timers /\ Timers \subseteq Cells /\ t # b
      /\ \A v \in Workers : Local(v) # t
  BY <1>3, <1>6, Places
<1>8. locker = w /\ \A v \in Workers \ {w} : pc[v] \in {"idle", "callback"}
  BY <1>1, <1>2, Alone
<1>9. \A v \in Workers : pc[v] # "trigger" /\ (pc[v] = "readd" => v = w)
  BY <1>2, <1>8
<1>10. /\ \A c, d \in Cells : at'[c] # NULL /\ at'[c] = at'[d] => c = d
       /\ \A c \in Cells : at'[c] # NULL =>
             pprev'[at'[c]] = c \/ \E v \in Workers : pc'[v] = "trigger" /\ c = Local(v)
       /\ pprev'[t] = b /\ at'[b] = t
       /\ \A p \in Timers \ {t} :
             /\ pprev[p] = NULL => pprev'[p] = NULL /\ at'[p] = NULL
                                   /\ \A c \in Cells : at'[c] # p
             /\ pprev[p] # NULL => pprev'[p] # NULL
             /\ pprev[p] # NULL /\ at[pprev[p]] = p /\ at[t] # p => at'[pprev'[p]] = p
       /\ \A v \in Workers : at'[Local(v)] = at[Local(v)]
  <2>. HIDE DEF t
  <2>. QED  BY <1>1, <1>2, <1>3, <1>4, <1>6, InsertLinks
<1>11. /\ at' \in [Cells -> Timers \cup {NULL}] /\ pprev' \in [Timers -> Cells \cup {NULL}]
       /\ \A c \in Cells : at'[c] = IF c = b THEN t ELSE IF c = t THEN at[b] ELSE at[c]
  <2>. HIDE DEF t
  <2>. QED  BY <1>1, <1>2, <1>3, <1>6, InsertCells
<1>12. chain' \in [Workers -> Timers \cup {NULL}] /\ chain'[w] = at[t]
  BY <1>2, <1>3, <1>7
<1>. HIDE DEF t
<1>13. TypeOK'
  BY <1>1, <1>2, <1>11, <1>12 DEF TypeOK
<1>14. LockHeld'
  BY <1>1, <1>2, <1>10 DEF LockHeld
<1>15. \A p \in Timers : pprev[p] = NULL \/ (InRange(expire[p]) /\ (p = t \/ at[pprev[p]] = p))
  <2>1. \A p \in Timers : Moved(p) => p = t
    BY <1>9 DEF Moved, t
  <2>. QED  BY <1>1, <2>1 DEF Linked
<1>16. Linked'
  <2>3. ASSUME NEW p \in Timers
        PROVE  (IF pprev[p] = NULL THEN at[p] = NULL /\ \A c \in Cells : at[c] # p
                ELSE (at[pprev[p]] = p \/ Moved(p)) /\ InRange(expire[p]))'
    <3>1. CASE p = t
      <4>1. InRange(expire[p])'
        BY <3>1, <1>2, <1>5 DEF InRange, Span
      <4>. QED  BY <3>1, <4>1, <1>7, <1>10
    <3>2. CASE p # t /\ pprev[p] = NULL
      BY <3>2, <1>10
    <3>3. CASE p # t /\ pprev[p] # NULL
      <4>1. InRange(expire[p])'
        BY <3>3, <1>2, <1>15 DEF InRange, Span
      <4>2. at[t] = p => Moved(p)'
        BY <1>2, <1>12 DEF Moved
      <4>3. at[t] # p => at'[pprev'[p]] = p
        BY <3>3, <1>10, <1>15
      <4>. QED  BY <3>3, <4>1, <4>2, <4>3, <1>10
    <3>. QED  BY <3>1, <3>2, <3>3
  <2>4. ASSUME NEW v \in Workers, pc'[v] = "readd", chain'[v] # NULL
        PROVE  pprev'[chain'[v]] # NULL /\ \A c \in Cells : at'[c] # chain'[v]
    <3>1. v = w /\ chain'[v] = at[t] /\ at[t] \in Timers \ {t}
      BY <2>4, <1>2, <1>3, <1>4, <1>7, <1>9, <1>12
    <3>2. pprev[at[t]] = t
      BY <3>1, <1>1, <1>3, <1>7 DEF Linked
    <3>3. pprev'[at[t]] # NULL
      BY <3>1, <3>2, <1>3, <1>7, <1>10
    <3>4. \A c \in Cells : at[c] = at[t] => c = t
      BY <3>1, <1>1, <1>3, <1>7 DEF Linked
    <3>5. \A c \in Cells : at'[c] # at[t]
      BY <3>1, <3>4, <1>7, <1>11
    <3>. QED  BY <3>1, <3>3, <3>5
  <2>. QED  BY <2>3, <2>4, <1>10 DEF Linked
<1>17. Counted'
  <2>1. Started' = Started
    BY <1>3, <1>4, <1>7, <1>10 DEF Started
  <2>. QED  BY <2>1, <1>1, <1>2 DEF Counted
<1>. QED  BY <1>13, <1>14, <1>16, <1>17 DEF IInv
(* twtimer_process moves the tick's bucket to a list of its own: the first *)
(* timer's pprev still is the bucket.                                      *)
LEMMA MoveStep ==
    ASSUME TimeWheelAssumption, IInv, NEW w \in Workers, Move(w)
    PROVE  IInv'
<1>. DEFINE b == <<1, TVR_INDEX(clock)>>
            L == Local(w)
<1>1. TypeOK /\ Linked /\ LockHeld /\ Counted
  BY DEF IInv
<1>2. /\ pc[w] = "move" /\ pc' = [pc EXCEPT ![w] = "trigger"]
      /\ at' = [at EXCEPT ![L] = at[b], ![b] = NULL]
      /\ tick' = [tick EXCEPT ![w] = clock] /\ clock' = clock + 1
      /\ count' = count /\ locker' = locker /\ pprev' = pprev /\ expire' = expire
      /\ target' = target /\ level' = level /\ chain' = chain /\ cur' = cur /\ due' = due
  BY DEF Move, Goto
<1>3. /\ at \in [Cells -> Timers \cup {NULL}] /\ pprev \in [Timers -> Cells \cup {NULL}]
      /\ clock \in Nat
      /\ pc \in [Workers -> {"idle", "loop", "cascade", "readd", "move", "trigger", "callback"}]
  BY <1>1 DEF TypeOK
<1>4. b \in Wheel
  BY <1>3, IndexType, Zenon
<1>. HIDE DEF b
<1>5. /\ b \in Cells /\ NULL \notin Cells /\ NULL \notin Timers /\ Timers \subseteq Cells
      /\ L \in Cells /\ L # b /\ L \notin Timers /\ b \notin Timers
      /\ \A v \in Workers : Local(v) \in Cells /\ Local(v) # b /\ (Local(v) = L => v = w)
  BY <1>4, Places
<1>6. locker = w /\ \A v \in Workers \ {w} : pc[v] \in {"idle", "callback"}
  BY <1>1, <1>2, Alone
<1>7. \A v \in Workers : pc[v] \notin {"readd", "trigger"}
  BY <1>2, <1>6
<1>8. /\ \A c, d \in Cells : at[c] # NULL /\ at[c] = at[d] => c = d
      /\ \A c \in Cells : at[c] # NULL => pprev[at[c]] = c
      /\ \A p \in Timers : IF pprev[p] = NULL THEN at[p] = NULL /\ \A c \in Cells : at[c] # p
                            ELSE at[pprev[p]] = p /\ InRange(expire[p])
  BY <1>1, <1>7 DEF Linked, Moved
<1>9. at[L] = NULL /\ clock < target[w] /\ target[w] \in 0 .. MaxClock
  BY <1>1, <1>2 DEF LockHeld, TypeOK
<1>10. /\ at' \in [Cells -> Timers \cup {NULL}]
       /\ \A c \in Cells : at'[c] = IF c = b THEN NULL ELSE IF c = L THEN at[b] ELSE at[c]
       /\ \A v \in Workers : pc'[v] = IF v = w THEN "trigger" ELSE pc[v]
  <2>. HIDE DEF L
  <2>1. at' \in [Cells -> Timers \cup {NULL}]
    BY <1>2, <1>3, <1>5
  <2>2. \A c \in Cells : at'[c] = IF c = b THEN NULL ELSE IF c = L THEN at[b] ELSE at[c]
    BY <1>2, <1>3, <1>5
  <2>3. \A v \in Workers : pc'[v] = IF v = w THEN "trigger" ELSE pc[v]
    BY <1>2, <1>3
  <2>. QED  BY <2>1, <2>2, <2>3
<1>11. TypeOK'
  <2>1. clock' \in 0 .. MaxClock
    <3>1. MaxClock \in Nat
      BY DEF TimeWheelAssumption
    <3>. QED  BY <1>2, <1>3, <1>9, <3>1
  <2>2. tick' \in [Workers -> 0 .. MaxClock]
    BY <1>1, <1>2 DEF TypeOK
  <2>3. pc' \in [Workers -> {"idle", "loop", "cascade", "readd", "move", "trigger", "callback"}]
    BY <1>2, <1>3
  <2>. QED  BY <1>1, <1>2, <1>10, <2>1, <2>2, <2>3 DEF TypeOK
<1>12. LockHeld'
  <2>1. \A v \in Workers \ {w} : at'[Local(v)] = at[Local(v)]
    BY <1>5, <1>10
  <2>2. \A v \in Workers \ {w} : /\ locker' # v /\ pc'[v] \in {"idle", "callback"}
                                 /\ pc'[v] # "callback" => at'[Local(v)] = NULL
    BY <1>1, <1>2, <1>6, <1>10, <2>1, Zenon DEF LockHeld
  <2>3. locker' = w /\ pc'[w] = "trigger"
    BY <1>2, <1>6, <1>10
  <2>. QED  BY <2>2, <2>3 DEF LockHeld
<1>13. Linked'
  <2>1. \A c, d \in Cells : at'[c] # NULL /\ at'[c] = at'[d] => c = d
    <3>. HIDE DEF L
    <3>. QED  BY <1>5, <1>8, <1>10
  <2>2. \A c \in Cells : at'[c] # NULL =>
           pprev'[at'[c]] = c \/ \E v \in Workers : pc'[v] = "trigger" /\ c = Local(v)
    <3>1. \A c \in Cells \ {L} : at'[c] # NULL => pprev'[at'[c]] = c
      <4>. HIDE DEF L
      <4>. QED  BY <1>2, <1>8, <1>10
    <3>2. pc'[w] = "trigger"
      BY <1>10
    <3>. QED  BY <3>1, <3>2
  <2>3. ASSUME NEW p \in Timers
        PROVE  (IF pprev[p] = NULL THEN at[p] = NULL /\ \A c \in Cells : at[c] # p
                ELSE (at[pprev[p]] = p \/ Moved(p)) /\ InRange(expire[p]))'
    <3>1. CASE pprev[p] = NULL
      <4>. HIDE DEF L
      <4>. QED  BY <3>1, <1>2, <1>5, <1>8, <1>10
    <3>2. CASE pprev[p] # NULL
      <4>1. InRange(expire[p])'
        <5>1. expire[p] - clock < Span(4) /\ expire[p] \in Int /\ Span(4) \in Nat
          BY <3>2, <1>1, <1>8 DEF InRange, TypeOK, TimeWheelAssumption
        <5>2. expire'[p] - clock' < Span(4)
          BY <5>1, <1>2, <1>3
        <5>. QED  BY <5>2 DEF InRange, Span
      <4>2. pprev[p] = b => Moved(p)'
        BY <3>2, <1>5, <1>8, <1>10 DEF Moved
      <4>3. pprev[p] # b => at'[pprev[p]] = p
        <5>1. pprev[p] \in Cells /\ at[pprev[p]] = p
          BY <3>2, <1>3, <1>8
        <5>2. pprev[p] # L
          BY <5>1, <1>5, <1>9
        <5>. HIDE DEF L
        <5>. QED  BY <5>1, <5>2, <1>10
      <4>. QED  BY <3>2, <1>2, <4>1, <4>2, <4>3
    <3>. QED  BY <3>1, <3>2
  <2>4. \A v \in Workers : pc'[v] # "readd"
    BY <1>7, <1>10
  <2>. QED  BY <2>1, <2>2, <2>3, <2>4 DEF Linked
<1>14. Counted'
  BY <1>1, <1>2 DEF Counted, Started
<1>. QED  BY <1>11, <1>12, <1>13, <1>14 DEF IInv

(* twtimer_process unlinks the first timer of its list and drops the lock: *)
(* no pprev is stale any more.                                             *)
LEMMA TriggerStep ==
    ASSUME TimeWheelAssumption, IInv, NEW w \in Workers, Trigger(w)
    PROVE  IInv'
<1>. DEFINE L == Local(w)
            t == at[L]
<1>1. TypeOK /\ Linked /\ LockHeld /\ Counted
  BY DEF IInv
<1>2. /\ t # NULL /\ pc[w] = "trigger" /\ pc' = [pc EXCEPT ![w] = "callback"] /\ locker' = NULL
      /\ at' = [at EXCEPT ![L] = at[t], ![t] = NULL]
      /\ pprev' = [p \in Timers |-> IF p = t THEN NULL ELSE IF p = at[t] THEN L ELSE pprev[p]]
      /\ count' = count - 1 /\ cur' = [cur EXCEPT ![w] = t]
      /\ expire' = [expire EXCEPT ![t] = 0] /\ due' = [due EXCEPT ![t] = NotDue]
      /\ clock' = clock /\ target' = target /\ level' = level /\ chain' = chain /\ tick' = tick
  BY DEF Trigger, Goto, Forget
<1>3. /\ at \in [Cells -> Timers \cup {NULL}] /\ pprev \in [Timers -> Cells \cup {NULL}]
      /\ pc \in [Workers -> {"idle", "loop", "cascade", "readd", "move", "trigger", "callback"}]
  BY <1>1 DEF TypeOK
<1>4. /\ NULL \notin Cells /\ NULL \notin Timers /\ NULL \notin Workers /\ Timers \subseteq Cells
      /\ L \in Cells /\ L \notin Timers
      /\ \A v \in Workers : Local(v) \in Cells \ Timers /\ (Local(v) = L => v = w)
  BY Places
<1>5. t \in Timers
  BY <1>2, <1>3, <1>4
<1>6. \A v \in Workers \ {w} : pc[v] \in {"idle", "callback"}
  BY <1>1, <1>2, Alone
<1>7. /\ \A c, d \in Cells : at[c] # NULL /\ at[c] = at[d] => c = d
      /\ \A c \in Cells \ {L} : at[c] # NULL => pprev[at[c]] = c
      /\ \A p \in Timers : IF pprev[p] = NULL THEN at[p] = NULL /\ \A c \in Cells : at[c] # p
                            ELSE (at[pprev[p]] = p \/ p = t) /\ InRange(expire[p])
  <2>1. \A p \in Timers : Moved(p) => p = t
    BY <1>2, <1>6 DEF Moved
  <2>2. \A c \in Cells : (\E v \in Workers : pc[v] = "trigger" /\ c = Local(v)) => c = L
    BY <1>6
  <2>. QED  BY <1>1, <2>1, <2>2 DEF Linked
<1>8. L # t /\ t \in Cells /\ at[L] = t
  BY <1>4, <1>5
<1>. HIDE DEF L, t
<1>9. /\ at' \in [Cells -> Timers \cup {NULL}] /\ pprev' \in [Timers -> Cells \cup {NULL}]
      /\ \A c \in Cells : at'[c] = IF c = t THEN NULL ELSE IF c = L THEN at[t] ELSE at[c]
      /\ \A p \in Timers : pprev'[p] = IF p = t THEN NULL ELSE IF p = at[t] THEN L ELSE pprev[p]
  BY <1>2, <1>3, <1>4, <1>5, <1>8
<1>10. pprev[t] # NULL /\ at[t] # t
  BY <1>4, <1>5, <1>7, <1>8
<1>11. \A v \in Workers : pc'[v] = IF v = w THEN "callback" ELSE pc[v]
  BY <1>2, <1>3
<1>12. Counted' /\ count' \in Nat
  <2>1. IsFiniteSet(Timers) /\ Started \subseteq Timers
    BY DEF TimeWheelAssumption, Started
  <2>2. t \in Started /\ Started' = Started \ {t}
    <3>1. \A p \in Timers \ {t} : (pprev'[p] # NULL) <=> (pprev[p] # NULL)
      BY <1>3, <1>4, <1>5, <1>7, <1>8, <1>9, <1>10
    <3>2. pprev'[t] = NULL
      BY <1>5, <1>9
    <3>. QED  BY <3>1, <3>2, <1>5, <1>10 DEF Started
  <2>3. Cardinality(Started) \in Nat \ {0} /\ Cardinality(Started') = Cardinality(Started) - 1
    BY <2>1, <2>2, Leave
  <2>. QED  BY <2>3, <1>1, <1>2 DEF Counted
<1>13. TypeOK'
  <2>1. expire' \in [Timers -> Int] /\ due' \in [Timers -> Nat \cup {NotDue}]
    BY <1>1, <1>2, <1>5 DEF TypeOK
  <2>2. cur' \in [Workers -> Timers \cup {NULL}]
    BY <1>1, <1>2, <1>5 DEF TypeOK
  <2>3. pc' \in [Workers -> {"idle", "loop", "cascade", "readd", "move", "trigger", "callback"}]
    BY <1>2, <1>3
  <2>. QED  BY <1>1, <1>2, <1>9, <1>12, <2>1, <2>2, <2>3 DEF TypeOK
<1>14. LockHeld'
  <2>1. \A v \in Workers \ {w} : at'[Local(v)] = at[Local(v)]
    BY <1>4, <1>5, <1>9
  <2>2. \A v \in Workers \ {w} : /\ pc'[v] \in {"idle", "callback"}
                                 /\ pc'[v] # "callback" => at'[Local(v)] = NULL
    BY <1>1, <1>6, <1>11, <2>1 DEF LockHeld
  <2>3. pc'[w] = "callback" /\ \A v \in Workers : locker' # v
    BY <1>2, <1>4, <1>11
  <2>. QED  BY <2>2, <2>3 DEF LockHeld
<1>15. Linked'
  <2>1. \A c, d \in Cells : at'[c] # NULL /\ at'[c] = at'[d] => c = d
    BY <1>4, <1>5, <1>7, <1>8, <1>9
  <2>2. \A c \in Cells : at'[c] # NULL => pprev'[at'[c]] = c
    <3>. TAKE c \in Cells
    <3>. HAVE at'[c] # NULL
    <3>1. CASE c = L
      BY <3>1, <1>3, <1>4, <1>5, <1>8, <1>9, <1>10
    <3>2. CASE c # L
      <4>1. c # t /\ at'[c] = at[c] /\ at[c] # t /\ at[c] # at[t] /\ at[c] \in Timers
        BY <3>2, <1>3, <1>4, <1>7, <1>8, <1>9
      <4>. QED  BY <3>2, <4>1, <1>7, <1>9
    <3>. QED  BY <3>1, <3>2
  <2>3. ASSUME NEW p \in Timers
        PROVE  (IF pprev[p] = NULL THEN at[p] = NULL /\ \A c \in Cells : at[c] # p
                ELSE (at[pprev[p]] = p \/ Moved(p)) /\ InRange(expire[p]))'
    <3>1. CASE p = t
      <4>1. pprev'[t] = NULL /\ at'[t] = NULL
        BY <1>5, <1>8, <1>9
      <4>2. \A c \in Cells : at'[c] # t
        BY <1>4, <1>5, <1>7, <1>8, <1>9, <1>10
      <4>. QED  BY <3>1, <4>1, <4>2
    <3>2. CASE p # t /\ pprev[p] = NULL
      BY <3>2, <1>3, <1>4, <1>7, <1>8, <1>9
    <3>3. CASE p # t /\ pprev[p] # NULL
      <4>1. InRange(expire[p])'
        BY <3>3, <1>1, <1>2, <1>7 DEF InRange, Span, TypeOK
      <4>2. pprev[p] \in Cells \ {L} /\ at[pprev[p]] = p
        BY <3>3, <1>3, <1>7, <1>8
      <4>3. pprev'[p] # NULL /\ at'[pprev'[p]] = p
        BY <3>3, <4>2, <1>4, <1>7, <1>8, <1>9
      <4>. QED  BY <4>1, <4>3
    <3>. QED  BY <3>1, <3>2, <3>3
  <2>4. \A v \in Workers : pc'[v] # "readd"
    BY <1>6, <1>11
  <2>. QED  BY <2>1, <2>2, <2>3, <2>4 DEF Linked
<1>. QED  BY <1>12, <1>13, <1>14, <1>15 DEF IInv
(* A step that writes no list keeps them sound if they were.               *)
LEMMA StillLinks ==
    ASSUME Linked, at' = at, pprev' = pprev, expire' = expire, clock' = clock,
           \A c \in Cells : at[c] # NULL => pprev[at[c]] = c,
           \A p \in Timers : ~ Moved(p), \A v \in Workers : pc'[v] # "readd"
    PROVE  Linked'
<1>1. \A p \in Timers : IF pprev[p] = NULL THEN at[p] = NULL /\ \A c \in Cells : at[c] # p
                         ELSE at[pprev[p]] = p /\ InRange(expire[p])
  BY DEF Linked
<1>2. ASSUME NEW p \in Timers
      PROVE  (IF pprev[p] = NULL THEN at[p] = NULL /\ \A c \in Cells : at[c] # p
              ELSE (at[pprev[p]] = p \/ Moved(p)) /\ InRange(expire[p]))'
  <2>1. InRange(expire[p]) => InRange(expire[p])'
    BY DEF InRange, Span
  <2>. QED  BY <1>1, <2>1
<1>. QED  BY <1>2 DEF Linked

(* The steps of twtimer_process that write no list: its lock and unlock,   *)
(* the tests of its loops, a callback's return.                            *)
LEMMA StillStep ==
    ASSUME TimeWheelAssumption, IInv, NEW w \in Workers,
           \/ \E d \in Steps : ProcessCall(w, d)
           \/ ProcessTick(w) \/ ProcessReturn(w) \/ CascadeEnd(w)
           \/ CallbackReturn(w) \/ TriggerEnd(w)
    PROVE  IInv'
<1>. DEFINE Lines == {"idle", "loop", "cascade", "readd", "move", "trigger", "callback"}
<1>1. TypeOK /\ Linked /\ LockHeld /\ Counted
  BY DEF IInv
<1>2. /\ at' = at /\ pprev' = pprev /\ expire' = expire /\ clock' = clock
      /\ count' = count /\ due' = due /\ chain' = chain
  BY DEF ProcessCall, ProcessTick, ProcessReturn, CascadeEnd, CallbackReturn, TriggerEnd, lists, local
<1>3. NULL \notin Workers /\ NULL \notin Timers
  BY Places
<1>4. pc \in [Workers -> Lines]
  BY <1>1 DEF TypeOK
<1>. DEFINE To(l) == /\ pc' = [pc EXCEPT ![w] = l]
                     /\ IF l = "idle" THEN locker' = NULL ELSE locker' = w
                     /\ locker \in {w, NULL} /\ pc[w] # "move"
                     /\ l \in {"cascade", "move"} => clock < target[w] /\ target' = target
                     /\ l = "trigger" \/ at[Local(w)] = NULL
                     /\ pc[w] = "readd" => chain[w] = NULL
                     /\ pc[w] = "trigger" => at[Local(w)] = NULL
                     /\ \A v \in Workers \ {w} : target'[v] = target[v]
<1>5. PICK l \in Lines \ {"readd", "callback"} : To(l)
  <2>1. ASSUME NEW d \in Steps, ProcessCall(w, d) PROVE To("loop")
    BY <2>1, <1>1 DEF ProcessCall, Goto, LockHeld, TypeOK
  <2>2. CASE ProcessTick(w)
    <3>1. locker = w
      BY <2>2, <1>1, Alone DEF ProcessTick, Goto
    <3>2. CASE TVR_INDEX(clock) = 0
      <4>1. To("cascade")
        BY <2>2, <3>1, <3>2, <1>1 DEF ProcessTick, Goto, LockHeld
      <4>. QED  BY <4>1, Zenon
    <3>3. CASE TVR_INDEX(clock) # 0
      <4>1. To("move")
        BY <2>2, <3>1, <3>3, <1>1 DEF ProcessTick, Goto, LockHeld
      <4>. QED  BY <4>1, Zenon
    <3>. QED  BY <3>2, <3>3
  <2>3. CASE ProcessReturn(w)
    <3>1. locker = w
      BY <2>3, <1>1, Alone DEF ProcessReturn, Goto
    <3>2. To("idle")
      BY <2>3, <3>1, <1>1 DEF ProcessReturn, Goto, LockHeld, TypeOK
    <3>. QED  BY <3>2, Zenon
  <2>4. CASE CascadeEnd(w)
    <3>1. locker = w
      BY <2>4, <1>1, Alone DEF CascadeEnd, Goto
    <3>2. CASE TVN_INDEX(clock, level[w]) = 0 /\ level[w] < 3
      <4>1. To("cascade")
        BY <2>4, <3>1, <3>2, <1>1 DEF CascadeEnd, Goto, LockHeld
      <4>. QED  BY <4>1, Zenon
    <3>3. CASE ~ (TVN_INDEX(clock, level[w]) = 0 /\ level[w] < 3)
      <4>1. To("move")
        BY <2>4, <3>1, <3>3, <1>1, Zenon DEF CascadeEnd, Goto, LockHeld
      <4>. QED  BY <4>1, Zenon
    <3>. QED  BY <3>2, <3>3
  <2>5. CASE CallbackReturn(w)
    <3>1. To("trigger")
      BY <2>5 DEF CallbackReturn, Goto
    <3>. QED  BY <3>1, Zenon
  <2>6. CASE TriggerEnd(w)
    <3>1. locker = w
      BY <2>6, <1>1, Alone DEF TriggerEnd, Goto
    <3>2. To("loop")
      BY <2>6, <3>1 DEF TriggerEnd, Goto, local
    <3>. QED  BY <3>2, Zenon
  <2>. HIDE DEF To
  <2>. QED  BY <2>1, <2>2, <2>3, <2>4, <2>5, <2>6
<1>6. \A v \in Workers : pc'[v] = IF v = w THEN l ELSE pc[v]
  BY <1>4, <1>5
<1>7. \A v \in Workers \ {w} : pc[v] \in {"idle", "callback"} /\ locker # v
  BY <1>1, <1>3, <1>5 DEF LockHeld
<1>8. LockHeld'
  <2>1. \A v \in Workers \ {w} :
           /\ locker' # v /\ pc'[v] \in {"idle", "callback"}
           /\ pc'[v] # "callback" => at'[Local(v)] = NULL
    BY <1>1, <1>2, <1>3, <1>5, <1>6, <1>7 DEF LockHeld
  <2>2. /\ IF locker' = w THEN pc'[w] \notin {"idle", "callback"} ELSE pc'[w] \in {"idle", "callback"}
        /\ pc'[w] \in {"cascade", "readd", "move"} => clock' < target'[w]
        /\ pc'[w] \notin {"trigger", "callback"} => at'[Local(w)] = NULL
    BY <1>2, <1>3, <1>5, <1>6
  <2>. QED  BY <2>1, <2>2 DEF LockHeld
<1>9. Linked'
  <2>1. \A p \in Timers : ~ Moved(p)
    BY <1>3, <1>5, <1>7 DEF Moved
  <2>2. \A c \in Cells : at[c] # NULL => pprev[at[c]] = c
    BY <1>1, <1>5, <1>7 DEF Linked
  <2>3. \A v \in Workers : pc'[v] # "readd"
    BY <1>5, <1>6, <1>7
  <2>. QED  BY <1>1, <1>2, <2>1, <2>2, <2>3, StillLinks
<1>10. TypeOK'
  <2>1. pc' \in [Workers -> Lines] /\ locker' \in Workers \cup {NULL}
    BY <1>4, <1>5
  <2>2. target' \in [Workers -> 0 .. MaxClock]
    <3>1. ASSUME NEW d \in Steps, ProcessCall(w, d) PROVE target' \in [Workers -> 0 .. MaxClock]
      <4>1. clock + d \in 0 .. MaxClock
        BY <3>1, <1>1 DEF ProcessCall, TypeOK, TimeWheelAssumption
      <4>. QED  BY <3>1, <4>1, <1>1 DEF ProcessCall, TypeOK
    <3>2. 0 \in 0 .. MaxClock
      BY DEF TimeWheelAssumption
    <3>3. CASE ProcessReturn(w)
      BY <3>2, <3>3, <1>1 DEF ProcessReturn, TypeOK
    <3>. QED  BY <3>1, <3>3, <1>1 DEF ProcessTick, CascadeEnd, CallbackReturn, TriggerEnd, local, TypeOK
  <2>3. level' \in [Workers -> 0 .. 3]
    <3>1. CASE CascadeEnd(w)
      BY <3>1, <1>1 DEF CascadeEnd, TypeOK
    <3>2. CASE ~ CascadeEnd(w)
      BY <3>2, <1>1 DEF ProcessCall, ProcessTick, ProcessReturn, CallbackReturn, TriggerEnd, local, TypeOK
    <3>. QED  BY <3>1, <3>2
  <2>4. tick' \in [Workers -> 0 .. MaxClock]
    <3>1. 0 \in 0 .. MaxClock
      BY DEF TimeWheelAssumption
    <3>. QED  BY <3>1, <1>1 DEF ProcessCall, ProcessTick, ProcessReturn, CascadeEnd, CallbackReturn,
                               TriggerEnd, local, TypeOK
  <2>5. cur' \in [Workers -> Timers \cup {NULL}]
    BY <1>1 DEF ProcessCall, ProcessTick, ProcessReturn, CascadeEnd, CallbackReturn,
                TriggerEnd, local, TypeOK
  <2>. QED  BY <1>1, <1>2, <2>1, <2>2, <2>3, <2>4, <2>5 DEF TypeOK
<1>11. Counted'
  BY <1>1, <1>2 DEF Counted, Started
<1>. QED  BY <1>8, <1>9, <1>10, <1>11 DEF IInv

-----------------------------------------------------------------------------
(* time_wheel_create: empty wheels and a free lock.                        *)
LEMMA InitIInv ==
    ASSUME TimeWheelAssumption, Init
    PROVE  IInv
<1>1. \A w \in Workers : Local(w) \in Cells
  BY Places
<1>2. NULL \notin Workers /\ NULL \notin Cells /\ Timers \subseteq Cells
  BY Places
<1>3. TypeOK
  BY DEF Init, TypeOK, TimeWheelAssumption
<1>4. LockHeld
  BY <1>1, <1>2 DEF Init, LockHeld
<1>5. Linked
  BY <1>2 DEF Init, Linked
<1>6. Counted
  <2>1. Started = {}
    BY DEF Init, Started
  <2>. QED  BY <2>1, FS_EmptySet DEF Init, Counted
<1>. QED  BY <1>3, <1>4, <1>5, <1>6 DEF IInv

(* Outside the lock every timer that a cell points to points back, and a   *)
(* timer's cell holds it; under it only the first timer of a list that was *)
(* just moved does not.                                                    *)
THEOREM IInvHolds ==
    ASSUME TimeWheelAssumption
    PROVE  Spec => []IInv
<1>1. Init => IInv
  BY InitIInv
<1>2. IInv /\ [Next]_vars => IInv'
  <2>. SUFFICES ASSUME IInv, [Next]_vars PROVE IInv'
    OBVIOUS
  <2>1. CASE UNCHANGED vars
    <3>1. TypeOK'
      BY <2>1 DEF IInv, TypeOK, vars
    <3>2. LockHeld'
      BY <2>1 DEF IInv, LockHeld, vars
    <3>3. Linked'
      BY <2>1 DEF IInv, Linked, Moved, InRange, Span, vars
    <3>4. Counted'
      BY <2>1 DEF IInv, Counted, Started, vars
    <3>. QED  BY <3>1, <3>2, <3>3, <3>4 DEF IInv
  <2>2. ASSUME NEW t \in Timers, Stop(t) PROVE IInv'
    BY <2>2, StopStep
  <2>3. ASSUME NEW t \in Timers, NEW d \in Delays, Start(t, d) PROVE IInv'
    BY <2>3, StartStep
  <2>4. ASSUME NEW w \in Workers, Process(w) PROVE IInv'
    <3>1. CASE CascadeTake(w)
      BY <3>1, TakeStep
    <3>2. CASE CascadeAdd(w)
      BY <3>2, AddStep
    <3>3. CASE Move(w)
      BY <3>3, MoveStep
    <3>4. CASE Trigger(w)
      BY <3>4, TriggerStep
    <3>5. CASE \/ \E d \in Steps : ProcessCall(w, d)
               \/ ProcessTick(w) \/ ProcessReturn(w) \/ CascadeEnd(w)
               \/ CallbackReturn(w) \/ TriggerEnd(w)
      BY <3>5, StillStep
    <3>. QED  BY <2>4, <3>1, <3>2, <3>3, <3>4, <3>5 DEF Process
  <2>. QED  BY <2>1, <2>2, <2>3, <2>4 DEF Next
<1>. QED  BY <1>1, <1>2, PTL DEF Spec

(* Whatever the threads that start, stop and process timers do, whenever   *)
(* the lock of struct time_wheel is free the lists are sound and count is  *)
(* the number of started timers.                                           *)
THEOREM WheelSound ==
    ASSUME TimeWheelAssumption
    PROVE  Spec => []ListsSound
<1>1. IInv => ListsSound
  <2>. SUFFICES ASSUME IInv, locker = NULL
                PROVE  /\ \A c \in Cells : at[c] # NULL => pprev[at[c]] = c
                       /\ \A t \in Timers : IF pprev[t] = NULL THEN at[t] = NULL ELSE at[pprev[t]] = t
                       /\ count = Cardinality({t \in Timers : pprev[t] # NULL})
    BY DEF ListsSound
  <2>1. \A w \in Workers : pc[w] \notin {"readd", "trigger"}
    BY Places DEF IInv, LockHeld
  <2>. QED  BY <2>1 DEF IInv, Linked, Moved, Counted, Started
<1>. QED  BY <1>1, IInvHolds, PTL
=============================================================================
