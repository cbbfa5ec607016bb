---------------------------- MODULE TimeWheelTime ---------------------------
(***************************************************************************)
(* Proofs about TimeWheel for any number of timers and of threads, and any *)
(* size of the wheels: every timer fires at the tick it is due.            *)
(***************************************************************************)
EXTENDS TimeWheelProofs, WellFoundedInduction

(* Where the timers are and when they are due.                             *)

(* The list a cascade has taken off a bucket.                              *)
Chain(w) == <<7, w>>
Homes == Wheel \cup {Local(w) : w \in Workers} \cup {Chain(w) : w \in Workers}

(* The first tick of the slot of level n that an expiry falls into.        *)
Slot(e, n) == e - (e % Span(n))

(* The wheel of level n has been cascaded, or need not be, at this tick.   *)
Cascaded(n) ==
    \E w \in Workers : \/ pc[w] = "cascade" /\ n < level[w]
                       \/ pc[w] = "readd" /\ n <= level[w]
                       \/ pc[w] = "move"

(* home is the list each timer is in, and rank grows along a list.         *)
Chained(home, rank) ==
    \A c \in Cells : at[c] # NULL =>
        IF c \in Timers THEN home[at[c]] = home[c] /\ rank[c] < rank[at[c]]
        ELSE home[at[c]] = c
Taken(home) == \A w \in Workers : pc[w] = "readd" /\ chain[w] # NULL => home[chain[w]] = Chain(w)

(* A timer of the first wheel is due before that has turned once.          *)
OnFirst(t, h) ==
    h = <<1, TVR_INDEX(due[t])>> /\ clock <= due[t] /\ due[t] < clock + TVR_SIZE

(* A timer of level n: its slot is cascaded before that wheel has turned.  *)
OnLevel(t, h, n) ==
    /\ h = <<n + 2, TVN_INDEX(expire[t], n)>> /\ due[t] = expire[t]
    /\ IF Cascaded(n) THEN clock < Slot(expire[t], n) /\ Slot(expire[t], n) <= clock + Span(n + 1)
                      ELSE clock <= Slot(expire[t], n) /\ Slot(expire[t], n) < clock + Span(n + 1)

(* A timer that is being cascaded is due within the slot.                  *)
OnChain(t, h, w) ==
    /\ h = Chain(w) /\ pc[w] = "readd"
    /\ due[t] = expire[t] /\ clock <= due[t] /\ due[t] < clock + Span(level[w])

(* A timer on a worker's own list is due at the tick that it processes.    *)
OnLocal(t, h, w) == h = Local(w) /\ pc[w] \in {"trigger", "callback"} /\ due[t] = tick[w]

InTime(t, h) == \/ OnFirst(t, h) \/ \E n \in 0 .. 3 : OnLevel(t, h, n)
                \/ \E w \in Workers : OnChain(t, h, w) \/ OnLocal(t, h, w)

Timely(home) == \A t \in Timers : pprev[t] # NULL => InTime(t, home[t])
OnTime == \E home \in [Timers -> Homes], rank \in [Timers -> Nat] :
             Chained(home, rank) /\ Taken(home) /\ Timely(home)

(* A level is cascaded only at a clock where its wheel moves on.           *)
Turned == \A w \in Workers : pc[w] \in {"cascade", "readd"} => clock % Span(level[w]) = 0
DueStarted == \A t \in Timers : (due[t] # NotDue) <=> (pprev[t] # NULL)

TInv == Turned /\ DueStarted /\ OnTime
-----------------------------------------------------------------------------
(* Arithmetic of the wheels.                                               *)

(* Division with remainder.                                                *)
LEMMA Division ==
    ASSUME NEW e \in Int, NEW s \in Nat \ {0}
    PROVE  /\ e \div s \in Int /\ e % s \in 0 .. s - 1 /\ e = s * (e \div s) + (e % s)
OBVIOUS

(* A factor that keeps the order, and one that two products share.         *)
LEMMA Factor ==
    ASSUME NEW a \in Int, NEW b \in Int, NEW s \in Nat \ {0}, s * a < s * b
    PROVE  a < b
<1>1. CASE a >= b
  <2>1. PICK k \in Nat : a = b + k
    BY <1>1
  <2>2. s * a = s * b + s * k /\ s * k \in Nat
    BY <2>1
  <2>. QED  BY <2>2
<1>. QED  BY <1>1

(* Two numbers with one remainder, less than the divisor apart, are equal. *)
LEMMA Congruent ==
    ASSUME NEW a \in Int, NEW b \in Int, NEW s \in Nat \ {0}, a <= b, b < a + s, a % s = b % s
    PROVE  a = b
<1>. DEFINE p == a \div s
            q == b \div s
<1>1. /\ p \in Int /\ q \in Int /\ a = s * p + (a % s) /\ b = s * q + (b % s)
      /\ a % s \in Int
  BY Division
<1>. HIDE DEF p, q
<1>2. s * p <= s * q /\ s * q < s * p + s
  BY <1>1
<1>3. s * (p + 1) = s * p + s /\ s * q < s * (p + 1) /\ s * (p - 1) = s * p - s
  BY <1>1, <1>2
<1>4. q < p + 1
  BY <1>1, <1>3, Factor
<1>5. s * (p - 1) < s * q
  BY <1>1, <1>2, <1>3
<1>6. p - 1 < q
  BY <1>1, <1>5, Factor
<1>7. p = q
  BY <1>1, <1>4, <1>6
<1>. QED  BY <1>1, <1>7

(* A multiple has remainder 0.                                             *)
LEMMA Multiple ==
    ASSUME NEW q \in Int, NEW s \in Nat \ {0}
    PROVE  (s * q) % s = 0 /\ (s * q) \div s = q
<1>. DEFINE x == s * q
            d == x \div s
            r == x % s
<1>0. x \in Int /\ x = s * q
  OBVIOUS
<1>. HIDE DEF x
<1>1. d \in Int /\ r \in 0 .. s - 1 /\ x = s * d + r
  BY <1>0, Division, Zenon
<1>. HIDE DEF d, r
<1>2. s * d <= s * q /\ s * q < s * d + s /\ s * (d + 1) = s * d + s /\ s * (d - 1) = s * d - s
  BY <1>0, <1>1
<1>3. q < d + 1
  BY <1>0, <1>1, <1>2, Factor
<1>4. s * (d - 1) < s * q
  BY <1>0, <1>1, <1>2
<1>5. d - 1 < q
  BY <1>0, <1>1, <1>4, Factor
<1>6. d = q
  BY <1>0, <1>1, <1>3, <1>5
<1>7. r = 0
  BY <1>0, <1>1, <1>6
<1>. QED  BY <1>6, <1>7 DEF x, d, r

(* Each wheel turns once while the next one moves on by one bucket.        *)
LEMMA Spans ==
    ASSUME TimeWheelAssumption
    PROVE  /\ TVR_SIZE \in Nat \ {0} /\ TVN_SIZE \in Nat \ {0} /\ Span(0) = TVR_SIZE
           /\ \A n \in 0 .. 4 : Span(n) \in Nat \ {0}
           /\ \A n \in 0 .. 3 : Span(n + 1) = Span(n) * TVN_SIZE
           /\ \A m, n \in 0 .. 4 : m <= n => Span(m) <= Span(n)
<1>1. /\ TVR_SIZE \in Nat \ {0} /\ TVN_SIZE \in Nat \ {0} /\ Span(0) = TVR_SIZE
      /\ \A n \in 0 .. 4 : Span(n) \in Nat \ {0}
      /\ \A n \in 0 .. 3 : Span(n + 1) = Span(n) * TVN_SIZE
  BY DEF TimeWheelAssumption
<1>2. ASSUME NEW n \in 0 .. 3 PROVE Span(n) <= Span(n + 1)
  <2>. DEFINE s == Span(n)
              k == TVN_SIZE - 1
  <2>1. s \in Nat /\ k \in Nat /\ Span(n + 1) = s * (k + 1)
    BY <1>1
  <2>. HIDE DEF s, k
  <2>2. s * (k + 1) = s * k + s /\ s * k \in Nat
    BY <2>1
  <2>. QED  BY <2>1, <2>2 DEF s
<1>3. /\ Span(0) <= Span(1) /\ Span(1) <= Span(2) /\ Span(2) <= Span(3) /\ Span(3) <= Span(4)
      /\ Span(0) \in Nat /\ Span(1) \in Nat /\ Span(2) \in Nat /\ Span(3) \in Nat /\ Span(4) \in Nat
  <2>1. 0 + 1 = 1 /\ 1 + 1 = 2 /\ 2 + 1 = 3 /\ 3 + 1 = 4
    OBVIOUS
  <2>2. Span(0) <= Span(0 + 1) /\ Span(1) <= Span(1 + 1) /\ Span(2) <= Span(2 + 1) /\ Span(3) <= Span(3 + 1)
    BY <1>2
  <2>. QED  BY <1>1, <2>1, <2>2
<1>4. ASSUME NEW m \in 0 .. 4, NEW n \in 0 .. 4, m <= n PROVE Span(m) <= Span(n)
  <2>1. m \in {0, 1, 2, 3, 4} /\ n \in {0, 1, 2, 3, 4}
    OBVIOUS
  <2>. QED  BY <1>3, <1>4, <2>1
<1>. QED  BY <1>1, <1>4

(* The slot of an expiry starts at a multiple of the span and holds it.    *)
LEMMA SlotOf ==
    ASSUME TimeWheelAssumption, NEW e \in Int, NEW n \in 0 .. 4
    PROVE  /\ Slot(e, n) \in Int /\ Slot(e, n) <= e /\ e < Slot(e, n) + Span(n)
           /\ Slot(e, n) = Span(n) * (e \div Span(n)) /\ e \div Span(n) \in Int
<1>. DEFINE s == Span(n)
<1>1. s \in Nat \ {0}
  BY Spans
<1>. HIDE DEF s
<1>2. e \div s \in Int /\ e % s \in 0 .. s - 1 /\ e = s * (e \div s) + (e % s)
  BY <1>1, Division
<1>3. Slot(e, n) = e - (e % s)
  BY DEF Slot, s
<1>4. s * (e \div s) \in Int
  BY <1>1, <1>2
<1>5. Slot(e, n) \in Int /\ Slot(e, n) <= e /\ e < Slot(e, n) + s /\ Slot(e, n) = s * (e \div s)
  BY <1>1, <1>2, <1>3, <1>4
<1>. QED  BY <1>2, <1>5 DEF s

(* A slot starts at the clock only when its wheel moves on.                *)
LEMMA SlotApart ==
    ASSUME TimeWheelAssumption, NEW e \in Int, NEW n \in 0 .. 4, NEW k \in Int, k % Span(n) # 0
    PROVE  Slot(e, n) # k
<1>1. /\ Span(n) \in Nat \ {0} /\ e \div Span(n) \in Int
      /\ Slot(e, n) = Span(n) * (e \div Span(n))
  BY Spans, SlotOf, Zenon
<1>2. Slot(e, n) % Span(n) = 0
  BY <1>1, Multiple
<1>. QED  BY <1>2

(* Of the next slots of a wheel only the one at the clock has its index.   *)
LEMMA SlotHere ==
    ASSUME TimeWheelAssumption, NEW e \in Int, NEW n \in 0 .. 3, NEW k \in Int, k % Span(n) = 0,
           k <= Slot(e, n), Slot(e, n) < k + Span(n + 1)
    PROVE  TVN_INDEX(e, n) = TVN_INDEX(k, n) <=> Slot(e, n) = k
<1>. DEFINE s == Span(n)
            a == k \div s
            b == e \div s
<1>1. s \in Nat \ {0} /\ TVN_SIZE \in Nat \ {0} /\ Span(n + 1) = s * TVN_SIZE
  BY Spans
<1>2. b \in Int /\ Slot(e, n) = s * b
  <2>1. n \in 0 .. 4
    OBVIOUS
  <2>. QED  BY <2>1, SlotOf, Zenon
<1>3. a \in Int /\ k = s * a
  <2>. HIDE DEF s
  <2>1. a \in Int /\ k = s * a + (k % s)
    BY <1>1, Division, Zenon
  <2>2. k % s = 0
    BY DEF s
  <2>3. s * a \in Int
    BY <1>1, <2>1
  <2>. QED  BY <2>1, <2>2, <2>3
<1>4. TVN_INDEX(e, n) = b % TVN_SIZE /\ TVN_INDEX(k, n) = a % TVN_SIZE
  BY DEF TVN_INDEX
<1>. HIDE DEF s, a, b
<1>5. ASSUME a % TVN_SIZE = b % TVN_SIZE PROVE a = b
  <2>1. s * (a - 1) = s * a - s /\ s * (a + TVN_SIZE) = s * a + s * TVN_SIZE /\ s * a \in Int /\ s * b \in Int
    BY <1>1, <1>2, <1>3
  <2>2. s * (a - 1) < s * b
    BY <1>1, <1>2, <1>3, <2>1
  <2>3. a - 1 < b
    BY <1>1, <1>2, <1>3, <2>2, Factor
  <2>4. s * b < s * (a + TVN_SIZE)
    BY <1>1, <1>2, <1>3, <2>1
  <2>5. b < a + TVN_SIZE
    BY <1>1, <1>2, <1>3, <2>4, Factor
  <2>6. a <= b
    BY <1>2, <1>3, <2>3
  <2>. QED  BY <1>1, <1>2, <1>3, <1>5, <2>5, <2>6, Congruent, Zenon
<1>6. ASSUME s * b = s * a PROVE a = b
  <2>1. s * (a - 1) = s * a - s /\ s * (a + 1) = s * a + s /\ s * a \in Int
    BY <1>1, <1>3
  <2>2. s * (a - 1) < s * b /\ s * b < s * (a + 1)
    BY <1>1, <1>3, <1>6, <2>1
  <2>3. a - 1 < b /\ b < a + 1
    BY <1>1, <1>2, <1>3, <2>2, Factor
  <2>. QED  BY <1>2, <1>3, <2>3
<1>. QED  BY <1>2, <1>3, <1>4, <1>5, <1>6

(* The next level's wheel moves on exactly when this one has turned.       *)
LEMMA TurnOver ==
    ASSUME TimeWheelAssumption, NEW n \in 0 .. 3, NEW k \in Int
    PROVE  k % Span(n + 1) = 0 <=> k % Span(n) = 0 /\ TVN_INDEX(k, n) = 0
<1>. DEFINE s == Span(n)
            N == TVN_SIZE
            a == k \div s
            b == a \div N
<1>1. s \in Nat \ {0} /\ N \in Nat \ {0} /\ Span(n + 1) = s * N /\ s * N \in Nat \ {0}
  BY Spans
<1>2. TVN_INDEX(k, n) = a % N
  BY DEF TVN_INDEX
<1>. HIDE DEF s, N
<1>3. a \in Int /\ k = s * a + (k % s) /\ k % s \in Int
  BY <1>1, Division
<1>. HIDE DEF a
<1>4. b \in Int /\ a = N * b + (a % N) /\ a % N \in Int
  <2>1. a \in Int /\ N \in Nat \ {0}
    BY <1>1, <1>3
  <2>. QED  BY <2>1, Division
<1>. HIDE DEF b
<1>5. ASSUME k % s = 0, a % N = 0 PROVE k % (s * N) = 0
  <2>1. N * b \in Int /\ s * a \in Int
    BY <1>1, <1>3, <1>4
  <2>2. k = s * a /\ a = N * b
    BY <1>3, <1>4, <1>5, <2>1
  <2>3. k = (s * N) * b
    BY <1>1, <1>4, <2>2
  <2>. QED  BY <1>1, <1>4, <2>3, Multiple, Zenon
<1>6. ASSUME k % (s * N) = 0 PROVE k % s = 0 /\ a % N = 0
  <2>. DEFINE q == k \div (s * N)
  <2>1. q \in Int /\ k = (s * N) * q + 0
    BY <1>1, <1>6, Division, Zenon
  <2>. HIDE DEF q
  <2>2. N * q \in Int /\ k = s * (N * q)
    BY <1>1, <2>1
  <2>3. k % s = 0 /\ k \div s = N * q
    BY <1>1, <2>2, Multiple, Zenon
  <2>4. a % N = 0
    BY <1>1, <2>1, <2>3, Multiple, Zenon DEF a
  <2>. QED  BY <2>3, <2>4
<1>. QED  BY <1>1, <1>2, <1>5, <1>6 DEF s

(* Once a wheel does not move on, none of the next ones does.              *)
LEMMA Still ==
    ASSUME TimeWheelAssumption, NEW m \in 0 .. 3, NEW k \in Int,
           k % Span(m) # 0 \/ TVN_INDEX(k, m) # 0
    PROVE  \A n \in m + 1 .. 3 : k % Span(n) # 0
<1>1. \A n \in 0 .. 3 : k % Span(n + 1) = 0 => k % Span(n) = 0 /\ TVN_INDEX(k, n) = 0
  BY TurnOver
<1>2. /\ k % Span(1) = 0 => k % Span(0) = 0 /\ TVN_INDEX(k, 0) = 0
      /\ k % Span(2) = 0 => k % Span(1) = 0 /\ TVN_INDEX(k, 1) = 0
      /\ k % Span(3) = 0 => k % Span(2) = 0 /\ TVN_INDEX(k, 2) = 0
  <2>1. 0 + 1 = 1 /\ 1 + 1 = 2 /\ 2 + 1 = 3
    OBVIOUS
  <2>2. /\ k % Span(0 + 1) = 0 => k % Span(0) = 0 /\ TVN_INDEX(k, 0) = 0
        /\ k % Span(1 + 1) = 0 => k % Span(1) = 0 /\ TVN_INDEX(k, 1) = 0
        /\ k % Span(2 + 1) = 0 => k % Span(2) = 0 /\ TVN_INDEX(k, 2) = 0
    BY <1>1
  <2>. QED  BY <2>1, <2>2
<1>3. m \in {0, 1, 2, 3}
  OBVIOUS
<1>4. \A n \in m + 1 .. 3 : n \in {1, 2, 3} /\ n > m
  OBVIOUS
<1>. QED  BY <1>2, <1>3, <1>4

-----------------------------------------------------------------------------
(* The bucket twtimer_add chooses, by how far the expiry is.               *)
LEMMA BucketIs ==
    ASSUME TimeWheelAssumption, clock \in Nat, NEW e \in Int, InRange(e)
    PROVE  \/ e < clock /\ Bucket(e) = <<1, TVR_INDEX(clock)>>
           \/ e >= clock /\ e < clock + Span(0) /\ Bucket(e) = <<1, TVR_INDEX(e)>>
           \/ \E n \in 0 .. 3 : /\ Bucket(e) = <<n + 2, TVN_INDEX(e, n)>>
                                /\ clock + Span(n) <= e /\ e < clock + Span(n + 1)
<1>1. CASE e < clock
  BY <1>1 DEF Bucket
<1>2. CASE e >= clock /\ e - clock < Span(0)
  <2>1. Span(0) \in Nat
    BY Spans
  <2>2. Bucket(e) = <<1, TVR_INDEX(e)>>
    BY <1>2 DEF Bucket
  <2>. QED  BY <1>2, <2>1, <2>2
<1>3. CASE e >= clock /\ ~ (e - clock < Span(0))
  <2>. DEFINE P(i) == /\ e - clock < Span(i + 1)
                      /\ \A j \in 0 .. i - 1 : e - clock >= Span(j + 1)
              n == CHOOSE i \in 0 .. 3 : P(i)
  <2>1. Span(0) \in Nat /\ Span(1) \in Nat /\ Span(2) \in Nat /\ Span(3) \in Nat /\ Span(4) \in Nat
    BY Spans
  <2>2. \E i \in 0 .. 3 : P(i)
    <3>1. CASE e - clock < Span(1)
      <4>1. P(0)
        BY <3>1
      <4>. QED  BY <4>1
    <3>2. CASE e - clock >= Span(1) /\ e - clock < Span(2)
      <4>1. P(1)
        <5>1. \A j \in 0 .. 0 : j = 0
          OBVIOUS
        <5>. QED  BY <3>2, <5>1
      <4>. QED  BY <4>1
    <3>3. CASE e - clock >= Span(1) /\ e - clock >= Span(2) /\ e - clock < Span(3)
      <4>1. P(2)
        <5>1. \A j \in 0 .. 1 : j = 0 \/ j = 1
          OBVIOUS
        <5>. QED  BY <3>3, <5>1
      <4>. QED  BY <4>1
    <3>4. CASE /\ e - clock >= Span(1) /\ e - clock >= Span(2)
               /\ e - clock >= Span(3) /\ e - clock < Span(4)
      <4>1. P(3)
        <5>1. \A j \in 0 .. 2 : j = 0 \/ j = 1 \/ j = 2
          OBVIOUS
        <5>. QED  BY <3>4, <5>1
      <4>. QED  BY <4>1
    <3>. HIDE DEF P
    <3>. QED  BY <2>1, <3>1, <3>2, <3>3, <3>4 DEF InRange
  <2>3. n \in 0 .. 3 /\ P(n)
    <3>. HIDE DEF P
    <3>. QED  BY <2>2
  <2>4. Bucket(e) = <<n + 2, TVN_INDEX(e, n)>>
    BY <1>3 DEF Bucket
  <2>. HIDE DEF n
  <2>5. e - clock >= Span(n)
    <3>1. CASE n = 0
      BY <1>3, <2>1, <3>1
    <3>2. CASE n # 0
      <4>1. n - 1 \in 0 .. n - 1 /\ (n - 1) + 1 = n
        BY <2>3, <3>2
      <4>2. e - clock >= Span((n - 1) + 1)
        BY <2>3, <4>1
      <4>. QED  BY <4>1, <4>2
    <3>. QED  BY <3>1, <3>2
  <2>6. Span(n) \in Nat /\ Span(n + 1) \in Nat
    BY <2>3, Spans
  <2>7. clock + Span(n) <= e /\ e < clock + Span(n + 1)
    BY <2>3, <2>5, <2>6
  <2>. QED  BY <2>3, <2>4, <2>7
<1>. QED  BY <1>1, <1>2, <1>3

-----------------------------------------------------------------------------
(* The time at which timers fire.                                          *)

(* A set of natural numbers that is not empty has a least member.          *)
LEMMA LeastNat ==
    ASSUME NEW T, T \subseteq Nat, T # {}
    PROVE  \E x \in T : \A y \in T : x <= y
<1>1. PICK x \in T : \A y \in T : ~ (<<y, x>> \in OpToRel(<, Nat))
  BY NatLessThanWellFounded, WFMin, Zenon
<1>2. ASSUME NEW y \in T PROVE ~ (y < x)
  <2>1. y \in Nat /\ x \in Nat
    OBVIOUS
  <2>2. y < x => <<y, x>> \in OpToRel(<, Nat)
    BY <2>1, Zenon DEF OpToRel
  <2>. QED  BY <2>2, <1>1, Zenon
<1>3. ASSUME NEW y \in T PROVE x <= y
  <2>1. y \in Nat /\ x \in Nat /\ ~ (y < x)
    BY <1>2, Zenon
  <2>. QED  BY <2>1
<1>. QED  BY <1>3

(* What a step that leaves the clock and the workers alone keeps.          *)
LEMMA Keep ==
    ASSUME clock' = clock, pc' = pc, level' = level, tick' = tick,
           NEW t, due'[t] = due[t], expire'[t] = expire[t], NEW h, InTime(t, h)
    PROVE  InTime(t, h)'
<1>1. \A n \in 0 .. 3 : Cascaded(n)' = Cascaded(n)
  BY DEF Cascaded
<1>2. OnFirst(t, h) => OnFirst(t, h)'
  BY DEF OnFirst, TVR_INDEX, TVR_SIZE
<1>3. \A n \in 0 .. 3 : OnLevel(t, h, n) => OnLevel(t, h, n)'
  BY <1>1 DEF OnLevel, TVN_INDEX, TVN_SIZE, Slot, Span
<1>4. \A w \in Workers : OnChain(t, h, w) => OnChain(t, h, w)'
  BY DEF OnChain, Span, Chain
<1>5. \A w \in Workers : OnLocal(t, h, w) => OnLocal(t, h, w)'
  BY DEF OnLocal, Local
<1>. QED  BY <1>2, <1>3, <1>4, <1>5 DEF InTime

(* A list that no cell outside the timers points to has no timer.          *)
LEMMA EmptyHome ==
    ASSUME TimeWheelAssumption, TypeOK, Linked, NEW home, NEW rank \in [Timers -> Nat],
           Chained(home, rank), Taken(home), NEW h,
           h \in Cells \ Timers => at[h] = NULL,
           \A w \in Workers : h = Chain(w) => pc[w] = "readd" /\ chain[w] = NULL
    PROVE  \A t \in Timers : pprev[t] # NULL => home[t] # h
<1>. DEFINE In == {t \in Timers : pprev[t] # NULL /\ home[t] = h}
<1>. SUFFICES ASSUME In # {} PROVE FALSE
  OBVIOUS
<1>1. PICK t \in In : \A u \in In : rank[t] <= rank[u]
  <2>. DEFINE R == {rank[u] : u \in In}
  <2>1. R \subseteq Nat /\ R # {}
    OBVIOUS
  <2>2. PICK k \in R : \A m \in R : k <= m
    <3>. HIDE DEF R
    <3>. QED  BY <2>1, LeastNat, Zenon
  <2>. QED  BY <2>2
<1>2. t \in Timers /\ pprev[t] # NULL /\ home[t] = h
  OBVIOUS
<1>3. /\ at \in [Cells -> Timers \cup {NULL}] /\ pprev \in [Timers -> Cells \cup {NULL}]
  BY DEF TypeOK
<1>4. pprev[t] \in Cells
  BY <1>2, <1>3
<1>5. NULL \notin Timers /\ \A w \in Workers : Local(w) \in Cells \ Timers
  BY Places
<1>6. at[pprev[t]] = t \/ Moved(t)
  BY <1>2 DEF Linked
<1>7. ASSUME at[pprev[t]] = t PROVE FALSE
  <2>. DEFINE c == pprev[t]
  <2>1. CASE c \in Timers
    <3>1. home[c] = h /\ rank[c] < rank[t]
      BY <1>2, <1>4, <1>5, <1>7, <2>1 DEF Chained
    <3>2. pprev[c] # NULL
      BY <1>2, <1>5, <1>7, <2>1 DEF Linked
    <3>3. rank[t] <= rank[c]
      BY <1>1, <2>1, <3>1, <3>2
    <3>. QED  BY <1>2, <2>1, <3>1, <3>3
  <2>2. CASE c \notin Timers
    <3>1. home[t] = c
      BY <1>2, <1>4, <1>5, <1>7, <2>2 DEF Chained
    <3>. QED  BY <1>2, <1>4, <1>5, <1>7, <2>2, <3>1
  <2>. QED  BY <2>1, <2>2
<1>8. ASSUME NEW w \in Workers, pc[w] = "readd", chain[w] = t PROVE FALSE
  <2>1. home[t] = Chain(w)
    BY <1>2, <1>5, <1>8 DEF Taken
  <2>. QED  BY <1>2, <1>5, <1>8, <2>1
<1>9. ASSUME NEW w \in Workers, at[Local(w)] = t PROVE FALSE
  <2>1. home[t] = Local(w)
    BY <1>2, <1>5, <1>9 DEF Chained
  <2>. QED  BY <1>2, <1>5, <1>9, <2>1
<1>. QED  BY <1>6, <1>7, <1>8, <1>9 DEF Moved

(* A timer put in front of a bucket's list is in it, with the least rank.  *)
LEMMA InsertHome ==
    ASSUME TimeWheelAssumption, TypeOK, NEW t \in Timers, NEW b \in Wheel, Insert(t, b),
           \A c \in Cells : at[c] # t,
           NEW home \in [Timers -> Homes], NEW rank \in [Timers -> Nat], Chained(home, rank)
    PROVE  \E home2 \in [Timers -> Homes], rank2 \in [Timers -> Nat] :
              /\ Chained(home2, rank2)'
              /\ home2[t] = b /\ \A u \in Timers \ {t} : home2[u] = home[u]
<1>. DEFINE home2 == [u \in Timers |-> IF u = t THEN b ELSE home[u]]
            rank2 == [u \in Timers |-> IF u = t THEN 0 ELSE rank[u] + 1]
<1>1. home2 \in [Timers -> Homes] /\ rank2 \in [Timers -> Nat]
  BY DEF Homes
<1>2. /\ \A c \in Cells : at'[c] = IF c = b THEN t ELSE IF c = t THEN at[b] ELSE at[c]
      /\ at \in [Cells -> Timers \cup {NULL}]
  BY InsertCells DEF TypeOK
<1>3. b \in Cells \ Timers /\ t \in Cells /\ NULL \notin Timers /\ Timers \subseteq Cells
  BY Places
<1>4. ASSUME NEW c \in Cells, at'[c] # NULL
      PROVE  IF c \in Timers THEN home2[at'[c]] = home2[c] /\ rank2[c] < rank2[at'[c]]
             ELSE home2[at'[c]] = c
  <2>1. CASE c = b
    BY <1>2, <1>3, <2>1
  <2>2. CASE c = t
    <3>1. at'[c] = at[b] /\ at[b] \in Timers \ {t}
      BY <1>2, <1>3, <1>4, <2>2
    <3>2. home[at[b]] = b
      BY <1>3, <3>1 DEF Chained
    <3>. QED  BY <3>1, <3>2, <2>2, <1>3
  <2>3. CASE c # b /\ c # t
    <3>1. at'[c] = at[c] /\ at[c] \in Timers \ {t}
      BY <1>2, <1>3, <1>4, <2>3
    <3>2. IF c \in Timers THEN home[at[c]] = home[c] /\ rank[c] < rank[at[c]] ELSE home[at[c]] = c
      BY <1>3, <3>1 DEF Chained
    <3>. QED  BY <3>1, <3>2, <2>3
  <2>. QED  BY <2>1, <2>2, <2>3
<1>5. Chained(home2, rank2)'
  <2>. HIDE DEF home2, rank2
  <2>. QED  BY <1>4 DEF Chained, Cells, Wheel, TVR_SIZE, TVN_SIZE, Local
<1>6. home2[t] = b /\ \A u \in Timers \ {t} : home2[u] = home[u]
  OBVIOUS
<1>. HIDE DEF home2, rank2
<1>. QED  BY <1>1, <1>5, <1>6

(* The timer that twtimer_add puts into a wheel is there in time, whether  *)
(* that wheel has been cascaded at this tick or not.                       *)
LEMMA InsertInTime ==
    ASSUME TimeWheelAssumption, clock \in Nat, NEW t, NEW e \in Int, InRange(e),
           clock' = clock, expire'[t] = e, due'[t] = IF e < clock THEN clock ELSE e,
           NEW b, b = Bucket(e)
    PROVE  InTime(t, b)'
<1>1. CASE e < clock /\ Bucket(e) = <<1, TVR_INDEX(clock)>>
  <2>1. TVR_SIZE \in Nat \ {0}
    BY Spans
  <2>2. OnFirst(t, b)'
    BY <1>1, <2>1 DEF OnFirst, TVR_INDEX, TVR_SIZE
  <2>. QED  BY <2>2 DEF InTime
<1>2. CASE e >= clock /\ e < clock + Span(0) /\ Bucket(e) = <<1, TVR_INDEX(e)>>
  <2>1. TVR_SIZE \in Nat \ {0} /\ Span(0) = TVR_SIZE
    BY Spans
  <2>2. due'[t] = e
    BY <1>2
  <2>3. OnFirst(t, b)'
    BY <1>2, <2>1, <2>2 DEF OnFirst, TVR_INDEX, TVR_SIZE
  <2>. QED  BY <2>3 DEF InTime
<1>3. ASSUME NEW n \in 0 .. 3, Bucket(e) = <<n + 2, TVN_INDEX(e, n)>>,
             clock + Span(n) <= e, e < clock + Span(n + 1)
      PROVE  InTime(t, b)'
  <2>1. Span(n) \in Nat \ {0} /\ Span(n + 1) \in Nat \ {0}
    BY Spans
  <2>2. due'[t] = e
    BY <1>3, <2>1
  <2>3. n \in 0 .. 4
    OBVIOUS
  <2>4. Slot(e, n) \in Int /\ Slot(e, n) <= e /\ e < Slot(e, n) + Span(n)
    BY <2>3, SlotOf, Zenon
  <2>5. clock < Slot(e, n) /\ Slot(e, n) < clock + Span(n + 1)
    BY <1>3, <2>1, <2>4
  <2>6. clock <= Slot(e, n) /\ Slot(e, n) <= clock + Span(n + 1)
    BY <2>1, <2>4, <2>5
  <2>7. /\ Slot(e, n)' = Slot(e, n) /\ Span(n + 1)' = Span(n + 1)
        /\ TVN_INDEX(e, n)' = TVN_INDEX(e, n)
    BY DEF Slot, Span, TVN_INDEX, TVN_SIZE
  <2>8. OnLevel(t, b, n)'
    BY <1>3, <2>2, <2>5, <2>6, <2>7 DEF OnLevel
  <2>. QED  BY <2>8 DEF InTime
<1>. QED  BY <1>1, <1>2, <1>3, BucketIs

(* twtimer_start                                                           *)
LEMMA StartTime ==
    ASSUME TimeWheelAssumption, IInv, TInv, NEW t \in Timers, NEW d \in Delays, Start(t, d)
    PROVE  TInv'
<1>. DEFINE e == clock + d
<1>1. d \in Int /\ clock \in Nat /\ e \in Int /\ InRange(e)
  BY DEF Start, IInv, TypeOK, TimeWheelAssumption
<1>2. PICK b : b = Bucket(e)
  OBVIOUS
<1>3. b \in Wheel
  BY <1>1, <1>2, BucketType
<1>4. TypeOK /\ Linked /\ LockHeld
  BY DEF IInv
<1>5. /\ Insert(t, b) /\ pprev[t] = NULL /\ locker = NULL
      /\ pc' = pc /\ clock' = clock /\ level' = level /\ chain' = chain /\ tick' = tick
      /\ expire' = [expire EXCEPT ![t] = e]
      /\ due' = [due EXCEPT ![t] = IF d < 0 THEN clock ELSE e]
  BY <1>2 DEF Start, local
<1>6. \A c \in Cells : at[c] # t
  BY <1>4, <1>5 DEF Linked
<1>7. PICK home \in [Timers -> Homes], rank \in [Timers -> Nat] :
         Chained(home, rank) /\ Taken(home) /\ Timely(home)
  BY DEF TInv, OnTime
<1>8. PICK home2 \in [Timers -> Homes], rank2 \in [Timers -> Nat] :
         /\ Chained(home2, rank2)'
         /\ home2[t] = b /\ \A u \in Timers \ {t} : home2[u] = home[u]
  BY <1>3, <1>4, <1>5, <1>6, <1>7, InsertHome
<1>9. Taken(home2)'
  <2>1. \A w \in Workers : pc[w] # "readd"
    BY <1>4, <1>5, Places DEF LockHeld
  <2>. QED  BY <1>5, <2>1 DEF Taken
<1>10. /\ \A u \in Timers \ {t} : due'[u] = due[u] /\ expire'[u] = expire[u]
       /\ due'[t] = (IF d < 0 THEN clock ELSE e) /\ expire'[t] = e
  BY <1>4, <1>5 DEF TypeOK
<1>11. \A u \in Timers \ {t} : pprev'[u] # NULL <=> pprev[u] # NULL
  <2>1. \A p \in Timers : pprev'[p] = IF p = t THEN b ELSE IF p = at[b] THEN t ELSE pprev[p]
    BY <1>3, <1>4, <1>5, InsertCells
  <2>2. b \in Cells /\ b \notin Timers /\ NULL \notin Timers
    BY <1>3, Places
  <2>3. at[b] \in Timers => pprev[at[b]] # NULL
    BY <1>4, <2>2 DEF Linked
  <2>. QED  BY <2>1, <2>2, <2>3
<1>12. InTime(t, b)'
  <2>1. e < clock <=> d < 0
    BY <1>1
  <2>. HIDE DEF e
  <2>2. due'[t] = IF e < clock THEN clock ELSE e
    BY <2>1, <1>10
  <2>. QED  BY <1>1, <1>2, <1>5, <1>10, <2>2, InsertInTime
<1>13. Timely(home2)'
  <2>. SUFFICES ASSUME NEW u \in Timers, pprev'[u] # NULL PROVE InTime(u, home2[u])'
    BY DEF Timely
  <2>1. CASE u = t
    BY <2>1, <1>8, <1>12
  <2>2. CASE u # t
    <3>1. InTime(u, home[u])
      BY <1>7, <1>11, <2>2 DEF Timely
    <3>2. InTime(u, home[u])'
      BY <1>5, <1>10, <2>2, <3>1, Keep, Zenon
    <3>. QED  BY <3>2, <2>2, <1>8
  <2>. QED  BY <2>1, <2>2
<1>14. OnTime'
  <2>1. Homes' = Homes
    BY DEF Homes, Wheel, TVR_SIZE, TVN_SIZE, Local, Chain
  <2>. QED  BY <1>8, <1>9, <1>13, <2>1 DEF OnTime
<1>15. Turned'
  BY <1>5 DEF TInv, Turned, Span
<1>16. DueStarted'
  <2>1. pprev'[t] # NULL
    <3>1. pprev'[t] = b
      BY <1>3, <1>4, <1>5, InsertCells
    <3>. QED  BY <3>1, <1>3, Places
  <2>2. due'[t] # NotDue
    <3>1. e >= 0
      BY DEF Start
    <3>. QED  BY <1>1, <1>10, <3>1 DEF NotDue
  <2>. QED  BY <1>10, <1>11, <2>1, <2>2 DEF TInv, DueStarted, NotDue
<1>. QED  BY <1>14, <1>15, <1>16 DEF TInv

(* twtimer_stop: the list closes up around the timer.                      *)
LEMMA StopTime ==
    ASSUME TimeWheelAssumption, IInv, TInv, NEW t \in Timers, Stop(t)
    PROVE  TInv'
<1>1. TypeOK /\ Linked /\ LockHeld
  BY DEF IInv
<1>2. /\ locker = NULL /\ pc' = pc /\ clock' = clock /\ level' = level /\ chain' = chain /\ tick' = tick
      /\ expire' = [expire EXCEPT ![t] = 0] /\ due' = [due EXCEPT ![t] = NotDue]
      /\ at' = [c \in Cells |-> IF c = t THEN NULL ELSE IF c = pprev[t] THEN at[t] ELSE at[c]]
      /\ pprev' = [p \in Timers |-> IF p = t THEN NULL ELSE IF p = at[t] THEN pprev[t] ELSE pprev[p]]
  BY DEF Stop, local, Forget, Unlink
<1>3. /\ at \in [Cells -> Timers \cup {NULL}] /\ pprev \in [Timers -> Cells \cup {NULL}]
  BY <1>1 DEF TypeOK
<1>4. t \in Cells /\ NULL \notin Cells /\ NULL \notin Timers /\ Timers \subseteq Cells
  BY Places
<1>5. \A w \in Workers : pc[w] \notin {"readd", "trigger"}
  BY <1>1, <1>2, Places DEF LockHeld
<1>6. /\ \A c \in Cells : at[c] # NULL => pprev[at[c]] = c
      /\ \A p \in Timers : IF pprev[p] = NULL THEN at[p] = NULL ELSE at[pprev[p]] = p
  BY <1>1, <1>5 DEF Linked, Moved
<1>7. /\ \A c \in Cells : at'[c] = IF c = t THEN NULL ELSE IF c = pprev[t] THEN at[t] ELSE at[c]
      /\ \A p \in Timers : pprev'[p] = IF p = t THEN NULL ELSE IF p = at[t] THEN pprev[t] ELSE pprev[p]
  BY <1>2
<1>8. PICK home \in [Timers -> Homes], rank \in [Timers -> Nat] :
         Chained(home, rank) /\ Taken(home) /\ Timely(home)
  BY DEF TInv, OnTime
<1>9. Chained(home, rank)'
  <2>1. ASSUME NEW c \in Cells, at'[c] # NULL
        PROVE  IF c \in Timers THEN home[at'[c]] = home[c] /\ rank[c] < rank[at'[c]]
               ELSE home[at'[c]] = c
    <3>1. c # t
      BY <1>7, <2>1
    <3>2. CASE c = pprev[t]
      <4>1. at[c] = t /\ at'[c] = at[t] /\ at[t] \in Timers
        BY <1>3, <1>4, <1>6, <1>7, <2>1, <3>1, <3>2
      <4>2. home[at[t]] = home[t] /\ rank[t] < rank[at[t]]
        BY <1>4, <1>8, <4>1 DEF Chained
      <4>3. IF c \in Timers THEN home[t] = home[c] /\ rank[c] < rank[t] ELSE home[t] = c
        BY <1>4, <1>8, <4>1 DEF Chained
      <4>4. CASE c \in Timers
        <5>1. rank[c] \in Nat /\ rank[t] \in Nat /\ rank[at[t]] \in Nat
          BY <4>1, <4>4
        <5>. QED  BY <4>1, <4>2, <4>3, <4>4, <5>1
      <4>. QED  BY <4>1, <4>2, <4>3, <4>4
    <3>3. CASE c # pprev[t]
      <4>1. at'[c] = at[c]
        BY <1>7, <3>1, <3>3
      <4>. QED  BY <1>8, <2>1, <4>1 DEF Chained
    <3>. QED  BY <3>2, <3>3
  <2>. QED  BY <2>1 DEF Chained, Cells, Wheel, TVR_SIZE, TVN_SIZE, Local
<1>10. Taken(home)'
  BY <1>2, <1>5 DEF Taken
<1>11. \A u \in Timers \ {t} : due'[u] = due[u] /\ expire'[u] = expire[u]
  BY <1>1, <1>2 DEF TypeOK
<1>12. \A u \in Timers \ {t} : pprev'[u] # NULL <=> pprev[u] # NULL
  <2>1. at[t] \in Timers => pprev[at[t]] # NULL /\ pprev[t] # NULL
    BY <1>3, <1>4, <1>6
  <2>. QED  BY <1>3, <1>7, <2>1
<1>13. pprev'[t] = NULL
  BY <1>7
<1>14. Timely(home)'
  <2>. SUFFICES ASSUME NEW u \in Timers, pprev'[u] # NULL PROVE InTime(u, home[u])'
    BY DEF Timely
  <2>1. u # t
    BY <1>13
  <2>2. InTime(u, home[u])
    BY <1>8, <1>12, <2>1 DEF Timely
  <2>. QED  BY <1>2, <1>11, <2>1, <2>2, Keep, Zenon
<1>15. OnTime'
  <2>1. Homes' = Homes
    BY DEF Homes, Wheel, TVR_SIZE, TVN_SIZE, Local, Chain
  <2>. QED  BY <1>8, <1>9, <1>10, <1>14, <2>1 DEF OnTime
<1>16. Turned'
  BY <1>2 DEF TInv, Turned, Span
<1>17. DueStarted'
  <2>1. due'[t] = NotDue
    BY <1>1, <1>2 DEF TypeOK
  <2>. QED  BY <1>11, <1>12, <1>13, <2>1 DEF TInv, DueStarted, NotDue
<1>. QED  BY <1>15, <1>16, <1>17 DEF TInv

(* twtimer_cascade adds the first timer of its list again.                 *)
LEMMA AddTime ==
    ASSUME TimeWheelAssumption, IInv, TInv, NEW w \in Workers, CascadeAdd(w)
    PROVE  TInv'
<1>1. TypeOK /\ Linked /\ LockHeld
  BY DEF IInv
<1>2. PICK t : t = chain[w]
  OBVIOUS
<1>3. PICK e : e = expire[t]
  OBVIOUS
<1>4. PICK b : b = Bucket(e)
  OBVIOUS
<1>5. /\ pc[w] = "readd" /\ t # NULL /\ Insert(t, b) /\ chain' = [chain EXCEPT ![w] = at[t]]
      /\ clock' = clock /\ pc' = pc /\ expire' = expire /\ level' = level /\ tick' = tick /\ due' = due
  BY <1>2, <1>3, <1>4 DEF CascadeAdd
<1>6. /\ at \in [Cells -> Timers \cup {NULL}] /\ clock \in Nat /\ t \in Timers /\ e \in Int
      /\ chain \in [Workers -> Timers \cup {NULL}]
  BY <1>1, <1>2, <1>3, <1>5 DEF TypeOK
<1>7. pprev[t] # NULL /\ \A c \in Cells : at[c] # t
  BY <1>1, <1>2, <1>5 DEF Linked
<1>8. InRange(e)
  BY <1>1, <1>3, <1>6, <1>7 DEF Linked
<1>9. b \in Wheel
  BY <1>4, <1>6, <1>8, BucketType
<1>10. PICK home \in [Timers -> Homes], rank \in [Timers -> Nat] :
          Chained(home, rank) /\ Taken(home) /\ Timely(home)
  BY DEF TInv, OnTime
<1>11. PICK home2 \in [Timers -> Homes], rank2 \in [Timers -> Nat] :
          /\ Chained(home2, rank2)'
          /\ home2[t] = b /\ \A u \in Timers \ {t} : home2[u] = home[u]
  BY <1>1, <1>5, <1>6, <1>7, <1>9, <1>10, InsertHome
<1>12. t \in Cells /\ NULL \notin Timers
  BY <1>6, Places
<1>13. home[t] = Chain(w)
  BY <1>2, <1>5, <1>10 DEF Taken
<1>14. Taken(home2)'
  <2>. SUFFICES ASSUME NEW v \in Workers, pc'[v] = "readd", chain'[v] # NULL
                PROVE  home2[chain'[v]] = Chain(v)
    BY Zenon DEF Taken, Chain
  <2>1. v = w
    BY <1>1, <1>5, Alone
  <2>2. chain'[v] = at[t] /\ at[t] \in Timers \ {t}
    BY <1>5, <1>6, <1>7, <1>12, <2>1
  <2>3. home[at[t]] = home[t]
    BY <1>6, <1>10, <1>12, <2>2 DEF Chained
  <2>. QED  BY <1>11, <1>13, <2>1, <2>2, <2>3
<1>15. \A u \in Timers \ {t} : pprev'[u] # NULL <=> pprev[u] # NULL
  <2>1. \A p \in Timers : pprev'[p] = IF p = t THEN b ELSE IF p = at[b] THEN t ELSE pprev[p]
    BY <1>1, <1>5, <1>6, <1>9, InsertCells
  <2>2. b \in Cells /\ b \notin Timers /\ NULL \notin Timers
    BY <1>9, Places
  <2>3. at[b] \in Timers => pprev[at[b]] # NULL
    BY <1>1, <2>2 DEF Linked
  <2>. QED  BY <1>6, <2>1, <2>2, <2>3
<1>16. pprev'[t] # NULL
  <2>1. pprev'[t] = b
    BY <1>1, <1>5, <1>6, <1>9, InsertCells
  <2>. QED  BY <2>1, <1>9, Places
<1>17. InTime(t, b)'
  <2>1. PICK v \in Workers : OnChain(t, home[t], v)
    <3>1. InTime(t, home[t])
      BY <1>6, <1>7, <1>10 DEF Timely
    <3>2. /\ ~ OnFirst(t, Chain(w)) /\ \A n \in 0 .. 3 : ~ OnLevel(t, Chain(w), n)
          /\ \A v \in Workers : ~ OnLocal(t, Chain(w), v)
      BY DEF OnFirst, OnLevel, OnLocal, Chain, Local
    <3>. QED  BY <3>1, <3>2, <1>13 DEF InTime
  <2>2. due[t] = e /\ clock <= e
    BY <2>1, <1>3 DEF OnChain
  <2>3. due'[t] = IF e < clock THEN clock ELSE e
    BY <2>2, <1>5, <1>6
  <2>. QED  BY <1>3, <1>4, <1>5, <1>6, <1>8, <2>3, InsertInTime
<1>18. Timely(home2)'
  <2>. SUFFICES ASSUME NEW u \in Timers, pprev'[u] # NULL PROVE InTime(u, home2[u])'
    BY DEF Timely
  <2>1. CASE u = t
    BY <2>1, <1>11, <1>17
  <2>2. CASE u # t
    <3>1. InTime(u, home[u])
      BY <1>10, <1>15, <2>2 DEF Timely
    <3>2. InTime(u, home[u])'
      BY <1>5, <3>1, Keep
    <3>. QED  BY <3>2, <2>2, <1>11
  <2>. QED  BY <2>1, <2>2
<1>19. OnTime'
  <2>1. Homes' = Homes
    BY DEF Homes, Wheel, TVR_SIZE, TVN_SIZE, Local, Chain
  <2>. QED  BY <1>11, <1>14, <1>18, <2>1 DEF OnTime
<1>20. Turned'
  BY <1>5 DEF TInv, Turned, Span
<1>21. DueStarted'
  BY <1>5, <1>6, <1>7, <1>15, <1>16 DEF TInv, DueStarted, NotDue
<1>. QED  BY <1>19, <1>20, <1>21 DEF TInv
=============================================================================
