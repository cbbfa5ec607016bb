---------------------------- MODULE QueueProofs ----------------------------
(***************************************************************************)
(* For every number of threads, capacity and set of elements: the          *)
(* assertions of channel.c never fail, no semaphore token is lost, and     *)
(* elements leave in the order they entered.                               *)
(***************************************************************************)
EXTENDS Channel, FiniteSetTheorems, TLAPS

Labels == PushPC \cup PopPC

(* Sequences of one length that agree in every place are equal.             *)
LEMMA SeqEqual ==
    ASSUME NEW S, NEW s \in Seq(S), NEW t \in Seq(S), Len(s) = Len(t),
           \A i \in 1 .. Len(s) : s[i] = t[i]
    PROVE  s = t
<1>1. s \in [1 .. Len(s) -> S] /\ t \in [1 .. Len(s) -> S]
  OBVIOUS
<1>. QED  BY <1>1

(* The places of two sequences, one after the other.                        *)
LEMMA ConcatPlaces ==
    ASSUME NEW S, NEW s \in Seq(S), NEW t \in Seq(S)
    PROVE  /\ s \o t \in Seq(S) /\ Len(s \o t) = Len(s) + Len(t)
           /\ \A i \in 1 .. Len(s) + Len(t) :
                 (s \o t)[i] = IF i <= Len(s) THEN s[i] ELSE t[i - Len(s)]
OBVIOUS

(* One thread moving from one label to another moves one thread between    *)
(* the sets of threads at those labels, and touches no other set.          *)
LEMMA GotoCard ==
    ASSUME pc \in [Threads -> Labels], NEW t \in Threads,
           NEW from \in Labels, NEW to \in Labels, from # to, Goto(t, from, to)
    PROVE  /\ \A l \in Labels : Cardinality(In(l)) \in Nat
           /\ Cardinality(In(from)) >= 1
           /\ Cardinality(In(from))' = Cardinality(In(from)) - 1
           /\ Cardinality(In(to))' = Cardinality(In(to)) + 1
           /\ \A l \in Labels \ {from, to} : Cardinality(In(l))' = Cardinality(In(l))
<1>1. \A l \in Labels : IsFiniteSet(In(l)) /\ Cardinality(In(l)) \in Nat
  <2>1. IsFiniteSet(Threads)
    BY ChannelAssumption, FS_Union, Zenon DEF Threads
  <2>2. \A l \in Labels : In(l) \subseteq Threads
    BY DEF In
  <2>. QED  BY <2>1, <2>2, FS_Subset, FS_CardinalityType
<1>2. In(from)' = In(from) \ {t} /\ t \in In(from)
  BY DEF In, Goto
<1>3. In(to)' = In(to) \cup {t} /\ t \notin In(to)
  BY DEF In, Goto
<1>4. \A l \in Labels \ {from, to} : In(l)' = In(l)
  BY DEF In, Goto
<1>5. Cardinality(In(from) \ {t}) = Cardinality(In(from)) - 1
  BY <1>1, <1>2, FS_RemoveElement, Zenon
<1>6. Cardinality(In(to) \cup {t}) = Cardinality(In(to)) + 1
  BY <1>1, <1>3, FS_AddElement, Zenon
<1>7. Cardinality(In(from)) >= 1
  BY <1>1, <1>2, FS_EmptySet
<1>. QED  BY <1>1, <1>2, <1>3, <1>4, <1>5, <1>6, <1>7

-----------------------------------------------------------------------------
(* Every variable keeps its type: in particular offset never leaves the    *)
(* ring (channel.c:95) and neither semaphore's value becomes negative.     *)
THEOREM TypeCorrect == Spec => []TypeOK
<1>1. Init => TypeOK
  BY ChannelAssumption DEF Init, TypeOK, Threads, Slots, PushPC, PopPC
<1>2. TypeOK /\ [Next]_vars => TypeOK'
  <2>. SUFFICES ASSUME TypeOK, [Next]_vars  PROVE TypeOK'
    OBVIOUS
  <2>. USE ChannelAssumption DEF TypeOK, Threads, Slots, PushPC, PopPC, Goto, ring, hist
  <2>1. ASSUME NEW p \in Producers, NEW w \in {"push_wait", "push_timewait"}, PushCall(p, w)
        PROVE  TypeOK'
    BY <2>1 DEF PushCall
  <2>2. ASSUME NEW p \in Producers, PushExpire(p)  PROVE TypeOK'
    BY <2>2 DEF PushExpire
  <2>3. ASSUME NEW p \in Producers, PushTake(p)  PROVE TypeOK'
    <3>1. pc' = [pc EXCEPT ![p] = "push_locked"] /\ writer - 1 \in Nat
      BY <2>3 DEF PushTake
    <3>. QED  BY <2>3, <3>1 DEF PushTake
  <2>4. ASSUME NEW p \in Producers, PushStore(p)  PROVE TypeOK'
    BY <2>4 DEF PushStore
  <2>5. ASSUME NEW p \in Producers, PushPost(p)  PROVE TypeOK'
    BY <2>5 DEF PushPost
  <2>6. ASSUME NEW c \in Consumers, NEW w \in {"pop_wait", "pop_timewait"}, PopCall(c, w)
        PROVE  TypeOK'
    BY <2>6 DEF PopCall
  <2>7. ASSUME NEW c \in Consumers, PopExpire(c)  PROVE TypeOK'
    BY <2>7 DEF PopExpire
  <2>8. ASSUME NEW c \in Consumers, PopTake(c)  PROVE TypeOK'
    <3>1. pc' = [pc EXCEPT ![c] = "pop_locked"] /\ reader - 1 \in Nat
      BY <2>8 DEF PopTake
    <3>. QED  BY <2>8, <3>1 DEF PopTake
  <2>9. ASSUME NEW c \in Consumers, PopLoad(c)  PROVE TypeOK'
    <3>1. (offset + 1) % Capacity \in Slots
      OBVIOUS
    <3>. QED  BY <2>9, <3>1 DEF PopLoad
  <2>10. ASSUME NEW c \in Consumers, PopPost(c)  PROVE TypeOK'
    BY <2>10 DEF PopPost
  <2>11. CASE Destroy
    BY <2>11, Zenon DEF Destroy
  <2>12. CASE UNCHANGED vars
    BY <2>12 DEF vars
  <2>. QED
    BY <2>1, <2>2, <2>3, <2>4, <2>5, <2>6, <2>7, <2>8, <2>9, <2>10, <2>11, <2>12, Zenon
       DEF Next, PushStep, PopStep
<1>. QED  BY <1>1, <1>2, PTL DEF Spec

-----------------------------------------------------------------------------
(* No path through the calls, the expired waits included, leaks or forges  *)
(* a semaphore token, and count is what the tokens say.                    *)
THEOREM TokensAreConserved == Spec => []TokensConserved
<1>. USE ChannelAssumption
<1>1. Init => TokensConserved
  <2>. SUFFICES ASSUME Init  PROVE TokensConserved
    OBVIOUS
  <2>1. /\ In("push_locked") = {} /\ In("push_post") = {}
        /\ In("pop_locked") = {} /\ In("pop_post") = {}
    BY DEF Init, In
  <2>2. Cardinality({}) = 0
    BY FS_EmptySet
  <2>3. count = 0 /\ reader = 0 /\ writer = Capacity
    BY DEF Init
  <2>. QED  BY <2>1, <2>2, <2>3 DEF TokensConserved
<1>2. TypeOK /\ TokensConserved /\ [Next]_vars => TokensConserved'
  <2>. SUFFICES ASSUME TypeOK, TokensConserved, [Next]_vars  PROVE TokensConserved'
    OBVIOUS
  <2>. DEFINE PL == Cardinality(In("push_locked"))
              PP == Cardinality(In("push_post"))
              QL == Cardinality(In("pop_locked"))
              QP == Cardinality(In("pop_post"))
              TokenSum == /\ writer + reader + PL + PP + QL + QP = Capacity
                          /\ count = reader + PP + QL
  <2>. USE DEF ring, hist
  <2>00. /\ writer \in Nat /\ reader \in Nat /\ count \in Int
         /\ pc \in [Threads -> Labels]
         /\ TokenSum
    BY DEF TokensConserved, TypeOK, Labels
  <2>. SUFFICES TokenSum'
    BY DEF TokensConserved
  <2>0. ASSUME NEW t \in Threads, NEW from \in Labels, NEW to \in Labels, from # to,
               Goto(t, from, to)
        PROVE  /\ \A l \in Labels : Cardinality(In(l)) \in Nat
               /\ Cardinality(In(from)') = Cardinality(In(from)) - 1
               /\ Cardinality(In(to)') = Cardinality(In(to)) + 1
               /\ \A l \in Labels \ {from, to} : Cardinality(In(l)') = Cardinality(In(l))
    BY <2>0, <2>00, GotoCard
  <2>1. ASSUME NEW p \in Producers, NEW w \in {"push_wait", "push_timewait"}, PushCall(p, w)
        PROVE TokenSum'
    <3>1. Goto(p, "idle", w)
      BY <2>1 DEF PushCall
    <3>. QED  BY <2>00, <2>0, <2>1, <3>1 DEF PushCall, Labels, PushPC, PopPC, Threads
  <2>2. ASSUME NEW p \in Producers, PushExpire(p)  PROVE TokenSum'
    BY <2>00, <2>0, <2>2 DEF PushExpire, Labels, PushPC, PopPC, Threads
  <2>3. ASSUME NEW p \in Producers, PushTake(p)  PROVE TokenSum'
    <3>1. \E w \in {"push_wait", "push_timewait"} : Goto(p, w, "push_locked")
      BY <2>3 DEF PushTake
    <3>2. /\ PL' = PL + 1 /\ PP' = PP /\ QL' = QL /\ QP' = QP
          /\ PL \in Nat /\ PP \in Nat /\ QL \in Nat /\ QP \in Nat
      BY <2>0, <3>1 DEF Labels, PushPC, PopPC, Threads
    <3>. QED  BY <2>00, <2>3, <3>2 DEF PushTake
  <2>4. ASSUME NEW p \in Producers, PushStore(p)  PROVE TokenSum'
    <3>1. Goto(p, "push_locked", "push_post")
      BY <2>4 DEF PushStore
    <3>2. /\ PL' = PL - 1 /\ PP' = PP + 1 /\ QL' = QL /\ QP' = QP
          /\ PL \in Nat /\ PP \in Nat /\ QL \in Nat /\ QP \in Nat
      BY <2>0, <3>1 DEF Labels, PushPC, PopPC, Threads
    <3>3. count' = count + 1 /\ reader' = reader /\ writer' = writer
      BY <2>4 DEF PushStore
    <3>. QED  BY <2>00, <3>2, <3>3
  <2>5. ASSUME NEW p \in Producers, PushPost(p)  PROVE TokenSum'
    <3>1. Goto(p, "push_post", "idle")
      BY <2>5 DEF PushPost
    <3>2. /\ PL' = PL /\ PP' = PP - 1 /\ QL' = QL /\ QP' = QP
          /\ PL \in Nat /\ PP \in Nat /\ QL \in Nat /\ QP \in Nat
      BY <2>0, <3>1 DEF Labels, PushPC, PopPC, Threads
    <3>. QED  BY <2>00, <2>5, <3>2 DEF PushPost
  <2>6. ASSUME NEW c \in Consumers, NEW w \in {"pop_wait", "pop_timewait"}, PopCall(c, w)
        PROVE TokenSum'
    <3>1. Goto(c, "idle", w)
      BY <2>6 DEF PopCall
    <3>. QED  BY <2>00, <2>0, <2>6, <3>1 DEF PopCall, Labels, PushPC, PopPC, Threads
  <2>7. ASSUME NEW c \in Consumers, PopExpire(c)  PROVE TokenSum'
    BY <2>00, <2>0, <2>7 DEF PopExpire, Labels, PushPC, PopPC, Threads
  <2>8. ASSUME NEW c \in Consumers, PopTake(c)  PROVE TokenSum'
    <3>1. \E w \in {"pop_wait", "pop_timewait"} : Goto(c, w, "pop_locked")
      BY <2>8 DEF PopTake
    <3>2. /\ PL' = PL /\ PP' = PP /\ QL' = QL + 1 /\ QP' = QP
          /\ PL \in Nat /\ PP \in Nat /\ QL \in Nat /\ QP \in Nat
      BY <2>0, <3>1 DEF Labels, PushPC, PopPC, Threads
    <3>. QED  BY <2>00, <2>8, <3>2 DEF PopTake
  <2>9. ASSUME NEW c \in Consumers, PopLoad(c)  PROVE TokenSum'
    <3>1. Goto(c, "pop_locked", "pop_post")
      BY <2>9 DEF PopLoad
    <3>2. /\ PL' = PL /\ PP' = PP /\ QL' = QL - 1 /\ QP' = QP + 1
          /\ PL \in Nat /\ PP \in Nat /\ QL \in Nat /\ QP \in Nat
      BY <2>0, <3>1 DEF Labels, PushPC, PopPC, Threads
    <3>3. count' = count - 1 /\ reader' = reader /\ writer' = writer
      BY <2>9 DEF PopLoad
    <3>. QED  BY <2>00, <3>2, <3>3
  <2>10. ASSUME NEW c \in Consumers, PopPost(c)  PROVE TokenSum'
    <3>1. Goto(c, "pop_post", "idle")
      BY <2>10 DEF PopPost
    <3>2. /\ PL' = PL /\ PP' = PP /\ QL' = QL /\ QP' = QP - 1
          /\ PL \in Nat /\ PP \in Nat /\ QL \in Nat /\ QP \in Nat
      BY <2>0, <3>1 DEF Labels, PushPC, PopPC, Threads
    <3>. QED  BY <2>00, <2>10, <3>2 DEF PopPost
  <2>11. CASE Destroy
    BY <2>00, <2>11 DEF Destroy, In
  <2>12. CASE UNCHANGED vars
    BY <2>00, <2>12 DEF vars, In
  <2>. QED
    BY <2>1, <2>2, <2>3, <2>4, <2>5, <2>6, <2>7, <2>8, <2>9, <2>10, <2>11, <2>12
       DEF Next, PushStep, PopStep
<1>. QED  BY <1>1, <1>2, TypeCorrect, PTL DEF Spec

(* What the tokens imply for the ring: it is never over- or underfull, and *)
(* a thread that holds a token finds the slot or the element it stands for.*)
LEMMA TokensBound ==
    ASSUME TypeOK, TokensConserved
    PROVE  /\ count \in 0 .. Capacity
           /\ \A p \in Producers : pc[p] = "push_locked" => count < Capacity
           /\ \A c \in Consumers : pc[c] = "pop_locked" => count >= 1
<1>. DEFINE Card(l) == Cardinality(In(l))
<1>1. \A l \in Labels : IsFiniteSet(In(l)) /\ Card(l) \in Nat
  <2>1. IsFiniteSet(Threads)
    BY ChannelAssumption, FS_Union, Zenon DEF Threads
  <2>2. \A l \in Labels : In(l) \subseteq Threads
    BY DEF In
  <2>. QED  BY <2>1, <2>2, FS_Subset, FS_CardinalityType
<1>2. \A l \in Labels, t \in Threads : pc[t] = l => Card(l) >= 1
  BY <1>1, FS_EmptySet DEF In
<1>3. {"push_locked", "push_post", "pop_locked", "pop_post"} \subseteq Labels
  BY DEF Labels, PushPC, PopPC
<1>4. /\ writer \in Nat /\ reader \in Nat /\ count \in Int /\ Capacity \in Nat
      /\ Card("push_locked") \in Nat /\ Card("push_post") \in Nat
      /\ Card("pop_locked") \in Nat /\ Card("pop_post") \in Nat
  BY <1>1, <1>3, ChannelAssumption DEF TypeOK
<1>5. /\ writer + reader + Card("push_locked") + Card("push_post")
           + Card("pop_locked") + Card("pop_post") = Capacity
      /\ count = reader + Card("push_post") + Card("pop_locked")
  BY DEF TokensConserved
<1>6. /\ \A p \in Producers : pc[p] = "push_locked" => Card("push_locked") >= 1
      /\ \A c \in Consumers : pc[c] = "pop_locked" => Card("pop_locked") >= 1
  BY <1>2, <1>3 DEF Threads
<1>. HIDE DEF Card
<1>7. count \in 0 .. Capacity
  BY <1>4, <1>5
<1>8. ASSUME NEW p \in Producers, pc[p] = "push_locked"  PROVE count < Capacity
  BY <1>4, <1>5, <1>6, <1>8
<1>9. ASSUME NEW c \in Consumers, pc[c] = "pop_locked"  PROVE count >= 1
  BY <1>4, <1>5, <1>6, <1>9
<1>. QED  BY <1>7, <1>8, <1>9

(* The assertions at channel.c:79 and channel.c:96 never fail, for any     *)
(* number of producers and consumers and any capacity.                     *)
THEOREM AssertsNeverFail == Spec => []AssertsHold
<1>1. TypeOK /\ TokensConserved => AssertsHold
  BY TokensBound DEF AssertsHold, TypeOK
<1>. QED  BY <1>1, TypeCorrect, TokensAreConserved, PTL

-----------------------------------------------------------------------------
(* Where the ring's i-th element lies.                                     *)
LEMMA RingIndex ==
    ASSUME NEW a \in Slots, NEW i \in 0 .. Capacity
    PROVE  /\ (a + i) % Capacity \in Slots
           /\ (a + i) % Capacity = IF a + i < Capacity THEN a + i ELSE a + i - Capacity
<1>. USE ChannelAssumption DEF Slots
<1>1. CASE a + i < Capacity
  BY <1>1
<1>2. CASE a + i >= Capacity
  <2>1. (a + i) % Capacity = (a + i - Capacity) % Capacity
    OBVIOUS
  <2>. QED  BY <1>2, <2>1
<1>. QED  BY <1>1, <1>2

(* Two elements of the ring never share a slot.                            *)
LEMMA RingDistinct ==
    ASSUME NEW a \in Slots, NEW i \in 0 .. Capacity - 1, NEW j \in 0 .. Capacity - 1, i # j
    PROVE  (a + i) % Capacity # (a + j) % Capacity
<1>. DEFINE x == (a + i) % Capacity
            y == (a + j) % Capacity
<1>1. i \in 0 .. Capacity /\ j \in 0 .. Capacity
  BY ChannelAssumption
<1>2. x = IF a + i < Capacity THEN a + i ELSE a + i - Capacity
  BY <1>1, RingIndex
<1>3. y = IF a + j < Capacity THEN a + j ELSE a + j - Capacity
  BY <1>1, RingIndex
<1>. HIDE DEF x, y
<1>4. x # y
  BY <1>2, <1>3, ChannelAssumption DEF Slots
<1>. QED  BY <1>4 DEF x, y

(* Dropping the oldest element renumbers the others.                       *)
LEMMA RingShift ==
    ASSUME NEW a \in Slots, NEW i \in 0 .. Capacity - 1
    PROVE  (((a + 1) % Capacity) + i) % Capacity = (a + (i + 1)) % Capacity
<1>. DEFINE o == (a + 1) % Capacity
            x == (o + i) % Capacity
            y == (a + (i + 1)) % Capacity
<1>1. 1 \in 0 .. Capacity /\ i \in 0 .. Capacity /\ i + 1 \in 0 .. Capacity
  BY ChannelAssumption
<1>2. o \in Slots /\ o = IF a + 1 < Capacity THEN a + 1 ELSE a + 1 - Capacity
  BY <1>1, RingIndex
<1>3. y = IF a + (i + 1) < Capacity THEN a + (i + 1) ELSE a + (i + 1) - Capacity
  BY <1>1, RingIndex
<1>. HIDE DEF o
<1>4. x = IF o + i < Capacity THEN o + i ELSE o + i - Capacity
  BY <1>1, <1>2, RingIndex
<1>. HIDE DEF x, y
<1>5. x = y
  BY <1>2, <1>3, <1>4, ChannelAssumption DEF Slots
<1>. QED  BY <1>5 DEF o, x, y

(* FifoOrder, element by element: the form that is inductive.              *)
RingMatches ==
    /\ Len(pushed) = Len(popped) + count
    /\ \A i \in 1 .. Len(popped) : popped[i] = pushed[i]
    /\ \A i \in 0 .. count - 1 : ptr[(offset + i) % Capacity] = pushed[Len(popped) + i + 1]

(* push and pop move count, offset and one slot of the ring together, so   *)
(* that the ring stays the queue of what was pushed and not popped.        *)
LEMMA RingMatchesInductive ==
    ASSUME TypeOK, TokensConserved, RingMatches, [Next]_vars
    PROVE  RingMatches'
<1>. USE ChannelAssumption
<1>0. /\ count \in 0 .. Capacity /\ offset \in Slots
      /\ pushed \in Seq(Elements) /\ popped \in Seq(Elements)
      /\ ptr \in [Slots -> Elements] /\ e \in [Producers -> Elements]
  BY TokensBound DEF TypeOK
<1>1. ASSUME UNCHANGED <<ring, hist>>  PROVE RingMatches'
  BY <1>1 DEF RingMatches, ring, hist
<1>2. ASSUME NEW p \in Producers, PushStore(p)  PROVE RingMatches'
  <2>. DEFINE s == (offset + count) % Capacity
  <2>1. /\ ptr' = [ptr EXCEPT ![s] = e[p]] /\ count' = count + 1 /\ offset' = offset
        /\ pushed' = Append(pushed, e[p]) /\ popped' = popped
    BY <1>2 DEF PushStore
  <2>2. count < Capacity
    BY <1>2, TokensBound DEF PushStore, Goto
  <2>3. Len(pushed') = Len(pushed) + 1 /\ pushed'[Len(pushed) + 1] = e[p]
        /\ \A i \in 1 .. Len(pushed) : pushed'[i] = pushed[i]
    BY <1>0, <2>1
  <2>4. Len(pushed)' = Len(popped)' + count'
    BY <1>0, <2>1, <2>3 DEF RingMatches
  <2>5. \A i \in 1 .. Len(popped) : popped[i] = pushed'[i]
    BY <1>0, <2>1, <2>3 DEF RingMatches
  <2>6. ASSUME NEW i \in 0 .. count
        PROVE  ptr'[(offset + i) % Capacity] = pushed'[Len(popped) + i + 1]
    <3>1. s \in Slots /\ (offset + i) % Capacity \in Slots
      BY <1>0, <2>2, RingIndex
    <3>2. CASE i = count
      BY <1>0, <2>1, <2>3, <3>1, <3>2 DEF RingMatches
    <3>3. CASE i < count
      <4>1. (offset + i) % Capacity # s
        BY <1>0, <2>2, <3>3, RingDistinct
      <4>2. ptr'[(offset + i) % Capacity] = ptr[(offset + i) % Capacity]
        BY <1>0, <2>1, <3>1, <4>1
      <4>3. ptr[(offset + i) % Capacity] = pushed[Len(popped) + i + 1]
        BY <1>0, <3>3 DEF RingMatches
      <4>4. Len(popped) + i + 1 \in 1 .. Len(pushed)
        BY <1>0, <3>3 DEF RingMatches
      <4>. QED  BY <2>3, <4>2, <4>3, <4>4
    <3>. QED  BY <1>0, <3>2, <3>3
  <2>. QED  BY <1>0, <2>1, <2>4, <2>5, <2>6 DEF RingMatches
<1>3. ASSUME NEW c \in Consumers, PopLoad(c)  PROVE RingMatches'
  <2>1. /\ ptr' = ptr /\ count' = count - 1 /\ offset' = (offset + 1) % Capacity
        /\ pushed' = pushed /\ popped' = Append(popped, ptr[offset])
    BY <1>3 DEF PopLoad
  <2>2. count >= 1
    BY <1>3, TokensBound DEF PopLoad, Goto
  <2>3. Len(popped') = Len(popped) + 1 /\ popped'[Len(popped) + 1] = ptr[offset]
        /\ \A i \in 1 .. Len(popped) : popped'[i] = popped[i]
    BY <1>0, <2>1
  <2>4. ptr[offset] = pushed[Len(popped) + 1]
    <3>1. (offset + 0) % Capacity = offset
      BY <1>0 DEF Slots
    <3>2. ptr[(offset + 0) % Capacity] = pushed[Len(popped) + 0 + 1]
      BY <1>0, <2>2 DEF RingMatches
    <3>. QED  BY <1>0, <3>1, <3>2
  <2>5. Len(pushed)' = Len(popped)' + count'
    BY <1>0, <2>1, <2>3 DEF RingMatches
  <2>6. \A i \in 1 .. Len(popped) + 1 : popped'[i] = pushed[i]
    BY <1>0, <2>3, <2>4 DEF RingMatches
  <2>7. ASSUME NEW i \in 0 .. count - 2
        PROVE  ptr[(offset' + i) % Capacity] = pushed[Len(popped) + 1 + i + 1]
    <3>1. (offset' + i) % Capacity = (offset + (i + 1)) % Capacity
      BY <1>0, <2>1, RingShift
    <3>2. ptr[(offset + (i + 1)) % Capacity] = pushed[Len(popped) + (i + 1) + 1]
      BY <1>0 DEF RingMatches
    <3>. QED  BY <1>0, <3>1, <3>2
  <2>. QED  BY <1>0, <2>1, <2>3, <2>5, <2>6, <2>7 DEF RingMatches
<1>. QED
  BY <1>1, <1>2, <1>3
     DEF Next, PushStep, PopStep, PushCall, PushExpire, PushTake, PushPost,
         PopCall, PopExpire, PopTake, PopPost, Destroy, vars, ring, hist

(* Elements leave the channel in the order they entered it: what was       *)
(* popped, followed by the ring's contents, is what was pushed, for every  *)
(* number of threads, every capacity and every interleaving.               *)
THEOREM ElementsInOrder == Spec => []FifoOrder
<1>1. Init => RingMatches
  BY ChannelAssumption DEF Init, RingMatches
<1>2. TypeOK /\ TokensConserved /\ RingMatches /\ [Next]_vars => RingMatches'
  BY RingMatchesInductive
<1>3. TypeOK /\ TokensConserved /\ RingMatches => FifoOrder
  <2>. SUFFICES ASSUME TypeOK, TokensConserved, RingMatches  PROVE FifoOrder
    OBVIOUS
  <2>1. /\ count \in 0 .. Capacity /\ offset \in Slots
        /\ pushed \in Seq(Elements) /\ popped \in Seq(Elements)
        /\ ptr \in [Slots -> Elements]
    BY TokensBound DEF TypeOK
  <2>2. \A i \in 1 .. count : (offset + i - 1) % Capacity \in Slots
    BY <2>1, ChannelAssumption, RingIndex DEF Slots
  <2>3. Contents \in Seq(Elements) /\ Len(Contents) = count
    BY <2>1, <2>2 DEF Contents
  <2>4. \A i \in 1 .. count : Contents[i] = pushed[Len(popped) + i]
    <3>. SUFFICES ASSUME NEW i \in 1 .. count  PROVE Contents[i] = pushed[Len(popped) + i]
      OBVIOUS
    <3>1. i - 1 \in 0 .. count - 1 /\ offset + i - 1 = offset + (i - 1)
      BY <2>1 DEF Slots
    <3>2. ptr[(offset + (i - 1)) % Capacity] = pushed[Len(popped) + (i - 1) + 1]
      BY <3>1 DEF RingMatches
    <3>. QED  BY <2>1, <3>1, <3>2 DEF Contents
  <2>. HIDE DEF Contents
  <2>5. popped \o Contents \in Seq(Elements) /\ Len(popped \o Contents) = Len(pushed)
    BY <2>1, <2>3, ConcatPlaces, Zenon DEF RingMatches
  <2>6. \A i \in 1 .. Len(pushed) : (popped \o Contents)[i] = pushed[i]
    <3>. SUFFICES ASSUME NEW i \in 1 .. Len(pushed)  PROVE (popped \o Contents)[i] = pushed[i]
      BY Zenon
    <3>1. CASE i <= Len(popped)
      BY <2>1, <2>3, <3>1 DEF RingMatches
    <3>2. CASE i > Len(popped)
      <4>1. (popped \o Contents)[i] = Contents[i - Len(popped)]
        BY <2>1, <2>3, <3>2 DEF RingMatches
      <4>2. i - Len(popped) \in 1 .. count /\ Len(popped) + (i - Len(popped)) = i
        BY <2>1, <3>2 DEF RingMatches
      <4>. QED  BY <2>4, <4>1, <4>2
    <3>3. i <= Len(popped) \/ i > Len(popped)
      BY <2>1
    <3>. QED  BY <3>1, <3>2, <3>3, Zenon
  <2>7. popped \o Contents = pushed
    BY <2>1, <2>5, <2>6, SeqEqual, Zenon
  <2>. QED  BY <2>7 DEF FifoOrder
<1>. QED  BY <1>1, <1>2, <1>3, TypeCorrect, TokensAreConserved, PTL DEF Spec

-----------------------------------------------------------------------------
(* The refinement of BoundedFifo.                                          *)

(* channel_destroy is called when no thread is inside a call, and no call  *)
(* begins after it.                                                        *)
NoneInsideFreed == ~alive => \A t \in Threads : pc[t] = "idle"

(* channel_destroy and the calls' beginnings keep it: what channel_destroy *)
(* frees nobody is inside of.                                              *)
LEMMA NoneInsideFreedInductive ==
    ASSUME TypeOK, NoneInsideFreed, [Next]_vars
    PROVE  NoneInsideFreed'
<1>. USE DEF NoneInsideFreed, Threads
<1>1. pc \in [Threads -> Labels] /\ alive \in BOOLEAN
  BY DEF TypeOK, Labels
<1>2. ASSUME NEW p \in Producers, NEW w \in {"push_wait", "push_timewait"}, PushCall(p, w)
      PROVE  NoneInsideFreed'
  BY <1>2 DEF PushCall
<1>3. ASSUME NEW p \in Producers, PushExpire(p) \/ PushStep(p)  PROVE NoneInsideFreed'
  BY <1>1, <1>3 DEF PushExpire, PushStep, PushTake, PushStore, PushPost, Goto
<1>4. ASSUME NEW c \in Consumers, NEW w \in {"pop_wait", "pop_timewait"}, PopCall(c, w)
      PROVE  NoneInsideFreed'
  BY <1>4 DEF PopCall
<1>5. ASSUME NEW c \in Consumers, PopExpire(c) \/ PopStep(c)  PROVE NoneInsideFreed'
  BY <1>1, <1>5 DEF PopExpire, PopStep, PopTake, PopLoad, PopPost, Goto
<1>6. CASE Destroy
  BY <1>6 DEF Destroy
<1>7. CASE UNCHANGED vars
  BY <1>7 DEF vars
<1>. QED  BY <1>2, <1>3, <1>4, <1>5, <1>6, <1>7 DEF Next

(* The contents are a sequence of count elements.                          *)
LEMMA ContentsSeq ==
    ASSUME count \in 0 .. Capacity, offset \in Slots, ptr \in [Slots -> Elements]
    PROVE  /\ Contents \in Seq(Elements) /\ Len(Contents) = count
           /\ \A i \in 1 .. count : /\ (offset + (i - 1)) % Capacity \in Slots
                                    /\ Contents[i] = ptr[(offset + (i - 1)) % Capacity]
<1>1. \A i \in 1 .. count : /\ (offset + (i - 1)) % Capacity \in Slots
                            /\ offset + i - 1 = offset + (i - 1)
  BY ChannelAssumption, RingIndex DEF Slots
<1>2. Contents = [i \in 1 .. count |-> ptr[(offset + (i - 1)) % Capacity]]
  BY <1>1 DEF Contents
<1>. QED  BY <1>1, <1>2

(* A push stores behind the newest element.                                *)
LEMMA PushAppends ==
    ASSUME TypeOK, TokensConserved, NEW p \in Producers, PushStore(p)
    PROVE  /\ Contents' = Append(Contents, e[p]) /\ e[p] \in Elements
           /\ Len(Contents) < Capacity
<1>. DEFINE s == (offset + count) % Capacity
<1>1. /\ count \in 0 .. Capacity /\ offset \in Slots /\ count < Capacity
      /\ ptr \in [Slots -> Elements] /\ e[p] \in Elements /\ Capacity \in Nat
  BY TokensBound, ChannelAssumption DEF TypeOK, PushStore, Goto
<1>2. ptr' = [ptr EXCEPT ![s] = e[p]] /\ count' = count + 1 /\ offset' = offset
  BY DEF PushStore
<1>3. s \in Slots
  BY <1>1, RingIndex
<1>4. count' \in 0 .. Capacity /\ offset' \in Slots /\ ptr' \in [Slots -> Elements]
  BY <1>1, <1>2, <1>3
<1>5. /\ Contents \in Seq(Elements) /\ Len(Contents) = count
      /\ \A i \in 1 .. count : /\ (offset + (i - 1)) % Capacity \in Slots
                               /\ Contents[i] = ptr[(offset + (i - 1)) % Capacity]
  BY <1>1, ContentsSeq
<1>6. /\ Contents' \in Seq(Elements) /\ Len(Contents') = count + 1
      /\ \A i \in 1 .. count + 1 : Contents'[i] = ptr'[(offset + (i - 1)) % Capacity]
  <2>1. /\ Contents' = [i \in 1 .. count' |-> ptr'[(offset' + i - 1) % Capacity]]
        /\ \A i \in 1 .. count + 1 : offset + i - 1 = offset + (i - 1)
        /\ \A i \in 1 .. count + 1 : (offset + (i - 1)) % Capacity \in Slots
    BY <1>1, RingIndex DEF Contents, Slots
  <2>. QED  BY <1>1, <1>2, <1>4, <2>1
<1>7. Append(Contents, e[p]) \in Seq(Elements) /\ Len(Append(Contents, e[p])) = count + 1
  BY <1>1, <1>5
<1>8. ASSUME NEW i \in 1 .. count + 1  PROVE Contents'[i] = Append(Contents, e[p])[i]
  <2>1. CASE i = count + 1
    <3>1. (offset + (i - 1)) % Capacity = s
      BY <1>1, <2>1
    <3>. QED  BY <1>1, <1>2, <1>3, <1>5, <1>6, <2>1, <3>1
  <2>2. CASE i # count + 1
    <3>1. i \in 1 .. count /\ i - 1 \in 0 .. Capacity - 1 /\ count \in 0 .. Capacity - 1 /\ i - 1 # count
      BY <1>1, <2>2
    <3>2. (offset + (i - 1)) % Capacity # s
      BY <1>1, <3>1, RingDistinct
    <3>3. Contents'[i] = ptr[(offset + (i - 1)) % Capacity]
      BY <1>1, <1>2, <1>3, <1>5, <1>6, <3>1, <3>2
    <3>. QED  BY <1>5, <3>1, <3>3
  <2>. QED  BY <2>1, <2>2, Zenon
<1>9. Contents' = Append(Contents, e[p])
  BY <1>6, <1>7, <1>8, SeqEqual
<1>. QED  BY <1>1, <1>5, <1>9

(* A pop takes the oldest element and leaves the others as they were.      *)
LEMMA PopTakesHead ==
    ASSUME TypeOK, TokensConserved, NEW c \in Consumers, PopLoad(c)
    PROVE  /\ Contents # << >> /\ Contents' = Tail(Contents)
           /\ popped' = Append(popped, Head(Contents))
<1>1. /\ count \in 0 .. Capacity /\ offset \in Slots /\ count >= 1
      /\ ptr \in [Slots -> Elements] /\ Capacity \in Nat \ {0}
  BY TokensBound, ChannelAssumption DEF TypeOK, PopLoad, Goto
<1>2. /\ ptr' = ptr /\ count' = count - 1 /\ offset' = (offset + 1) % Capacity
      /\ popped' = Append(popped, ptr[offset])
  BY DEF PopLoad
<1>3. offset' \in Slots
  BY <1>1, <1>2, RingIndex
<1>4. /\ Contents \in Seq(Elements) /\ Len(Contents) = count
      /\ \A i \in 1 .. count : /\ (offset + (i - 1)) % Capacity \in Slots
                               /\ Contents[i] = ptr[(offset + (i - 1)) % Capacity]
  BY <1>1, ContentsSeq
<1>5. /\ Contents' \in Seq(Elements) /\ Len(Contents') = count - 1
      /\ \A i \in 1 .. count - 1 : Contents'[i] = ptr[(offset' + (i - 1)) % Capacity]
  <2>1. Contents' = [i \in 1 .. count' |-> ptr'[(offset' + i - 1) % Capacity]]
    BY DEF Contents
  <2>2. \A i \in 1 .. count - 1 : offset' + i - 1 = offset' + (i - 1) /\ i - 1 \in 0 .. Capacity
    BY <1>1, <1>3 DEF Slots
  <2>3. \A i \in 1 .. count - 1 : (offset' + (i - 1)) % Capacity \in Slots
    BY <1>3, <2>2, RingIndex
  <2>. QED  BY <1>1, <1>2, <2>1, <2>2, <2>3
<1>6. Contents # << >> /\ Head(Contents) = ptr[offset]
  <2>1. (offset + (1 - 1)) % Capacity = offset
    BY <1>1 DEF Slots
  <2>2. Contents[1] = ptr[(offset + (1 - 1)) % Capacity]
    BY <1>1, <1>4
  <2>. QED  BY <1>1, <1>4, <2>1, <2>2
<1>7. /\ Tail(Contents) \in Seq(Elements) /\ Len(Tail(Contents)) = count - 1
      /\ \A i \in 1 .. count - 1 : Tail(Contents)[i] = Contents[i + 1]
  BY <1>1, <1>4, <1>6
<1>8. ASSUME NEW i \in 1 .. count - 1  PROVE Contents'[i] = Tail(Contents)[i]
  <2>1. i - 1 \in 0 .. Capacity - 1 /\ i + 1 \in 1 .. count /\ (i + 1) - 1 = (i - 1) + 1
    BY <1>1
  <2>2. (offset' + (i - 1)) % Capacity = (offset + ((i - 1) + 1)) % Capacity
    BY <1>1, <1>2, <2>1, RingShift
  <2>3. Contents[i + 1] = ptr[(offset + ((i - 1) + 1)) % Capacity]
    BY <1>4, <2>1
  <2>. QED  BY <1>5, <1>7, <2>2, <2>3
<1>9. Contents' = Tail(Contents)
  BY <1>5, <1>7, <1>8, SeqEqual
<1>. QED  BY <1>2, <1>6, <1>9

(* channel.c implements a bounded FIFO queue: the store of channel_push    *)
(* puts one element behind the others when there is room, the load of      *)
(* channel_pop gets the oldest, channel_destroy closes an open queue, and  *)
(* every other step of every thread is invisible.  (That an element is     *)
(* eventually got is left to the model checker: ImplementsFifo.)           *)
THEOREM RefinesFifo == Spec => Fifo!Safety
<1>1. Init => NoneInsideFreed /\ Fifo!Init
  <2>. SUFFICES ASSUME Init  PROVE NoneInsideFreed /\ Fifo!Init
    OBVIOUS
  <2>1. Contents = << >>
    BY DEF Init, Contents
  <2>. QED  BY <2>1 DEF Init, NoneInsideFreed, Fifo!Init
<1>2. TypeOK /\ NoneInsideFreed /\ [Next]_vars => NoneInsideFreed'
  BY NoneInsideFreedInductive
<1>3. TypeOK /\ TokensConserved /\ NoneInsideFreed /\ [Next]_vars => [Fifo!Next]_(Fifo!vars)
  <2>. SUFFICES ASSUME TypeOK, TokensConserved, NoneInsideFreed, [Next]_vars
                PROVE  [Fifo!Next]_(Fifo!vars)
    OBVIOUS
  <2>1. ASSUME UNCHANGED <<ring, hist, alive>>  PROVE UNCHANGED Fifo!vars
    BY <2>1 DEF ring, hist, Fifo!vars, Contents
  <2>2. ASSUME NEW p \in Producers, PushStore(p)  PROVE Fifo!Next
    <3>1. /\ Contents' = Append(Contents, e[p]) /\ e[p] \in Elements
          /\ Len(Contents) < Capacity
      BY <2>2, PushAppends
    <3>2. pushed' = Append(pushed, e[p]) /\ UNCHANGED <<popped, alive>>
      BY <2>2 DEF PushStore
    <3>3. alive
      BY <2>2 DEF PushStore, Goto, NoneInsideFreed, Threads
    <3>. HIDE DEF Contents
    <3>4. Fifo!Put(e[p])
      BY <3>1, <3>2, <3>3 DEF Fifo!Put
    <3>. QED  BY <3>1, <3>4 DEF Fifo!Next
  <2>3. ASSUME NEW c \in Consumers, PopLoad(c)  PROVE Fifo!Next
    <3>1. /\ Contents # << >> /\ Contents' = Tail(Contents)
          /\ popped' = Append(popped, Head(Contents))
      BY <2>3, PopTakesHead
    <3>2. UNCHANGED <<pushed, alive>>
      BY <2>3 DEF PopLoad
    <3>3. alive
      BY <2>3 DEF PopLoad, Goto, NoneInsideFreed, Threads
    <3>4. Fifo!Get
      BY <3>1, <3>2, <3>3 DEF Fifo!Get
    <3>. QED  BY <3>4 DEF Fifo!Next
  <2>4. CASE Destroy
    <3>1. alive /\ alive' = FALSE /\ UNCHANGED <<count, offset, ptr, pushed, popped>>
      BY <2>4 DEF Destroy, ring, hist
    <3>2. Fifo!Close
      BY <3>1 DEF Fifo!Close, Contents
    <3>. QED  BY <3>2 DEF Fifo!Next
  <2>. QED
    BY <2>1, <2>2, <2>3, <2>4
       DEF Next, PushStep, PopStep, PushCall, PushExpire, PushTake, PushPost,
           PopCall, PopExpire, PopTake, PopPost, vars, ring, hist
<1>. QED
  BY <1>1, <1>2, <1>3, TypeCorrect, TokensAreConserved, PTL DEF Spec, Fifo!Safety

-----------------------------------------------------------------------------
(***************************************************************************)
(* Fifo, for every word width and every size: one producer and one         *)
(* consumer need no lock.                                                  *)
(***************************************************************************)
CONSTANTS Word, Sizes, MaxBatch, MaxIn

VARIABLES in, out, mask, data, ppc, pn, cpc, cn, buf, produced, received

FI == INSTANCE Fifo

(* The indices are the numbers of elements stored and taken out, wrapped;  *)
(* what is stored and not taken out is in the ring, each element in the    *)
(* slot of its number, and neither side has claimed more than there is.    *)
Ring ==
    /\ in = produced % Word /\ out = received % Word
    /\ received <= produced /\ produced <= received + FI!Size
    /\ data = << >> => ppc = "idle" /\ cpc = "idle" /\ produced = 0 /\ received = 0
    /\ data # << >> => /\ FI!Size \in FI!Powers /\ data \in [0 .. mask -> Int]
                       /\ \A el \in received .. produced - 1 : data[el % FI!Size] = el

Claims ==
    /\ ppc # "idle" => produced + pn <= received + FI!Size /\ produced + pn <= MaxIn
    /\ ppc = "publish" => \A el \in produced .. (produced + pn) - 1 : data[el % FI!Size] = el
    /\ cpc # "idle" => received + cn <= produced
    /\ cpc = "advance" => FI!OutInOrder

RingInv == FI!TypeOK /\ Ring /\ Claims
-----------------------------------------------------------------------------
(* Remainders: what the free running indices and the mask rest on.         *)

(* A remainder is less than the divisor, and the rest is a multiple.       *)
LEMMA Division ==
    ASSUME NEW m \in Nat \ {0}, NEW x \in Nat
    PROVE  x % m \in 0 .. m - 1 /\ \E q \in Int : x = (m * q) + (x % m)
<1>1. x = (m * (x \div m)) + (x % m) /\ x \div m \in Int
  OBVIOUS
<1>2. x % m \in 0 .. m - 1
  OBVIOUS
<1>. QED  BY <1>1, <1>2, Zenon

(* Nothing between 0 and a number is a multiple of it.                     *)
LEMMA NoMultiple ==
    ASSUME NEW m \in Nat \ {0}, NEW n \in Int, -m < m * n, m * n < m  PROVE n = 0
<1>1. CASE n <= -1
  BY <1>1, SMTT(30)
<1>2. CASE n >= 1
  BY <1>2, SMTT(30)
<1>. QED  BY <1>1, <1>2

(* Numbers that differ by a multiple have the same remainder.              *)
LEMMA Congruent ==
    ASSUME NEW m \in Nat \ {0}, NEW x \in Nat, NEW y \in Nat, NEW n \in Int, x = y + (m * n)
    PROVE  x % m = y % m
<1>1. PICK p \in Int : x = (m * p) + (x % m)
  BY Division, Zenon
<1>2. PICK q \in Int : y = (m * q) + (y % m)
  BY Division, Zenon
<1>3. x % m \in 0 .. m - 1 /\ y % m \in 0 .. m - 1
  BY Division
<1>. DEFINE d == (q + n) - p
            a == x % m
            b == y % m
<1>4. d \in Int
  OBVIOUS
<1>5. a - b = m * d
  <2>1. m * d = ((m * q) + (m * n)) - (m * p)
    OBVIOUS
  <2>2. a \in Int /\ b \in Int /\ m * p \in Int /\ m * q \in Int /\ m * n \in Int
    BY <1>3
  <2>. HIDE DEF a, b, d
  <2>. QED  BY <1>1, <1>2, <2>1, <2>2 DEF a, b
<1>6. -m < m * d /\ m * d < m
  <2>. HIDE DEF d
  <2>. QED  BY <1>3, <1>4, <1>5
<1>7. d = 0
  <2>. HIDE DEF d
  <2>. QED  BY <1>4, <1>6, NoMultiple
<1>8. a = b
  <2>. HIDE DEF d
  <2>. QED  BY <1>3, <1>5, <1>7
<1>. QED  BY <1>8

(* Different numbers less than a divisor apart have different remainders.  *)
LEMMA Apart ==
    ASSUME NEW m \in Nat \ {0}, NEW x \in Nat, NEW y \in Nat, x % m = y % m, -m < x - y, x - y < m
    PROVE  x = y
<1>1. PICK p \in Int : x = (m * p) + (x % m)
  BY Division, Zenon
<1>2. PICK q \in Int : y = (m * q) + (y % m)
  BY Division, Zenon
<1>. DEFINE d == p - q
<1>3. d \in Int /\ x - y = m * d
  BY <1>1, <1>2, Division
<1>. HIDE DEF d
<1>4. d = 0
  BY <1>3, NoMultiple
<1>. QED  BY <1>3, <1>4

(* A size that fifo_alloc takes divides the word, so that the wrapping of  *)
(* an index moves no slot.                                                 *)
LEMMA WrapKeepsSlot ==
    ASSUME FI!FifoAssumption, NEW n \in FI!Powers, NEW x \in Nat, NEW j \in Nat
    PROVE  n \in Nat \ {0} /\ n < Word /\ ((x % Word) + j) % n = (x + j) % n
<1>1. n \in Nat \ {0} /\ n < Word /\ Word \in Nat \ {0} /\ Word % n = 0
  BY DEF FI!FifoAssumption, FI!Powers
<1>2. PICK k \in Int : Word = (n * k) + (Word % n)
  BY <1>1, Division, Zenon
<1>3. PICK q \in Int : x = (Word * q) + (x % Word)
  BY <1>1, Division, Zenon
<1>4. x % Word \in Nat
  BY <1>1, Division
<1>. DEFINE a == x % Word
            d == k * q
<1>5. d \in Int /\ Word * q = n * d
  BY <1>1, <1>2
<1>. HIDE DEF a, d
<1>6. x + j = (a + j) + (n * d)
  BY <1>1, <1>3, <1>4, <1>5 DEF a
<1>7. x + j \in Nat /\ a + j \in Nat
  BY <1>4 DEF a
<1>8. (x + j) % n = (a + j) % n
  <2>. DEFINE y == x + j
              z == a + j
  <2>1. y \in Nat /\ z \in Nat /\ n \in Nat \ {0} /\ d \in Int /\ y = z + (n * d)
    BY <1>1, <1>5, <1>6, <1>7
  <2>. HIDE DEF y, z
  <2>2. y % n = z % n
    BY <2>1, Congruent, Zenon
  <2>. QED  BY <2>2 DEF y, z
<1>. QED  BY <1>1, <1>8 DEF a

(* The difference of the indices is the number of elements in the ring.    *)
LEMMA Difference ==
    ASSUME FI!FifoAssumption, NEW p \in Nat, NEW c \in Nat, c <= p, p - c < Word
    PROVE  FI!Minus(p % Word, c % Word) = p - c
<1>0. Word \in Nat \ {0}
  BY DEF FI!FifoAssumption
<1>1. PICK i \in Int : p = (Word * i) + (p % Word)
  BY <1>0, Division, Zenon
<1>2. PICK j \in Int : c = (Word * j) + (c % Word)
  BY <1>0, Division, Zenon
<1>3. p % Word \in 0 .. Word - 1 /\ c % Word \in 0 .. Word - 1
  BY <1>0, Division
<1>. DEFINE a == p % Word
            b == c % Word
            d == (1 + j) - i
<1>4. d \in Int
  OBVIOUS
<1>5. a + (Word - b) = (p - c) + (Word * d)
  BY <1>0, <1>1, <1>2, <1>3
<1>. HIDE DEF a, b, d
<1>6. a + (Word - b) \in Nat /\ p - c \in Nat
  BY <1>0, <1>3 DEF a, b
<1>7. (a + (Word - b)) % Word = (p - c) % Word
  BY <1>0, <1>4, <1>5, <1>6, Congruent, Zenon
<1>8. (p - c) % Word = p - c
  BY <1>0, <1>6
<1>9. FI!Minus(a, b) = (a + (Word - b)) % Word
  BY DEF FI!Minus
<1>. QED  BY <1>7, <1>8, <1>9, Zenon DEF a, b

(* fifo_unused is the room in the ring.                                    *)
LEMMA Unused ==
    ASSUME FI!FifoAssumption, NEW s \in Nat, NEW u \in 0 .. s, s < Word  PROVE FI!Minus(s, u) = s - u
<1>0. Word \in Nat \ {0}
  BY DEF FI!FifoAssumption
<1>1. s + (Word - u) = (s - u) + (Word * 1) /\ s - u \in Nat /\ s + (Word - u) \in Nat
  BY <1>0
<1>2. (s + (Word - u)) % Word = (s - u) % Word
  BY <1>0, <1>1, Congruent
<1>3. (s - u) % Word = s - u
  BY <1>0, <1>1
<1>4. FI!Minus(s, u) = (s + (Word - u)) % Word
  BY DEF FI!Minus
<1>. QED  BY <1>2, <1>3, <1>4, Zenon

(* The number that fifo_copy_in gives a slot: the slot of element p + d,   *)
(* or of one a whole ring before it, is number d from the index.           *)
LEMMA SlotNumber ==
    ASSUME FI!FifoAssumption, NEW n \in FI!Powers, NEW p \in Nat, NEW d \in 0 .. n - 1, NEW el \in Nat,
           el = p + d \/ el = (p + d) - n
    PROVE  (((el % n) + n) - ((p % Word) % n)) % n = d
<1>0. n \in Nat \ {0} /\ ((p % Word) + 0) % n = (p + 0) % n
  BY WrapKeepsSlot
<1>1. p % Word \in Nat
  BY Division DEF FI!FifoAssumption
<1>2. (p % Word) % n = p % n
  BY <1>0, <1>1
<1>3. PICK i \in Int : el = (n * i) + (el % n)
  BY <1>0, Division, Zenon
<1>4. PICK j \in Int : p = (n * j) + (p % n)
  BY <1>0, Division, Zenon
<1>5. el % n \in 0 .. n - 1 /\ p % n \in 0 .. n - 1
  BY <1>0, Division, Zenon
<1>. DEFINE a == el % n
            b == p % n
            m == IF el = p + d THEN (j - i) + 1 ELSE j - i
<1>6. m \in Int
  OBVIOUS
<1>7. (a + n) - b = d + (n * m)
  <2>1. n * m = IF el = p + d THEN ((n * j) - (n * i)) + n ELSE (n * j) - (n * i)
    BY <1>0
  <2>2. a \in Int /\ b \in Int /\ n * i \in Int /\ n * j \in Int
    BY <1>0, <1>5
  <2>. HIDE DEF a, b, m
  <2>3. el = (n * i) + a /\ p = (n * j) + b
    BY <1>3, <1>4 DEF a, b
  <2>4. CASE el = p + d
    BY <1>0, <2>1, <2>2, <2>3, <2>4
  <2>5. CASE el = (p + d) - n
    <3>1. el # p + d
      BY <1>0, <2>5
    <3>. QED  BY <1>0, <2>1, <2>2, <2>3, <2>5, <3>1
  <2>. QED  BY <2>4, <2>5
<1>. HIDE DEF a, b, m
<1>8. (a + n) - b \in Nat /\ d \in Nat
  BY <1>0, <1>5 DEF a, b
<1>9. ((a + n) - b) % n = d % n
  BY <1>0, <1>6, <1>7, <1>8, Congruent, Zenon
<1>10. d % n = d
  BY <1>0
<1>. QED  BY <1>2, <1>9, <1>10 DEF a, b
(* An index that moves by n stays the number of elements, wrapped.         *)
LEMMA IndexMoves ==
    ASSUME FI!FifoAssumption, NEW x \in Nat, NEW n \in Nat  PROVE ((x % Word) + n) % Word = (x + n) % Word
<1>0. Word \in Nat \ {0}
  BY DEF FI!FifoAssumption
<1>1. PICK q \in Int : x = (Word * q) + (x % Word)
  BY <1>0, Division, Zenon
<1>2. x % Word \in Nat
  BY <1>0, Division
<1>. DEFINE y == x + n
            z == (x % Word) + n
<1>3. y \in Nat /\ z \in Nat /\ y = z + (Word * q)
  BY <1>0, <1>1, <1>2
<1>. HIDE DEF y, z
<1>4. y % Word = z % Word
  BY <1>0, <1>3, Congruent, Zenon
<1>. QED  BY <1>4 DEF y, z

-----------------------------------------------------------------------------
(* What the invariant says of a ring in use.                               *)
LEMMA InUse ==
    ASSUME FI!FifoAssumption, RingInv, data # << >>
    PROVE  /\ FI!Size \in FI!Powers /\ FI!Size \in Nat \ {0} /\ FI!Size < Word /\ FI!Size = mask + 1
           /\ produced \in Nat /\ received \in Nat /\ FI!Minus(in, out) = produced - received
           /\ FI!fifo_unused = FI!Size - (produced - received)
<1>1. /\ FI!Size \in FI!Powers /\ produced \in Nat /\ received \in Nat
      /\ in = produced % Word /\ out = received % Word
      /\ received <= produced /\ produced <= received + FI!Size
  BY DEF RingInv, FI!TypeOK, Ring
<1>2. FI!Size \in Nat \ {0} /\ FI!Size < Word /\ Word \in Nat
  BY <1>1 DEF FI!FifoAssumption, FI!Powers
<1>3. FI!Minus(in, out) = produced - received
  <2>1. produced - received < Word
    BY <1>1, <1>2
  <2>2. FI!Minus(produced % Word, received % Word) = produced - received
    BY <1>1, <2>1, Difference
  <2>. QED  BY <1>1, <2>2, Zenon
<1>4. FI!fifo_unused = FI!Size - (produced - received)
  <2>1. produced - received \in 0 .. FI!Size
    BY <1>1, <1>2
  <2>2. FI!Minus(FI!Size, produced - received) = FI!Size - (produced - received)
    BY <1>2, <2>1, Unused
  <2>. QED  BY <1>3, <2>2 DEF FI!fifo_unused
<1>. QED  BY <1>1, <1>2, <1>3, <1>4 DEF FI!Size

(* Before fifo_alloc.                                                      *)
LEMMA InitRing == ASSUME FI!FifoAssumption PROVE FI!Init => RingInv
<1>. SUFFICES ASSUME FI!Init  PROVE RingInv
  OBVIOUS
<1>1. << >> \in Seq(Int)
  OBVIOUS
<1>2. FI!TypeOK
  BY <1>1 DEF FI!FifoAssumption, FI!Init, FI!TypeOK
<1>3. Ring
  BY DEF FI!FifoAssumption, FI!Init, Ring, FI!Size
<1>4. Claims
  BY DEF FI!Init, Claims
<1>. QED  BY <1>2, <1>3, <1>4 DEF RingInv

(* fifo_alloc and fifo_init.                                               *)
LEMMA AllocStep == ASSUME FI!FifoAssumption, RingInv, NEW m, FI!fifo_alloc(m)  PROVE RingInv'
<1>0. /\ FI!TypeOK /\ data = << >> /\ ppc = "idle" /\ cpc = "idle" /\ produced = 0 /\ received = 0
      /\ in = 0 % Word /\ out = 0 % Word /\ Word \in Nat \ {0}
      /\ UNCHANGED <<ppc, pn, cpc, cn, buf, produced, received>>
  BY DEF FI!FifoAssumption, RingInv, Ring, FI!fifo_alloc, FI!producer, FI!consumer
<1>1. 0 % Word = 0
  BY <1>0
<1>2. Claims'
  BY <1>0 DEF Claims
<1>3. CASE m \in FI!Powers /\ m >= 2 /\ mask' = m - 1 /\ data' = [i \in 0 .. m - 1 |-> -1]
            /\ in' = 0 /\ out' = 0
  <2>1. m \in 1 .. Word - 1 /\ mask' \in 0 .. Word - 1 /\ FI!Size' = m
    BY <1>0, <1>3 DEF FI!Powers, FI!Size
  <2>2. data' \in [0 .. mask' -> Int]
    BY <1>3
  <2>3. FI!TypeOK'
    BY <1>0, <1>3, <2>1, <2>2 DEF FI!TypeOK
  <2>4. Ring'
    BY <1>0, <1>1, <1>3, <2>1, <2>2 DEF Ring, FI!Powers
  <2>. QED  BY <1>2, <2>3, <2>4 DEF RingInv
<1>4. CASE mask' = 0 /\ UNCHANGED data /\ in' = 0 /\ out' = 0
  <2>1. FI!TypeOK'
    BY <1>0, <1>4 DEF FI!TypeOK
  <2>2. Ring'
    BY <1>0, <1>1, <1>4 DEF Ring, FI!Size
  <2>. QED  BY <1>2, <2>1, <2>2 DEF RingInv
<1>. QED  BY <1>0, <1>1, <1>3, <1>4 DEF FI!fifo_alloc

(* fifo_free.                                                              *)
LEMMA FreeStep == ASSUME FI!FifoAssumption, RingInv, FI!fifo_free  PROVE RingInv'
<1>0. /\ FI!TypeOK /\ ppc' = "idle" /\ cpc' = "idle" /\ Word \in Nat \ {0} /\ MaxIn \in Nat
      /\ in' = 0 /\ out' = 0 /\ mask' = 0 /\ data' = << >> /\ produced' = 0 /\ received' = 0
      /\ UNCHANGED <<pn, cn, buf, ppc, cpc>>
  BY DEF FI!FifoAssumption, RingInv, FI!fifo_free, FI!producer, FI!consumer
<1>1. FI!TypeOK'
  BY <1>0 DEF FI!TypeOK
<1>2. Ring'
  BY <1>0 DEF Ring, FI!Size
<1>3. Claims'
  BY <1>0 DEF Claims
<1>. QED  BY <1>1, <1>2, <1>3 DEF RingInv

(* fifo_in up to its copy: what it found unused is still unused, because   *)
(* only fifo_out moves out, and forward.                                   *)
LEMMA InBeginStep == ASSUME FI!FifoAssumption, RingInv, NEW n \in 0 .. MaxBatch, FI!InBegin(n)  PROVE RingInv'
<1>0. /\ FI!TypeOK /\ Ring /\ Claims /\ data # << >> /\ ppc' = "copy" /\ produced + n <= MaxIn
      /\ pn' = FI!Lesser(n, FI!fifo_unused) /\ MaxBatch \in Nat /\ MaxIn \in Nat
      /\ UNCHANGED <<in, out, mask, data, cpc, cn, buf, produced, received>>
  BY DEF FI!FifoAssumption, RingInv, FI!InBegin, FI!consumer
<1>1. /\ FI!Size \in Nat /\ produced \in Nat /\ received \in Nat
      /\ FI!fifo_unused = FI!Size - (produced - received)
      /\ received <= produced /\ produced <= received + FI!Size
  BY <1>0, InUse DEF Ring
<1>2. pn' \in 0 .. n /\ pn' <= FI!Size - (produced - received)
  BY <1>0, <1>1 DEF FI!Lesser
<1>3. FI!TypeOK'
  BY <1>0, <1>2 DEF FI!TypeOK
<1>4. Ring'
  BY <1>0 DEF Ring, FI!Size
<1>5. Claims'
  BY <1>0, <1>1, <1>2 DEF Claims, FI!Size, FI!OutInOrder
<1>. QED  BY <1>3, <1>4, <1>5 DEF RingInv

(* fifo_copy_in writes the new elements and touches no element that is in  *)
(* the ring.                                                               *)
LEMMA CopyInStep == ASSUME FI!FifoAssumption, RingInv, FI!fifo_copy_in  PROVE RingInv'
<1>0. /\ FI!TypeOK /\ Ring /\ Claims /\ ppc = "copy" /\ ppc' = "publish" /\ data # << >>
      /\ UNCHANGED <<in, out, mask, pn, cpc, cn, buf, produced, received>>
      /\ pn \in Nat /\ produced + pn <= received + FI!Size /\ received <= produced
      /\ in = produced % Word
  BY DEF RingInv, FI!TypeOK, Ring, Claims, FI!fifo_copy_in, FI!consumer
<1>1. /\ FI!Size \in FI!Powers /\ FI!Size \in Nat \ {0} /\ FI!Size = mask + 1
      /\ produced \in Nat /\ received \in Nat
  BY <1>0, InUse
<1>. DEFINE Number(k) == ((k + FI!Size) - (in % FI!Size)) % FI!Size
<1>2. data' = [k \in 0 .. mask |-> IF Number(k) < pn THEN produced + Number(k) ELSE data[k]]
  BY DEF FI!fifo_copy_in
<1>3. ASSUME NEW el \in Nat  PROVE el % FI!Size \in 0 .. mask
  <2>1. el % FI!Size \in 0 .. FI!Size - 1
    BY <1>1, Division, Zenon
  <2>2. 0 .. FI!Size - 1 = 0 .. mask
    BY <1>0, <1>1 DEF FI!TypeOK
  <2>. QED  BY <2>1, <2>2, Zenon
<1>4. ASSUME NEW d \in 0 .. FI!Size - 1, NEW el \in Nat, el = produced + d \/ el = (produced + d) - FI!Size
      PROVE  Number(el % FI!Size) = d
  <2>1. (((el % FI!Size) + FI!Size) - ((produced % Word) % FI!Size)) % FI!Size = d
    BY <1>1, <1>4, SlotNumber
  <2>. QED  BY <1>0, <2>1, Zenon
<1>5. ASSUME NEW el \in received .. produced - 1  PROVE data'[el % FI!Size] = el
  <2>1. /\ el \in Nat /\ (el - produced) + FI!Size \in 0 .. FI!Size - 1 /\ (el - produced) + FI!Size >= pn
        /\ el = (produced + ((el - produced) + FI!Size)) - FI!Size
    BY <1>0, <1>1
  <2>2. Number(el % FI!Size) = (el - produced) + FI!Size
    BY <1>4, <2>1
  <2>3. ~(Number(el % FI!Size) < pn)
    <3>. HIDE DEF Number
    <3>. QED  BY <1>0, <1>1, <2>1, <2>2
  <2>4. data[el % FI!Size] = el
    BY <1>0 DEF Ring
  <2>5. el % FI!Size \in 0 .. mask
    BY <1>3, <2>1
  <2>. HIDE DEF Number
  <2>. QED  BY <1>2, <2>3, <2>4, <2>5
<1>6. ASSUME NEW el \in produced .. (produced + pn) - 1  PROVE data'[el % FI!Size] = el
  <2>1. /\ el \in Nat /\ el - produced \in 0 .. FI!Size - 1 /\ el - produced < pn
        /\ el = produced + (el - produced)
    BY <1>0, <1>1
  <2>2. Number(el % FI!Size) = el - produced
    BY <1>4, <2>1
  <2>3. el % FI!Size \in 0 .. mask
    BY <1>3, <2>1
  <2>4. data'[el % FI!Size] = produced + Number(el % FI!Size)
    <3>1. Number(el % FI!Size) < pn
      <4>. HIDE DEF Number
      <4>. QED  BY <2>1, <2>2
    <3>. HIDE DEF Number
    <3>. QED  BY <1>2, <2>3, <3>1
  <2>. HIDE DEF Number
  <2>. QED  BY <1>1, <2>1, <2>2, <2>4
<1>7. data' \in [0 .. mask -> Int]
  <2>1. ASSUME NEW k \in 0 .. mask  PROVE Number(k) \in Int /\ data[k] \in Int
    <3>1. in \in Nat /\ data \in [0 .. mask -> Int]
      BY <1>0 DEF FI!TypeOK, Ring
    <3>2. in % FI!Size \in 0 .. FI!Size - 1
      BY <1>1, <3>1, Division, Zenon
    <3>3. (k + FI!Size) - (in % FI!Size) \in Nat
      BY <1>1, <3>2
    <3>4. Number(k) \in Nat
      <4>. DEFINE z == (k + FI!Size) - (in % FI!Size)
      <4>. HIDE DEF z
      <4>1. z \in Nat
        BY <3>3 DEF z
      <4>2. z % FI!Size \in Nat
        <5>1. z % FI!Size \in 0 .. FI!Size - 1
          BY <1>1, <4>1, Division, Zenon
        <5>2. 0 .. FI!Size - 1 \subseteq Nat
          BY <1>1
        <5>. QED  BY <5>1, <5>2, Zenon
      <4>. QED  BY <4>2 DEF z
    <3>. QED  BY <3>1, <3>4
  <2>. HIDE DEF Number
  <2>. QED  BY <1>1, <1>2, <2>1
<1>8. FI!TypeOK'
  BY <1>0, <1>7 DEF FI!TypeOK
<1>9. Ring'
  <2>1. data' # << >>
    <3>1. DOMAIN data' = 0 .. mask /\ 0 \in 0 .. mask
      BY <1>0, <1>7 DEF FI!TypeOK
    <3>2. DOMAIN << >> = {}
      OBVIOUS
    <3>. QED  BY <3>1, <3>2, Zenon
  <2>. QED  BY <1>0, <1>5, <1>7, <2>1 DEF Ring, FI!Size
<1>10. Claims'
  BY <1>0, <1>6 DEF Claims, FI!Size, FI!OutInOrder
<1>. QED  BY <1>8, <1>9, <1>10 DEF RingInv

(* fifo_in moves in: what it copied becomes part of the ring.              *)
LEMMA InEndStep == ASSUME FI!FifoAssumption, RingInv, FI!InEnd  PROVE RingInv'
<1>0. /\ FI!TypeOK /\ Ring /\ Claims /\ ppc = "publish" /\ ppc' = "idle" /\ data # << >>
      /\ in' = (in + pn) % Word /\ produced' = produced + pn /\ in = produced % Word
      /\ UNCHANGED <<out, mask, data, pn, cpc, cn, buf, received>>
      /\ pn \in Nat /\ produced + pn <= received + FI!Size /\ received <= produced
      /\ produced + pn <= MaxIn /\ Word \in Nat \ {0}
      /\ \A el \in produced .. (produced + pn) - 1 : data[el % FI!Size] = el
      /\ \A el \in received .. produced - 1 : data[el % FI!Size] = el
  BY DEF FI!FifoAssumption, RingInv, FI!TypeOK, Ring, Claims, FI!InEnd, FI!consumer
<1>1. FI!Size \in Nat \ {0} /\ produced \in Nat /\ received \in Nat /\ MaxIn \in Nat /\ cn \in Nat
  <2>1. FI!Size \in Nat \ {0}
    BY <1>0, InUse
  <2>2. MaxIn \in Nat /\ MaxBatch \in Nat
    BY DEF FI!FifoAssumption
  <2>. QED  BY <1>0, <2>1, <2>2 DEF FI!TypeOK
<1>2. in' = produced' % Word
  BY <1>0, <1>1, IndexMoves, Zenon
<1>3. in' \in 0 .. Word - 1 /\ produced' \in 0 .. MaxIn
  BY <1>0, <1>1, <1>2, Division
<1>4. FI!TypeOK'
  BY <1>0, <1>3 DEF FI!TypeOK
<1>5. FI!Size' = FI!Size
  BY <1>0 DEF FI!Size
<1>6. Ring'
  <2>1. \A el \in received' .. produced' - 1 : data'[el % FI!Size'] = el
    BY <1>0, <1>1, <1>5
  <2>2. received' <= produced' /\ produced' <= received' + FI!Size'
    BY <1>0, <1>1, <1>5
  <2>. QED  BY <1>0, <1>2, <1>5, <2>1, <2>2 DEF Ring
<1>7. Claims'
  <2>1. cpc' # "idle" => received' + cn' <= produced'
    BY <1>0, <1>1 DEF Claims
  <2>. QED  BY <1>0, <2>1 DEF Claims, FI!OutInOrder
<1>. QED  BY <1>4, <1>6, <1>7 DEF RingInv

(* fifo_out and fifo_peek: what they found in the ring stays there until   *)
(* fifo_out moves out.                                                     *)
LEMMA OutBeginStep == ASSUME FI!FifoAssumption, RingInv, NEW n \in 0 .. MaxBatch, FI!OutBegin(n)  PROVE RingInv'
<1>0. /\ FI!TypeOK /\ Ring /\ Claims /\ data # << >> /\ cpc' = "copy"
      /\ cn' = FI!Lesser(n, FI!Minus(in, out)) /\ MaxBatch \in Nat
      /\ UNCHANGED <<in, out, mask, data, ppc, pn, buf, produced, received>>
  BY DEF FI!FifoAssumption, RingInv, FI!OutBegin, FI!producer
<1>1. /\ produced \in Nat /\ received \in Nat /\ FI!Minus(in, out) = produced - received
      /\ received <= produced
  BY <1>0, InUse DEF Ring
<1>2. cn' \in 0 .. n /\ received + cn' <= produced
  BY <1>0, <1>1 DEF FI!Lesser
<1>3. FI!TypeOK'
  BY <1>0, <1>2 DEF FI!TypeOK
<1>4. Ring'
  BY <1>0 DEF Ring, FI!Size
<1>5. Claims'
  BY <1>0, <1>2 DEF Claims, FI!Size
<1>. QED  BY <1>3, <1>4, <1>5 DEF RingInv

(* fifo_copy_out copies the oldest elements.                               *)
LEMMA CopyOutStep == ASSUME FI!FifoAssumption, RingInv, FI!fifo_copy_out  PROVE RingInv'
<1>0. /\ FI!TypeOK /\ Ring /\ Claims /\ cpc = "copy" /\ cpc' = "advance" /\ data # << >>
      /\ buf' = [i \in 1 .. cn |-> data[(out + (i - 1)) % FI!Size]]
      /\ UNCHANGED <<in, out, mask, data, ppc, pn, cn, produced, received>>
      /\ cn \in Nat /\ received + cn <= produced /\ out = received % Word
      /\ \A el \in received .. produced - 1 : data[el % FI!Size] = el
  BY DEF RingInv, FI!TypeOK, Ring, Claims, FI!fifo_copy_out, FI!producer
<1>1. FI!Size \in FI!Powers /\ produced \in Nat /\ received \in Nat
  BY <1>0, InUse
<1>2. ASSUME NEW i \in 1 .. cn  PROVE buf'[i] = received + (i - 1)
  <2>1. i - 1 \in Nat /\ received + (i - 1) \in received .. produced - 1
    BY <1>0, <1>1
  <2>2. (out + (i - 1)) % FI!Size = (received + (i - 1)) % FI!Size
    BY <1>0, <1>1, <2>1, WrapKeepsSlot
  <2>3. data[(received + (i - 1)) % FI!Size] = received + (i - 1)
    BY <1>0, <2>1
  <2>4. buf'[i] = data[(out + (i - 1)) % FI!Size]
    BY <1>0
  <2>. QED  BY <2>2, <2>3, <2>4, Zenon
<1>3. buf' \in Seq(Int)
  <2>1. \A i \in 1 .. cn : data[(out + (i - 1)) % FI!Size] \in Int
    BY <1>0, <1>1, <1>2
  <2>. QED  BY <1>0, <2>1
<1>4. FI!TypeOK'
  BY <1>0, <1>3 DEF FI!TypeOK
<1>5. Ring'
  BY <1>0 DEF Ring, FI!Size
<1>6. Claims'
  BY <1>0, <1>1, <1>2 DEF Claims, FI!Size, FI!OutInOrder
<1>. QED  BY <1>4, <1>5, <1>6 DEF RingInv

(* The end of fifo_peek.                                                   *)
LEMMA PeekEndStep == ASSUME FI!FifoAssumption, RingInv, FI!PeekEnd  PROVE RingInv'
<1>0. /\ FI!TypeOK /\ Ring /\ Claims /\ cpc' = "idle" /\ buf' = << >> /\ cpc = "advance"
      /\ UNCHANGED <<in, out, mask, data, ppc, pn, cn, produced, received>>
  BY DEF RingInv, FI!PeekEnd, FI!producer
<1>1. << >> \in Seq(Int)
  OBVIOUS
<1>2. FI!TypeOK'
  BY <1>0, <1>1 DEF FI!TypeOK
<1>3. Ring'
  BY <1>0 DEF Ring, FI!Size
<1>4. Claims'
  BY <1>0 DEF Claims, FI!Size
<1>. QED  BY <1>2, <1>3, <1>4 DEF RingInv

(* fifo_out moves out: the slots it copied from become unused.             *)
LEMMA OutEndStep == ASSUME FI!FifoAssumption, RingInv, FI!OutEnd  PROVE RingInv'
<1>0. /\ FI!TypeOK /\ Ring /\ Claims /\ cpc = "advance" /\ cpc' = "idle" /\ buf' = << >>
      /\ out' = (out + cn) % Word /\ received' = received + cn /\ out = received % Word
      /\ UNCHANGED <<in, mask, data, ppc, pn, cn, produced>> /\ data # << >>
      /\ cn \in Nat /\ received + cn <= produced /\ received <= produced
      /\ produced <= received + FI!Size /\ Word \in Nat \ {0}
      /\ \A el \in received .. produced - 1 : data[el % FI!Size] = el
  BY DEF FI!FifoAssumption, RingInv, FI!TypeOK, Ring, Claims, FI!OutEnd, FI!producer
<1>1. /\ FI!Size \in Nat \ {0} /\ produced \in 0 .. MaxIn /\ received \in Nat /\ MaxIn \in Nat
      /\ pn \in Nat
  <2>1. FI!Size \in Nat \ {0}
    BY <1>0, InUse
  <2>2. MaxIn \in Nat /\ MaxBatch \in Nat
    BY DEF FI!FifoAssumption
  <2>. QED  BY <1>0, <2>1, <2>2 DEF FI!TypeOK
<1>2. out' = received' % Word
  BY <1>0, <1>1, IndexMoves, Zenon
<1>3. out' \in 0 .. Word - 1 /\ received' \in 0 .. MaxIn
  BY <1>0, <1>1, <1>2, Division
<1>4. << >> \in Seq(Int)
  OBVIOUS
<1>5. FI!TypeOK'
  BY <1>0, <1>3, <1>4 DEF FI!TypeOK
<1>6. FI!Size' = FI!Size
  BY <1>0 DEF FI!Size
<1>7. Ring'
  <2>1. \A el \in received' .. produced' - 1 : data'[el % FI!Size'] = el
    <3>1. \A el \in received' .. produced' - 1 : el \in received .. produced - 1
      BY <1>0, <1>1
    <3>. QED  BY <1>0, <1>6, <3>1, Zenon
  <2>2. received' <= produced' /\ produced' <= received' + FI!Size'
    BY <1>0, <1>1, <1>6
  <2>. QED  BY <1>0, <1>2, <1>6, <2>1, <2>2 DEF Ring
<1>8. Claims'
  <2>1. ppc' # "idle" => produced' + pn' <= received' + FI!Size' /\ produced' + pn' <= MaxIn
    BY <1>0, <1>1, <1>6 DEF Claims
  <2>. QED  BY <1>0, <1>6, <2>1 DEF Claims
<1>. QED  BY <1>5, <1>7, <1>8 DEF RingInv

(* The inductive invariant of the ring.                                    *)
THEOREM RingInvHolds == ASSUME FI!FifoAssumption PROVE FI!Spec => []RingInv
<1>1. ASSUME RingInv, [FI!Next]_(FI!vars)  PROVE RingInv'
  <2>1. ASSUME NEW n \in Sizes, FI!Alloc(n)  PROVE RingInv'
    BY <1>1, <2>1, AllocStep DEF FI!Alloc
  <2>2. CASE FI!fifo_free
    BY <1>1, <2>2, FreeStep
  <2>3. ASSUME NEW n \in 0 .. MaxBatch, FI!InBegin(n) \/ FI!OutBegin(n)  PROVE RingInv'
    BY <1>1, <2>3, InBeginStep, OutBeginStep
  <2>4. CASE FI!fifo_copy_in \/ FI!InEnd
    BY <1>1, <2>4, CopyInStep, InEndStep
  <2>5. CASE FI!fifo_copy_out \/ FI!PeekEnd \/ FI!OutEnd
    BY <1>1, <2>5, CopyOutStep, PeekEndStep, OutEndStep
  <2>6. CASE UNCHANGED FI!vars
    BY <1>1, <2>6, Zenon DEF FI!vars, FI!producer, FI!consumer, RingInv, FI!TypeOK, Ring, Claims, FI!Size, FI!OutInOrder
  <2>. QED  BY <1>1, <2>1, <2>2, <2>3, <2>4, <2>5, <2>6 DEF FI!Next
<1>. QED  BY InitRing, <1>1, PTL DEF FI!Spec

(* fifo_in and fifo_out, at the same time, never touch the same memory.    *)
THEOREM CopiesApart == ASSUME FI!FifoAssumption PROVE FI!Spec => []FI!CopiesDisjoint
<1>1. RingInv => FI!CopiesDisjoint
  <2>. SUFFICES ASSUME RingInv, ppc = "copy", cpc = "copy",
                       NEW i \in 0 .. pn - 1, NEW j \in 0 .. cn - 1,
                       (in + i) % FI!Size = (out + j) % FI!Size
                PROVE  FALSE
    BY DEF FI!CopiesDisjoint, FI!Slots
  <2>1. /\ data # << >> /\ in = produced % Word /\ out = received % Word
        /\ pn \in Nat /\ cn \in Nat
        /\ produced + pn <= received + FI!Size /\ received + cn <= produced
    BY DEF RingInv, FI!TypeOK, Ring, Claims
  <2>2. FI!Size \in FI!Powers /\ FI!Size \in Nat \ {0} /\ produced \in Nat /\ received \in Nat
    BY <2>1, InUse
  <2>3. (in + i) % FI!Size = (produced + i) % FI!Size /\ (out + j) % FI!Size = (received + j) % FI!Size
    BY <2>1, <2>2, WrapKeepsSlot
  <2>. DEFINE x == produced + i
              y == received + j
  <2>4. x \in Nat /\ y \in Nat /\ y < x /\ x - y < FI!Size /\ -FI!Size < x - y
    BY <2>1, <2>2
  <2>5. x % FI!Size = y % FI!Size
    BY <2>3, Zenon
  <2>. HIDE DEF x, y
  <2>6. x = y
    BY <2>2, <2>4, <2>5, Apart, Zenon
  <2>. QED  BY <2>4, <2>6
<1>. QED  BY RingInvHolds, <1>1, PTL

(* fifo_out and fifo_peek hand out the oldest elements, in order.          *)
THEOREM OldestFirst == ASSUME FI!FifoAssumption PROVE FI!Spec => []FI!OutInOrder
<1>1. RingInv => FI!OutInOrder
  BY DEF RingInv, Claims, FI!OutInOrder
<1>. QED  BY RingInvHolds, <1>1, PTL
=============================================================================
