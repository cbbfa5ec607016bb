--------------------------- MODULE TimeWheelTurn ----------------------------
(***************************************************************************)
(* Proofs about TimeWheel for any number of timers, of threads and any     *)
(* sizes of the wheels, continued: twtimer_process turns the wheels so     *)
(* that a timer is triggered in the tick it is due.                        *)
(***************************************************************************)
EXTENDS TimeWheelTime

(* twtimer_cascade takes the bucket at the clock: its timers are due in    *)
(* the slot that begins, those of the other buckets later.                 *)
LEMMA TakeTime ==
    ASSUME TimeWheelAssumption, IInv, TInv, NEW w \in Workers, CascadeTake(w)
    PROVE  TInv'
<1>1. TypeOK /\ Linked /\ LockHeld
  BY DEF IInv
<1>2. PICK l : l = level[w]
  OBVIOUS
<1>3. PICK b : b = <<l + 2, TVN_INDEX(clock, l)>>
  BY Zenon
<1>4. /\ pc[w] = "cascade" /\ pc' = [pc EXCEPT ![w] = "readd"]
      /\ chain' = [chain EXCEPT ![w] = at[b]] /\ at' = [at EXCEPT ![b] = NULL]
      /\ clock' = clock /\ pprev' = pprev /\ expire' = expire /\ level' = level
      /\ tick' = tick /\ due' = due
  BY <1>2, <1>3 DEF CascadeTake, Goto
<1>5. /\ at \in [Cells -> Timers \cup {NULL}] /\ l \in 0 .. 3 /\ clock \in Nat
      /\ chain \in [Workers -> Timers \cup {NULL}] /\ expire \in [Timers -> Int]
      /\ pc \in [Workers -> {"idle", "loop", "cascade", "readd", "move", "trigger", "callback"}]
  BY <1>1, <1>2 DEF TypeOK
<1>6. b \in Wheel
  BY <1>3, <1>5, IndexType, Zenon
<1>7. /\ b \in Cells \ Timers /\ NULL \notin Timers /\ Timers \subseteq Cells
  BY <1>6, Places
<1>8. \A v \in Workers \ {w} : pc[v] \in {"idle", "callback"}
  BY <1>1, <1>4, Alone
<1>9. /\ \A c \in Cells : at'[c] = IF c = b THEN NULL ELSE at[c]
      /\ \A v \in Workers : pc'[v] = IF v = w THEN "readd" ELSE pc[v]
      /\ chain'[w] = at[b]
  BY <1>4, <1>5, <1>7
<1>10. PICK home \in [Timers -> Homes], rank \in [Timers -> Nat] :
          Chained(home, rank) /\ Taken(home) /\ Timely(home)
  BY DEF TInv, OnTime
<1>. DEFINE home2 == [u \in Timers |-> IF home[u] = b THEN Chain(w) ELSE home[u]]
<1>11. home2 \in [Timers -> Homes]
  BY DEF Homes
<1>12. Chained(home2, rank)'
  <2>1. ASSUME NEW c \in Cells, at'[c] # NULL
        PROVE  IF c \in Timers THEN home2[at'[c]] = home2[c] /\ rank[c] < rank[at'[c]]
               ELSE home2[at'[c]] = c
    <3>1. c # b /\ at'[c] = at[c] /\ at[c] \in Timers
      BY <1>5, <1>9, <2>1
    <3>2. IF c \in Timers THEN home[at[c]] = home[c] /\ rank[c] < rank[at[c]] ELSE home[at[c]] = c
      BY <1>7, <1>10, <3>1 DEF Chained
    <3>. QED  BY <3>1, <3>2
  <2>. HIDE DEF home2
  <2>. QED  BY <2>1 DEF Chained, Cells, Wheel, TVR_SIZE, TVN_SIZE, Local
<1>13. Taken(home2)'
  <2>. SUFFICES ASSUME NEW v \in Workers, pc'[v] = "readd", chain'[v] # NULL
                PROVE  home2[chain'[v]] = Chain(v)
    BY DEF Taken, Chain
  <2>1. v = w /\ chain'[v] = at[b] /\ at[b] \in Timers
    BY <1>5, <1>7, <1>8, <1>9
  <2>2. home[at[b]] = b
    BY <1>7, <1>10, <2>1 DEF Chained
  <2>. QED  BY <2>1, <2>2
<1>14. clock % Span(l) = 0 /\ Span(l) \in Nat \ {0} /\ Span(l + 1) \in Nat
  BY <1>2, <1>4, <1>5, Spans DEF TInv, Turned
<1>15. /\ \A n \in 0 .. 3 : Cascaded(n) <=> n < l
       /\ \A n \in 0 .. 3 : Cascaded(n)' <=> n <= l
  BY <1>2, <1>4, <1>8, <1>9 DEF Cascaded
<1>16. Timely(home2)'
  <2>. SUFFICES ASSUME NEW u \in Timers, pprev[u] # NULL PROVE InTime(u, home2[u])'
    BY <1>4 DEF Timely
  <2>1. InTime(u, home[u])
    BY <1>10 DEF Timely
  <2>2. expire[u] \in Int
    BY <1>5
  <2>3. CASE OnFirst(u, home[u])
    <3>1. home[u] # b
      BY <1>3, <1>5, <2>3 DEF OnFirst
    <3>2. OnFirst(u, home[u])'
      BY <1>4, <2>3 DEF OnFirst, TVR_INDEX, TVR_SIZE
    <3>. QED  BY <3>1, <3>2 DEF InTime
  <2>4. ASSUME NEW n \in 0 .. 3, OnLevel(u, home[u], n), n # l PROVE InTime(u, home2[u])'
    <3>1. home[u] # b
      BY <1>3, <1>5, <2>4 DEF OnLevel
    <3>2. Cascaded(n)' <=> Cascaded(n)
      BY <1>5, <1>15, <2>4
    <3>3. OnLevel(u, home[u], n)'
      BY <1>4, <2>4, <3>2 DEF OnLevel, TVN_INDEX, TVN_SIZE, Slot, Span
    <3>. QED  BY <3>1, <3>3 DEF InTime
  <2>5. CASE OnLevel(u, home[u], l)
    <3>. DEFINE s == Slot(expire[u], l)
    <3>1. /\ home[u] = <<l + 2, TVN_INDEX(expire[u], l)>> /\ due[u] = expire[u]
          /\ clock <= s /\ s < clock + Span(l + 1)
      BY <1>5, <1>15, <2>5 DEF OnLevel
    <3>2. l \in 0 .. 4
      BY <1>5
    <3>3. s \in Int /\ s <= expire[u] /\ expire[u] < s + Span(l)
      BY <2>2, <3>2, SlotOf
    <3>4. TVN_INDEX(expire[u], l) = TVN_INDEX(clock, l) <=> s = clock
      BY <1>5, <1>14, <2>2, <3>1, SlotHere
    <3>. HIDE DEF s
    <3>5. CASE home[u] = b
      <4>1. s = clock
        BY <1>3, <1>5, <3>1, <3>4, <3>5
      <4>2. OnChain(u, Chain(w), w)'
        BY <1>2, <1>4, <1>5, <1>9, <3>1, <3>3, <4>1 DEF OnChain, Chain, Span
      <4>. QED  BY <3>5, <4>2 DEF InTime
    <3>6. CASE home[u] # b
      <4>1. s # clock
        BY <1>3, <3>1, <3>4, <3>6
      <4>2. clock < s /\ s <= clock + Span(l + 1)
        BY <1>5, <1>14, <3>1, <3>3, <4>1
      <4>3. Cascaded(l)'
        BY <1>5, <1>15
      <4>4. OnLevel(u, home[u], l)'
        BY <1>4, <3>1, <4>2, <4>3 DEF OnLevel, TVN_INDEX, TVN_SIZE, Slot, Span, s
      <4>. QED  BY <1>5, <3>6, <4>4 DEF InTime
    <3>. QED  BY <3>5, <3>6
  <2>6. ASSUME NEW v \in Workers, OnChain(u, home[u], v) PROVE FALSE
    BY <1>4, <1>8, <2>6 DEF OnChain
  <2>7. ASSUME NEW v \in Workers, OnLocal(u, home[u], v) PROVE InTime(u, home2[u])'
    <3>1. v # w
      BY <1>4, <2>7 DEF OnLocal
    <3>2. home[u] # b
      BY <1>3, <1>5, <2>7 DEF OnLocal, Local
    <3>3. OnLocal(u, home[u], v)'
      BY <1>4, <1>9, <2>7, <3>1 DEF OnLocal, Local
    <3>. QED  BY <3>2, <3>3 DEF InTime
  <2>. QED  BY <2>1, <2>3, <2>4, <2>5, <2>6, <2>7 DEF InTime
<1>17. OnTime'
  <2>1. Homes' = Homes
    BY DEF Homes, Wheel, TVR_SIZE, TVN_SIZE, Local, Chain
  <2>. HIDE DEF home2
  <2>. QED  BY <1>10, <1>11, <1>12, <1>13, <1>16, <2>1 DEF OnTime
<1>18. Turned'
  <2>. SUFFICES ASSUME NEW v \in Workers, pc'[v] \in {"cascade", "readd"}
                PROVE  clock' % Span(level'[v]) = 0
    BY DEF Turned, Span
  <2>1. v = w
    BY <1>8, <1>9
  <2>. QED  BY <1>2, <1>4, <1>14, <2>1
<1>19. DueStarted'
  BY <1>4 DEF TInv, DueStarted, NotDue
<1>. QED  BY <1>17, <1>18, <1>19 DEF TInv

(* twtimer_process takes the tick's bucket: its timers are due at the      *)
(* tick, the other timers later.                                           *)
LEMMA MoveTime ==
    ASSUME TimeWheelAssumption, IInv, TInv, NEW w \in Workers, Move(w)
    PROVE  TInv'
<1>1. TypeOK /\ Linked /\ LockHeld
  BY DEF IInv
<1>2. PICK b : b = <<1, TVR_INDEX(clock)>>
  BY Zenon
<1>3. PICK L : L = Local(w)
  OBVIOUS
<1>4. /\ pc[w] = "move" /\ pc' = [pc EXCEPT ![w] = "trigger"]
      /\ at' = [at EXCEPT ![L] = at[b], ![b] = NULL]
      /\ tick' = [tick EXCEPT ![w] = clock] /\ clock' = clock + 1
      /\ pprev' = pprev /\ expire' = expire /\ level' = level /\ chain' = chain /\ due' = due
  BY <1>2, <1>3 DEF Move, Goto
<1>5. /\ at \in [Cells -> Timers \cup {NULL}] /\ clock \in Nat /\ expire \in [Timers -> Int]
      /\ tick \in [Workers -> 0 .. MaxClock]
      /\ pc \in [Workers -> {"idle", "loop", "cascade", "readd", "move", "trigger", "callback"}]
      /\ due \in [Timers -> Nat \cup {NotDue}]
  BY <1>1 DEF TypeOK
<1>6. b \in Wheel
  BY <1>2, <1>5, IndexType, Zenon
<1>7. /\ b \in Cells \ Timers /\ NULL \notin Timers /\ Timers \subseteq Cells
      /\ L \in Cells \ Timers /\ L # b
  BY <1>3, <1>6, Places
<1>8. \A v \in Workers \ {w} : pc[v] \in {"idle", "callback"}
  BY <1>1, <1>4, Alone
<1>9. /\ \A c \in Cells : at'[c] = IF c = b THEN NULL ELSE IF c = L THEN at[b] ELSE at[c]
      /\ \A v \in Workers : pc'[v] = IF v = w THEN "trigger" ELSE pc[v]
      /\ \A v \in Workers : tick'[v] = IF v = w THEN clock ELSE tick[v]
  <2>1. \A c \in Cells : at'[c] = IF c = b THEN NULL ELSE IF c = L THEN at[b] ELSE at[c]
    BY <1>4, <1>5, <1>7
  <2>2. \A v \in Workers : pc'[v] = IF v = w THEN "trigger" ELSE pc[v]
    BY <1>4, <1>5
  <2>3. \A v \in Workers : tick'[v] = IF v = w THEN clock ELSE tick[v]
    BY <1>4, <1>5
  <2>. QED  BY <2>1, <2>2, <2>3
<1>10. PICK home \in [Timers -> Homes], rank \in [Timers -> Nat] :
          Chained(home, rank) /\ Taken(home) /\ Timely(home)
  BY DEF TInv, OnTime
<1>. DEFINE home2 == [u \in Timers |-> IF home[u] = b THEN L ELSE home[u]]
<1>11. home2 \in [Timers -> Homes]
  BY <1>3 DEF Homes
<1>12. Chained(home2, rank)'
  <2>1. ASSUME NEW c \in Cells, at'[c] # NULL
        PROVE  IF c \in Timers THEN home2[at'[c]] = home2[c] /\ rank[c] < rank[at'[c]]
               ELSE home2[at'[c]] = c
    <3>1. CASE c = L
      <4>1. at'[c] = at[b] /\ at[b] \in Timers
        BY <1>5, <1>7, <1>9, <2>1, <3>1
      <4>2. home[at[b]] = b
        BY <1>7, <1>10, <4>1 DEF Chained
      <4>. QED  BY <1>7, <3>1, <4>1, <4>2
    <3>2. CASE c # L
      <4>1. c # b /\ at'[c] = at[c] /\ at[c] \in Timers
        BY <1>5, <1>9, <2>1, <3>2
      <4>2. IF c \in Timers THEN home[at[c]] = home[c] /\ rank[c] < rank[at[c]] ELSE home[at[c]] = c
        BY <1>7, <1>10, <4>1 DEF Chained
      <4>. QED  BY <4>1, <4>2
    <3>. QED  BY <3>1, <3>2
  <2>. HIDE DEF home2
  <2>. QED  BY <2>1 DEF Chained, Cells, Wheel, TVR_SIZE, TVN_SIZE, Local
<1>13. Taken(home2)'
  BY <1>8, <1>9 DEF Taken
<1>14. \A n \in 0 .. 3 : Cascaded(n) /\ ~ Cascaded(n)'
  BY <1>4, <1>8, <1>9 DEF Cascaded
<1>15. Timely(home2)'
  <2>. SUFFICES ASSUME NEW u \in Timers, pprev[u] # NULL PROVE InTime(u, home2[u])'
    BY <1>4 DEF Timely
  <2>1. InTime(u, home[u])
    BY <1>10 DEF Timely
  <2>2. expire[u] \in Int /\ due[u] \in Int
    BY <1>5 DEF NotDue
  <2>3. CASE OnFirst(u, home[u])
    <3>1. /\ home[u] = <<1, TVR_INDEX(due[u])>> /\ clock <= due[u] /\ due[u] < clock + TVR_SIZE
          /\ TVR_SIZE \in Nat \ {0}
      BY <2>3, Spans DEF OnFirst
    <3>2. CASE home[u] = b
      <4>1. TVR_INDEX(due[u]) = TVR_INDEX(clock)
        BY <1>2, <3>1, <3>2
      <4>2. due[u] = clock
        <5>1. clock % TVR_SIZE = due[u] % TVR_SIZE /\ clock \in Int
          BY <4>1, <1>5 DEF TVR_INDEX
        <5>. QED  BY <2>2, <3>1, <5>1, Congruent
      <4>3. OnLocal(u, L, w)'
        BY <1>3, <1>4, <1>9, <4>2 DEF OnLocal, Local
      <4>. QED  BY <3>2, <4>3 DEF InTime
    <3>3. CASE home[u] # b
      <4>1. due[u] # clock
        BY <1>2, <3>1, <3>3
      <4>2. clock + 1 <= due[u] /\ due[u] < clock + 1 + TVR_SIZE
        BY <1>5, <2>2, <3>1, <4>1
      <4>3. OnFirst(u, home[u])'
        BY <1>4, <3>1, <4>2 DEF OnFirst, TVR_INDEX, TVR_SIZE
      <4>. QED  BY <3>3, <4>3 DEF InTime
    <3>. QED  BY <3>2, <3>3
  <2>4. ASSUME NEW n \in 0 .. 3, OnLevel(u, home[u], n) PROVE InTime(u, home2[u])'
    <3>. DEFINE s == Slot(expire[u], n)
    <3>1. /\ home[u] = <<n + 2, TVN_INDEX(expire[u], n)>> /\ due[u] = expire[u]
          /\ clock < s /\ s <= clock + Span(n + 1)
      BY <1>14, <2>4 DEF OnLevel
    <3>2. home[u] # b
      BY <1>2, <3>1
    <3>3. s \in Int /\ Span(n + 1) \in Nat
      <4>1. n \in 0 .. 4
        OBVIOUS
      <4>2. s \in Int
        BY <4>1, <2>2, SlotOf, Zenon
      <4>. QED  BY <4>2, Spans
    <3>. HIDE DEF s
    <3>4. clock + 1 <= s /\ s < clock + 1 + Span(n + 1)
      BY <1>5, <3>1, <3>3
    <3>5. OnLevel(u, home[u], n)'
      BY <1>4, <1>14, <3>1, <3>4 DEF OnLevel, TVN_INDEX, TVN_SIZE, Slot, Span, s
    <3>. QED  BY <3>2, <3>5 DEF InTime
  <2>5. ASSUME NEW v \in Workers, OnChain(u, home[u], v) PROVE FALSE
    BY <1>4, <1>8, <2>5 DEF OnChain
  <2>6. ASSUME NEW v \in Workers, OnLocal(u, home[u], v) PROVE InTime(u, home2[u])'
    <3>1. v # w
      BY <1>4, <2>6 DEF OnLocal
    <3>2. home[u] # b
      BY <1>2, <2>6 DEF OnLocal, Local
    <3>3. OnLocal(u, home[u], v)'
      BY <1>4, <1>9, <2>6, <3>1 DEF OnLocal, Local
    <3>. QED  BY <3>2, <3>3 DEF InTime
  <2>. QED  BY <2>1, <2>3, <2>4, <2>5, <2>6 DEF InTime
<1>16. OnTime'
  <2>1. Homes' = Homes
    BY DEF Homes, Wheel, TVR_SIZE, TVN_SIZE, Local, Chain
  <2>. HIDE DEF home2
  <2>. QED  BY <1>10, <1>11, <1>12, <1>13, <1>15, <2>1 DEF OnTime
<1>17. Turned'
  BY <1>8, <1>9 DEF Turned
<1>18. DueStarted'
  BY <1>4 DEF TInv, DueStarted, NotDue
<1>. QED  BY <1>16, <1>17, <1>18 DEF TInv

(* twtimer_process unlinks the first timer of its list: it is due at the   *)
(* tick that is processed.                                                 *)
LEMMA TriggerTime ==
    ASSUME TimeWheelAssumption, IInv, TInv, NEW w \in Workers, Trigger(w)
    PROVE  TInv' /\ due[at[Local(w)]] = tick[w]
<1>1. TypeOK /\ Linked /\ LockHeld
  BY DEF IInv
<1>2. PICK L : L = Local(w)
  OBVIOUS
<1>3. PICK t : t = at[L]
  OBVIOUS
<1>4. /\ t # NULL /\ pc[w] = "trigger" /\ pc' = [pc EXCEPT ![w] = "callback"]
      /\ at' = [at EXCEPT ![L] = at[t], ![t] = NULL]
      /\ pprev' = [p \in Timers |-> IF p = t THEN NULL ELSE IF p = at[t] THEN L ELSE pprev[p]]
      /\ expire' = [expire EXCEPT ![t] = 0] /\ due' = [due EXCEPT ![t] = NotDue]
      /\ clock' = clock /\ level' = level /\ chain' = chain /\ tick' = tick
  BY <1>2, <1>3 DEF Trigger, Goto, Forget
<1>5. /\ at \in [Cells -> Timers \cup {NULL}] /\ pprev \in [Timers -> Cells \cup {NULL}]
      /\ pc \in [Workers -> {"idle", "loop", "cascade", "readd", "move", "trigger", "callback"}]
      /\ expire \in [Timers -> Int] /\ due \in [Timers -> Nat \cup {NotDue}]
  BY <1>1 DEF TypeOK
<1>6. /\ NULL \notin Timers /\ NULL \notin Cells /\ Timers \subseteq Cells /\ L \in Cells \ Timers
      /\ \A v \in Workers : Local(v) = L => v = w
  BY <1>2, Places
<1>7. t \in Timers /\ t \in Cells /\ L # t
  BY <1>3, <1>4, <1>5, <1>6
<1>8. \A v \in Workers \ {w} : pc[v] \in {"idle", "callback"}
  BY <1>1, <1>4, Alone
<1>9. /\ \A c \in Cells : at'[c] = IF c = t THEN NULL ELSE IF c = L THEN at[t] ELSE at[c]
      /\ \A p \in Timers : pprev'[p] = IF p = t THEN NULL ELSE IF p = at[t] THEN L ELSE pprev[p]
      /\ \A v \in Workers : pc'[v] = IF v = w THEN "callback" ELSE pc[v]
  BY <1>4, <1>5, <1>6, <1>7
<1>10. PICK home \in [Timers -> Homes], rank \in [Timers -> Nat] :
          Chained(home, rank) /\ Taken(home) /\ Timely(home)
  BY DEF TInv, OnTime
<1>11. home[t] = L
  BY <1>3, <1>4, <1>6, <1>10 DEF Chained
<1>12. Chained(home, rank)'
  <2>1. ASSUME NEW c \in Cells, at'[c] # NULL
        PROVE  IF c \in Timers THEN home[at'[c]] = home[c] /\ rank[c] < rank[at'[c]]
               ELSE home[at'[c]] = c
    <3>1. CASE c = L
      <4>1. at'[c] = at[t] /\ at[t] \in Timers
        BY <1>5, <1>7, <1>9, <2>1, <3>1
      <4>2. home[at[t]] = home[t]
        BY <1>6, <1>7, <1>10, <4>1 DEF Chained
      <4>. QED  BY <1>6, <1>11, <3>1, <4>1, <4>2
    <3>2. CASE c # L
      <4>1. at'[c] = at[c]
        BY <1>9, <2>1, <3>2
      <4>. QED  BY <1>10, <2>1, <4>1 DEF Chained
    <3>. QED  BY <3>1, <3>2
  <2>. QED  BY <2>1 DEF Chained, Cells, Wheel, TVR_SIZE, TVN_SIZE, Local
<1>13. Taken(home)'
  BY <1>8, <1>9 DEF Taken
<1>14. \A u \in Timers \ {t} : due'[u] = due[u] /\ expire'[u] = expire[u]
  BY <1>4, <1>5
<1>15. pprev[t] # NULL /\ pprev'[t] = NULL
  BY <1>1, <1>3, <1>6, <1>7, <1>9 DEF Linked
<1>16. \A u \in Timers \ {t} : pprev'[u] # NULL <=> pprev[u] # NULL
  <2>1. at[t] \in Timers => pprev[at[t]] # NULL
    BY <1>1, <1>6, <1>7 DEF Linked
  <2>. QED  BY <1>6, <1>9, <2>1
<1>17. \A n \in 0 .. 3 : ~ Cascaded(n) /\ ~ Cascaded(n)'
  BY <1>4, <1>8, <1>9 DEF Cascaded
<1>18. Timely(home)'
  <2>. SUFFICES ASSUME NEW u \in Timers, pprev'[u] # NULL PROVE InTime(u, home[u])'
    BY DEF Timely
  <2>1. u # t /\ InTime(u, home[u])
    BY <1>10, <1>15, <1>16 DEF Timely
  <2>2. OnFirst(u, home[u]) => OnFirst(u, home[u])'
    BY <1>4, <1>14, <2>1 DEF OnFirst, TVR_INDEX, TVR_SIZE
  <2>3. \A n \in 0 .. 3 : OnLevel(u, home[u], n) => OnLevel(u, home[u], n)'
    BY <1>4, <1>14, <1>17, <2>1 DEF OnLevel, TVN_INDEX, TVN_SIZE, Slot, Span
  <2>4. \A v \in Workers : ~ OnChain(u, home[u], v)
    BY <1>4, <1>8 DEF OnChain
  <2>5. \A v \in Workers : OnLocal(u, home[u], v) => OnLocal(u, home[u], v)'
    BY <1>4, <1>9, <1>14, <2>1 DEF OnLocal, Local
  <2>. QED  BY <2>1, <2>2, <2>3, <2>4, <2>5 DEF InTime
<1>19. OnTime'
  <2>1. Homes' = Homes
    BY DEF Homes, Wheel, TVR_SIZE, TVN_SIZE, Local, Chain
  <2>. QED  BY <1>10, <1>12, <1>13, <1>18, <2>1 DEF OnTime
<1>20. Turned'
  BY <1>8, <1>9 DEF Turned
<1>21. DueStarted'
  <2>1. due'[t] = NotDue
    BY <1>4, <1>5, <1>7
  <2>. QED  BY <1>14, <1>15, <1>16, <2>1 DEF TInv, DueStarted, NotDue
<1>22. due[t] = tick[w]
  <2>1. InTime(t, L)
    BY <1>7, <1>10, <1>11, <1>15 DEF Timely
  <2>2. /\ ~ OnFirst(t, L) /\ \A n \in 0 .. 3 : ~ OnLevel(t, L, n)
        /\ \A v \in Workers : ~ OnChain(t, L, v)
    BY <1>2 DEF OnFirst, OnLevel, OnChain, Chain, Local
  <2>3. PICK v \in Workers : OnLocal(t, L, v)
    BY <2>1, <2>2 DEF InTime
  <2>. QED  BY <1>6, <2>3 DEF OnLocal
<1>. QED  BY <1>2, <1>3, <1>19, <1>20, <1>21, <1>22 DEF TInv

(* A step that writes no list keeps the timers in time, if the lists it    *)
(* leaves are empty and a wheel it passes by does not move on.             *)
LEMMA StillOnTime ==
    ASSUME TimeWheelAssumption, TypeOK, Linked, OnTime,
           at' = at, pprev' = pprev, expire' = expire, clock' = clock, due' = due,
           \A n \in 0 .. 3 : Cascaded(n) => Cascaded(n)',
           \A n \in 0 .. 3 : Cascaded(n)' => Cascaded(n) \/ clock % Span(n) # 0,
           \A v \in Workers : pc'[v] # "readd",
           \A v \in Workers : pc[v] = "readd" => chain[v] = NULL,
           \A v \in Workers : pc[v] \in {"trigger", "callback"} =>
              \/ pc'[v] \in {"trigger", "callback"} /\ tick'[v] = tick[v]
              \/ at[Local(v)] = NULL
    PROVE  OnTime'
<1>1. PICK home \in [Timers -> Homes], rank \in [Timers -> Nat] :
          Chained(home, rank) /\ Taken(home) /\ Timely(home)
  BY DEF OnTime
<1>2. Chained(home, rank)'
  BY <1>1 DEF Chained, Cells, Wheel, TVR_SIZE, TVN_SIZE, Local
<1>3. Taken(home)'
  BY DEF Taken
<1>4. clock \in Int /\ expire \in [Timers -> Int]
  BY DEF TypeOK
<1>5. Timely(home)'
  <2>. SUFFICES ASSUME NEW u \in Timers, pprev[u] # NULL PROVE InTime(u, home[u])'
    BY DEF Timely
  <2>1. InTime(u, home[u])
    BY <1>1 DEF Timely
  <2>2. OnFirst(u, home[u]) => OnFirst(u, home[u])'
    BY DEF OnFirst, TVR_INDEX, TVR_SIZE
  <2>3. ASSUME NEW n \in 0 .. 3, OnLevel(u, home[u], n) PROVE OnLevel(u, home[u], n)'
    <3>. DEFINE s == Slot(expire[u], n)
    <3>1. n \in 0 .. 4 /\ expire[u] \in Int
      BY <1>4
    <3>2. s \in Int
      BY <3>1, SlotOf
    <3>3. clock % Span(n) # 0 => s # clock
      BY <1>4, <3>1, SlotApart
    <3>4. Span(n + 1) \in Nat
      BY Spans
    <3>5. /\ home[u] = <<n + 2, TVN_INDEX(expire[u], n)>> /\ due[u] = expire[u]
          /\ IF Cascaded(n) THEN clock < s /\ s <= clock + Span(n + 1)
                            ELSE clock <= s /\ s < clock + Span(n + 1)
      BY <2>3 DEF OnLevel
    <3>. HIDE DEF s
    <3>6. IF Cascaded(n)' THEN clock < s /\ s <= clock + Span(n + 1)
                          ELSE clock <= s /\ s < clock + Span(n + 1)
      <4>1. CASE Cascaded(n)
        BY <3>5, <4>1
      <4>2. CASE ~ Cascaded(n) /\ Cascaded(n)'
        BY <1>4, <3>2, <3>3, <3>4, <3>5, <4>2
      <4>3. CASE ~ Cascaded(n) /\ ~ Cascaded(n)'
        BY <3>5, <4>3
      <4>. QED  BY <4>1, <4>2, <4>3
    <3>. QED  BY <3>5, <3>6 DEF OnLevel, TVN_INDEX, TVN_SIZE, Slot, Span, s
  <2>4. ASSUME NEW v \in Workers, OnChain(u, home[u], v) PROVE FALSE
    <3>1. home[u] = Chain(v) /\ pc[v] = "readd" /\ chain[v] = NULL
      BY <2>4 DEF OnChain
    <3>2. Chain(v) \notin Cells \ Timers
      BY DEF Chain, Cells, Wheel, Local
    <3>3. \A x \in Workers : Chain(v) = Chain(x) => x = v
      BY DEF Chain
    <3>4. \A x \in Timers : pprev[x] # NULL => home[x] # Chain(v)
      BY <1>1, <3>1, <3>2, <3>3, EmptyHome
    <3>. QED  BY <3>1, <3>4
  <2>5. ASSUME NEW v \in Workers, OnLocal(u, home[u], v) PROVE OnLocal(u, home[u], v)'
    <3>1. home[u] = Local(v) /\ pc[v] \in {"trigger", "callback"}
      BY <2>5 DEF OnLocal
    <3>2. CASE at[Local(v)] = NULL
      <4>1. Local(v) \in Cells \ Timers /\ \A x \in Workers : Local(v) # Chain(x)
        BY Places DEF Local, Chain
      <4>2. \A x \in Timers : pprev[x] # NULL => home[x] # Local(v)
        BY <1>1, <3>2, <4>1, EmptyHome
      <4>. QED  BY <3>1, <4>2
    <3>3. CASE at[Local(v)] # NULL
      BY <2>5, <3>1, <3>3 DEF OnLocal, Local
    <3>. QED  BY <3>2, <3>3
  <2>. QED  BY <2>1, <2>2, <2>3, <2>4, <2>5 DEF InTime
<1>6. Homes' = Homes
  BY DEF Homes, Wheel, TVR_SIZE, TVN_SIZE, Local, Chain
<1>. QED  BY <1>1, <1>2, <1>3, <1>5, <1>6 DEF OnTime

(* The steps of twtimer_process that write no list.                        *)
LEMMA StillTime ==
    ASSUME TimeWheelAssumption, IInv, TInv, NEW w \in Workers,
           \/ \E d \in Steps : ProcessCall(w, d)
           \/ ProcessTick(w) \/ ProcessReturn(w) \/ CascadeEnd(w)
           \/ CallbackReturn(w) \/ TriggerEnd(w)
    PROVE  TInv'
<1>1. TypeOK /\ Linked /\ LockHeld /\ OnTime /\ Turned /\ DueStarted
  BY DEF IInv, TInv
<1>2. /\ at' = at /\ pprev' = pprev /\ expire' = expire /\ clock' = clock /\ due' = due
      /\ chain' = chain
  BY DEF ProcessCall, ProcessTick, ProcessReturn, CascadeEnd, CallbackReturn, TriggerEnd, lists, local
<1>3. /\ pc \in [Workers -> {"idle", "loop", "cascade", "readd", "move", "trigger", "callback"}]
      /\ level \in [Workers -> 0 .. 3] /\ tick \in [Workers -> 0 .. MaxClock]
      /\ clock \in Int
  BY <1>1 DEF TypeOK
<1>4. \A v \in Workers \ {w} : pc[v] \in {"idle", "callback"}
  <2>1. locker = NULL \/ pc[w] \notin {"idle", "callback"}
    BY DEF ProcessCall, ProcessTick, ProcessReturn, CascadeEnd, CallbackReturn, TriggerEnd, Goto
  <2>2. NULL \notin Workers
    BY Places
  <2>. QED  BY <1>1, <2>1, <2>2 DEF LockHeld
<1>5. ASSUME NEW l, pc' = [pc EXCEPT ![w] = l], l # "readd",
             \A v \in Workers \ {w} : tick'[v] = tick[v],
             \A n \in 0 .. 3 : Cascaded(n) => Cascaded(n)',
             \A n \in 0 .. 3 : Cascaded(n)' => Cascaded(n) \/ clock % Span(n) # 0,
             pc[w] = "readd" => chain[w] = NULL,
             pc[w] \in {"trigger", "callback"} =>
                \/ l \in {"trigger", "callback"} /\ tick'[w] = tick[w]
                \/ at[Local(w)] = NULL,
             l = "cascade" => clock % Span(level'[w]) = 0
      PROVE  TInv'
  <2>1. \A v \in Workers : pc'[v] = IF v = w THEN l ELSE pc[v]
    BY <1>3, <1>5
  <2>2. OnTime'
    <3>1. \A v \in Workers : pc'[v] # "readd"
      BY <1>4, <1>5, <2>1
    <3>2. \A v \in Workers : pc[v] = "readd" => chain[v] = NULL
      BY <1>4, <1>5
    <3>3. \A v \in Workers : pc[v] \in {"trigger", "callback"} =>
              \/ pc'[v] \in {"trigger", "callback"} /\ tick'[v] = tick[v]
              \/ at[Local(v)] = NULL
      BY <1>5, <2>1
    <3>. QED  BY <1>1, <1>2, <1>5, <3>1, <3>2, <3>3, StillOnTime
  <2>3. Turned'
    <3>. SUFFICES ASSUME NEW v \in Workers, pc'[v] \in {"cascade", "readd"}
                  PROVE  clock' % Span(level'[v]) = 0
      BY DEF Turned, Span
    <3>1. v = w /\ l = "cascade"
      BY <1>4, <1>5, <2>1
    <3>. QED  BY <1>2, <1>5, <3>1
  <2>4. DueStarted'
    BY <1>1, <1>2 DEF DueStarted, NotDue
  <2>. QED  BY <2>2, <2>3, <2>4 DEF TInv
<1>6. \A n \in 0 .. 3 : Cascaded(n) <=> \/ pc[w] = "cascade" /\ n < level[w]
                                        \/ pc[w] = "readd" /\ n <= level[w]
                                        \/ pc[w] = "move"
  BY <1>4 DEF Cascaded
<1>7. \A n \in 0 .. 3 : Cascaded(n)' <=> \/ pc'[w] = "cascade" /\ n < level'[w]
                                         \/ pc'[w] = "readd" /\ n <= level'[w]
                                         \/ pc'[w] = "move"
  <2>1. \A v \in Workers \ {w} : pc'[v] = pc[v]
    BY <1>3 DEF ProcessCall, ProcessTick, ProcessReturn, CascadeEnd, CallbackReturn, TriggerEnd, Goto
  <2>. QED  BY <1>4, <2>1 DEF Cascaded
<1>8. ASSUME NEW d \in Steps, ProcessCall(w, d) PROVE TInv'
  <2>1. pc[w] = "idle" /\ pc' = [pc EXCEPT ![w] = "loop"] /\ pc'[w] = "loop" /\ tick' = tick
    BY <1>3, <1>8 DEF ProcessCall, Goto
  <2>2. \A n \in 0 .. 3 : ~ Cascaded(n) /\ ~ Cascaded(n)'
    BY <1>6, <1>7, <2>1
  <2>. QED  BY <1>5, <2>1, <2>2, Zenon
<1>9. CASE ProcessTick(w)
  <2>. DEFINE l == IF TVR_INDEX(clock) = 0 THEN "cascade" ELSE "move"
  <2>1. /\ pc[w] = "loop" /\ pc' = [pc EXCEPT ![w] = l] /\ pc'[w] = l /\ tick' = tick
        /\ level' = [level EXCEPT ![w] = 0]
    BY <1>3, <1>9 DEF ProcessTick, Goto
  <2>2. level'[w] = 0
    BY <1>3, <2>1
  <2>3. Span(0) = TVR_SIZE
    BY Spans
  <2>4. CASE TVR_INDEX(clock) = 0
    <3>1. \A n \in 0 .. 3 : ~ Cascaded(n) /\ ~ Cascaded(n)'
      BY <1>6, <1>7, <2>1, <2>2, <2>4
    <3>2. clock % Span(level'[w]) = 0
      BY <2>2, <2>3, <2>4 DEF TVR_INDEX
    <3>. QED  BY <1>5, <2>1, <2>4, <3>1, <3>2, Zenon
  <2>5. CASE TVR_INDEX(clock) # 0
    <3>1. clock % Span(0) # 0
      BY <2>3, <2>5 DEF TVR_INDEX
    <3>2. \A n \in 0 + 1 .. 3 : clock % Span(n) # 0
      BY <1>3, <3>1, Still
    <3>3. \A n \in 0 .. 3 : clock % Span(n) # 0
      <4>1. \A n \in 0 .. 3 : n = 0 \/ n \in 0 + 1 .. 3
        OBVIOUS
      <4>. QED  BY <3>1, <3>2, <4>1
    <3>4. \A n \in 0 .. 3 : ~ Cascaded(n)
      BY <1>6, <2>1
    <3>. QED  BY <1>5, <2>1, <2>5, <3>3, <3>4, Zenon
  <2>. QED  BY <2>4, <2>5
<1>10. CASE ProcessReturn(w)
  <2>1. pc[w] = "loop" /\ pc' = [pc EXCEPT ![w] = "idle"] /\ pc'[w] = "idle" /\ tick' = [tick EXCEPT ![w] = 0]
    BY <1>3, <1>10 DEF ProcessReturn, Goto
  <2>2. \A n \in 0 .. 3 : ~ Cascaded(n) /\ ~ Cascaded(n)'
    BY <1>6, <1>7, <2>1
  <2>3. \A v \in Workers \ {w} : tick'[v] = tick[v]
    BY <1>3, <2>1
  <2>. QED  BY <1>5, <2>1, <2>2, <2>3, Zenon
<1>11. CASE CascadeEnd(w)
  <2>. DEFINE k == level[w]
              more == TVN_INDEX(clock, k) = 0 /\ k < 3
  <2>1. /\ chain[w] = NULL /\ pc[w] = "readd"
        /\ pc' = [pc EXCEPT ![w] = IF more THEN "cascade" ELSE "move"]
        /\ level' = [level EXCEPT ![w] = IF more THEN @ + 1 ELSE @] /\ tick' = tick
    BY <1>11 DEF CascadeEnd, Goto
  <2>2. k \in 0 .. 3 /\ clock % Span(k) = 0
    BY <1>1, <1>3, <2>1 DEF Turned
  <2>3. CASE more
    <3>1. level'[w] = k + 1 /\ pc' = [pc EXCEPT ![w] = "cascade"] /\ pc'[w] = "cascade"
      BY <1>3, <2>1, <2>3
    <3>2. clock % Span(k + 1) = 0
      BY <1>3, <2>2, <2>3, TurnOver
    <3>3. \A n \in 0 .. 3 : Cascaded(n)' <=> Cascaded(n)
      <4>1. \A n \in 0 .. 3 : n < k + 1 <=> n <= k
        BY <2>2
      <4>. QED  BY <1>6, <1>7, <2>1, <3>1, <4>1
    <3>. QED  BY <1>5, <2>1, <3>1, <3>2, <3>3, Zenon
  <2>4. CASE ~ more
    <3>1. pc' = [pc EXCEPT ![w] = "move"] /\ pc'[w] = "move"
      BY <1>3, <2>1, <2>4, Zenon
    <3>2. \A n \in k + 1 .. 3 : clock % Span(n) # 0
      <4>1. CASE k = 3
        BY <4>1
      <4>2. CASE k # 3
        <5>1. TVN_INDEX(clock, k) # 0
          BY <2>2, <2>4, <4>2
        <5>. QED  BY <1>3, <2>2, <5>1, Still
      <4>. QED  BY <4>1, <4>2
    <3>3. \A n \in 0 .. 3 : Cascaded(n) \/ clock % Span(n) # 0
      <4>1. \A n \in 0 .. 3 : n <= k \/ n \in k + 1 .. 3
        BY <2>2
      <4>. QED  BY <1>6, <2>1, <3>2, <4>1
    <3>4. \A n \in 0 .. 3 : Cascaded(n)'
      BY <1>7, <3>1
    <3>. QED  BY <1>5, <2>1, <3>1, <3>3, <3>4, Zenon
  <2>. QED  BY <2>3, <2>4
<1>12. CASE CallbackReturn(w)
  <2>1. pc[w] = "callback" /\ pc' = [pc EXCEPT ![w] = "trigger"] /\ pc'[w] = "trigger" /\ tick' = tick
    BY <1>3, <1>12 DEF CallbackReturn, Goto
  <2>2. \A n \in 0 .. 3 : ~ Cascaded(n) /\ ~ Cascaded(n)'
    BY <1>6, <1>7, <2>1
  <2>. QED  BY <1>5, <2>1, <2>2, Zenon
<1>13. CASE TriggerEnd(w)
  <2>1. /\ pc[w] = "trigger" /\ pc' = [pc EXCEPT ![w] = "loop"] /\ pc'[w] = "loop" /\ tick' = tick
        /\ at[Local(w)] = NULL
    BY <1>3, <1>13 DEF TriggerEnd, Goto, local
  <2>2. \A n \in 0 .. 3 : ~ Cascaded(n) /\ ~ Cascaded(n)'
    BY <1>6, <1>7, <2>1
  <2>. QED  BY <1>5, <2>1, <2>2, Zenon
<1>. QED  BY <1>8, <1>9, <1>10, <1>11, <1>12, <1>13

-----------------------------------------------------------------------------
(* time_wheel_create: no timer is due.                                     *)
LEMMA InitTInv ==
    ASSUME TimeWheelAssumption, Init
    PROVE  TInv
<1>1. \A c \in Cells : at[c] = NULL
  BY DEF Init
<1>2. \A t \in Timers : pprev[t] = NULL /\ due[t] = NotDue
  BY DEF Init
<1>3. \A w \in Workers : pc[w] = "idle"
  BY DEF Init
<1>4. <<1, 0>> \in Homes
  <2>1. TVR_SIZE \in Nat \ {0}
    BY Spans
  <2>2. <<1, 0>> \in Wheel
    BY <2>1 DEF Wheel
  <2>. QED  BY <2>2 DEF Homes
<1>5. OnTime
  <2>. DEFINE home == [t \in Timers |-> <<1, 0>>]
              rank == [t \in Timers |-> 0]
  <2>1. home \in [Timers -> Homes] /\ rank \in [Timers -> Nat]
    BY <1>4
  <2>2. Chained(home, rank) /\ Taken(home) /\ Timely(home)
    BY <1>1, <1>2, <1>3 DEF Chained, Taken, Timely
  <2>. HIDE DEF home, rank
  <2>. QED  BY <2>1, <2>2 DEF OnTime
<1>. QED  BY <1>2, <1>3, <1>5 DEF TInv, Turned, DueStarted

(* Every started timer is in the list from which it will fire at its tick. *)
THEOREM TInvHolds ==
    ASSUME TimeWheelAssumption
    PROVE  Spec => []TInv
<1>1. Init => TInv
  BY InitTInv
<1>2. IInv /\ TInv /\ [Next]_vars => TInv'
  <2>. SUFFICES ASSUME IInv, TInv, [Next]_vars PROVE TInv'
    OBVIOUS
  <2>1. CASE UNCHANGED vars
    <3>1. Turned' /\ DueStarted'
      BY <2>1 DEF TInv, Turned, DueStarted, Span, NotDue, vars
    <3>2. PICK home \in [Timers -> Homes], rank \in [Timers -> Nat] :
             Chained(home, rank) /\ Taken(home) /\ Timely(home)
      BY DEF TInv, OnTime
    <3>3. Chained(home, rank)' /\ Taken(home)'
      BY <2>1, <3>2 DEF Chained, Taken, Cells, Wheel, TVR_SIZE, TVN_SIZE, Local, Chain, vars
    <3>4. Timely(home)'
      <4>. SUFFICES ASSUME NEW u \in Timers, pprev[u] # NULL PROVE InTime(u, home[u])'
        BY <2>1 DEF Timely, vars
      <4>1. InTime(u, home[u])
        BY <3>2 DEF Timely
      <4>. QED  BY <2>1, <4>1, Keep DEF vars
    <3>5. Homes' = Homes
      BY DEF Homes, Wheel, TVR_SIZE, TVN_SIZE, Local, Chain
    <3>. QED  BY <3>1, <3>2, <3>3, <3>4, <3>5 DEF TInv, OnTime
  <2>2. ASSUME NEW t \in Timers, Stop(t) PROVE TInv'
    BY <2>2, StopTime
  <2>3. ASSUME NEW t \in Timers, NEW d \in Delays, Start(t, d) PROVE TInv'
    BY <2>3, StartTime
  <2>4. ASSUME NEW w \in Workers, Process(w) PROVE TInv'
    <3>1. CASE CascadeTake(w)
      BY <3>1, TakeTime
    <3>2. CASE CascadeAdd(w)
      BY <3>2, AddTime
    <3>3. CASE Move(w)
      BY <3>3, MoveTime
    <3>4. CASE Trigger(w)
      BY <3>4, TriggerTime
    <3>5. CASE \/ \E d \in Steps : ProcessCall(w, d)
               \/ ProcessTick(w) \/ ProcessReturn(w) \/ CascadeEnd(w)
               \/ CallbackReturn(w) \/ TriggerEnd(w)
      BY <3>5, StillTime
    <3>. QED  BY <2>4, <3>1, <3>2, <3>3, <3>4, <3>5 DEF Process
  <2>. QED  BY <2>1, <2>2, <2>3, <2>4 DEF Next
<1>. QED  BY <1>1, <1>2, IInvHolds, PTL DEF Spec

(* No timer is left behind in a wheel, however often the wheels have       *)
(* turned, it was cascaded, and callbacks have started and stopped others. *)
THEOREM WheelNoneOverdue ==
    ASSUME TimeWheelAssumption
    PROVE  Spec => []NoneOverdue
<1>1. IInv /\ TInv => NoneOverdue
  <2>. SUFFICES ASSUME IInv, TInv, locker = NULL, NEW t \in Timers, due[t] # NotDue
                PROVE  \/ due[t] >= clock
                       \/ \E w \in Workers : pc[w] = "callback" /\ tick[w] = due[t]
    BY DEF NoneOverdue
  <2>1. PICK home \in [Timers -> Homes], rank \in [Timers -> Nat] : Timely(home)
    BY DEF TInv, OnTime
  <2>2. InTime(t, home[t])
    BY <2>1 DEF TInv, DueStarted, Timely
  <2>3. \A w \in Workers : pc[w] \in {"idle", "callback"}
    BY Places DEF IInv, LockHeld
  <2>4. clock \in Int /\ due[t] \in Int /\ expire[t] \in Int
    BY DEF IInv, TypeOK, NotDue
  <2>5. CASE OnFirst(t, home[t])
    BY <2>4, <2>5 DEF OnFirst
  <2>6. ASSUME NEW n \in 0 .. 3, OnLevel(t, home[t], n) PROVE due[t] >= clock
    <3>1. n \in 0 .. 4
      OBVIOUS
    <3>2. Slot(expire[t], n) \in Int /\ Slot(expire[t], n) <= expire[t]
      BY <2>4, <3>1, SlotOf, Zenon
    <3>3. due[t] = expire[t] /\ clock <= Slot(expire[t], n)
      BY <2>4, <2>6, <3>2 DEF OnLevel
    <3>. QED  BY <2>4, <3>2, <3>3
  <2>7. ASSUME NEW w \in Workers, OnChain(t, home[t], w) PROVE FALSE
    BY <2>3, <2>7 DEF OnChain
  <2>8. ASSUME NEW w \in Workers, OnLocal(t, home[t], w)
        PROVE  pc[w] = "callback" /\ tick[w] = due[t]
    BY <2>3, <2>8 DEF OnLocal
  <2>. QED  BY <2>2, <2>5, <2>6, <2>7, <2>8 DEF InTime
<1>. QED  BY <1>1, IInvHolds, TInvHolds, PTL

(* Every callback runs at the tick its timer is due, neither before nor    *)
(* after, for a timer that neither was stopped nor has fired.              *)
THEOREM WheelFiresNow ==
    ASSUME TimeWheelAssumption
    PROVE  Spec => [][FiresNow]_vars
<1>1. IInv /\ TInv /\ [Next]_vars => [FiresNow]_vars
  <2>. SUFFICES ASSUME IInv, TInv, Next, NEW w \in Workers, pc[w] = "trigger", pc'[w] = "callback"
                PROVE  due[cur'[w]] = tick[w]
    BY DEF FiresNow
  <2>1. /\ pc \in [Workers -> {"idle", "loop", "cascade", "readd", "move", "trigger", "callback"}]
        /\ cur \in [Workers -> Timers \cup {NULL}] /\ LockHeld
    BY DEF IInv, TypeOK
  <2>2. locker = w /\ \A v \in Workers \ {w} : pc[v] \in {"idle", "callback"}
    BY <2>1, Alone
  <2>3. NULL \notin Workers
    BY Places
  <2>4. ASSUME NEW v \in Workers, Process(v) PROVE Trigger(w)
    <3>1. v = w
      BY <2>1, <2>2, <2>3, <2>4 DEF Process, ProcessCall, ProcessTick, ProcessReturn, CascadeTake,
                                    CascadeAdd, CascadeEnd, Move, Trigger, CallbackReturn, TriggerEnd, Goto
    <3>. QED  BY <2>1, <2>2, <2>3, <2>4, <3>1
              DEF Process, ProcessCall, ProcessTick, ProcessReturn, CascadeTake,
                  CascadeAdd, CascadeEnd, Move, CallbackReturn, TriggerEnd, Goto
  <2>5. Trigger(w)
    BY <2>2, <2>3, <2>4 DEF Next, Stop, Start
  <2>6. cur'[w] = at[Local(w)]
    BY <2>1, <2>5 DEF Trigger
  <2>. QED  BY <2>5, <2>6, TriggerTime
<1>. QED  BY <1>1, IInvHolds, TInvHolds, PTL DEF Spec
=============================================================================
