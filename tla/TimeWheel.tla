----------------------------- MODULE TimeWheel ------------------------------
(***************************************************************************)
(* time_wheel/twtimer.c: five wheels of buckets of timers.  The lists are  *)
(* modelled with their pointers: a cell is a bucket's first, the next of a *)
(* timer or the bucket a worker has on its stack; at says which timer a    *)
(* cell points to, pprev which cell points to a timer.  twtimer_process    *)
(* drops the lock around each callback, and other threads then start and   *)
(* stop timers, the callback's own included, or process the wheel too.     *)
(***************************************************************************)
EXTENDS Integers, FiniteSets

CONSTANTS Timers, Workers,     \* the timers; the threads that call twtimer_process
          TVR_BITS, TVN_BITS,  \* bits of the first wheel's index, of the others'
          Delays,              \* bound: how far from the wheel's clock timers expire
          Steps,               \* bound: how far ahead twtimer_process is called
          MaxClock,            \* bound: the last clock
          NULL

TVR_SIZE == 2 ^ TVR_BITS
TVN_SIZE == 2 ^ TVN_BITS

(* The clock of level n's buckets: level 0 is tv2, level 3 is tv5.         *)
Span(n) == 2 ^ (TVR_BITS + n * TVN_BITS)
TVR_INDEX(clk) == clk % TVR_SIZE
TVN_INDEX(clk, n) == (clk \div Span(n)) % TVN_SIZE

Wheel == {<<1, i>> : i \in 0 .. TVR_SIZE - 1}
             \cup {<<n + 2, i>> : n \in 0 .. 3, i \in 0 .. TVN_SIZE - 1}
Local(w) == <<6, w>>
Cells == Wheel \cup {Local(w) : w \in Workers} \cup Timers

(* The cells are different places in memory; powers of two are positive    *)
(* and multiply.                                                           *)
TimeWheelAssumption ==
    /\ IsFiniteSet(Timers) /\ NULL \notin Cells /\ NULL \notin Workers
    /\ \A t \in Timers : t \notin Wheel /\ \A w \in Workers : t # Local(w)
    /\ TVR_SIZE \in Nat \ {0} /\ TVN_SIZE \in Nat \ {0}
    /\ \A n \in 0 .. 4 : Span(n) \in Nat \ {0}
    /\ Span(0) = TVR_SIZE /\ \A n \in 0 .. 3 : Span(n + 1) = Span(n) * TVN_SIZE
    /\ Delays \subseteq Int /\ Steps \subseteq Nat /\ MaxClock \in Nat

VARIABLES clock, count, locker,  \* struct time_wheel
          at, pprev, expire,     \* the lists; each timer's expire
          pc, target,            \* each worker's place and argument
          level, chain,          \* its place in a cascade
          tick, cur,             \* the tick whose bucket it triggers, its timer
          due                    \* history: the tick at which each started timer is to fire

NotDue == -1

lists == <<at, pprev>>
local == <<target, level, chain, tick, cur>>
vars == <<clock, count, locker, at, pprev, expire, pc, target, level, chain, tick, cur, due>>

TypeOK ==
    /\ clock \in 0 .. MaxClock /\ count \in Nat
    /\ locker \in Workers \cup {NULL}
    /\ at \in [Cells -> Timers \cup {NULL}]
    /\ pprev \in [Timers -> Cells \cup {NULL}]
    /\ expire \in [Timers -> Int] /\ due \in [Timers -> Nat \cup {NotDue}]
    /\ pc \in [Workers -> {"idle", "loop", "cascade", "readd", "move", "trigger", "callback"}]
    /\ target \in [Workers -> 0 .. MaxClock] /\ level \in [Workers -> 0 .. 3]
    /\ chain \in [Workers -> Timers \cup {NULL}] /\ cur \in [Workers -> Timers \cup {NULL}]
    /\ tick \in [Workers -> 0 .. MaxClock]

Init ==
    /\ clock = 0 /\ count = 0 /\ locker = NULL
    /\ at = [c \in Cells |-> NULL] /\ pprev = [t \in Timers |-> NULL]
    /\ expire = [t \in Timers |-> 0] /\ due = [t \in Timers |-> NotDue]
    /\ pc = [w \in Workers |-> "idle"] /\ target = [w \in Workers |-> 0]
    /\ level = [w \in Workers |-> 0] /\ chain = [w \in Workers |-> NULL]
    /\ tick = [w \in Workers |-> 0] /\ cur = [w \in Workers |-> NULL]

-----------------------------------------------------------------------------
(* The bucket twtimer_add chooses for an expiry.                           *)

InRange(e) == e - clock < Span(4)

(* Mutant: the levels are told apart one bit too late. *)
Bucket_OffByOne(e) ==
    IF e < clock THEN <<1, TVR_INDEX(clock)>>
    ELSE IF e - clock <= Span(0) THEN <<1, TVR_INDEX(e)>>
    ELSE LET n == CHOOSE i \in 0 .. 3 :
                     /\ e - clock <= Span(i + 1)
                     /\ \A j \in 0 .. i - 1 : e - clock > Span(j + 1)
         IN <<n + 2, TVN_INDEX(e, n)>>

Bucket(e) ==
    IF e < clock THEN <<1, TVR_INDEX(clock)>>
    ELSE IF e - clock < Span(0) THEN <<1, TVR_INDEX(e)>>
    ELSE LET n == CHOOSE i \in 0 .. 3 :
                     /\ e - clock < Span(i + 1)
                     /\ \A j \in 0 .. i - 1 : e - clock >= Span(j + 1)
         IN <<n + 2, TVN_INDEX(e, n)>>

(* Insert t at the front of bucket b's list.                               *)
Insert(t, b) ==
    /\ at' = [at EXCEPT ![t] = at[b], ![b] = t]
    /\ pprev' = [p \in Timers |-> IF p = t THEN b ELSE IF p = at[b] THEN t ELSE pprev[p]]

(* Mutant: the count is not increased. *)
Start_NoCount(t, d) ==
    /\ locker = NULL
    /\ pprev[t] = NULL
    /\ clock + d >= 0 /\ InRange(clock + d)
    /\ expire' = [expire EXCEPT ![t] = clock + d]
    /\ Insert(t, Bucket(clock + d))
    /\ due' = [due EXCEPT ![t] = IF d < 0 THEN clock ELSE clock + d]
    /\ UNCHANGED <<clock, count, locker, pc, local>>

(* twtimer_start, on a timer that is not started and within the range of   *)
(* the wheels: twtimer_add asserts both.                                   *)
Start(t, d) ==
    /\ locker = NULL
    /\ pprev[t] = NULL
    /\ clock + d >= 0 /\ InRange(clock + d)
    /\ expire' = [expire EXCEPT ![t] = clock + d]
    /\ Insert(t, Bucket(clock + d))
    /\ count' = count + 1
    /\ due' = [due EXCEPT ![t] = IF d < 0 THEN clock ELSE clock + d]
    /\ UNCHANGED <<clock, locker, pc, local>>

(* Mutant: the timer behind the stopped one keeps pointing to it. *)
Unlink_NoBack(t) ==
    /\ at' = [c \in Cells |-> IF c = t THEN NULL ELSE IF c = pprev[t] THEN at[t] ELSE at[c]]
    /\ pprev' = [pprev EXCEPT ![t] = NULL]

Unlink(t) ==
    /\ at' = [c \in Cells |-> IF c = t THEN NULL ELSE IF c = pprev[t] THEN at[t] ELSE at[c]]
    /\ pprev' = [p \in Timers |-> IF p = t THEN NULL ELSE IF p = at[t] THEN pprev[t] ELSE pprev[p]]

(* The timer is not to fire any more; its caller sets expire again before  *)
(* it starts the timer again.                                              *)
Forget(t) ==
    /\ due' = [due EXCEPT ![t] = NotDue]
    /\ expire' = [expire EXCEPT ![t] = 0]

(* twtimer_stop returns 0 exactly when the timer was in a list.            *)
Stop(t) ==
    /\ locker = NULL /\ Unlink(t)
    /\ count' = IF pprev[t] # NULL THEN count - 1 ELSE count
    /\ Forget(t)
    /\ UNCHANGED <<clock, locker, pc, local>>

-----------------------------------------------------------------------------
(* twtimer_process                                                         *)

Goto(w, from, to) == pc[w] = from /\ pc' = [pc EXCEPT ![w] = to]

ProcessCall(w, d) ==
    /\ locker = NULL /\ locker' = w
    /\ clock + d <= MaxClock
    /\ Goto(w, "idle", "loop")
    /\ target' = [target EXCEPT ![w] = clock + d]
    /\ UNCHANGED <<clock, count, lists, expire, level, chain, tick, cur, due>>

ProcessTick(w) ==
    /\ clock < target[w]
    /\ Goto(w, "loop", IF TVR_INDEX(clock) = 0 THEN "cascade" ELSE "move")
    /\ level' = [level EXCEPT ![w] = 0]
    /\ UNCHANGED <<clock, count, locker, lists, expire, target, chain, tick, cur, due>>

ProcessReturn(w) ==
    /\ clock >= target[w]
    /\ Goto(w, "loop", "idle") /\ locker' = NULL
    /\ target' = [target EXCEPT ![w] = 0] /\ tick' = [tick EXCEPT ![w] = 0]
    /\ level' = [level EXCEPT ![w] = 0]
    /\ UNCHANGED <<clock, count, lists, expire, chain, cur, due>>

(* twtimer_cascade: take the bucket's list, add each timer again.          *)
CascadeTake(w) ==
    LET b == <<level[w] + 2, TVN_INDEX(clock, level[w])>> IN
    /\ Goto(w, "cascade", "readd")
    /\ chain' = [chain EXCEPT ![w] = at[b]]
    /\ at' = [at EXCEPT ![b] = NULL]
    /\ UNCHANGED <<clock, count, locker, pprev, expire, target, level, tick, cur, due>>

CascadeAdd(w) ==
    /\ pc[w] = "readd" /\ chain[w] # NULL
    /\ chain' = [chain EXCEPT ![w] = at[chain[w]]]
    /\ Insert(chain[w], Bucket(expire[chain[w]]))
    /\ UNCHANGED <<clock, count, locker, expire, pc, target, level, tick, cur, due>>

(* Mutant: a wheel that turned does not cascade the next one. *)
CascadeEnd_OneLevel(w) ==
    /\ chain[w] = NULL
    /\ Goto(w, "readd", "move")
    /\ UNCHANGED <<clock, count, locker, lists, expire, local, due>>

(* The next level is cascaded when this one has turned once.               *)
CascadeEnd(w) ==
    LET more == TVN_INDEX(clock, level[w]) = 0 /\ level[w] < 3 IN
    /\ chain[w] = NULL
    /\ Goto(w, "readd", IF more THEN "cascade" ELSE "move")
    /\ level' = [level EXCEPT ![w] = IF more THEN @ + 1 ELSE @]
    /\ UNCHANGED <<clock, count, locker, lists, expire, target, chain, tick, cur, due>>

Move(w) ==
    LET b == <<1, TVR_INDEX(clock)>> IN
    /\ Goto(w, "move", "trigger")
    /\ at' = [at EXCEPT ![Local(w)] = at[b], ![b] = NULL]
    /\ tick' = [tick EXCEPT ![w] = clock]
    /\ clock' = clock + 1
    /\ UNCHANGED <<count, locker, pprev, expire, target, level, chain, cur, due>>

Trigger(w) ==
    LET t == at[Local(w)] IN
    /\ t # NULL
    /\ Goto(w, "trigger", "callback") /\ locker' = NULL
    /\ at' = [at EXCEPT ![Local(w)] = at[t], ![t] = NULL]
    /\ pprev' = [p \in Timers |-> IF p = t THEN NULL ELSE IF p = at[t] THEN Local(w) ELSE pprev[p]]
    /\ count' = count - 1
    /\ cur' = [cur EXCEPT ![w] = t]
    /\ Forget(t)
    /\ UNCHANGED <<clock, target, level, chain, tick>>

(* ontimeout returns; what it does, any thread may do in the meantime.     *)
CallbackReturn(w) ==
    /\ locker = NULL /\ locker' = w
    /\ Goto(w, "callback", "trigger")
    /\ cur' = [cur EXCEPT ![w] = NULL]
    /\ UNCHANGED <<clock, count, lists, expire, target, level, chain, tick, due>>

TriggerEnd(w) ==
    /\ at[Local(w)] = NULL
    /\ Goto(w, "trigger", "loop")
    /\ UNCHANGED <<clock, count, locker, lists, expire, local, due>>

Process(w) ==
    \/ \E d \in Steps : ProcessCall(w, d)
    \/ ProcessTick(w) \/ ProcessReturn(w)
    \/ CascadeTake(w) \/ CascadeAdd(w) \/ CascadeEnd(w)
    \/ Move(w) \/ Trigger(w) \/ CallbackReturn(w) \/ TriggerEnd(w)

Next ==
    \/ \E t \in Timers : Stop(t) \/ \E d \in Delays : Start(t, d)
    \/ \E w \in Workers : Process(w)

Spec == Init /\ [][Next]_vars

-----------------------------------------------------------------------------
(* Whenever the lock is free, the lists are sound: what a cell points to   *)
(* points back to that cell, and a started timer is where its pprev says,  *)
(* so that twtimer_stop unlinks it from wheel and callback alike; count is *)
(* the number of started timers, as time_wheel_destroy asserts.            *)
ListsSound ==
    locker = NULL =>
        /\ \A c \in Cells : at[c] # NULL => pprev[at[c]] = c
        /\ \A t \in Timers : IF pprev[t] = NULL THEN at[t] = NULL ELSE at[pprev[t]] = t
        /\ count = Cardinality({t \in Timers : pprev[t] # NULL})

(* No timer is left behind: one that is still in a wheel is due at the     *)
(* wheel's clock or later, however often the wheels have turned and the    *)
(* timer has been cascaded.                                                *)
NoneOverdue ==
    locker = NULL =>
        \A t \in Timers : due[t] # NotDue =>
            \/ due[t] >= clock
            \/ \E w \in Workers : pc[w] = "callback" /\ tick[w] = due[t]

(* A timer fires at the tick it is due, neither before nor after, and only *)
(* if it was started and neither stopped nor fired since: twtimer_stop     *)
(* returns 0 only for a timer that will not fire (twtimer.h).              *)
FiresNow ==
    \A w \in Workers : (pc[w] = "trigger" /\ pc'[w] = "callback") => due[cur'[w]] = tick[w]
=============================================================================
