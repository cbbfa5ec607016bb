-------------------------- MODULE ThreadPoolProofs --------------------------
(***************************************************************************)
(* Proofs about ThreadPool for any number of threads and tasks.            *)
(***************************************************************************)
EXTENDS ThreadPool, FiniteSetTheorems, TLAPS

Idle == Live \ Busy

-----------------------------------------------------------------------------
(* Cardinality of a finite set when one element enters or leaves.          *)
LEMMA CardAdd ==
    ASSUME NEW S, IsFiniteSet(S), NEW x, x \notin S
    PROVE  /\ IsFiniteSet(S \cup {x})
           /\ Cardinality(S) \in Nat
           /\ Cardinality(S \cup {x}) = Cardinality(S) + 1
  BY FS_AddElement, FS_CardinalityType

(* A thread leaves a set that a counter is about.                          *)
LEMMA CardDel ==
    ASSUME NEW S, IsFiniteSet(S), NEW x, x \in S
    PROVE  /\ IsFiniteSet(S \ {x})
           /\ Cardinality(S) \in Nat /\ Cardinality(S) >= 1
           /\ Cardinality(S \ {x}) = Cardinality(S) - 1
<1>1. Cardinality(S \ {x}) = Cardinality(S) - 1 /\ IsFiniteSet(S \ {x})
  BY FS_RemoveElement
<1>2. Cardinality(S) \in Nat /\ Cardinality(S \ {x}) \in Nat
  BY <1>1, FS_CardinalityType
<1> QED  BY <1>1, <1>2

(* The sets of live and of idle threads are finite.                        *)
LEMMA ThreadSets ==
    /\ IsFiniteSet(Live) /\ IsFiniteSet(Idle)
    /\ Cardinality(Live) \in Nat /\ Cardinality(Idle) \in Nat
<1>1. IsFiniteSet(Live) /\ IsFiniteSet(Idle)
  BY FS_Subset, PoolAssumption DEF Live, Idle
<1> QED  BY <1>1, FS_CardinalityType

(* event_signal moves no thread, or one from the sleep to its end.         *)
LEMMA SignalMoves ==
    ASSUME NEW places \in [Threads -> WorkerPC], event_signal(places)
    PROVE  /\ pc' \in [Threads -> WorkerPC] /\ count' = 1
           /\ \A v \in Threads : \/ pc'[v] = places[v]
                                 \/ places[v] = "cond" /\ pc'[v] = "woken"
           /\ (\E v \in Threads : places[v] = "cond") =>
                  \E v \in Threads : pc'[v] = "woken"
  BY DEF event_signal, WorkerPC

-----------------------------------------------------------------------------
(* The inductive invariant.  The owner's place fixes run; a thread that    *)
(* decided to sleep or to leave while holding the lock saw no task, or the *)
(* pool stopped, and nobody can push before it releases the lock.          *)

RunPhase == run <=> cpc \in {"create", "open"}

DecidedRight ==
    \A w \in Threads :
        /\ pc[w] = "decide" => tasks = << >> \/ ~run
        /\ pc[w] = "exit" => (tasks = << >> \/ ~run) /\ cpc # "create"

NothingYet == cpc = "create" => tasks = << >> /\ \A t \in Tasks : status[t] = "new"

IInv == /\ TypeOK /\ LockHeld /\ CountsExact /\ ThreadsBounded
        /\ RunPhase /\ DecidedRight /\ NothingYet /\ NoLostWakeup /\ FreedUnused

(* Before thread_pool_create starts its first thread everything is empty.  *)
LEMMA InitIInv == Init => IInv
<1> SUFFICES ASSUME Init PROVE IInv
  OBVIOUS
<1>1. Live = {} /\ Busy = {}
  BY DEF Init, Live, Busy
<1>2. Cardinality({}) = 0
  BY FS_EmptySet
<1>3. TypeOK
  BY PoolAssumption DEF Init, TypeOK, WorkerPC, CloserPC, Status
<1>4. LockHeld
  BY PoolAssumption DEF Init, LockHeld
<1>5. CountsExact
  BY <1>1, <1>2 DEF Init, CountsExact
<1>6. ThreadsBounded
  BY <1>1, <1>2, PoolAssumption DEF ThreadsBounded
<1>7. RunPhase /\ DecidedRight /\ NothingYet /\ NoLostWakeup /\ FreedUnused
  BY <1>1 DEF Init, RunPhase, DecidedRight, NothingYet, NoLostWakeup, FreedUnused
<1> QED  BY <1>3, <1>4, <1>5, <1>6, <1>7 DEF IInv

-----------------------------------------------------------------------------
(* Moving one thread moves it in the sets of live, busy and idle threads.  *)
LEMMA MoveSets ==
    ASSUME pc \in [Threads -> WorkerPC], NEW w \in Threads, NEW to,
           pc' = [pc EXCEPT ![w] = to]
    PROVE  /\ Live' = IF to = "none" THEN Live \ {w} ELSE Live \cup {w}
           /\ Busy' = IF to \in {"proc", "relock"} THEN Busy \cup {w} ELSE Busy \ {w}
           /\ Idle' = IF to \in {"none", "proc", "relock"} THEN Idle \ {w} ELSE Idle \cup {w}
<1>1. \A v \in Threads : pc'[v] = IF v = w THEN to ELSE pc[v]
  OBVIOUS
<1>2. Live' = IF to = "none" THEN Live \ {w} ELSE Live \cup {w}
  BY <1>1 DEF Live
<1>3. Busy' = IF to \in {"proc", "relock"} THEN Busy \cup {w} ELSE Busy \ {w}
  BY <1>1 DEF Busy
<1>4. Idle' = IF to \in {"none", "proc", "relock"} THEN Idle \ {w} ELSE Idle \cup {w}
  BY <1>1 DEF Idle, Live, Busy
<1> QED  BY <1>2, <1>3, <1>4

(* A signal changes none of these sets.                                    *)
LEMMA SignalSets ==
    ASSUME NEW places \in [Threads -> WorkerPC], event_signal(places)
    PROVE  /\ Live' = {v \in Threads : places[v] # "none"}
           /\ Busy' = {v \in Threads : places[v] \in {"proc", "relock"}}
  BY SignalMoves DEF Live, Busy

(* What every step does to the threads and the counters.                   *)
Quiet == Live' = Live /\ Busy' = Busy /\ UNCHANGED <<thread_count, thread_count_idle>>

(* The steps of thread_pool_worker that neither begin nor end a thread,    *)
(* nor take or finish a task, change no counter.                           *)
LEMMA QuietSteps ==
    ASSUME TypeOK, NEW w \in Threads,
           \/ WLock(w) \/ WLoop(w) \/ WNoTask(w) \/ WProc(w) \/ WLeave(w) \/ WStay(w)
           \/ event_timewait(w) \/ WTimeout(w) \/ WWoken(w)
    PROVE  Quiet /\ UNCHANGED <<run, tasks, task_count, recycle_tasks, task, cpc, made>>
<1>1. pc \in [Threads -> WorkerPC]
  BY DEF TypeOK
<1>2. PICK from, to : /\ pc[w] = from /\ pc' = [pc EXCEPT ![w] = to]
                      /\ from # "none" /\ to # "none"
                      /\ (from \in {"proc", "relock"}) <=> (to \in {"proc", "relock"})
  BY Zenon DEF WLock, WLoop, WNoTask, WProc, WLeave, WStay, event_timewait, WTimeout, WWoken, At
<1>3. Live' = Live /\ Busy' = Busy
  BY <1>1, <1>2, MoveSets DEF Live, Busy
<1>4. UNCHANGED <<thread_count, thread_count_idle, run, tasks, task_count, recycle_tasks, task, cpc, made>>
  BY DEF WLock, WLoop, WNoTask, WProc, WLeave, WStay, event_timewait, WTimeout, WWoken,
         counters, lists
<1> QED  BY <1>3, <1>4 DEF Quiet

-----------------------------------------------------------------------------
(* The counters and the bound on the number of threads.                    *)

(* One step of push, with or without a new thread.                         *)
LEMMA PushCounts ==
    ASSUME IInv, NEW t \in Tasks, Push(t)
    PROVE  CountsExact' /\ ThreadsBounded' /\ Busy' = Busy /\ Live \subseteq Live'
<1>1. /\ pc \in [Threads -> WorkerPC] /\ tasks \in Seq(Tasks)
      /\ cpc' = cpc /\ cpc # "create" /\ cpc # "freed"
      /\ task_count = Len(tasks)
      /\ thread_count = Cardinality(Live) /\ thread_count_idle = Cardinality(Idle)
      /\ Cardinality(Live) <= Max
  <2>1. cpc # "freed"
    BY DEF Push, MayPush, IInv, FreedUnused, Live
  <2> QED  BY <2>1 DEF IInv, TypeOK, CountsExact, Push, MayPush, Idle, ThreadsBounded
<1>2. task_count' = Len(tasks')
  <2>1. tasks' = <<t>> \o tasks /\ task_count' = task_count + 1
    BY DEF Push
  <2>2. Len(tasks') = Len(tasks) + 1
    BY <2>1, <1>1
  <2> QED  BY <2>1, <2>2, <1>1
<1>3. CASE /\ thread_count < Max
           /\ \E w \in Threads : pc[w] = "none" /\ event_signal([pc EXCEPT ![w] = "lock"])
           /\ thread_count' = thread_count + 1
           /\ thread_count_idle' = thread_count_idle + 1
  <2>1. PICK w \in Threads : pc[w] = "none" /\ event_signal([pc EXCEPT ![w] = "lock"])
    BY <1>3
  <2>2. [pc EXCEPT ![w] = "lock"] \in [Threads -> WorkerPC]
    BY <1>1 DEF WorkerPC
  <2>3. Live' = Live \cup {w} /\ Busy' = Busy /\ w \notin Live /\ w \notin Idle
    BY <2>1, <2>2, <1>1, SignalSets, Zenon DEF Live, Busy, Idle
  <2>4. Idle' = Idle \cup {w}
    BY <2>1, <2>3 DEF Idle, Busy
  <2>5. Cardinality(Live') = Cardinality(Live) + 1 /\ Cardinality(Idle') = Cardinality(Idle) + 1
    BY <2>3, <2>4, CardAdd, ThreadSets
  <2>6. thread_count' = Cardinality(Live') /\ thread_count_idle' = Cardinality(Idle')
    BY <2>5, <1>1, <1>3
  <2>7. Cardinality(Live') <= Max
    BY <2>5, <1>1, <1>3, ThreadSets, PoolAssumption
  <2> QED  BY <2>3, <2>6, <2>7, <1>1, <1>2 DEF CountsExact, ThreadsBounded, Idle
<1>4. CASE event_signal(pc) /\ UNCHANGED counters
  <2>1. Live' = Live /\ Busy' = Busy
    BY <1>1, <1>4, SignalSets DEF Live, Busy
  <2>2. Idle' = Idle
    BY <2>1 DEF Idle
  <2> QED  BY <2>1, <2>2, <1>1, <1>2, <1>4 DEF CountsExact, ThreadsBounded, Idle, counters
<1> QED  BY <1>3, <1>4 DEF Push, NeedsThread

(* Every step keeps thread_count, thread_count_idle and task_count exact   *)
(* and the threads within max.                                             *)
LEMMA CountsStep ==
    ASSUME IInv, [Next]_vars
    PROVE  CountsExact' /\ ThreadsBounded'
<1>1. /\ pc \in [Threads -> WorkerPC] /\ tasks \in Seq(Tasks) /\ TypeOK
      /\ CountsExact /\ ThreadsBounded /\ made \in Nat
      /\ Num \in Nat /\ Max \in Nat /\ Num <= Max
  BY PoolAssumption DEF IInv, TypeOK
<1>2. ASSUME Quiet, cpc' = cpc, made' = made,
             (task_count' = task_count /\ tasks' = tasks) \/ cpc' = "freed"
      PROVE  CountsExact' /\ ThreadsBounded'
  BY <1>1, <1>2 DEF CountsExact, ThreadsBounded, Quiet
<1>3. CASE UNCHANGED vars
  <2>1. Quiet /\ UNCHANGED <<cpc, made, task_count, tasks>>
    BY <1>3 DEF vars, counters, lists, Quiet, Live, Busy
  <2> QED  BY <2>1, <1>2
<1>4. ASSUME NEW w \in Threads, CreateThread(w)  PROVE CountsExact' /\ ThreadsBounded'
  <2>1. /\ pc[w] = "none" /\ pc' = [pc EXCEPT ![w] = "lock"]
        /\ cpc = "create" /\ cpc' = "create" /\ made < Num /\ made' = made + 1
        /\ UNCHANGED <<thread_count, thread_count_idle, task_count, tasks>>
    BY <1>4 DEF CreateThread, At, counters, lists
  <2>2. Live' = Live \cup {w} /\ w \notin Live /\ Busy' = Busy
    BY <2>1, <1>1, MoveSets DEF Live, Busy
  <2>3. Cardinality(Live') = Cardinality(Live) + 1
    BY <2>2, CardAdd, ThreadSets
  <2>4. made' = Cardinality(Live')
    BY <2>1, <2>3, <1>1 DEF CountsExact
  <2>5. Cardinality(Live') <= Max
    BY <2>4, <2>1, <1>1
  <2> QED  BY <2>1, <2>2, <2>4, <2>5, <1>1 DEF CountsExact, ThreadsBounded
<1>5. CASE CreateDone
  <2>1. /\ cpc = "create" /\ cpc' = "open" /\ pc' = pc /\ made = Cardinality(Live) /\ Busy = {}
        /\ thread_count' = 0 + made /\ thread_count_idle' = 0 + made
        /\ UNCHANGED <<task_count, tasks>>
    BY <1>5, <1>1 DEF CreateDone, CountsExact, lists
  <2>2. Live' = Live /\ Busy' = {} /\ Live' \ Busy' = Live
    BY <2>1 DEF Live, Busy
  <2>3. thread_count' = Cardinality(Live) /\ thread_count_idle' = Cardinality(Live)
    BY <2>1, <1>1
  <2> QED  BY <2>1, <2>2, <2>3, <1>1 DEF CountsExact, ThreadsBounded
<1>6. ASSUME NEW t \in Tasks, Push(t)  PROVE CountsExact' /\ ThreadsBounded'
  BY <1>6, PushCounts
<1>7. ASSUME NEW t \in Tasks, PushFails(t)  PROVE CountsExact' /\ ThreadsBounded'
  <2>1. Quiet /\ UNCHANGED <<cpc, made, task_count, tasks>>
    BY <1>7 DEF PushFails, counters, lists, Quiet, Live, Busy
  <2> QED  BY <2>1, <1>2
<1>8. ASSUME NEW w \in Threads,
             \/ WLock(w) \/ WLoop(w) \/ WNoTask(w) \/ WProc(w) \/ WLeave(w) \/ WStay(w)
             \/ event_timewait(w) \/ WTimeout(w) \/ WWoken(w)
      PROVE  CountsExact' /\ ThreadsBounded'
  BY <1>8, <1>1, <1>2, QuietSteps
<1>9. ASSUME NEW w \in Threads, WTake(w)  PROVE CountsExact' /\ ThreadsBounded'
  <2>1. /\ pc[w] = "take" /\ pc' = [pc EXCEPT ![w] = "proc"]
        /\ tasks # << >> /\ tasks' = Tail(tasks) /\ task_count' = task_count - 1
        /\ thread_count_idle' = thread_count_idle - 1
        /\ UNCHANGED <<thread_count, cpc, made>>
    BY <1>9 DEF WTake, At
  <2>2. cpc # "create" /\ cpc # "freed"
    BY <2>1 DEF IInv, NothingYet, FreedUnused, Live
  <2>3. Live' = Live /\ Idle' = Idle \ {w} /\ w \in Idle
    BY <2>1, <1>1, MoveSets DEF Live, Busy, Idle
  <2>4. Cardinality(Idle') = Cardinality(Idle) - 1
    BY <2>3, CardDel, ThreadSets
  <2>5. thread_count_idle' = Cardinality(Idle') /\ thread_count' = Cardinality(Live')
    BY <2>1, <2>2, <2>3, <2>4, <1>1 DEF CountsExact, Idle
  <2>6. Len(tasks') = Len(tasks) - 1
    BY <2>1, <1>1
  <2>7. task_count' = Len(tasks')
    BY <2>1, <2>2, <2>6, <1>1 DEF CountsExact
  <2> QED  BY <2>1, <2>2, <2>3, <2>5, <2>7, <1>1 DEF CountsExact, ThreadsBounded, Idle
<1>10. ASSUME NEW w \in Threads, WRelock(w)  PROVE CountsExact' /\ ThreadsBounded'
  <2>1. /\ pc[w] = "relock" /\ pc' = [pc EXCEPT ![w] = "take"]
        /\ thread_count_idle' = thread_count_idle + 1
        /\ UNCHANGED <<thread_count, cpc, made, tasks, task_count>>
    BY <1>10 DEF WRelock, At
  <2>2. cpc # "create"
    BY <2>1, <1>1 DEF CountsExact, Busy
  <2>3. Live' = Live /\ Idle' = Idle \cup {w} /\ w \notin Idle
    BY <2>1, <1>1, MoveSets DEF Live, Busy, Idle
  <2>4. Cardinality(Idle') = Cardinality(Idle) + 1
    BY <2>3, CardAdd, ThreadSets
  <2>5. thread_count_idle' = Cardinality(Idle') /\ thread_count' = Cardinality(Live')
    BY <2>1, <2>2, <2>3, <2>4, <1>1 DEF CountsExact, Idle
  <2> QED  BY <2>1, <2>2, <2>3, <2>5, <1>1 DEF CountsExact, ThreadsBounded, Idle
<1>11. ASSUME NEW w \in Threads, WExit(w)  PROVE CountsExact' /\ ThreadsBounded'
  <2>1. /\ pc[w] = "exit" /\ pc' = [pc EXCEPT ![w] = "none"]
        /\ thread_count' = thread_count - 1 /\ thread_count_idle' = thread_count_idle - 1
        /\ UNCHANGED <<cpc, made, tasks, task_count>>
    BY <1>11 DEF WExit, At, lists
  <2>2. cpc # "create"
    BY <2>1 DEF IInv, DecidedRight
  <2>3. Live' = Live \ {w} /\ Idle' = Idle \ {w} /\ w \in Idle /\ w \in Live
    BY <2>1, <1>1, MoveSets DEF Live, Busy, Idle
  <2>4. /\ Cardinality(Idle') = Cardinality(Idle) - 1
        /\ Cardinality(Live') = Cardinality(Live) - 1
    BY <2>3, CardDel, ThreadSets
  <2>5. thread_count_idle' = Cardinality(Idle') /\ thread_count' = Cardinality(Live')
    BY <2>1, <2>2, <2>4, <1>1 DEF CountsExact, Idle
  <2>6. Cardinality(Live') <= Max
    BY <2>4, <1>1, ThreadSets DEF ThreadsBounded
  <2> QED  BY <2>1, <2>2, <2>5, <2>6, <1>1 DEF CountsExact, ThreadsBounded, Idle
<1>12. CASE DestroyBegin \/ DestroyLock \/ DestroyLast \/ DestroyWait \/ DestroyFree
  <2>1. Quiet
    BY <1>12, <1>1, SignalSets
       DEF DestroyBegin, DestroyLock, DestroyLast, DestroyWait, DestroyFree, counters, Quiet, Live, Busy
  <2>2. /\ cpc # "create" /\ cpc' # "create" /\ cpc # "freed"
        /\ (task_count' = task_count /\ tasks' = tasks) \/ cpc' = "freed"
    BY <1>12 DEF DestroyBegin, DestroyLock, DestroyLast, DestroyWait, DestroyFree, lists
  <2> QED  BY <2>1, <2>2, <1>1 DEF CountsExact, ThreadsBounded, Quiet
<1> QED
  BY <1>3, <1>4, <1>5, <1>6, <1>7, <1>8, <1>9, <1>10, <1>11, <1>12
     DEF Next, WStep, DestroyStep

-----------------------------------------------------------------------------
(* Types: the counters are cardinalities and lengths, the rest is checked  *)
(* action by action.                                                       *)
LEMMA TypeStep ==
    ASSUME IInv, [Next]_vars
    PROVE  TypeOK'
<1> USE DEF TypeOK
<1>1. TypeOK /\ CountsExact'
  BY CountsStep DEF IInv
<1>2. IsFiniteSet(Live') /\ IsFiniteSet(Live' \ Busy')
  BY FS_Subset, PoolAssumption DEF Live
<1>3. thread_count' \in Nat /\ thread_count_idle' \in Nat
  BY <1>1, <1>2, FS_CardinalityType DEF CountsExact
<1>4. ASSUME run' \in BOOLEAN, tasks' \in Seq(Tasks), task_count' \in Nat,
             recycle_tasks' \in Nat, locker' \in Threads \cup {Closer, NoOwner},
             count' \in {0, 1}, pc' \in [Threads -> WorkerPC],
             task' \in [Threads -> Tasks \cup {NoTask}], cpc' \in CloserPC, made' \in 0 .. Num,
             status' \in [Tasks -> Status]
      PROVE  TypeOK'
  BY <1>3, <1>4
<1>5. CASE UNCHANGED vars
  BY <1>5, <1>1, <1>4 DEF vars, lists, counters
<1>6. ASSUME NEW w \in Threads, CreateThread(w)  PROVE TypeOK'
  <2>1. made' = made + 1 /\ made < Num /\ made \in 0 .. Num
    BY <1>6, <1>1 DEF CreateThread
  <2>2. made' \in 0 .. Num
    BY <2>1, PoolAssumption
  <2> QED  BY <1>6, <1>1, <1>4, <2>2 DEF CreateThread, At, lists, counters, WorkerPC
<1>7. CASE CreateDone
  BY <1>7, <1>1, <1>4 DEF CreateDone, lists, CloserPC
<1>8. ASSUME NEW t \in Tasks, Push(t)  PROVE TypeOK'
  <2>1. pc' \in [Threads -> WorkerPC] /\ count' \in {0, 1}
    <3>1. \A w \in Threads : [pc EXCEPT ![w] = "lock"] \in [Threads -> WorkerPC]
      BY <1>1 DEF WorkerPC
    <3> QED  BY <1>8, <1>1, <3>1, SignalMoves, Zenon DEF Push
  <2>2. recycle_tasks' \in Nat
    BY <1>8, <1>1 DEF Push
  <2>3. tasks' \in Seq(Tasks) /\ task_count' \in Nat
    BY <1>8, <1>1 DEF Push
  <2>4. status' \in [Tasks -> Status]
    BY <1>8, <1>1 DEF Push, Status
  <2> QED  BY <2>1, <2>2, <2>3, <2>4, <1>8, <1>1, <1>4 DEF Push
<1>9. ASSUME NEW t \in Tasks, PushFails(t)  PROVE TypeOK'
  BY <1>9, <1>1, <1>4 DEF PushFails, lists, counters, Status
<1>10. ASSUME NEW w \in Threads,
             \/ WLock(w) \/ WLoop(w) \/ WNoTask(w) \/ WLeave(w) \/ WStay(w)
             \/ event_timewait(w) \/ WTimeout(w) \/ WWoken(w) \/ WExit(w)
      PROVE  TypeOK'
  <2>1. pc' \in [Threads -> WorkerPC]
    BY <1>10, <1>1 DEF WLock, WLoop, WNoTask, WLeave, WStay, event_timewait, WTimeout, WWoken,
                       WExit, At, WorkerPC
  <2>2. UNCHANGED <<run, tasks, task_count, recycle_tasks, task, cpc, made, status>>
    BY <1>10 DEF WLock, WLoop, WNoTask, WLeave, WStay, event_timewait, WTimeout, WWoken,
                       WExit, lists
  <2>3. locker' \in Threads \cup {Closer, NoOwner} /\ count' \in {0, 1}
    BY <1>10, <1>1 DEF WLock, WLoop, WNoTask, WLeave, WStay, event_timewait, WTimeout, WWoken, WExit
  <2> QED  BY <2>1, <2>2, <2>3, <1>1, <1>4
<1>11. ASSUME NEW w \in Threads, WTake(w)  PROVE TypeOK'
  <2>1. Head(tasks) \in Tasks /\ tasks' \in Seq(Tasks)
    BY <1>11, <1>1 DEF WTake
  <2>2. Len(tasks) >= 1 /\ Len(tasks) \in Nat
    BY <1>11, <1>1 DEF WTake
  <2>3. task_count = Len(tasks)
    BY <1>11 DEF IInv, CountsExact, FreedUnused, WTake, At, Live
  <2>4. task_count' = task_count - 1
    BY <1>11 DEF WTake
  <2>5. task_count' \in Nat
    BY <2>2, <2>3, <2>4
  <2>6. pc' \in [Threads -> WorkerPC] /\ status' \in [Tasks -> Status]
    BY <1>11, <1>1, <2>1 DEF WTake, At, WorkerPC, Status
  <2>7. task' \in [Threads -> Tasks \cup {NoTask}] /\ locker' = NoOwner
    BY <1>11, <1>1, <2>1 DEF WTake
  <2> QED  BY <2>1, <2>5, <2>6, <2>7, <1>11, <1>1, <1>4 DEF WTake
<1>12. ASSUME NEW w \in Threads, WProc(w)  PROVE TypeOK'
  BY <1>12, <1>1, <1>4, Zenon DEF WProc, At, lists, counters, WorkerPC, Status
<1>13. ASSUME NEW w \in Threads, WRelock(w)  PROVE TypeOK'
  BY <1>13, <1>1, <1>4 DEF WRelock, At, WorkerPC
<1>14. CASE DestroyBegin \/ DestroyLock \/ DestroyLast
  BY <1>14, <1>1, <1>4, Zenon DEF DestroyBegin, DestroyLock, DestroyLast, lists, CloserPC
<1>15. CASE DestroyWait
  <2>1. pc' \in [Threads -> WorkerPC] /\ count' \in {0, 1}
    BY <1>15, <1>1, SignalMoves DEF DestroyWait
  <2> QED  BY <1>15, <2>1, <1>1, <1>4 DEF DestroyWait, lists, CloserPC
<1>16. CASE DestroyFree
  <2>1. tasks' \in Seq(Tasks) /\ recycle_tasks' \in Nat
    BY <1>16 DEF DestroyFree
  <2>2. status' \in [Tasks -> Status]
    BY <1>16, <1>1 DEF DestroyFree, Status
  <2> QED  BY <1>16, <2>1, <2>2, <1>1, <1>4 DEF DestroyFree, CloserPC
<1> QED
  BY <1>5, <1>6, <1>7, <1>8, <1>9, <1>10, <1>11, <1>12, <1>13, <1>14, <1>15, <1>16
     DEF Next, WStep, DestroyStep

-----------------------------------------------------------------------------
(* The lock, the owner's phase and what a thread knows when it decides.    *)
LEMMA LockStep ==
    ASSUME IInv, [Next]_vars
    PROVE  LockHeld'
<1>1. /\ pc \in [Threads -> WorkerPC] /\ LockHeld
      /\ NoOwner \notin Threads /\ Closer \notin Threads /\ NoOwner # Closer
  BY PoolAssumption DEF IInv, TypeOK
<1>2. CASE UNCHANGED vars
  BY <1>1, <1>2 DEF vars, LockHeld
<1>3. ASSUME NEW w \in Threads, CreateThread(w)  PROVE LockHeld'
  BY <1>1, <1>3 DEF CreateThread, At, LockHeld
<1>4. CASE CreateDone
  BY <1>1, <1>4 DEF CreateDone, LockHeld
<1>5. ASSUME NEW t \in Tasks, Push(t)  PROVE LockHeld'
  <2>1. locker' = locker /\ cpc' = cpc /\ locker = NoOwner
    BY <1>5 DEF Push
  <2>2. \A v \in Threads : (pc'[v] \in {"loop", "take", "decide", "exit"})
                               => (pc[v] \in {"loop", "take", "decide", "exit"})
    <3>1. \A w \in Threads : [pc EXCEPT ![w] = "lock"] \in [Threads -> WorkerPC]
      BY <1>1 DEF WorkerPC
    <3>2. CASE event_signal(pc)
      BY <3>2, <1>1, SignalMoves
    <3>3. CASE \E w \in Threads : event_signal([pc EXCEPT ![w] = "lock"])
      BY <3>3, <3>1, <1>1, SignalMoves, Zenon
    <3> QED  BY <3>2, <3>3, <1>5, Zenon DEF Push
  <2> QED  BY <2>1, <2>2, <1>1 DEF LockHeld
<1>6. ASSUME NEW t \in Tasks, PushFails(t)  PROVE LockHeld'
  BY <1>1, <1>6 DEF PushFails, LockHeld
<1>7. ASSUME NEW w \in Threads, WStep(w) \/ WProc(w) \/ WTimeout(w)  PROVE LockHeld'
  BY <1>1, <1>7 DEF WStep, WLock, WLoop, WTake, WNoTask, WProc, WRelock, WLeave, WStay, WExit,
                    event_timewait, WTimeout, WWoken, At, LockHeld
<1>8. CASE DestroyBegin \/ DestroyLock \/ DestroyLast \/ DestroyFree
  BY <1>1, <1>8 DEF DestroyBegin, DestroyLock, DestroyLast, DestroyFree, LockHeld, IInv, FreedUnused
<1>9. CASE DestroyWait
  <2>1. \A v \in Threads : (pc'[v] \in {"loop", "take", "decide", "exit"})
                               => (pc[v] \in {"loop", "take", "decide", "exit"})
    BY <1>9, <1>1, SignalMoves DEF DestroyWait
  <2> QED  BY <1>1, <1>9, <2>1 DEF DestroyWait, LockHeld
<1> QED
  BY <1>2, <1>3, <1>4, <1>5, <1>6, <1>7, <1>8, <1>9 DEF Next, DestroyStep

(* run is cleared by thread_pool_destroy and never set again; nothing is   *)
(* pushed before thread_pool_create returns.                               *)
LEMMA PhaseStep ==
    ASSUME IInv, [Next]_vars
    PROVE  RunPhase' /\ NothingYet'
<1>1. RunPhase /\ NothingYet /\ CountsExact
  BY DEF IInv
<1>2. CASE UNCHANGED vars
  BY <1>1, <1>2 DEF vars, lists, RunPhase, NothingYet
<1>3. CASE CreateDone \/ \E w \in Threads : CreateThread(w)
  BY <1>1, <1>3 DEF CreateThread, CreateDone, lists, RunPhase, NothingYet
<1>4. ASSUME NEW t \in Tasks, Push(t) \/ PushFails(t)  PROVE RunPhase' /\ NothingYet'
  BY <1>1, <1>4 DEF Push, PushFails, MayPush, RunPhase, NothingYet
<1>5. ASSUME NEW w \in Threads, WStep(w) \/ WTimeout(w)  PROVE RunPhase' /\ NothingYet'
  BY <1>1, <1>5 DEF WStep, WLock, WLoop, WTake, WNoTask, WRelock, WLeave, WStay, WExit,
                    event_timewait, WTimeout, WWoken, lists, RunPhase, NothingYet
<1>6. ASSUME NEW w \in Threads, WProc(w)  PROVE RunPhase' /\ NothingYet'
  <2>1. cpc # "create" /\ cpc' = cpc /\ run' = run
    BY <1>1, <1>6 DEF WProc, At, CountsExact, Busy
  <2> QED  BY <2>1, <1>1 DEF RunPhase, NothingYet
<1>7. CASE DestroyBegin \/ DestroyStep
  BY <1>1, <1>7 DEF DestroyBegin, DestroyStep, DestroyLock, DestroyLast, DestroyFree, DestroyWait,
                    RunPhase, NothingYet
<1> QED  BY <1>2, <1>3, <1>4, <1>5, <1>6, <1>7 DEF Next

(* What a worker decided on from the counters under the lock still holds   *)
(* when it acts on it.                                                     *)
LEMMA DecidedStep ==
    ASSUME IInv, [Next]_vars
    PROVE  DecidedRight'
<1>1. /\ pc \in [Threads -> WorkerPC] /\ LockHeld /\ DecidedRight /\ CountsExact /\ RunPhase
      /\ NoOwner \notin Threads /\ Closer \notin Threads /\ Num \in Nat
  BY PoolAssumption DEF IInv, TypeOK
<1>2. CASE UNCHANGED vars
  BY <1>1, <1>2 DEF vars, lists, DecidedRight
<1>3. CASE CreateDone \/ \E w \in Threads : CreateThread(w)
  BY <1>1, <1>3 DEF CreateThread, CreateDone, At, lists, DecidedRight
<1>4. ASSUME NEW t \in Tasks, Push(t)  PROVE DecidedRight'
  <2>1. \A v \in Threads : pc'[v] \notin {"decide", "exit"}
    <3>1. \A v \in Threads : pc[v] \notin {"decide", "exit"}
      BY <1>1, <1>4 DEF Push, LockHeld
    <3>2. \A w \in Threads : [pc EXCEPT ![w] = "lock"] \in [Threads -> WorkerPC]
      BY <1>1 DEF WorkerPC
    <3>3. CASE event_signal(pc)
      BY <3>1, <3>3, <1>1, SignalMoves
    <3>4. CASE \E w \in Threads : event_signal([pc EXCEPT ![w] = "lock"])
      BY <3>1, <3>2, <3>4, <1>1, SignalMoves, Zenon
    <3> QED  BY <3>3, <3>4, <1>4 DEF Push
  <2> QED  BY <2>1 DEF DecidedRight
<1>5. ASSUME NEW t \in Tasks, PushFails(t)  PROVE DecidedRight'
  BY <1>1, <1>5 DEF PushFails, lists, DecidedRight
<1>6. ASSUME NEW w \in Threads,
             \/ WLock(w) \/ WNoTask(w) \/ WProc(w) \/ WStay(w) \/ WExit(w) \/ event_timewait(w)
             \/ WTimeout(w) \/ WWoken(w) \/ WRelock(w)
      PROVE DecidedRight'
  BY <1>1, <1>6 DEF WLock, WNoTask, WProc, WStay, WExit, event_timewait, WTimeout, WWoken, WRelock,
                    At, lists, DecidedRight
<1>7. ASSUME NEW w \in Threads, WLoop(w)  PROVE DecidedRight'
  BY <1>1, <1>7 DEF WLoop, At, lists, DecidedRight, RunPhase
<1>8. ASSUME NEW w \in Threads, WTake(w)  PROVE DecidedRight'
  <2>1. \A v \in Threads : pc[v] \notin {"decide", "exit"}
    BY <1>1, <1>8 DEF WTake, At, LockHeld
  <2> QED  BY <1>1, <1>8, <2>1 DEF WTake, At, DecidedRight
<1>9. ASSUME NEW w \in Threads, WLeave(w)  PROVE DecidedRight'
  <2>1. cpc # "create"
    BY <1>1, <1>9 DEF WLeave, MustLeave, CountsExact, RunPhase
  <2> QED  BY <1>1, <1>9, <2>1 DEF WLeave, At, lists, DecidedRight
<1>10. CASE DestroyBegin \/ DestroyLock \/ DestroyLast \/ DestroyFree
  BY <1>1, <1>10 DEF DestroyBegin, DestroyLock, DestroyLast, DestroyFree, lists, DecidedRight
<1>11. CASE DestroyWait
  BY <1>1, <1>11, SignalMoves DEF DestroyWait, lists, DecidedRight
<1> QED
  BY <1>2, <1>3, <1>4, <1>5, <1>6, <1>7, <1>8, <1>9, <1>10, <1>11 DEF Next, WStep, DestroyStep

-----------------------------------------------------------------------------
(* No wakeup is lost.                                                      *)
LEMMA WakeupStep ==
    ASSUME IInv, [Next]_vars
    PROVE  NoLostWakeup'
<1>1. /\ pc \in [Threads -> WorkerPC] /\ NoLostWakeup /\ DecidedRight /\ RunPhase /\ NothingYet
      /\ count \in {0, 1}
  BY DEF IInv, TypeOK
<1>2. CASE UNCHANGED vars
  BY <1>1, <1>2 DEF vars, lists, NoLostWakeup, Live
<1>3. CASE CreateDone \/ \E w \in Threads : CreateThread(w)
  BY <1>1, <1>3, Zenon DEF CreateThread, CreateDone, lists, NoLostWakeup, NothingYet
<1>4. ASSUME NEW t \in Tasks, Push(t)  PROVE NoLostWakeup'
  <2>1. \A w \in Threads : [pc EXCEPT ![w] = "lock"] \in [Threads -> WorkerPC]
    BY <1>1 DEF WorkerPC
  <2>2. PICK places \in [Threads -> WorkerPC] : event_signal(places)
    BY <2>1, <1>4, <1>1, Zenon DEF Push
  <2>3. ASSUME NEW v \in Threads, pc'[v] \in {"wait", "cond"}, \A u \in Threads : pc'[u] # "woken"
        PROVE  count' = 1 /\ pc'[v] = "wait"
    BY <2>2, <2>3, SignalMoves
  <2> QED  BY <2>3 DEF NoLostWakeup, Live
<1>5. ASSUME NEW t \in Tasks, PushFails(t)  PROVE NoLostWakeup'
  BY <1>1, <1>5 DEF PushFails, lists, NoLostWakeup, Live
<1>6. ASSUME NEW w \in Threads,
             \/ WLock(w) \/ WLoop(w) \/ WNoTask(w) \/ WProc(w) \/ WRelock(w) \/ WLeave(w)
             \/ WTimeout(w) \/ WWoken(w) \/ WTake(w)
      PROVE NoLostWakeup'
  <2>1. pc'[w] \notin {"none", "wait", "cond"}
    BY <1>1, <1>6 DEF WLock, WLoop, WNoTask, WProc, WRelock, WLeave, WTimeout, WWoken, WTake, At
  <2> QED  BY <2>1 DEF NoLostWakeup, Live
<1>7. ASSUME NEW w \in Threads, WStay(w)  PROVE NoLostWakeup'
  BY <1>1, <1>7 DEF WStay, MustLeave, At, lists, DecidedRight, NoLostWakeup
<1>8. ASSUME NEW w \in Threads, WExit(w)  PROVE NoLostWakeup'
  BY <1>1, <1>8 DEF WExit, At, lists, DecidedRight, NoLostWakeup
<1>9. ASSUME NEW w \in Threads, event_timewait(w)  PROVE NoLostWakeup'
  <2>1. /\ pc[w] = "wait" /\ run' = run /\ tasks' = tasks
        /\ pc' = [pc EXCEPT ![w] = IF count = 0 THEN "cond" ELSE "lock"]
    BY <1>9 DEF event_timewait, At, lists
  <2>2. CASE count = 0
    <3>1. (run /\ tasks # << >>) => \E v \in Threads : pc[v] \notin {"none", "wait", "cond"}
      BY <1>1, <2>1, <2>2 DEF NoLostWakeup, Live
    <3> QED  BY <1>1, <2>1, <2>2, <3>1 DEF NoLostWakeup, Live
  <2>3. CASE count # 0
    BY <1>1, <2>1, <2>3 DEF NoLostWakeup, Live
  <2> QED  BY <2>2, <2>3
<1>10. CASE DestroyBegin \/ DestroyStep
  <2>1. ~run'
    BY <1>10, <1>1 DEF DestroyBegin, DestroyStep, DestroyLock, DestroyLast, DestroyFree, DestroyWait, RunPhase
  <2> QED  BY <2>1 DEF NoLostWakeup
<1> QED
  BY <1>2, <1>3, <1>4, <1>5, <1>6, <1>7, <1>8, <1>9, <1>10 DEF Next, WStep

(* What thread_pool_destroy frees is in nobody's hands.                    *)
LEMMA FreedStep ==
    ASSUME IInv, [Next]_vars
    PROVE  FreedUnused'
<1>1. pc \in [Threads -> WorkerPC] /\ FreedUnused /\ CountsExact /\ LockHeld /\ LockHeld'
  BY LockStep DEF IInv, TypeOK
<1>2. CASE UNCHANGED vars
  BY <1>1, <1>2 DEF vars, FreedUnused, Live
<1>3. CASE CreateDone \/ \E w \in Threads : CreateThread(w)
  BY <1>3 DEF CreateThread, CreateDone, FreedUnused
<1>4. ASSUME NEW t \in Tasks, Push(t) \/ PushFails(t)  PROVE FreedUnused'
  <2>1. cpc \notin {"free", "freed"} /\ cpc' = cpc
    BY <1>1, <1>4 DEF Push, PushFails, MayPush, FreedUnused, Live
  <2> QED  BY <2>1 DEF FreedUnused
<1>5. ASSUME NEW w \in Threads, WStep(w) \/ WProc(w) \/ WTimeout(w)  PROVE FreedUnused'
  <2>1. w \in Live
    BY <1>5 DEF WStep, WLock, WLoop, WTake, WNoTask, WProc, WRelock, WLeave, WStay, WExit,
                event_timewait, WTimeout, WWoken, At, Live
  <2>2. cpc' = cpc
    BY <1>5 DEF WStep, WLock, WLoop, WTake, WNoTask, WProc, WRelock, WLeave, WStay, WExit,
                event_timewait, WTimeout, WWoken
  <2> QED  BY <1>1, <2>1, <2>2 DEF FreedUnused
<1>6. CASE DestroyBegin \/ DestroyLock \/ DestroyWait
  BY <1>6 DEF DestroyBegin, DestroyLock, DestroyWait, FreedUnused
<1>7. CASE DestroyLast
  <2>1. Cardinality(Live) = 0
    BY <1>1, <1>7 DEF DestroyLast, CountsExact
  <2>2. Live = {}
    BY <2>1, ThreadSets, FS_EmptySet
  <2> QED  BY <1>7, <2>2 DEF DestroyLast, FreedUnused, Live
<1>8. CASE DestroyFree
  BY <1>1, <1>8 DEF DestroyFree, FreedUnused, Live
<1> QED  BY <1>2, <1>3, <1>4, <1>5, <1>6, <1>7, <1>8 DEF Next, DestroyStep

-----------------------------------------------------------------------------
(* The inductive invariant holds in every reachable state of the pool.     *)
THEOREM IInvHolds == Spec => []IInv
<1>1. IInv /\ [Next]_vars => IInv'
  <2> SUFFICES ASSUME IInv, [Next]_vars PROVE IInv'
    OBVIOUS
  <2> QED  BY CountsStep, TypeStep, LockStep, PhaseStep, DecidedStep, WakeupStep, FreedStep DEF IInv
<1> QED  BY <1>1, InitIInv, PTL DEF Spec

(* Every variable of the pool keeps its type; the counters, which workers  *)
(* decrement without a test, never become negative.                        *)
THEOREM TypeCorrect == Spec => []TypeOK
<1>1. IInv => TypeOK
  BY DEF IInv
<1> QED  BY <1>1, IInvHolds, PTL

(* thread_count, thread_count_idle and task_count are exact, and the       *)
(* number of threads never exceeds max.                                    *)
THEOREM CountersExact == Spec => [](CountsExact /\ ThreadsBounded)
<1>1. IInv => CountsExact /\ ThreadsBounded
  BY DEF IInv
<1> QED  BY <1>1, IInvHolds, PTL

(* A pending task always has a thread awake or a signal that will stop one *)
(* from sleeping.                                                          *)
THEOREM WakeupsAreKept == Spec => []NoLostWakeup
<1>1. IInv => NoLostWakeup
  BY DEF IInv
<1> QED  BY <1>1, IInvHolds, PTL

(* thread_pool_destroy frees the pool when no thread can touch it.         *)
THEOREM FreedPoolUnused == Spec => []FreedUnused
<1>1. IInv => FreedUnused
  BY DEF IInv
<1> QED  BY <1>1, IInvHolds, PTL

(* Once thread_pool_destroy has cleared run no pending task is started.    *)
THEOREM NoStartAfterDestroy == Spec => NothingStartsAfterDestroy
<1> DEFINE NoStart == \A t \in Tasks : (~run /\ status[t] = "queued") => status'[t] # "running"
<1>1. IInv /\ [Next]_vars => [NoStart]_vars
  <2> SUFFICES ASSUME IInv, Next, NEW t \in Tasks, ~run, status[t] = "queued"
               PROVE  status'[t] # "running"
    OBVIOUS
  <2>1. status \in [Tasks -> Status]
    BY DEF IInv, TypeOK
  <2>2. ASSUME NEW u \in Tasks, Push(u) \/ PushFails(u)  PROVE status'[t] # "running"
    BY <2>1, <2>2 DEF Push, PushFails
  <2>3. ASSUME NEW w \in Threads, WStep(w) \/ WTimeout(w) \/ CreateThread(w)  PROVE status'[t] # "running"
    BY <2>1, <2>3 DEF WStep, WLock, WLoop, WTake, WNoTask, WRelock, WLeave, WStay, WExit,
                      event_timewait, WTimeout, WWoken, CreateThread
  <2>4. ASSUME NEW w \in Threads, WProc(w)  PROVE status'[t] # "running"
    BY <2>1, <2>4 DEF WProc
  <2>5. CASE CreateDone \/ DestroyBegin \/ DestroyStep
    BY <2>1, <2>5 DEF CreateDone, DestroyBegin, DestroyStep, DestroyLock, DestroyWait, DestroyLast, DestroyFree
  <2> QED  BY <2>2, <2>3, <2>4, <2>5 DEF Next
<1> QED  BY <1>1, IInvHolds, PTL DEF Spec, NothingStartsAfterDestroy

-----------------------------------------------------------------------------
(* For the refinement, where each task is: in the list once while it is    *)
(* pending, in the hands of exactly one worker while its procedure runs.   *)

TaskPlaces ==
    /\ \A i \in 1 .. Len(tasks) : status[tasks[i]] = "queued"
    /\ \A i, j \in 1 .. Len(tasks) : tasks[i] = tasks[j] => i = j
    /\ \A w \in Threads : pc[w] = "proc" => task[w] \in Tasks /\ status[task[w]] = "running"
    /\ \A v, w \in Threads : pc[v] = "proc" /\ pc[w] = "proc" /\ task[v] = task[w] => v = w
    /\ \A t \in Tasks : status[t] = "running" => \E w \in Threads : pc[w] = "proc" /\ task[w] = t

(* A signal wakes no thread into or out of a task's procedure.             *)
LEMMA SignalProc ==
    ASSUME NEW places \in [Threads -> WorkerPC], event_signal(places)
    PROVE  \A v \in Threads : pc'[v] = "proc" <=> places[v] = "proc"
  BY SignalMoves

(* Each task is in the list, with one worker, or done: no step puts it in  *)
(* two places.                                                             *)
LEMMA PlacesStep ==
    ASSUME IInv, TaskPlaces, [Next]_vars
    PROVE  TaskPlaces'
<1>1. /\ pc \in [Threads -> WorkerPC] /\ tasks \in Seq(Tasks) /\ status \in [Tasks -> Status]
      /\ task \in [Threads -> Tasks \cup {NoTask}]
  BY DEF IInv, TypeOK
<1>. DEFINE Same == /\ \A v \in Threads : pc'[v] = "proc" <=> pc[v] = "proc"
                    /\ \A v \in Threads : pc[v] = "proc" => task'[v] = task[v]
<1>2. ASSUME Same, UNCHANGED <<tasks, status>>  PROVE TaskPlaces'
  BY <1>2 DEF TaskPlaces
<1>3. CASE UNCHANGED vars
  BY <1>2, <1>3 DEF vars, lists
<1>4. CASE CreateDone \/ \E w \in Threads : CreateThread(w)
  <2>1. Same /\ UNCHANGED <<tasks, status>>
    BY <1>1, <1>4 DEF CreateDone, CreateThread, At, lists
  <2>. QED  BY <1>2, <2>1
<1>5. ASSUME NEW t \in Tasks, Push(t)  PROVE TaskPlaces'
  <2>1. /\ status[t] = "new" /\ status' = [status EXCEPT ![t] = "queued"]
        /\ tasks' = <<t>> \o tasks /\ task' = task
    BY <1>5 DEF Push
  <2>2. \A v \in Threads : pc'[v] = "proc" <=> pc[v] = "proc"
    <3>1. \A w \in Threads : [pc EXCEPT ![w] = "lock"] \in [Threads -> WorkerPC]
      BY <1>1 DEF WorkerPC
    <3>2. CASE event_signal(pc)
      BY <3>2, <1>1, SignalProc
    <3>3. CASE \E w \in Threads : pc[w] = "none" /\ event_signal([pc EXCEPT ![w] = "lock"])
      <4>1. PICK w \in Threads : pc[w] = "none" /\ event_signal([pc EXCEPT ![w] = "lock"])
        BY <3>3
      <4>2. \A v \in Threads : pc'[v] = "proc" <=> [pc EXCEPT ![w] = "lock"][v] = "proc"
        BY <4>1, <3>1, SignalProc
      <4>. QED  BY <4>1, <4>2, <1>1
    <3>. QED  BY <1>5, <3>2, <3>3, Zenon DEF Push
  <2>3. /\ Len(tasks') = Len(tasks) + 1 /\ tasks'[1] = t /\ Len(tasks) \in Nat
        /\ \A i \in 2 .. Len(tasks) + 1 : tasks'[i] = tasks[i - 1] /\ tasks[i - 1] \in Tasks
    BY <1>1, <2>1
  <2>4. \A i \in 1 .. Len(tasks) : tasks[i] # t
    BY <2>1 DEF TaskPlaces
  <2>5. \A i \in 1 .. Len(tasks') : status'[tasks'[i]] = "queued"
    BY <1>1, <2>1, <2>3 DEF TaskPlaces
  <2>6. \A i, j \in 1 .. Len(tasks') : tasks'[i] = tasks'[j] => i = j
    <3>. SUFFICES ASSUME NEW i \in 1 .. Len(tasks'), NEW j \in 1 .. Len(tasks'), tasks'[i] = tasks'[j]
                  PROVE  i = j
      OBVIOUS
    <3>1. /\ i # 1 => i - 1 \in 1 .. Len(tasks) /\ tasks'[i] = tasks[i - 1]
          /\ j # 1 => j - 1 \in 1 .. Len(tasks) /\ tasks'[j] = tasks[j - 1]
      BY <2>3
    <3>2. i # 1 /\ j # 1 => i - 1 = j - 1
      BY <3>1 DEF TaskPlaces
    <3>. QED  BY <2>3, <2>4, <3>1, <3>2
  <2>7. \A u \in Tasks : status'[u] = "running" <=> status[u] = "running"
    BY <1>1, <2>1
  <2>. QED  BY <1>1, <2>1, <2>2, <2>5, <2>6, <2>7 DEF TaskPlaces
<1>6. ASSUME NEW t \in Tasks, PushFails(t)  PROVE TaskPlaces'
  <2>1. /\ Same /\ tasks' = tasks
        /\ status[t] = "new" /\ status' = [status EXCEPT ![t] = "refused"]
    BY <1>6 DEF PushFails, lists
  <2>2. \A i \in 1 .. Len(tasks) : tasks[i] # t
    BY <2>1 DEF TaskPlaces
  <2>3. \A u \in Tasks : status'[u] = IF u = t THEN "refused" ELSE status[u]
    BY <1>1, <2>1
  <2>4. \A i \in 1 .. Len(tasks) : tasks[i] \in Tasks
    BY <1>1
  <2>. QED  BY <2>1, <2>2, <2>3, <2>4 DEF TaskPlaces
<1>7. ASSUME NEW w \in Threads,
             \/ WLock(w) \/ WLoop(w) \/ WNoTask(w) \/ WLeave(w) \/ WStay(w) \/ WExit(w)
             \/ WRelock(w) \/ event_timewait(w) \/ WTimeout(w) \/ WWoken(w)
      PROVE TaskPlaces'
  <2>1. Same /\ UNCHANGED <<tasks, status>>
    BY <1>1, <1>7 DEF WLock, WLoop, WNoTask, WLeave, WStay, WExit, WRelock, event_timewait,
                      WTimeout, WWoken, At, lists
  <2>. QED  BY <1>2, <2>1
<1>8. ASSUME NEW w \in Threads, WTake(w)  PROVE TaskPlaces'
  <2>. DEFINE h == Head(tasks)
  <2>1. /\ tasks # << >> /\ pc[w] = "take" /\ pc' = [pc EXCEPT ![w] = "proc"]
        /\ tasks' = Tail(tasks) /\ task' = [task EXCEPT ![w] = h]
        /\ status' = [status EXCEPT ![h] = "running"]
    BY <1>8 DEF WTake, At
  <2>2. /\ Len(tasks) \in Nat \ {0} /\ h = tasks[1] /\ h \in Tasks
        /\ Len(tasks') = Len(tasks) - 1
        /\ \A i \in 1 .. Len(tasks) - 1 : tasks'[i] = tasks[i + 1] /\ tasks[i + 1] \in Tasks
    BY <1>1, <2>1
  <2>3. status[h] = "queued" /\ \A i \in 1 .. Len(tasks) - 1 : tasks[i + 1] # h
    BY <2>2 DEF TaskPlaces
  <2>. HIDE DEF h
  <2>4. \A u \in Tasks : status'[u] = IF u = h THEN "running" ELSE status[u]
    BY <1>1, <2>1
  <2>5. \A v \in Threads : /\ pc'[v] = IF v = w THEN "proc" ELSE pc[v]
                           /\ task'[v] = IF v = w THEN h ELSE task[v]
    BY <1>1, <2>1
  <2>6. \A i \in 1 .. Len(tasks') : status'[tasks'[i]] = "queued"
    BY <2>2, <2>3, <2>4 DEF TaskPlaces
  <2>7. \A i, j \in 1 .. Len(tasks') : tasks'[i] = tasks'[j] => i = j
    BY <2>2 DEF TaskPlaces
  <2>. QED  BY <2>1, <2>2, <2>3, <2>4, <2>5, <2>6, <2>7 DEF TaskPlaces
<1>9. ASSUME NEW w \in Threads, WProc(w)  PROVE TaskPlaces'
  <2>1. /\ pc[w] = "proc" /\ pc' = [pc EXCEPT ![w] = "relock"]
        /\ status' = [status EXCEPT ![task[w]] = "done"] /\ UNCHANGED <<tasks, task>>
    BY <1>9 DEF WProc, At, lists
  <2>2. task[w] \in Tasks /\ status[task[w]] = "running"
    BY <2>1 DEF TaskPlaces
  <2>3. \A u \in Tasks : status'[u] = IF u = task[w] THEN "done" ELSE status[u]
    BY <1>1, <2>1
  <2>4. \A v \in Threads : pc'[v] = IF v = w THEN "relock" ELSE pc[v]
    BY <1>1, <2>1
  <2>5. \A i \in 1 .. Len(tasks) : tasks[i] \in Tasks
    BY <1>1
  <2>. QED  BY <2>1, <2>2, <2>3, <2>4, <2>5 DEF TaskPlaces
<1>10. CASE DestroyBegin \/ DestroyLock \/ DestroyLast
  <2>1. Same /\ UNCHANGED <<tasks, status>>
    BY <1>10 DEF DestroyBegin, DestroyLock, DestroyLast, lists
  <2>. QED  BY <1>2, <2>1
<1>11. CASE DestroyWait
  <2>1. Same /\ UNCHANGED <<tasks, status>>
    BY <1>1, <1>11, SignalProc DEF DestroyWait, lists
  <2>. QED  BY <1>2, <2>1
<1>12. CASE DestroyFree
  <2>1. /\ tasks' = << >> /\ UNCHANGED <<pc, task>>
        /\ \A u \in Tasks : status'[u] = IF status[u] = "queued" THEN "dropped" ELSE status[u]
    BY <1>12 DEF DestroyFree
  <2>. QED  BY <2>1 DEF TaskPlaces
<1>. QED
  BY <1>3, <1>4, <1>5, <1>6, <1>7, <1>8, <1>9, <1>10, <1>11, <1>12 DEF Next, WStep, DestroyStep

(* A worker that takes a task is not yet running one, so that fewer than   *)
(* max tasks run.                                                          *)
LEMMA RunningBound ==
    ASSUME IInv, TaskPlaces, NEW w \in Threads, pc[w] = "take"
    PROVE  Pool!Cardinality(Pool!Running) < Max
<1>. DEFINE Procs == {v \in Threads : pc[v] = "proc"}
            f == [v \in Procs |-> task[v]]
<1>1. IsFiniteSet(Live) /\ Cardinality(Live) \in Nat /\ Cardinality(Live) <= Max
  BY ThreadSets DEF IInv, ThreadsBounded
<1>2. w \in Live /\ Procs \subseteq Live \ {w}
  BY DEF Live
<1>3. IsFiniteSet(Live \ {w}) /\ Cardinality(Live \ {w}) = Cardinality(Live) - 1
  BY <1>1, <1>2, CardDel
<1>4. IsFiniteSet(Procs) /\ Cardinality(Procs) <= Cardinality(Live) - 1
  BY <1>2, <1>3, FS_Subset
<1>5. f \in Surjection(Procs, Pool!Running)
  <2>1. \A v \in Procs : f[v] \in Pool!Running
    BY DEF TaskPlaces, Pool!Running
  <2>2. \A t \in Pool!Running : \E v \in Procs : f[v] = t
    BY DEF TaskPlaces, Pool!Running
  <2>. HIDE DEF Procs
  <2>. QED  BY <2>1, <2>2 DEF Surjection
<1>6. Cardinality(Pool!Running) <= Cardinality(Procs) /\ IsFiniteSet(Pool!Running)
  BY <1>4, <1>5, FS_Surjection
<1>7. Cardinality(Procs) \in Nat /\ Cardinality(Pool!Running) \in Nat /\ Max \in Nat
  BY <1>4, <1>6, FS_CardinalityType, PoolAssumption
<1>8. Cardinality(Pool!Running) < Max
  BY <1>1, <1>4, <1>6, <1>7
<1>9. \A S : Pool!Cardinality(S) = Cardinality(S)
  BY DEF Cardinality, Pool!Cardinality
<1>. QED  BY <1>8, <1>9

(* thread-pool.c implements WorkPool: every step of the workers, of        *)
(* thread_pool_push and of thread_pool_destroy is a step a client may see  *)
(* of a pool that runs each accepted task at most once, at most max of     *)
(* them at a time, and drops what was pending when it is destroyed, or it  *)
(* changes nothing a client can see.                                       *)
THEOREM ImplementsPool == Spec => ImplementsWorkPool
<1>1. Init => TaskPlaces /\ Pool!Init
  BY DEF Init, TaskPlaces, Pool!Init
<1>2. IInv /\ TaskPlaces /\ [Next]_vars => TaskPlaces'
  BY PlacesStep
<1>3. IInv /\ TaskPlaces /\ [Next]_vars => [Pool!Next]_(Pool!vars)
  <2>. SUFFICES ASSUME IInv, TaskPlaces, [Next]_vars  PROVE [Pool!Next]_(Pool!vars)
    OBVIOUS
  <2>. DEFINE Phase == IF run THEN "open" ELSE IF cpc = "freed" THEN "gone" ELSE "closing"
  <2>1. /\ pc \in [Threads -> WorkerPC] /\ tasks \in Seq(Tasks) /\ status \in [Tasks -> Status]
        /\ RunPhase /\ FreedUnused
    BY DEF IInv, TypeOK
  <2>2. ASSUME UNCHANGED <<status, run>>, (cpc = "freed") <=> (cpc' = "freed")
        PROVE  UNCHANGED Pool!vars
    BY <2>2 DEF Pool!vars
  <2>3. CASE UNCHANGED vars
    BY <2>2, <2>3 DEF vars
  <2>4. CASE CreateDone \/ \E w \in Threads : CreateThread(w)
    BY <2>2, <2>4 DEF CreateDone, CreateThread
  <2>5. ASSUME NEW t \in Tasks, Push(t) \/ PushFails(t)  PROVE Pool!Next
    <3>1. run \/ (Phase = "closing" /\ Pool!Running # {})
      <4>1. CASE cpc = "open"
        BY <4>1, <2>1 DEF RunPhase
      <4>2. ASSUME NEW w \in Threads, pc[w] = "proc"  PROVE cpc # "freed" /\ Pool!Running # {}
        BY <2>1, <4>2 DEF FreedUnused, Live, TaskPlaces, Pool!Running
      <4>. QED  BY <2>5, <4>1, <4>2 DEF Push, PushFails, MayPush
    <3>2. Phase' = Phase
      BY <2>5 DEF Push, PushFails
    <3>3. CASE Push(t)
      <4>1. Pool!Become(t, "new", "queued")
        BY <3>3 DEF Push, Pool!Become
      <4>2. Pool!Submit(t)
        BY <3>1, <3>2, <4>1 DEF Pool!Submit
      <4>. QED  BY <4>2 DEF Pool!Next
    <3>4. CASE PushFails(t)
      <4>1. Pool!Become(t, "new", "refused")
        BY <3>4 DEF PushFails, Pool!Become
      <4>2. Pool!Refuse(t)
        BY <3>1, <3>2, <4>1 DEF Pool!Refuse
      <4>. QED  BY <4>2 DEF Pool!Next
    <3>. QED  BY <2>5, <3>3, <3>4
  <2>6. ASSUME NEW w \in Threads,
               \/ WLock(w) \/ WLoop(w) \/ WNoTask(w) \/ WLeave(w) \/ WStay(w) \/ WExit(w)
               \/ WRelock(w) \/ event_timewait(w) \/ WTimeout(w) \/ WWoken(w)
        PROVE UNCHANGED Pool!vars
    BY <2>2, <2>6 DEF WLock, WLoop, WNoTask, WLeave, WStay, WExit, WRelock, event_timewait,
                      WTimeout, WWoken
  <2>7. ASSUME NEW w \in Threads, WTake(w)  PROVE Pool!Next
    <3>1. /\ tasks # << >> /\ run /\ pc[w] = "take" /\ UNCHANGED <<run, cpc>>
          /\ status' = [status EXCEPT ![Head(tasks)] = "running"]
      BY <2>7 DEF WTake, At
    <3>2. Head(tasks) \in Tasks /\ status[Head(tasks)] = "queued"
      BY <2>1, <3>1 DEF TaskPlaces
    <3>3. Pool!Start(Head(tasks))
      BY <3>1, <3>2, RunningBound DEF Pool!Start, Pool!Become
    <3>. QED  BY <3>2, <3>3 DEF Pool!Next
  <2>8. ASSUME NEW w \in Threads, WProc(w)  PROVE Pool!Next
    <3>1. task[w] \in Tasks /\ status[task[w]] = "running"
      BY <2>8 DEF WProc, At, TaskPlaces
    <3>2. Pool!Finish(task[w])
      BY <2>8, <3>1 DEF WProc, Pool!Finish, Pool!Become
    <3>. QED  BY <3>1, <3>2 DEF Pool!Next
  <2>9. CASE DestroyBegin
    <3>1. run /\ ~run' /\ cpc' # "freed" /\ UNCHANGED status
      BY <2>1, <2>9 DEF DestroyBegin, RunPhase
    <3>2. Pool!Close
      BY <3>1 DEF Pool!Close
    <3>. QED  BY <3>2 DEF Pool!Next
  <2>10. CASE DestroyLock \/ DestroyWait \/ DestroyLast
    BY <2>2, <2>10 DEF DestroyLock, DestroyWait, DestroyLast
  <2>11. CASE DestroyFree
    <3>1. ~run /\ ~run' /\ cpc = "free" /\ cpc' = "freed"
      BY <2>1, <2>11 DEF DestroyFree, RunPhase
    <3>2. Pool!Running = {}
      BY <2>1, <3>1 DEF FreedUnused, Live, TaskPlaces, Pool!Running
    <3>3. Pool!Release
      BY <2>11, <3>1, <3>2 DEF DestroyFree, Pool!Release
    <3>. QED  BY <3>3 DEF Pool!Next
  <2>. QED
    BY <2>3, <2>4, <2>5, <2>6, <2>7, <2>8, <2>9, <2>10, <2>11 DEF Next, WStep, DestroyStep
<1>. QED  BY <1>1, <1>2, <1>3, IInvHolds, PTL DEF Spec, ImplementsWorkPool, Pool!Spec
=============================================================================
