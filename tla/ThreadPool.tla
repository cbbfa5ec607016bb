----------------------------- MODULE ThreadPool -----------------------------
(***************************************************************************)
(* thread-pool.c with the event of include/event.h it waits on.  Workers   *)
(* run tasks from a last-in first-out list, sleep on the event when there  *)
(* is none, and leave when more than idle_max of them are idle or the pool *)
(* stops.  thread_pool_push is one step, because it holds the lock         *)
(* throughout and its one action outside the lock's data, event_signal,    *)
(* comes last.  A worker is followed statement by statement: its unlocked  *)
(* parts, and ctx->run, which thread_pool_destroy clears without the lock, *)
(* interleave with everybody else.                                         *)
(***************************************************************************)
EXTENDS Integers, Sequences, FiniteSets, TLC

CONSTANTS Threads,        \* identities of the threads created
          Tasks,          \* the tasks pushed, each at most once
          Num,            \* thread_pool_create's num, kept as idle_max
          Max,            \* thread_pool_create's max
          MayFail,        \* whether malloc and thread_create may fail
          NoOwner, Closer \* the free lock; the thread that destroys the pool

ASSUME PoolAssumption ==
    /\ IsFiniteSet(Threads) /\ IsFiniteSet(Tasks)
    /\ Num \in Nat /\ Max \in Nat /\ Num <= Max
    /\ Cardinality(Threads) >= Max
    /\ MayFail \in BOOLEAN
    /\ NoOwner \notin Threads \cup {Closer} /\ Closer \notin Threads

VARIABLES run, thread_count, thread_count_idle,  \* struct thread_pool_ctx
          task_count, tasks,                     \* the list, newest first
          recycle_tasks,                         \* length of the recycle list
          locker,                                \* who holds ctx->locker
          count,                                 \* ctx->event.count
          pc, task,                              \* each worker's place and task
          cpc,                                   \* the pool owner's place
          made,                                  \* threads created so far by create
          status                                 \* what became of each task

counters == <<thread_count, thread_count_idle>>
lists == <<task_count, tasks, recycle_tasks, task>>
vars == <<run, counters, lists, locker, count, pc, cpc, made, status>>

WorkerPC == {"none", "lock", "loop", "take", "proc", "relock", "decide",
             "wait", "cond", "woken", "exit"}
CloserPC == {"create", "open", "lock", "check", "free", "freed"}
Status == {"new", "refused", "queued", "running", "done", "dropped"}
NoTask == "none"

Live == {w \in Threads : pc[w] # "none"}
Busy == {w \in Threads : pc[w] \in {"proc", "relock"}}

TypeOK ==
    /\ run \in BOOLEAN
    /\ thread_count \in Nat /\ thread_count_idle \in Nat
    /\ task_count \in Nat /\ tasks \in Seq(Tasks) /\ recycle_tasks \in Nat
    /\ locker \in Threads \cup {Closer, NoOwner}
    /\ count \in {0, 1}
    /\ pc \in [Threads -> WorkerPC] /\ task \in [Threads -> Tasks \cup {NoTask}]
    /\ cpc \in CloserPC /\ made \in 0 .. Num
    /\ status \in [Tasks -> Status]

Init ==
    /\ run = TRUE
    /\ thread_count = 0 /\ thread_count_idle = 0
    /\ task_count = 0 /\ tasks = << >> /\ recycle_tasks = 0
    /\ locker = NoOwner /\ count = 0
    /\ pc = [w \in Threads |-> "none"] /\ task = [w \in Threads |-> NoTask]
    /\ cpc = "create" /\ made = 0
    /\ status = [t \in Tasks |-> "new"]

At(w, from, to) == pc[w] = from /\ pc' = [pc EXCEPT ![w] = to]

(* event_signal: the count is set and, if threads wait, one is woken.      *)
event_signal(places) ==
    /\ count' = 1
    /\ IF \E w \in Threads : places[w] = "cond"
       THEN \E w \in Threads : places[w] = "cond" /\ pc' = [places EXCEPT ![w] = "woken"]
       ELSE pc' = places

-----------------------------------------------------------------------------
(* thread_pool_create calls thread_pool_create_threads without the lock,   *)
(* while the threads it has created already run; the counters follow at    *)
(* the end.                                                                *)

CreateThread(w) ==
    /\ cpc = "create" /\ made < Num
    /\ At(w, "none", "lock")
    /\ made' = made + 1
    /\ UNCHANGED <<run, counters, lists, locker, count, cpc, status>>

CreateDone ==
    /\ cpc = "create" /\ (made = Num \/ MayFail)
    /\ thread_count' = thread_count + made
    /\ thread_count_idle' = thread_count_idle + made
    /\ cpc' = "open"
    /\ UNCHANGED <<run, lists, locker, count, pc, made, status>>

-----------------------------------------------------------------------------
(* thread_pool_push, called by a client of the open pool, or by a task.    *)

MayPush == cpc = "open" \/ (cpc # "create" /\ \E w \in Threads : pc[w] = "proc")

NeedsThread == thread_count_idle < 1 /\ thread_count < Max

Push(t) ==
    /\ MayPush /\ locker = NoOwner
    /\ status[t] = "new" /\ status' = [status EXCEPT ![t] = "queued"]
    /\ recycle_tasks' = IF recycle_tasks > 0 THEN recycle_tasks - 1 ELSE 0
    /\ tasks' = <<t>> \o tasks
    /\ task_count' = task_count + 1
    /\ \/ /\ NeedsThread
          /\ \E w \in Threads :
                pc[w] = "none" /\ event_signal([pc EXCEPT ![w] = "lock"])
          /\ thread_count' = thread_count + 1
          /\ thread_count_idle' = thread_count_idle + 1
       \/ /\ ~NeedsThread \/ MayFail
          /\ event_signal(pc)
          /\ UNCHANGED counters
    /\ UNCHANGED <<run, locker, task, cpc, made>>

(* malloc fails while nothing can be recycled: -1.                         *)
PushFails(t) ==
    /\ MayPush /\ locker = NoOwner /\ MayFail /\ recycle_tasks = 0
    /\ status[t] = "new" /\ status' = [status EXCEPT ![t] = "refused"]
    /\ UNCHANGED <<run, counters, lists, locker, count, pc, cpc, made>>

-----------------------------------------------------------------------------
(* thread_pool_worker                                                      *)

WLock(w) ==
    /\ At(w, "lock", "loop")
    /\ locker = NoOwner /\ locker' = w
    /\ UNCHANGED <<run, counters, lists, count, cpc, made, status>>

WLoop(w) ==
    /\ At(w, "loop", IF run THEN "take" ELSE "exit")
    /\ UNCHANGED <<run, counters, lists, locker, count, cpc, made, status>>

(* Mutant: the inner loop does not test run. *)
WTake_IgnoresRun(w) ==
    /\ tasks # << >>
    /\ At(w, "take", "proc")
    /\ tasks' = Tail(tasks) /\ task_count' = task_count - 1
    /\ task' = [task EXCEPT ![w] = Head(tasks)]
    /\ status' = [status EXCEPT ![Head(tasks)] = "running"]
    /\ thread_count_idle' = thread_count_idle - 1
    /\ locker' = NoOwner
    /\ UNCHANGED <<run, thread_count, recycle_tasks, count, cpc, made>>

(* Mutant: the list is emptied instead of advanced. *)
WTake_Empties(w) ==
    /\ tasks # << >> /\ run
    /\ At(w, "take", "proc")
    /\ tasks' = << >> /\ task_count' = task_count - 1
    /\ task' = [task EXCEPT ![w] = Head(tasks)]
    /\ status' = [status EXCEPT ![Head(tasks)] = "running"]
    /\ thread_count_idle' = thread_count_idle - 1
    /\ locker' = NoOwner
    /\ UNCHANGED <<run, thread_count, recycle_tasks, count, cpc, made>>

WTake(w) ==
    /\ tasks # << >> /\ run
    /\ At(w, "take", "proc")
    /\ tasks' = Tail(tasks) /\ task_count' = task_count - 1
    /\ task' = [task EXCEPT ![w] = Head(tasks)]
    /\ status' = [status EXCEPT ![Head(tasks)] = "running"]
    /\ thread_count_idle' = thread_count_idle - 1
    /\ locker' = NoOwner
    /\ UNCHANGED <<run, thread_count, recycle_tasks, count, cpc, made>>

WNoTask(w) ==
    /\ tasks = << >> \/ ~run
    /\ At(w, "take", "decide")
    /\ UNCHANGED <<run, counters, lists, locker, count, cpc, made, status>>

(* The task's procedure returns.                                           *)
WProc(w) ==
    /\ At(w, "proc", "relock")
    /\ status' = [status EXCEPT ![task[w]] = "done"]
    /\ UNCHANGED <<run, counters, lists, locker, count, cpc, made>>

(* Mutant: the thread does not become idle again. *)
WRelock_NotIdle(w) ==
    /\ At(w, "relock", "take")
    /\ locker = NoOwner /\ locker' = w
    /\ thread_count_idle' = thread_count_idle
    /\ recycle_tasks' = recycle_tasks + 1
    /\ task' = [task EXCEPT ![w] = NoTask]
    /\ UNCHANGED <<run, thread_count, task_count, tasks, count, cpc, made, status>>

WRelock(w) ==
    /\ At(w, "relock", "take")
    /\ locker = NoOwner /\ locker' = w
    /\ thread_count_idle' = thread_count_idle + 1
    /\ recycle_tasks' = recycle_tasks + 1
    /\ task' = [task EXCEPT ![w] = NoTask]
    /\ UNCHANGED <<run, thread_count, task_count, tasks, count, cpc, made, status>>

MustLeave == thread_count_idle > Num \/ ~run

WLeave(w) ==
    /\ MustLeave
    /\ At(w, "decide", "exit")
    /\ UNCHANGED <<run, counters, lists, locker, count, cpc, made, status>>

WStay(w) ==
    /\ ~MustLeave
    /\ At(w, "decide", "wait")
    /\ locker' = NoOwner
    /\ UNCHANGED <<run, counters, lists, count, cpc, made, status>>

(* Mutant: a leaving thread is still counted. *)
WExit_KeepsCount(w) ==
    /\ At(w, "exit", "none")
    /\ thread_count' = thread_count
    /\ thread_count_idle' = thread_count_idle - 1
    /\ locker' = NoOwner
    /\ UNCHANGED <<run, lists, count, cpc, made, status>>

WExit(w) ==
    /\ At(w, "exit", "none")
    /\ thread_count' = thread_count - 1
    /\ thread_count_idle' = thread_count_idle - 1
    /\ locker' = NoOwner
    /\ UNCHANGED <<run, lists, count, cpc, made, status>>

(* Mutant: the wait does not look at the count first. *)
event_timewait_IgnoresCount(w) ==
    /\ At(w, "wait", "cond")
    /\ count' = 0
    /\ UNCHANGED <<run, counters, lists, locker, cpc, made, status>>

(* event_timewait: with the count set it returns at once, otherwise it     *)
(* sleeps; it leaves the sleep when signalled, after 60 s, or spuriously,  *)
(* and then clears the count in any case.                                  *)
event_timewait(w) ==
    /\ At(w, "wait", IF count = 0 THEN "cond" ELSE "lock")
    /\ count' = 0
    /\ UNCHANGED <<run, counters, lists, locker, cpc, made, status>>

(* Mutant: the wait has no timeout. *)
event_wait(w) ==
    /\ FALSE /\ At(w, "cond", "woken")
    /\ UNCHANGED <<run, counters, lists, locker, count, cpc, made, status>>

WTimeout(w) ==
    /\ At(w, "cond", "woken")
    /\ UNCHANGED <<run, counters, lists, locker, count, cpc, made, status>>

WWoken(w) ==
    /\ At(w, "woken", "lock")
    /\ count' = 0
    /\ UNCHANGED <<run, counters, lists, locker, cpc, made, status>>

-----------------------------------------------------------------------------
(* thread_pool_destroy                                                     *)

DestroyBegin ==
    /\ cpc = "open" /\ cpc' = "lock"
    /\ run' = FALSE
    /\ UNCHANGED <<counters, lists, locker, count, pc, made, status>>

DestroyLock ==
    /\ cpc = "lock" /\ cpc' = "check"
    /\ locker = NoOwner /\ locker' = Closer
    /\ UNCHANGED <<run, counters, lists, count, pc, made, status>>

(* Threads remain: signal, unlock, sleep 10 ms, lock again.                *)
DestroyWait ==
    /\ cpc = "check" /\ thread_count # 0 /\ cpc' = "lock"
    /\ event_signal(pc)
    /\ locker' = NoOwner
    /\ UNCHANGED <<run, counters, lists, made, status>>

(* Mutant: does not wait for the threads. *)
DestroyLast_NoWait ==
    /\ cpc = "check" /\ cpc' = "free"
    /\ locker' = NoOwner
    /\ UNCHANGED <<run, counters, lists, count, pc, made, status>>

DestroyLast ==
    /\ cpc = "check" /\ thread_count = 0 /\ cpc' = "free"
    /\ locker' = NoOwner
    /\ UNCHANGED <<run, counters, lists, count, pc, made, status>>

DestroyFree ==
    /\ cpc = "free" /\ cpc' = "freed"
    /\ recycle_tasks' = 0 /\ tasks' = << >>
    /\ status' = [t \in Tasks |-> IF status[t] = "queued" THEN "dropped" ELSE status[t]]
    /\ UNCHANGED <<run, counters, task_count, task, locker, count, pc, made>>

WStep(w) ==
    \/ WLock(w) \/ WLoop(w) \/ WTake(w) \/ WNoTask(w) \/ WRelock(w)
    \/ WLeave(w) \/ WStay(w) \/ WExit(w) \/ event_timewait(w) \/ WWoken(w)

DestroyStep == DestroyLock \/ DestroyWait \/ DestroyLast \/ DestroyFree

Next ==
    \/ \E w \in Threads : CreateThread(w) \/ WStep(w) \/ WProc(w) \/ WTimeout(w)
    \/ CreateDone
    \/ \E t \in Tasks : Push(t) \/ PushFails(t)
    \/ DestroyBegin \/ DestroyStep

Spec == Init /\ [][Next]_vars

(* Every thread keeps taking the steps of the pool's own code, and a mutex *)
(* that is released again and again is eventually handed to each thread    *)
(* waiting for it: every holder keeps it for a bounded number of           *)
(* statements and then sleeps, for 10 ms or until signalled.  The sleep of *)
(* event_timewait ends after 60 s.                                         *)
PoolFairness ==
    /\ \A w \in Threads : /\ WF_vars(WStep(w)) /\ WF_vars(WTimeout(w))
                          /\ SF_vars(WLock(w)) /\ SF_vars(WRelock(w))
    /\ WF_vars(DestroyStep) /\ SF_vars(DestroyLock)
    /\ WF_vars(CreateDone) /\ WF_vars(\E w \in Threads : CreateThread(w))

(* The tasks' procedures may run for ever.                                 *)
SpecFair == Spec /\ PoolFairness

(* Every task's procedure returns.                                         *)
ProcsReturn == \A w \in Threads : WF_vars(WProc(w))

-----------------------------------------------------------------------------
(* The counters thread_pool_push and thread_pool_worker decide by are      *)
(* exact from the moment thread_pool_create returns: thread_count is the   *)
(* number of threads in the list, thread_count_idle the number of those    *)
(* not running a task, task_count the length of the task list.  Until      *)
(* then the threads created already run, with both thread counters at 0.   *)
CountsExact ==
    /\ cpc = "create" => thread_count = 0 /\ thread_count_idle = 0
                         /\ made = Cardinality(Live) /\ Busy = {}
    /\ cpc # "create" => thread_count = Cardinality(Live)
                         /\ thread_count_idle = Cardinality(Live \ Busy)
    /\ cpc # "freed" => task_count = Len(tasks)

(* thread_pool_create's max bounds the threads alive at any time.          *)
ThreadsBounded == Cardinality(Live) <= Max

(* No wakeup is lost: while the pool runs and tasks are pending, some      *)
(* worker is awake, or is about to wait on an event that is still          *)
(* signalled, although a waiter whose 60 s elapsed clears the count of a   *)
(* signal meant for somebody else (event_timewait's event->count = 0).     *)
NoLostWakeup ==
    (run /\ tasks # << >> /\ Live # {}) =>
        \/ \E w \in Live : pc[w] \notin {"wait", "cond"}
        \/ count = 1 /\ \E w \in Live : pc[w] = "wait"

(* thread_pool_destroy frees the event, the lock and the context only      *)
(* when no worker can touch them again and no one holds the lock.          *)
FreedUnused ==
    cpc \in {"free", "freed"} => Live = {} /\ locker = NoOwner

(* The lock is held by exactly the thread whose place says so.             *)
LockHeld ==
    /\ \A w \in Threads :
          (locker = w) <=> (pc[w] \in {"loop", "take", "decide", "exit"})
    /\ (locker = Closer) <=> (cpc = "check")

(* Once thread_pool_destroy has cleared run, no further task is started.   *)
NothingStartsAfterDestroy ==
    [][\A t \in Tasks : (~run /\ status[t] = "queued") => status'[t] # "running"]_vars

(* thread_pool_destroy returns, if every task's procedure returns.         *)
DestroyReturns == ProcsReturn => ((cpc = "lock") ~> (cpc = "freed"))

(* A pushed task is run, unless the pool is destroyed first, if every      *)
(* task's procedure returns; even when others never return, it does not    *)
(* stay pending beside an idle thread (thread_pool_push, thread_pool_worker).*)
PushedRuns ==
    /\ ProcsReturn => \A t \in Tasks : (status[t] = "queued") ~> (status[t] = "done" \/ ~run)
    /\ \A t \in Tasks : (status[t] = "queued" /\ thread_count_idle > 0)
                         ~> (status[t] # "queued" \/ thread_count_idle = 0 \/ ~run)

(* The pool implements WorkPool.                                           *)
Pool == INSTANCE WorkPool WITH
            status <- status,
            phase <- IF run THEN "open" ELSE IF cpc = "freed" THEN "gone" ELSE "closing"

ImplementsWorkPool == Pool!Spec

(* In the small instances threads and tasks are interchangeable.           *)
Symmetry == Permutations(Threads) \cup Permutations(Tasks)
=============================================================================
