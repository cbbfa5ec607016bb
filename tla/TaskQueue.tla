----------------------------- MODULE TaskQueue ------------------------------
(***************************************************************************)
(* task-queue.c over a thread pool.  Posters append tasks to a list; the   *)
(* scheduler thread takes one request and one worker token, pops a task    *)
(* and hands it to the pool, whose threads run task_action.  The context   *)
(* is reference counted, one reference for its owner and one for each task *)
(* handed to the pool.  The pool is WorkPool, the specification that       *)
(* ThreadPool implements.                                                  *)
(***************************************************************************)
EXTENDS Integers, Sequences, FiniteSets

CONSTANTS Tasks,         \* the tasks posted, each once
          MaxWorker,     \* task_queue_create's maxWorker
          MaxRecycle,    \* the limit of the recycle list, 500 in the code
          CountModulus,  \* size_t arithmetic
          InitialCounts, \* what malloc's memory may hold for tasks_count
          None           \* no task

ASSUME TaskQueueAssumption ==
    /\ IsFiniteSet(Tasks) /\ None \notin Tasks
    /\ MaxWorker \in Nat \ {0} /\ MaxRecycle \in Nat
    /\ CountModulus \in Nat \ {0} /\ InitialCounts \subseteq 0 .. CountModulus - 1

VARIABLES ref, running, sema_worker, sema_request,  \* struct task_queue_ctx
          tasks, tasks_count, tasks_recycle_count,
          alive,        \* the context is not freed
          nodes,        \* struct task_ctx allocated and not freed
          spc, stask,   \* the scheduler: its place and the task it popped
          ppc, poster,  \* each post: its place and the task that posts, if any
          apc,          \* each task's place in task_action
          dpc,          \* the place in task_queue_destroy
          status, phase \* the pool's

semas == <<sema_worker, sema_request>>
lists == <<tasks, tasks_count, tasks_recycle_count, nodes>>
pool == <<status, phase>>
vars == <<ref, running, semas, lists, alive, spc, stask, ppc, poster, apc, dpc, pool>>

Pool == INSTANCE WorkPool WITH Max <- MaxWorker

SchedulerPC == {"loop", "request", "worker", "test", "pop", "assert", "ref", "push", "gone"}
ActionPC == {"idle", "proc", "recycle", "post", "release", "end"}
DestroyPC == {"open", "post_request", "post_worker", "join", "pool", "drain", "release", "end"}

TypeOK ==
    /\ ref \in Nat /\ running \in BOOLEAN /\ alive \in BOOLEAN
    /\ sema_worker \in Nat /\ sema_request \in Nat
    /\ tasks \in Seq(Tasks) /\ tasks_count \in 0 .. CountModulus - 1
    /\ tasks_recycle_count \in 0 .. MaxRecycle + 1 /\ nodes \in Nat
    /\ spc \in SchedulerPC /\ stask \in Tasks \cup {None}
    /\ ppc \in [Tasks -> {"new", "push", "signal", "posted"}]
    /\ poster \in [Tasks -> Tasks \cup {None}]
    /\ apc \in [Tasks -> ActionPC] /\ dpc \in DestroyPC
    /\ status \in [Tasks -> Pool!Status] /\ phase \in {"open", "closing", "gone"}

Init ==
    /\ ref = 1 /\ running = TRUE /\ alive = TRUE
    /\ sema_worker = MaxWorker /\ sema_request = 0
    /\ tasks = << >> /\ tasks_count \in InitialCounts
    /\ tasks_recycle_count = 0 /\ nodes = 0
    /\ spc = "loop" /\ stask = None
    /\ ppc = [t \in Tasks |-> "new"] /\ poster = [t \in Tasks |-> None]
    /\ apc = [t \in Tasks |-> "idle"] /\ dpc = "open"
    /\ Pool!Init

-----------------------------------------------------------------------------
(* task_queue_post, by a client while the queue is open, or by a task.     *)

Posting(u) == \E t \in Tasks : poster[t] = u /\ ppc[t] \in {"push", "signal"}

task_alloc(t) ==
    /\ ppc[t] = "new" /\ ppc' = [ppc EXCEPT ![t] = "push"]
    /\ \/ dpc = "open" /\ UNCHANGED poster
       \/ \E u \in Tasks : /\ apc[u] = "proc" /\ ~Posting(u)
                           /\ poster' = [poster EXCEPT ![t] = u]
    /\ \/ /\ tasks_recycle_count = 0 /\ nodes' = nodes + 1
          /\ UNCHANGED tasks_recycle_count
       \/ /\ tasks_recycle_count > 0 /\ tasks_recycle_count' = tasks_recycle_count - 1
          /\ UNCHANGED nodes
    /\ UNCHANGED <<ref, running, semas, tasks, tasks_count, alive, spc, stask, apc, dpc, pool>>

task_push(t) ==
    /\ ppc[t] = "push" /\ ppc' = [ppc EXCEPT ![t] = "signal"]
    /\ tasks' = Append(tasks, t)
    /\ tasks_count' = (tasks_count + 1) % CountModulus
    /\ UNCHANGED <<ref, running, semas, tasks_recycle_count, nodes, alive, spc, stask,
                   poster, apc, dpc, pool>>

PostSignal(t) ==
    /\ ppc[t] = "signal" /\ ppc' = [ppc EXCEPT ![t] = "posted"]
    /\ sema_request' = sema_request + 1
    /\ UNCHANGED <<ref, running, sema_worker, lists, alive, spc, stask, poster, apc, dpc, pool>>

-----------------------------------------------------------------------------
(* task_queue_scheduler                                                    *)

SGoto(from, to) == spc = from /\ spc' = to

SLoop ==
    /\ SGoto("loop", IF running THEN "request" ELSE "gone")
    /\ UNCHANGED <<ref, running, semas, lists, alive, stask, ppc, poster, apc, dpc, pool>>

SWaitRequest ==
    /\ SGoto("request", "worker")
    /\ sema_request > 0 /\ sema_request' = sema_request - 1
    /\ UNCHANGED <<ref, running, sema_worker, lists, alive, stask, ppc, poster, apc, dpc, pool>>

SWaitWorker ==
    /\ SGoto("worker", "test")
    /\ sema_worker > 0 /\ sema_worker' = sema_worker - 1
    /\ UNCHANGED <<ref, running, sema_request, lists, alive, stask, ppc, poster, apc, dpc, pool>>

(* Mutant: running is not tested again after the waits. *)
STest_Once ==
    /\ SGoto("test", "pop")
    /\ UNCHANGED <<ref, running, semas, lists, alive, stask, ppc, poster, apc, dpc, pool>>

STest ==
    /\ SGoto("test", IF running THEN "pop" ELSE "loop")
    /\ UNCHANGED <<ref, running, semas, lists, alive, stask, ppc, poster, apc, dpc, pool>>

task_pop ==
    /\ SGoto("pop", "assert")
    /\ IF tasks = << >>
       THEN stask' = None /\ UNCHANGED <<tasks, tasks_count>>
       ELSE /\ stask' = Head(tasks) /\ tasks' = Tail(tasks)
            /\ tasks_count' = (tasks_count + CountModulus - 1) % CountModulus
    /\ UNCHANGED <<ref, running, semas, tasks_recycle_count, nodes, alive, ppc, poster,
                   apc, dpc, pool>>

SAssert ==
    /\ SGoto("assert", "ref") /\ stask # None
    /\ UNCHANGED <<ref, running, semas, lists, alive, stask, ppc, poster, apc, dpc, pool>>

(* Mutant: the reference is not taken. *)
SReference_None ==
    /\ SGoto("ref", "push")
    /\ UNCHANGED <<ref, running, semas, lists, alive, stask, ppc, poster, apc, dpc, pool>>

SReference ==
    /\ SGoto("ref", "push") /\ ref' = ref + 1
    /\ UNCHANGED <<running, semas, lists, alive, stask, ppc, poster, apc, dpc, pool>>

SPush ==
    /\ SGoto("push", "loop") /\ Pool!Submit(stask) /\ stask' = None
    /\ UNCHANGED <<ref, running, semas, lists, alive, ppc, poster, apc, dpc>>

-----------------------------------------------------------------------------
(* task_queue_release: the last reference frees the context and its lists. *)

(* Mutant: the posted tasks are not freed. *)
task_queue_release_Recycled ==
    /\ ref' = ref - 1
    /\ IF ref - 1 = 0
       THEN /\ alive' = FALSE /\ tasks' = << >> /\ tasks_recycle_count' = 0
            /\ nodes' = nodes - tasks_recycle_count
            /\ UNCHANGED tasks_count
       ELSE UNCHANGED <<alive, lists>>

task_queue_release ==
    /\ ref' = ref - 1
    /\ IF ref - 1 = 0
       THEN /\ alive' = FALSE /\ tasks' = << >> /\ tasks_recycle_count' = 0
            /\ nodes' = nodes - tasks_recycle_count - Len(tasks)
            /\ UNCHANGED tasks_count
       ELSE UNCHANGED <<alive, lists>>

-----------------------------------------------------------------------------
(* task_action, on a thread of the pool                                    *)

AGoto(t, from, to) == apc[t] = from /\ apc' = [apc EXCEPT ![t] = to]

AStart(t) ==
    /\ Pool!Start(t) /\ AGoto(t, "idle", "proc")
    /\ UNCHANGED <<ref, running, semas, lists, alive, spc, stask, ppc, poster, dpc>>

AProc(t) ==
    /\ AGoto(t, "proc", "recycle") /\ ~Posting(t)
    /\ UNCHANGED <<ref, running, semas, lists, alive, spc, stask, ppc, poster, dpc, pool>>

(* Mutant: the recycle list has no limit. *)
task_recycle_NoLimit(t) ==
    /\ AGoto(t, "recycle", "post")
    /\ tasks_recycle_count' = tasks_recycle_count + 1
    /\ UNCHANGED <<ref, running, semas, tasks, tasks_count, nodes, alive, spc, stask, ppc,
                   poster, dpc, pool>>

task_recycle(t) ==
    /\ AGoto(t, "recycle", "post")
    /\ IF tasks_recycle_count > MaxRecycle
       THEN nodes' = nodes - 1 /\ UNCHANGED tasks_recycle_count
       ELSE tasks_recycle_count' = tasks_recycle_count + 1 /\ UNCHANGED nodes
    /\ UNCHANGED <<ref, running, semas, tasks, tasks_count, alive, spc, stask, ppc, poster,
                   dpc, pool>>

(* Mutant: the worker token is not given back. *)
APost_None(t) ==
    /\ AGoto(t, "post", "release")
    /\ UNCHANGED <<ref, running, semas, lists, alive, spc, stask, ppc, poster, dpc, pool>>

APost(t) ==
    /\ AGoto(t, "post", "release")
    /\ sema_worker' = sema_worker + 1
    /\ UNCHANGED <<ref, running, sema_request, lists, alive, spc, stask, ppc, poster, dpc, pool>>

ARelease(t) ==
    /\ AGoto(t, "release", "end")
    /\ task_queue_release /\ Pool!Finish(t)
    /\ UNCHANGED <<running, semas, spc, stask, ppc, poster, dpc>>

-----------------------------------------------------------------------------
(* task_queue_destroy, by the owner once no client is inside a post        *)

DGoto(from, to) == dpc = from /\ dpc' = to

DBegin ==
    /\ DGoto("open", "post_request") /\ ~Posting(None)
    /\ running' = FALSE
    /\ UNCHANGED <<ref, semas, lists, alive, spc, stask, ppc, poster, apc, pool>>

(* Mutant: the scheduler is not woken from its first wait. *)
DPostRequest_None ==
    /\ DGoto("post_request", "post_worker")
    /\ UNCHANGED <<ref, running, semas, lists, alive, spc, stask, ppc, poster, apc, pool>>

DPostRequest ==
    /\ DGoto("post_request", "post_worker") /\ sema_request' = sema_request + 1
    /\ UNCHANGED <<ref, running, sema_worker, lists, alive, spc, stask, ppc, poster, apc, pool>>

DPostWorker ==
    /\ DGoto("post_worker", "join") /\ sema_worker' = sema_worker + 1
    /\ UNCHANGED <<ref, running, sema_request, lists, alive, spc, stask, ppc, poster, apc, pool>>

(* thread_destroy joins the scheduler.                                     *)
DJoin ==
    /\ DGoto("join", "pool") /\ spc = "gone"
    /\ UNCHANGED <<ref, running, semas, lists, alive, spc, stask, ppc, poster, apc, pool>>

DPool ==
    /\ DGoto("pool", "drain") /\ Pool!Close
    /\ UNCHANGED <<ref, running, semas, lists, alive, spc, stask, ppc, poster, apc>>

DDrain ==
    /\ DGoto("drain", "release") /\ Pool!Release
    /\ UNCHANGED <<ref, running, semas, lists, alive, spc, stask, ppc, poster, apc>>

DRelease ==
    /\ DGoto("release", "end") /\ task_queue_release
    /\ UNCHANGED <<running, semas, spc, stask, ppc, poster, apc, pool>>

-----------------------------------------------------------------------------
Scheduler ==
    \/ SLoop \/ SWaitRequest \/ SWaitWorker \/ STest \/ task_pop \/ SAssert
    \/ SReference \/ SPush
Post(t) == task_push(t) \/ PostSignal(t)
Action(t) == AProc(t) \/ task_recycle(t) \/ APost(t) \/ ARelease(t)
Destroy == DPostRequest \/ DPostWorker \/ DJoin \/ DPool \/ DDrain \/ DRelease

Next ==
    \/ \E t \in Tasks : task_alloc(t) \/ Post(t) \/ AStart(t) \/ Action(t)
    \/ Scheduler \/ DBegin \/ Destroy

Spec == Init /\ [][Next]_vars

(* The threads keep running, procedures return, and a task the pool has    *)
(* accepted is started unless the pool is destroyed (ThreadPool's          *)
(* PushedRuns).                                                            *)
SpecLive ==
    /\ Spec /\ WF_vars(Scheduler) /\ WF_vars(Destroy)
    /\ \A t \in Tasks : WF_vars(Post(t)) /\ SF_vars(AStart(t)) /\ WF_vars(Action(t))

-----------------------------------------------------------------------------
(* The tasks whose reference on the context is not given back.             *)
Holding == {t \in Tasks : apc[t] # "end" /\ status[t] \in {"queued", "running", "dropped"}}

(* ref is one for the owner until task_queue_destroy releases it, plus one *)
(* for every task handed to the pool and not through task_queue_release:   *)
(* a task the pool drops keeps its reference, and with it the context.     *)
(* The context, its lock and semaphores are freed only when the scheduler, *)
(* the destroyer, all actions and all posts are through with them; every   *)
(* task_ctx ever allocated is freed with it, those that were posted and    *)
(* never scheduled included.                                               *)
RefExact ==
    /\ ref = Cardinality(Holding) + (IF dpc = "end" THEN 0 ELSE 1)
             + (IF spc = "push" THEN 1 ELSE 0)
    /\ ~alive => /\ nodes = 0
                 /\ spc = "gone" /\ dpc = "end"
                 /\ \A t \in Tasks : /\ apc[t] \in {"idle", "end"}
                                     /\ ppc[t] \in {"new", "posted"}

(* assert(task): the scheduler never finds the list empty after its two    *)
(* waits, although posters signal after the push and task_queue_destroy    *)
(* signals without one.                                                    *)
SchedulerFindsTask == spc = "assert" => stask # None

(* assert(taskQ->tasks_count > 0) in task_pop, when the list is not empty. *)
CountPositive == (spc = "pop" /\ tasks # << >>) => tasks_count > 0

(* A posted task is run unless the queue is destroyed first.               *)
PostedRuns == \A t \in Tasks : (ppc[t] = "posted") ~> (apc[t] = "end" \/ ~running)

(* task_queue_destroy returns, and the context is freed unless the pool    *)
(* dropped a task that holds a reference.                                  *)
DestroyFrees ==
    (dpc # "open") ~> (dpc = "end" /\ (~alive \/ \E t \in Tasks : status[t] = "dropped"))
=============================================================================
