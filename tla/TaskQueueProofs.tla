--------------------------- MODULE TaskQueueProofs ---------------------------
(***************************************************************************)
(* Proofs about TaskQueue for any number of tasks and workers: the         *)
(* context's reference count is exact, what it owns is freed with it, and  *)
(* the scheduler never finds the list empty.                               *)
(***************************************************************************)
EXTENDS TaskQueue, FiniteSetTheorems, TLAPS

(* The tasks posted but not yet signalled, and those whose task_ctx is in  *)
(* no list: a poster, the scheduler, the pool or task_action has it.       *)
Signalling == {t \in Tasks : ppc[t] = "signal"}
Carried == {t \in Tasks : \/ ppc[t] = "push" \/ stask = t
                          \/ status[t] \in {"queued", "dropped"}
                          \/ apc[t] \in {"proc", "recycle"}}

One(b) == IF b THEN 1 ELSE 0

(* Each task is in one place at a time.                                    *)
TaskPlaces ==
    /\ \A i, j \in 1 .. Len(tasks) : tasks[i] = tasks[j] => i = j
    /\ \A i \in 1 .. Len(tasks) : /\ ppc[tasks[i]] \in {"signal", "posted"}
                                  /\ status[tasks[i]] = "new" /\ stask # tasks[i]
    /\ stask # None => ppc[stask] \in {"signal", "posted"} /\ status[stask] = "new"
    /\ \A t \in Tasks :
          /\ ppc[t] \in {"new", "push"} => status[t] = "new"
          /\ apc[t] = "idle" <=> status[t] \in {"new", "queued", "dropped"}
          /\ apc[t] = "end" <=> status[t] = "done"
          /\ status[t] # "refused"

(* A post in progress is a client's, before task_queue_destroy, or made by *)
(* a procedure that still runs.                                            *)
PostersInside ==
    \A t \in Tasks :
        /\ ppc[t] = "new" => poster[t] = None
        /\ ppc[t] \in {"push", "signal"} =>
              IF poster[t] = None THEN dpc = "open" ELSE apc[poster[t]] = "proc"

(* How far task_queue_destroy, the scheduler and the pool have come.       *)
Stages ==
    /\ running <=> dpc = "open"
    /\ dpc \in {"pool", "drain", "release", "end"} => spc = "gone"
    /\ stask # None <=> spc \in {"assert", "ref", "push"}
    /\ phase = IF dpc \in {"release", "end"} THEN "gone"
               ELSE IF dpc = "drain" THEN "closing" ELSE "open"

(* While the queue runs there is a request for every task whose post is    *)
(* through, and the scheduler holds one between its wait and its pop.      *)
RequestsMatch ==
    /\ running => Len(tasks) = sema_request + Cardinality(Signalling)
                                 + One(spc \in {"worker", "test", "pop"})
    /\ spc = "pop" => tasks # << >>

NodesMatch == nodes = tasks_recycle_count + Len(tasks) + Cardinality(Carried)
RefMatches == ref = Cardinality(Holding) + One(dpc # "end") + One(spc = "push")
FreedWithLast == /\ alive <=> ref # 0
                 /\ ~alive => tasks = << >> /\ tasks_recycle_count = 0

IInv == /\ TypeOK /\ TaskPlaces /\ PostersInside /\ Stages
        /\ RequestsMatch /\ NodesMatch /\ RefMatches /\ FreedWithLast

-----------------------------------------------------------------------------
(* Cardinality of a set of tasks when one enters or leaves.                *)
LEMMA Enter ==
    ASSUME NEW S, NEW T, NEW t, S \subseteq Tasks, t \notin S, T = S \cup {t}
    PROVE  Cardinality(S) \in Nat /\ Cardinality(T) = Cardinality(S) + 1
<1>1. IsFiniteSet(S)
  BY TaskQueueAssumption, FS_Subset
<1>. QED  BY <1>1, FS_AddElement, FS_CardinalityType

(* A task leaves one of the sets the counts are about.                     *)
LEMMA Leave ==
    ASSUME NEW S, NEW T, NEW t, S \subseteq Tasks, t \in S, T = S \ {t}
    PROVE  /\ Cardinality(S) \in Nat \ {0} /\ Cardinality(T) \in Nat
           /\ Cardinality(T) = Cardinality(S) - 1
<1>1. IsFiniteSet(S)
  BY TaskQueueAssumption, FS_Subset
<1>2. Cardinality(T) = Cardinality(S) - 1 /\ IsFiniteSet(T)
  BY <1>1, FS_RemoveElement
<1>3. Cardinality(S) \in Nat /\ Cardinality(T) \in Nat
  BY <1>1, <1>2, FS_CardinalityType
<1>. QED  BY <1>2, <1>3

(* What is counted is finite: a set of tasks.                              *)
LEMMA CardTypes ==
    ASSUME NEW S, S \subseteq Tasks
    PROVE  Cardinality(S) \in Nat /\ (Cardinality(S) = 0 <=> S = {})
<1>1. IsFiniteSet(S)
  BY TaskQueueAssumption, FS_Subset
<1>. QED  BY <1>1, FS_CardinalityType, FS_EmptySet

(* The tasks being signalled, carried or holding a reference are tasks.    *)
LEMMA Subsets ==
    /\ Signalling \subseteq Tasks /\ Carried \subseteq Tasks /\ Holding \subseteq Tasks
    /\ Cardinality(Signalling) \in Nat /\ Cardinality(Carried) \in Nat
    /\ Cardinality(Holding) \in Nat
<1>1. Signalling \subseteq Tasks /\ Carried \subseteq Tasks /\ Holding \subseteq Tasks
  BY DEF Signalling, Carried, Holding
<1>. QED  BY <1>1, CardTypes

(* When the count has reached 0 nobody is inside the queue any more.       *)
LEMMA NobodyInside ==
    ASSUME TypeOK, TaskPlaces, PostersInside, Stages, RefMatches, ref = 0
    PROVE  /\ spc = "gone" /\ dpc = "end" /\ stask = None /\ ~running
           /\ \A t \in Tasks : /\ apc[t] \in {"idle", "end"} /\ ppc[t] \in {"new", "posted"}
                               /\ status[t] \in {"new", "done"}
<1>1. Cardinality(Holding) = 0 /\ dpc = "end" /\ spc # "push"
  BY Subsets DEF RefMatches, One
<1>2. Holding = {}
  BY <1>1, Subsets, CardTypes
<1>3. spc = "gone" /\ stask = None /\ ~running
  BY <1>1 DEF Stages
<1>4. ASSUME NEW t \in Tasks
      PROVE  apc[t] \in {"idle", "end"} /\ status[t] \in {"new", "done"}
  <2>1. apc[t] \in ActionPC /\ status[t] \in Pool!Status
    BY DEF TypeOK
  <2>2. apc[t] = "end" \/ status[t] \notin {"queued", "running", "dropped"}
    BY <1>2 DEF Holding
  <2>. QED  BY <2>1, <2>2 DEF TaskPlaces, Pool!Status
<1>5. ASSUME NEW t \in Tasks  PROVE ppc[t] \in {"new", "posted"}
  <2>1. ppc[t] \in {"new", "push", "signal", "posted"} /\ poster[t] \in Tasks \cup {None}
    BY DEF TypeOK
  <2>2. poster[t] # None => apc[poster[t]] \in {"idle", "end"}
    BY <1>4, <2>1
  <2>. QED  BY <1>1, <2>1, <2>2 DEF PostersInside
<1>. QED  BY <1>1, <1>3, <1>4, <1>5

(* What task_queue_release does, when the caller holds a reference: the    *)
(* lists are as they were, or they are freed with the context.             *)
LEMMA ReleaseStep ==
    ASSUME TypeOK, NodesMatch, ref \in Nat \ {0}, task_queue_release
    PROVE  /\ ref' = ref - 1 /\ ref' \in Nat /\ UNCHANGED tasks_count
           /\ ref' # 0 => UNCHANGED <<alive, tasks, tasks_recycle_count, nodes>>
           /\ ref' = 0 => ~alive' /\ tasks' = << >> /\ tasks_recycle_count' = 0
           /\ nodes' = tasks_recycle_count' + Len(tasks') + Cardinality(Carried)
<1>1. /\ tasks \in Seq(Tasks) /\ Len(tasks) \in Nat /\ tasks_recycle_count \in Int /\ nodes \in Nat
      /\ Cardinality(Carried) \in Nat
  BY Subsets, TaskQueueAssumption DEF TypeOK
<1>2. CASE ref - 1 = 0
  BY <1>1, <1>2 DEF task_queue_release, NodesMatch, lists
<1>3. CASE ref - 1 # 0
  BY <1>1, <1>3 DEF task_queue_release, NodesMatch, lists
<1>. QED  BY <1>2, <1>3

-----------------------------------------------------------------------------
(* The reference count.                                                    *)

(* task_queue_addref and task_queue_release keep ref the number of those   *)
(* who hold the context: its owner, the scheduler at a push, and the tasks *)
(* in the pool.                                                            *)
LEMMA RefStep ==
    ASSUME TypeOK, TaskPlaces, Stages, NodesMatch, RefMatches, [Next]_vars
    PROVE  RefMatches' /\ ref' \in Nat
<1>0. /\ apc \in [Tasks -> ActionPC] /\ status \in [Tasks -> Pool!Status]
      /\ ref \in Nat /\ Cardinality(Holding) \in Nat /\ Holding \subseteq Tasks
  BY Subsets DEF TypeOK
<1>1. ASSUME UNCHANGED <<ref, status>>, \A t \in Tasks : apc'[t] = "end" <=> apc[t] = "end",
             (dpc' = "end") <=> (dpc = "end"), (spc' = "push") <=> (spc = "push")
      PROVE  RefMatches' /\ ref' \in Nat
  <2>1. Holding' = Holding
    BY <1>1 DEF Holding
  <2>. QED  BY <1>0, <1>1, <2>1 DEF RefMatches, One
<1>2. CASE UNCHANGED vars
  BY <1>1, <1>2 DEF vars, pool
<1>3. ASSUME NEW t \in Tasks, task_alloc(t) \/ Post(t)  PROVE RefMatches' /\ ref' \in Nat
  BY <1>1, <1>3 DEF task_alloc, Post, task_push, PostSignal, pool
<1>4. ASSUME NEW t \in Tasks, AStart(t)  PROVE RefMatches' /\ ref' \in Nat
  <2>1. /\ apc[t] = "idle" /\ apc' = [apc EXCEPT ![t] = "proc"]
        /\ status[t] = "queued" /\ status' = [status EXCEPT ![t] = "running"]
        /\ UNCHANGED <<ref, dpc, spc>>
    BY <1>4 DEF AStart, AGoto, Pool!Start, Pool!Become
  <2>2. Holding' = Holding
    BY <1>0, <2>1 DEF Holding
  <2>. QED  BY <1>0, <2>1, <2>2 DEF RefMatches, One
<1>5. ASSUME NEW t \in Tasks, AProc(t) \/ task_recycle(t) \/ APost(t)
      PROVE  RefMatches' /\ ref' \in Nat
  BY <1>0, <1>1, <1>5 DEF AProc, task_recycle, APost, AGoto, pool
<1>6. ASSUME NEW t \in Tasks, ARelease(t)  PROVE RefMatches' /\ ref' \in Nat
  <2>1. /\ apc[t] = "release" /\ apc' = [apc EXCEPT ![t] = "end"]
        /\ status[t] = "running" /\ status' = [status EXCEPT ![t] = "done"]
        /\ ref' = ref - 1 /\ UNCHANGED <<dpc, spc>>
    BY <1>6 DEF ARelease, AGoto, task_queue_release, Pool!Finish, Pool!Become
  <2>2. t \in Holding /\ Holding' = Holding \ {t}
    BY <1>0, <2>1 DEF Holding
  <2>3. Cardinality(Holding) \in Nat \ {0} /\ Cardinality(Holding') = Cardinality(Holding) - 1
    BY <1>0, <2>2, Leave
  <2>. QED  BY <1>0, <2>1, <2>3 DEF RefMatches, One
<1>7. CASE SLoop \/ SWaitRequest \/ SWaitWorker \/ STest \/ task_pop \/ SAssert
  BY <1>1, <1>7 DEF SLoop, SWaitRequest, SWaitWorker, STest, task_pop, SAssert, SGoto, pool
<1>8. CASE SReference
  <2>1. /\ spc = "ref" /\ spc' = "push" /\ ref' = ref + 1 /\ UNCHANGED <<apc, status, dpc>>
    BY <1>8 DEF SReference, SGoto, pool
  <2>2. Holding' = Holding
    BY <2>1 DEF Holding
  <2>. QED  BY <1>0, <2>1, <2>2 DEF RefMatches, One
<1>9. CASE SPush
  <2>1. /\ spc = "push" /\ spc' = "loop" /\ UNCHANGED <<ref, apc, dpc>>
        /\ status[stask] = "new" /\ status' = [status EXCEPT ![stask] = "queued"]
    BY <1>9 DEF SPush, SGoto, Pool!Submit, Pool!Become
  <2>2. stask \in Tasks /\ apc[stask] = "idle"
    BY <2>1 DEF TypeOK, Stages, TaskPlaces
  <2>3. stask \notin Holding /\ Holding' = Holding \cup {stask}
    BY <1>0, <2>1, <2>2 DEF Holding
  <2>4. Cardinality(Holding') = Cardinality(Holding) + 1
    BY <1>0, <2>3, Enter
  <2>. QED  BY <1>0, <2>1, <2>4 DEF RefMatches, One
<1>10. CASE DBegin \/ DPostRequest \/ DPostWorker \/ DJoin \/ DPool
  BY <1>1, <1>10 DEF DBegin, DPostRequest, DPostWorker, DJoin, DPool, DGoto, Pool!Close, pool
<1>11. CASE DDrain
  <2>1. /\ dpc = "drain" /\ dpc' = "release" /\ UNCHANGED <<ref, apc, spc>>
        /\ \A t \in Tasks : status'[t] = IF status[t] = "queued" THEN "dropped" ELSE status[t]
    BY <1>11 DEF DDrain, DGoto, Pool!Release
  <2>2. Holding' = Holding
    BY <2>1 DEF Holding
  <2>. QED  BY <1>0, <2>1, <2>2 DEF RefMatches, One
<1>12. CASE DRelease
  <2>1. /\ dpc = "release" /\ dpc' = "end" /\ ref' = ref - 1 /\ UNCHANGED <<apc, spc, status>>
    BY <1>12 DEF DRelease, DGoto, task_queue_release, pool
  <2>2. Holding' = Holding
    BY <2>1 DEF Holding
  <2>. QED  BY <1>0, <2>1, <2>2 DEF RefMatches, One
<1>. QED
  BY <1>2, <1>3, <1>4, <1>5, <1>6, <1>7, <1>8, <1>9, <1>10, <1>11, <1>12
     DEF Next, Action, Scheduler, Destroy

(* Whoever releases the context holds a reference.                         *)
LEMMA ReleaserHolds ==
    ASSUME TypeOK, RefMatches, DRelease \/ \E t \in Tasks : ARelease(t)
    PROVE  ref \in Nat \ {0}
<1>0. ref \in Nat /\ Cardinality(Holding) \in Nat /\ Holding \subseteq Tasks
  BY Subsets DEF TypeOK
<1>1. CASE DRelease
  BY <1>0, <1>1 DEF DRelease, DGoto, RefMatches, One
<1>2. ASSUME NEW t \in Tasks, ARelease(t)  PROVE ref \in Nat \ {0}
  <2>1. t \in Holding
    BY <1>2 DEF ARelease, AGoto, Pool!Finish, Pool!Become, Holding
  <2>2. Cardinality(Holding) # 0
    BY <1>0, <2>1, CardTypes
  <2>. QED  BY <1>0, <2>2 DEF RefMatches, One
<1>. QED  BY <1>1, <1>2

-----------------------------------------------------------------------------
(* Every task_ctx is in a list or in somebody's hands.                     *)

(* task_alloc, task_recycle and the lists' pushes and pops keep every      *)
(* task_ctx in a list or in somebody's hands.                              *)
LEMMA NodesStep ==
    ASSUME TypeOK, TaskPlaces, Stages, RequestsMatch, NodesMatch, RefMatches, [Next]_vars
    PROVE  NodesMatch'
<1>0. /\ apc \in [Tasks -> ActionPC] /\ status \in [Tasks -> Pool!Status]
      /\ ppc \in [Tasks -> {"new", "push", "signal", "posted"}]
      /\ nodes \in Nat /\ tasks_recycle_count \in Int /\ MaxRecycle \in Nat
      /\ tasks \in Seq(Tasks) /\ Len(tasks) \in Nat /\ None \notin Tasks
      /\ Cardinality(Carried) \in Nat /\ Carried \subseteq Tasks
  BY Subsets, TaskQueueAssumption DEF TypeOK
<1>1. ASSUME UNCHANGED <<nodes, tasks, tasks_recycle_count>>, Carried' = Carried
      PROVE  NodesMatch'
  BY <1>1 DEF NodesMatch
<1>2. CASE UNCHANGED vars
  BY <1>1, <1>2 DEF vars, lists, pool, Carried
<1>3. ASSUME NEW t \in Tasks, task_alloc(t)  PROVE NodesMatch'
  <2>1. /\ ppc[t] = "new" /\ ppc' = [ppc EXCEPT ![t] = "push"]
        /\ \/ nodes' = nodes + 1 /\ tasks_recycle_count' = tasks_recycle_count
           \/ nodes' = nodes /\ tasks_recycle_count' = tasks_recycle_count - 1
        /\ UNCHANGED <<tasks, stask, status, apc>>
    BY <1>0, <1>3 DEF task_alloc, pool
  <2>2. t \notin Carried /\ Carried' = Carried \cup {t}
    BY <1>0, <2>1 DEF Carried, TaskPlaces
  <2>3. Cardinality(Carried') = Cardinality(Carried) + 1
    BY <1>0, <2>2, Enter
  <2>. QED  BY <1>0, <2>1, <2>3 DEF NodesMatch
<1>4. ASSUME NEW t \in Tasks, task_push(t)  PROVE NodesMatch'
  <2>1. /\ ppc[t] = "push" /\ ppc' = [ppc EXCEPT ![t] = "signal"] /\ tasks' = Append(tasks, t)
        /\ UNCHANGED <<nodes, tasks_recycle_count, stask, status, apc>>
    BY <1>4 DEF task_push, pool
  <2>2. t \in Carried /\ Carried' = Carried \ {t}
    BY <1>0, <2>1 DEF Carried, TaskPlaces
  <2>3. Cardinality(Carried') = Cardinality(Carried) - 1
    BY <1>0, <2>2, Leave
  <2>4. Len(tasks') = Len(tasks) + 1
    BY <1>0, <2>1
  <2>. QED  BY <1>0, <2>1, <2>3, <2>4 DEF NodesMatch
<1>5. ASSUME NEW t \in Tasks, PostSignal(t) \/ AProc(t) \/ APost(t)  PROVE NodesMatch'
  <2>1. Carried' = Carried /\ UNCHANGED <<nodes, tasks, tasks_recycle_count>>
    BY <1>0, <1>5 DEF PostSignal, AProc, APost, AGoto, Carried, lists, pool
  <2>. QED  BY <1>1, <2>1
<1>6. ASSUME NEW t \in Tasks, AStart(t)  PROVE NodesMatch'
  <2>1. Carried' = Carried /\ UNCHANGED <<nodes, tasks, tasks_recycle_count>>
    BY <1>0, <1>6 DEF AStart, AGoto, Pool!Start, Pool!Become, Carried, lists
  <2>. QED  BY <1>1, <2>1
<1>7. ASSUME NEW t \in Tasks, task_recycle(t)  PROVE NodesMatch'
  <2>1. /\ apc[t] = "recycle" /\ apc' = [apc EXCEPT ![t] = "post"]
        /\ \/ nodes' = nodes - 1 /\ tasks_recycle_count' = tasks_recycle_count
           \/ nodes' = nodes /\ tasks_recycle_count' = tasks_recycle_count + 1
        /\ UNCHANGED <<tasks, stask, status, ppc>>
    BY <1>0, <1>7 DEF task_recycle, AGoto, pool
  <2>2. status[t] = "running"
    BY <1>0, <2>1 DEF TaskPlaces, Pool!Status
  <2>3. t \in Carried /\ Carried' = Carried \ {t}
    BY <1>0, <2>1, <2>2 DEF Carried, TaskPlaces
  <2>4. Cardinality(Carried') = Cardinality(Carried) - 1
    BY <1>0, <2>3, Leave
  <2>5. CASE nodes' = nodes - 1 /\ tasks_recycle_count' = tasks_recycle_count
    BY <1>0, <2>1, <2>4, <2>5 DEF NodesMatch
  <2>6. CASE nodes' = nodes /\ tasks_recycle_count' = tasks_recycle_count + 1
    BY <1>0, <2>1, <2>4, <2>6 DEF NodesMatch
  <2>. QED  BY <2>1, <2>5, <2>6
<1>8. ASSUME NEW t \in Tasks, ARelease(t)  PROVE NodesMatch'
  <2>1. Carried' = Carried
    BY <1>0, <1>8 DEF ARelease, AGoto, Pool!Finish, Pool!Become, Carried
  <2>2. nodes' = tasks_recycle_count' + Len(tasks') + Cardinality(Carried)
    BY <1>8, ReleaserHolds, ReleaseStep DEF ARelease
  <2>. QED  BY <2>1, <2>2 DEF NodesMatch
<1>9. CASE SLoop \/ SWaitRequest \/ SWaitWorker \/ STest \/ SAssert \/ SReference
  <2>1. Carried' = Carried /\ UNCHANGED <<nodes, tasks, tasks_recycle_count>>
    BY <1>9 DEF SLoop, SWaitRequest, SWaitWorker, STest, SAssert, SReference, Carried, lists, pool
  <2>. QED  BY <1>1, <2>1
<1>10. CASE task_pop
  <2>1. /\ spc = "pop" /\ tasks # << >> /\ stask' = Head(tasks) /\ tasks' = Tail(tasks)
        /\ UNCHANGED <<nodes, tasks_recycle_count, status, apc, ppc>>
    BY <1>10 DEF task_pop, SGoto, RequestsMatch, pool
  <2>2. /\ Head(tasks) = tasks[1] /\ 1 \in 1 .. Len(tasks) /\ Head(tasks) \in Tasks
        /\ Len(tasks') = Len(tasks) - 1
    BY <1>0, <2>1
  <2>3. stask = None
    BY <2>1 DEF Stages
  <2>4. Head(tasks) \notin Carried /\ Carried' = Carried \cup {Head(tasks)}
    BY <1>0, <2>1, <2>2, <2>3 DEF Carried, TaskPlaces
  <2>5. Cardinality(Carried') = Cardinality(Carried) + 1
    BY <1>0, <2>4, Enter
  <2>. QED  BY <1>0, <2>1, <2>2, <2>5 DEF NodesMatch
<1>11. CASE SPush
  <2>1. /\ spc = "push" /\ stask' = None /\ status' = [status EXCEPT ![stask] = "queued"]
        /\ UNCHANGED <<nodes, tasks, tasks_recycle_count, apc, ppc>>
    BY <1>11 DEF SPush, SGoto, Pool!Submit, Pool!Become, lists
  <2>2. stask \in Tasks
    BY <2>1 DEF TypeOK, Stages
  <2>3. Carried' = Carried
    BY <1>0, <2>1, <2>2 DEF Carried
  <2>. QED  BY <1>1, <2>1, <2>3
<1>12. CASE DBegin \/ DPostRequest \/ DPostWorker \/ DJoin \/ DPool
  <2>1. Carried' = Carried /\ UNCHANGED <<nodes, tasks, tasks_recycle_count>>
    BY <1>12 DEF DBegin, DPostRequest, DPostWorker, DJoin, DPool, Pool!Close, Carried, lists, pool
  <2>. QED  BY <1>1, <2>1
<1>13. CASE DDrain
  <2>1. /\ \A t \in Tasks : status'[t] = IF status[t] = "queued" THEN "dropped" ELSE status[t]
        /\ UNCHANGED <<nodes, tasks, tasks_recycle_count, stask, apc, ppc>>
    BY <1>13 DEF DDrain, Pool!Release, lists
  <2>2. Carried' = Carried
    BY <2>1 DEF Carried
  <2>. QED  BY <1>1, <2>1, <2>2
<1>14. CASE DRelease
  <2>1. Carried' = Carried
    BY <1>14 DEF DRelease, Carried, pool
  <2>2. nodes' = tasks_recycle_count' + Len(tasks') + Cardinality(Carried)
    BY <1>14, ReleaserHolds, ReleaseStep DEF DRelease
  <2>. QED  BY <2>1, <2>2 DEF NodesMatch
<1>. QED
  BY <1>2, <1>3, <1>4, <1>5, <1>6, <1>7, <1>8, <1>9, <1>10, <1>11, <1>12, <1>13, <1>14
     DEF Next, Post, Action, Scheduler, Destroy

-----------------------------------------------------------------------------
(* The places of the tasks.                                                *)

(* task_queue_post, the scheduler and task_action move a task from one     *)
(* place to the next, never into two.                                      *)
LEMMA PlacesStep ==
    ASSUME TypeOK, TaskPlaces, Stages, RequestsMatch, NodesMatch, RefMatches, [Next]_vars
    PROVE  TaskPlaces'
<1>0. /\ apc \in [Tasks -> ActionPC] /\ status \in [Tasks -> Pool!Status]
      /\ ppc \in [Tasks -> {"new", "push", "signal", "posted"}]
      /\ stask \in Tasks \cup {None} /\ None \notin Tasks
      /\ tasks \in Seq(Tasks) /\ Len(tasks) \in Nat
      /\ \A i \in 1 .. Len(tasks) : tasks[i] \in Tasks
  BY TaskQueueAssumption DEF TypeOK
<1>1. ASSUME UNCHANGED <<tasks, stask, status>>,
             \A t \in Tasks :
                             /\ apc'[t] = "idle" <=> apc[t] = "idle"
                             /\ apc'[t] = "end" <=> apc[t] = "end"
                             /\ ppc'[t] \in {"new", "push"} => ppc[t] \in {"new", "push"}
                             /\ ppc[t] \in {"signal", "posted"} => ppc'[t] \in {"signal", "posted"}
      PROVE  TaskPlaces'
  <2>1. \A i \in 1 .. Len(tasks) : /\ ppc'[tasks[i]] \in {"signal", "posted"}
                                   /\ status[tasks[i]] = "new" /\ stask # tasks[i]
    BY <1>0, <1>1 DEF TaskPlaces
  <2>2. stask # None => ppc'[stask] \in {"signal", "posted"} /\ status[stask] = "new"
    BY <1>0, <1>1 DEF TaskPlaces
  <2>3. ASSUME NEW t \in Tasks
        PROVE  /\ ppc'[t] \in {"new", "push"} => status[t] = "new"
               /\ apc'[t] = "idle" <=> status[t] \in {"new", "queued", "dropped"}
               /\ apc'[t] = "end" <=> status[t] = "done"
               /\ status[t] # "refused"
    BY <1>0, <1>1 DEF TaskPlaces
  <2>. QED  BY <1>1, <2>1, <2>2, <2>3 DEF TaskPlaces
<1>2. CASE UNCHANGED vars
  BY <1>1, <1>2 DEF vars, lists, pool
<1>3. ASSUME NEW t \in Tasks, task_alloc(t) \/ PostSignal(t)  PROVE TaskPlaces'
  BY <1>0, <1>1, <1>3 DEF task_alloc, PostSignal, lists, pool
<1>4. ASSUME NEW t \in Tasks, task_push(t)  PROVE TaskPlaces'
  <2>1. /\ ppc[t] = "push" /\ ppc' = [ppc EXCEPT ![t] = "signal"] /\ tasks' = Append(tasks, t)
        /\ UNCHANGED <<stask, status, apc>>
    BY <1>4 DEF task_push, pool
  <2>2. /\ Len(tasks') = Len(tasks) + 1 /\ tasks'[Len(tasks) + 1] = t
        /\ \A i \in 1 .. Len(tasks) : tasks'[i] = tasks[i]
    BY <1>0, <2>1
  <2>3. status[t] = "new" /\ stask # t /\ \A i \in 1 .. Len(tasks) : tasks[i] # t
    BY <1>0, <2>1 DEF TaskPlaces
  <2>4. \A u \in Tasks : ppc'[u] = IF u = t THEN "signal" ELSE ppc[u]
    BY <1>0, <2>1
  <2>5. \A i \in 1 .. Len(tasks') : i # Len(tasks) + 1 => i \in 1 .. Len(tasks)
    BY <1>0, <2>2
  <2>6. \A i, j \in 1 .. Len(tasks') : tasks'[i] = tasks'[j] => i = j
    BY <2>2, <2>3, <2>5 DEF TaskPlaces
  <2>7. \A i \in 1 .. Len(tasks') : /\ ppc'[tasks'[i]] \in {"signal", "posted"}
                                    /\ status[tasks'[i]] = "new" /\ stask # tasks'[i]
    BY <1>0, <2>2, <2>3, <2>4, <2>5 DEF TaskPlaces
  <2>8. stask # None => ppc'[stask] \in {"signal", "posted"} /\ status[stask] = "new"
    BY <1>0, <2>4 DEF TaskPlaces
  <2>9. \A u \in Tasks : ppc'[u] \in {"new", "push"} => status[u] = "new"
    BY <2>4 DEF TaskPlaces
  <2>. QED  BY <2>1, <2>6, <2>7, <2>8, <2>9 DEF TaskPlaces
<1>5. ASSUME NEW t \in Tasks, AProc(t) \/ task_recycle(t) \/ APost(t)  PROVE TaskPlaces'
  BY <1>0, <1>1, <1>5 DEF AProc, task_recycle, APost, AGoto, lists, pool
<1>6. ASSUME NEW t \in Tasks, AStart(t)  PROVE TaskPlaces'
  <2>1. /\ apc[t] = "idle" /\ apc' = [apc EXCEPT ![t] = "proc"]
        /\ status[t] = "queued" /\ status' = [status EXCEPT ![t] = "running"]
        /\ UNCHANGED <<tasks, stask, ppc>>
    BY <1>6 DEF AStart, AGoto, Pool!Start, Pool!Become, lists
  <2>2. \A u \in Tasks : /\ status'[u] = IF u = t THEN "running" ELSE status[u]
                         /\ apc'[u] = IF u = t THEN "proc" ELSE apc[u]
    BY <1>0, <2>1
  <2>. QED  BY <1>0, <2>1, <2>2 DEF TaskPlaces
<1>7. ASSUME NEW t \in Tasks, ARelease(t)  PROVE TaskPlaces'
  <2>1. /\ apc[t] = "release" /\ apc' = [apc EXCEPT ![t] = "end"]
        /\ status[t] = "running" /\ status' = [status EXCEPT ![t] = "done"]
        /\ UNCHANGED <<stask, ppc>>
    BY <1>7 DEF ARelease, AGoto, Pool!Finish, Pool!Become
  <2>2. \A u \in Tasks : /\ status'[u] = IF u = t THEN "done" ELSE status[u]
                         /\ apc'[u] = IF u = t THEN "end" ELSE apc[u]
    BY <1>0, <2>1
  <2>3. tasks' = tasks \/ tasks' = << >>
    BY <1>7 DEF ARelease, task_queue_release, lists
  <2>. QED  BY <1>0, <2>1, <2>2, <2>3 DEF TaskPlaces
<1>8. CASE SLoop \/ SWaitRequest \/ SWaitWorker \/ STest \/ SAssert \/ SReference
  BY <1>1, <1>8 DEF SLoop, SWaitRequest, SWaitWorker, STest, SAssert, SReference, lists, pool
<1>9. CASE task_pop
  <2>. DEFINE h == Head(tasks)
  <2>1. /\ spc = "pop" /\ tasks # << >> /\ stask' = h /\ tasks' = Tail(tasks)
        /\ UNCHANGED <<status, apc, ppc>>
    BY <1>9 DEF task_pop, SGoto, RequestsMatch, pool
  <2>2. /\ Len(tasks) \in Nat \ {0} /\ h = tasks[1] /\ h \in Tasks
        /\ Len(tasks') = Len(tasks) - 1
        /\ \A i \in 1 .. Len(tasks) - 1 : tasks'[i] = tasks[i + 1] /\ tasks[i + 1] \in Tasks
    BY <1>0, <2>1
  <2>3. /\ ppc[h] \in {"signal", "posted"} /\ status[h] = "new"
        /\ \A i \in 1 .. Len(tasks) - 1 : tasks[i + 1] # h
    BY <2>2 DEF TaskPlaces
  <2>. HIDE DEF h
  <2>4. \A i, j \in 1 .. Len(tasks') : tasks'[i] = tasks'[j] => i = j
    BY <2>2 DEF TaskPlaces
  <2>5. \A i \in 1 .. Len(tasks') : /\ ppc[tasks'[i]] \in {"signal", "posted"}
                                    /\ status[tasks'[i]] = "new" /\ h # tasks'[i]
    BY <2>2, <2>3 DEF TaskPlaces
  <2>. QED  BY <2>1, <2>3, <2>4, <2>5 DEF TaskPlaces
<1>10. CASE SPush
  <2>1. /\ spc = "push" /\ stask' = None /\ status' = [status EXCEPT ![stask] = "queued"]
        /\ status[stask] = "new" /\ UNCHANGED <<tasks, apc, ppc>>
    BY <1>10 DEF SPush, SGoto, Pool!Submit, Pool!Become, lists
  <2>2. stask \in Tasks /\ stask # None
    BY <1>0, <2>1 DEF Stages
  <2>3. \A u \in Tasks : status'[u] = IF u = stask THEN "queued" ELSE status[u]
    BY <1>0, <2>1
  <2>. QED  BY <1>0, <2>1, <2>2, <2>3 DEF TaskPlaces
<1>11. CASE DBegin \/ DPostRequest \/ DPostWorker \/ DJoin \/ DPool
  BY <1>1, <1>11 DEF DBegin, DPostRequest, DPostWorker, DJoin, DPool, Pool!Close, lists, pool
<1>12. CASE DDrain
  <2>1. /\ \A t \in Tasks : status'[t] = IF status[t] = "queued" THEN "dropped" ELSE status[t]
        /\ UNCHANGED <<tasks, stask, apc, ppc>>
    BY <1>12 DEF DDrain, Pool!Release, lists
  <2>. QED  BY <1>0, <2>1 DEF TaskPlaces
<1>13. CASE DRelease
  <2>1. (tasks' = tasks \/ tasks' = << >>) /\ UNCHANGED <<stask, apc, ppc, status>>
    BY <1>13 DEF DRelease, task_queue_release, lists, pool
  <2>. QED  BY <2>1 DEF TaskPlaces
<1>. QED
  BY <1>2, <1>3, <1>4, <1>5, <1>6, <1>7, <1>8, <1>9, <1>10, <1>11, <1>12, <1>13
     DEF Next, Post, Action, Scheduler, Destroy

(* A procedure returns only after the posts it made, and the owner begins  *)
(* task_queue_destroy only after those of the clients.                     *)
LEMMA PostersStep ==
    ASSUME TypeOK, TaskPlaces, PostersInside, [Next]_vars
    PROVE  PostersInside'
<1>0. /\ apc \in [Tasks -> ActionPC] /\ poster \in [Tasks -> Tasks \cup {None}]
      /\ ppc \in [Tasks -> {"new", "push", "signal", "posted"}] /\ None \notin Tasks
  BY TaskQueueAssumption DEF TypeOK
<1>1. ASSUME UNCHANGED <<ppc, poster>>, dpc = "open" => dpc' = "open",
             \A t \in Tasks : apc[t] = "proc" => apc'[t] = "proc"
      PROVE  PostersInside'
  BY <1>0, <1>1 DEF PostersInside
<1>2. CASE UNCHANGED vars
  BY <1>1, <1>2 DEF vars
<1>3. ASSUME NEW t \in Tasks, task_alloc(t)  PROVE PostersInside'
  <2>1. ppc[t] = "new" /\ ppc' = [ppc EXCEPT ![t] = "push"] /\ UNCHANGED <<apc, dpc>>
    BY <1>3 DEF task_alloc
  <2>2. CASE dpc = "open" /\ UNCHANGED poster
    BY <1>0, <2>1, <2>2 DEF PostersInside
  <2>3. ASSUME NEW u \in Tasks, apc[u] = "proc", poster' = [poster EXCEPT ![t] = u]
        PROVE  PostersInside'
    BY <1>0, <2>1, <2>3 DEF PostersInside
  <2>. QED  BY <1>3, <2>2, <2>3 DEF task_alloc
<1>4. ASSUME NEW t \in Tasks, Post(t)  PROVE PostersInside'
  BY <1>0, <1>4 DEF Post, task_push, PostSignal, PostersInside
<1>5. ASSUME NEW t \in Tasks, AStart(t)  PROVE PostersInside'
  BY <1>0, <1>1, <1>5 DEF AStart, AGoto
<1>6. ASSUME NEW t \in Tasks, AProc(t)  PROVE PostersInside'
  BY <1>0, <1>6 DEF AProc, AGoto, Posting, PostersInside
<1>7. ASSUME NEW t \in Tasks, task_recycle(t) \/ APost(t) \/ ARelease(t)  PROVE PostersInside'
  BY <1>0, <1>1, <1>7 DEF task_recycle, APost, ARelease, AGoto
<1>8. CASE Scheduler
  BY <1>1, <1>8 DEF Scheduler, SLoop, SWaitRequest, SWaitWorker, STest, task_pop, SAssert,
                    SReference, SPush
<1>9. CASE DBegin
  BY <1>0, <1>9 DEF DBegin, Posting, PostersInside
<1>10. CASE Destroy
  BY <1>1, <1>10 DEF Destroy, DPostRequest, DPostWorker, DJoin, DPool, DDrain, DRelease, DGoto
<1>. QED
  BY <1>2, <1>3, <1>4, <1>5, <1>6, <1>7, <1>8, <1>9, <1>10 DEF Next, Action

(* task_queue_destroy stops the scheduler, then the pool, then drops its   *)
(* reference, in this order.                                               *)
LEMMA StagesStep ==
    ASSUME TypeOK, Stages, RequestsMatch, [Next]_vars
    PROVE  Stages'
<1>0. tasks \in Seq(Tasks) /\ None \notin Tasks /\ running \in BOOLEAN
  BY TaskQueueAssumption DEF TypeOK
<1>1. ASSUME UNCHANGED <<running, dpc, spc, stask, phase>>  PROVE Stages'
  BY <1>1 DEF Stages
<1>2. CASE UNCHANGED vars
  BY <1>1, <1>2 DEF vars, pool
<1>3. ASSUME NEW t \in Tasks, task_alloc(t) \/ Post(t) \/ AStart(t) \/ Action(t)  PROVE Stages'
  BY <1>1, <1>3 DEF task_alloc, Post, task_push, PostSignal, AStart, Action, AProc, task_recycle,
                    APost, ARelease, Pool!Start, Pool!Finish, pool
<1>4. CASE SLoop \/ SWaitRequest \/ SWaitWorker \/ STest \/ SAssert \/ SReference
  BY <1>4 DEF SLoop, SWaitRequest, SWaitWorker, STest, SAssert, SReference, SGoto, Stages, pool
<1>5. CASE task_pop
  <2>1. Head(tasks) \in Tasks /\ spc = "pop" /\ spc' = "assert" /\ stask' = Head(tasks)
        /\ UNCHANGED <<running, dpc, phase>>
    BY <1>0, <1>5 DEF task_pop, SGoto, RequestsMatch, pool
  <2>. QED  BY <1>0, <2>1 DEF Stages
<1>6. CASE SPush
  BY <1>6 DEF SPush, SGoto, Pool!Submit, Stages
<1>7. CASE DBegin \/ DPostRequest \/ DPostWorker \/ DJoin \/ DRelease
  BY <1>7 DEF DBegin, DPostRequest, DPostWorker, DJoin, DRelease, DGoto, Stages, pool
<1>8. CASE DPool
  BY <1>8 DEF DPool, DGoto, Pool!Close, Stages
<1>9. CASE DDrain
  BY <1>9 DEF DDrain, DGoto, Pool!Release, Stages
<1>. QED
  BY <1>2, <1>3, <1>4, <1>5, <1>6, <1>7, <1>8, <1>9 DEF Next, Scheduler, Destroy

(* The context is freed only after task_queue_destroy has joined the       *)
(* scheduler.                                                              *)
LEMMA LastRelease ==
    ASSUME TypeOK, Stages, NodesMatch, RefMatches, DRelease \/ \E t \in Tasks : ARelease(t)
    PROVE  \/ UNCHANGED <<alive, tasks, tasks_recycle_count, nodes>> /\ ref' # 0
           \/ /\ ref' = 0 /\ ~alive' /\ tasks' = << >> /\ tasks_recycle_count' = 0
              /\ ~running /\ spc = "gone"
<1>0. ref \in Nat \ {0} /\ Cardinality(Holding) \in Nat /\ Holding \subseteq Tasks
  BY ReleaserHolds, Subsets
<1>1. task_queue_release
  BY DEF DRelease, ARelease
<1>2. /\ ref' = ref - 1
      /\ ref' # 0 => UNCHANGED <<alive, tasks, tasks_recycle_count, nodes>>
      /\ ref' = 0 => ~alive' /\ tasks' = << >> /\ tasks_recycle_count' = 0
  BY <1>0, <1>1, ReleaseStep
<1>3. ASSUME ref' = 0  PROVE dpc \in {"release", "end"}
  <2>1. CASE DRelease
    BY <2>1 DEF DRelease, DGoto
  <2>2. ASSUME NEW t \in Tasks, ARelease(t)  PROVE dpc = "end"
    <3>1. t \in Holding
      BY <2>2 DEF ARelease, AGoto, Pool!Finish, Pool!Become, Holding
    <3>2. Cardinality(Holding) # 0
      BY <1>0, <3>1, CardTypes
    <3>. QED  BY <1>0, <1>2, <1>3, <3>2 DEF RefMatches, One
  <2>. QED  BY <2>1, <2>2
<1>. QED  BY <1>2, <1>3 DEF Stages

(* The scheduler's request stands for a task that is still in the list.    *)
LEMMA RequestsStep ==
    ASSUME TypeOK, TaskPlaces, Stages, RequestsMatch, NodesMatch, RefMatches, [Next]_vars
    PROVE  RequestsMatch'
<1>0. /\ ppc \in [Tasks -> {"new", "push", "signal", "posted"}]
      /\ tasks \in Seq(Tasks) /\ Len(tasks) \in Nat /\ sema_request \in Nat
      /\ Cardinality(Signalling) \in Nat /\ Signalling \subseteq Tasks
  BY Subsets DEF TypeOK
<1>1. ASSUME UNCHANGED <<ppc, tasks, sema_request, running, spc>>  PROVE RequestsMatch'
  BY <1>1 DEF RequestsMatch, Signalling, One
<1>2. CASE UNCHANGED vars
  BY <1>1, <1>2 DEF vars, lists, semas
<1>3. ASSUME NEW t \in Tasks, task_alloc(t)  PROVE RequestsMatch'
  <2>1. /\ ppc[t] = "new" /\ ppc' = [ppc EXCEPT ![t] = "push"]
        /\ UNCHANGED <<tasks, sema_request, running, spc>>
    BY <1>3 DEF task_alloc, semas
  <2>2. Signalling' = Signalling
    BY <1>0, <2>1 DEF Signalling
  <2>. QED  BY <2>1, <2>2 DEF RequestsMatch, One
<1>4. ASSUME NEW t \in Tasks, task_push(t)  PROVE RequestsMatch'
  <2>1. /\ ppc[t] = "push" /\ ppc' = [ppc EXCEPT ![t] = "signal"] /\ tasks' = Append(tasks, t)
        /\ UNCHANGED <<sema_request, running, spc>>
    BY <1>4 DEF task_push, semas
  <2>2. t \notin Signalling /\ Signalling' = Signalling \cup {t}
    BY <1>0, <2>1 DEF Signalling
  <2>3. Cardinality(Signalling') = Cardinality(Signalling) + 1
    BY <1>0, <2>2, Enter
  <2>4. Len(tasks') = Len(tasks) + 1 /\ tasks' # << >>
    BY <1>0, <2>1
  <2>. DEFINE one == One(spc \in {"worker", "test", "pop"})
  <2>5. one \in Nat /\ one' = one
    BY <2>1 DEF One
  <2>6. running => Len(tasks) = sema_request + Cardinality(Signalling) + one
    BY DEF RequestsMatch
  <2>. HIDE DEF one
  <2>7. Len(tasks) \in Nat /\ sema_request \in Nat /\ Cardinality(Signalling) \in Nat
    BY <1>0
  <2>8. ASSUME running  PROVE Len(tasks') = sema_request + Cardinality(Signalling') + one
    BY <2>3, <2>4, <2>5, <2>6, <2>7, <2>8
  <2>. QED  BY <2>1, <2>4, <2>5, <2>8 DEF RequestsMatch, one
<1>5. ASSUME NEW t \in Tasks, PostSignal(t)  PROVE RequestsMatch'
  <2>1. /\ ppc[t] = "signal" /\ ppc' = [ppc EXCEPT ![t] = "posted"]
        /\ sema_request' = sema_request + 1 /\ UNCHANGED <<tasks, running, spc>>
    BY <1>5 DEF PostSignal, lists
  <2>2. t \in Signalling /\ Signalling' = Signalling \ {t}
    BY <1>0, <2>1 DEF Signalling
  <2>3. Cardinality(Signalling') = Cardinality(Signalling) - 1
    BY <1>0, <2>2, Leave
  <2>. QED  BY <1>0, <2>1, <2>3 DEF RequestsMatch, One
<1>6. ASSUME NEW t \in Tasks, AStart(t) \/ AProc(t) \/ task_recycle(t) \/ APost(t)
      PROVE RequestsMatch'
  BY <1>1, <1>6 DEF AStart, AProc, task_recycle, APost, lists, semas
<1>7. CASE DRelease \/ \E t \in Tasks : ARelease(t)
  <2>1. UNCHANGED <<ppc, sema_request, running, spc>>
    BY <1>7 DEF DRelease, ARelease, semas
  <2>. QED  BY <1>1, <1>7, <2>1, LastRelease DEF RequestsMatch
<1>8. CASE SLoop
  BY <1>8 DEF SLoop, SGoto, RequestsMatch, Signalling, One, lists, semas
<1>9. CASE SWaitRequest
  <2>1. /\ spc = "request" /\ spc' = "worker" /\ sema_request' = sema_request - 1
        /\ UNCHANGED <<ppc, tasks, running>>
    BY <1>9 DEF SWaitRequest, SGoto, lists
  <2>2. Signalling' = Signalling
    BY <2>1 DEF Signalling
  <2>. QED  BY <1>0, <2>1, <2>2 DEF RequestsMatch, One
<1>10. CASE SWaitWorker
  BY <1>10 DEF SWaitWorker, SGoto, RequestsMatch, Signalling, One, lists
<1>11. CASE STest
  <2>1. /\ spc = "test" /\ spc' = (IF running THEN "pop" ELSE "loop")
        /\ UNCHANGED <<ppc, tasks, running, sema_request>>
    BY <1>11 DEF STest, SGoto, lists, semas
  <2>2. Signalling' = Signalling
    BY <2>1 DEF Signalling
  <2>3. running => Len(tasks) > 0
    BY <1>0, <2>1 DEF RequestsMatch, One
  <2>4. running => tasks # << >>
    BY <1>0, <2>3
  <2>. QED  BY <1>0, <2>1, <2>2, <2>4 DEF RequestsMatch, One
<1>12. CASE task_pop
  <2>1. /\ spc = "pop" /\ spc' = "assert" /\ tasks # << >> /\ tasks' = Tail(tasks)
        /\ UNCHANGED <<ppc, running, sema_request>>
    BY <1>12 DEF task_pop, SGoto, RequestsMatch, semas
  <2>2. Signalling' = Signalling
    BY <2>1 DEF Signalling
  <2>3. Len(tasks') = Len(tasks) - 1
    BY <1>0, <2>1
  <2>. QED  BY <1>0, <2>1, <2>2, <2>3 DEF RequestsMatch, One
<1>13. CASE SAssert \/ SReference \/ SPush
  <2>1. /\ spc \notin {"worker", "test", "pop"} /\ spc' \notin {"worker", "test", "pop"}
        /\ UNCHANGED <<ppc, tasks, running, sema_request>>
    BY <1>13 DEF SAssert, SReference, SPush, SGoto, lists, semas
  <2>2. Signalling' = Signalling
    BY <2>1 DEF Signalling
  <2>. QED  BY <2>1, <2>2 DEF RequestsMatch, One
<1>14. CASE DBegin \/ DPostRequest \/ DPostWorker \/ DJoin \/ DPool \/ DDrain
  <2>1. ~running' /\ UNCHANGED <<tasks, spc>>
    BY <1>14 DEF DBegin, DPostRequest, DPostWorker, DJoin, DPool, DDrain, DGoto, Stages, lists
  <2>. QED  BY <2>1 DEF RequestsMatch
<1>. QED
  BY <1>2, <1>3, <1>4, <1>5, <1>6, <1>7, <1>8, <1>9, <1>10, <1>11, <1>12, <1>13, <1>14
     DEF Next, Post, Action, Scheduler, Destroy

(* The context is freed with its last reference, and not used after.       *)
LEMMA FreedStep ==
    ASSUME IInv, [Next]_vars
    PROVE  FreedWithLast'
<1>0. alive \in BOOLEAN /\ ref \in Nat /\ FreedWithLast
  BY DEF IInv, TypeOK
<1>1. ASSUME ~alive
      PROVE  /\ spc = "gone" /\ dpc = "end" /\ stask = None /\ ~running
             /\ \A t \in Tasks : /\ apc[t] \in {"idle", "end"} /\ ppc[t] \in {"new", "posted"}
                                 /\ status[t] \in {"new", "done"}
  BY <1>0, <1>1, NobodyInside DEF IInv, FreedWithLast
<1>2. ASSUME alive \/ UNCHANGED <<tasks, tasks_recycle_count>>, UNCHANGED <<ref, alive>>
      PROVE  FreedWithLast'
  BY <1>0, <1>2 DEF FreedWithLast
<1>3. CASE UNCHANGED vars
  BY <1>2, <1>3 DEF vars, lists
<1>4. ASSUME NEW t \in Tasks, task_alloc(t) \/ task_push(t) \/ task_recycle(t)
      PROVE  FreedWithLast'
  <2>1. alive
    BY <1>1, <1>4 DEF task_alloc, task_push, task_recycle, AGoto
  <2>. QED  BY <1>2, <1>4, <2>1, Zenon DEF task_alloc, task_push, task_recycle
<1>5. ASSUME NEW t \in Tasks, PostSignal(t) \/ AStart(t) \/ AProc(t) \/ APost(t)
      PROVE  FreedWithLast'
  BY <1>2, <1>5 DEF PostSignal, AStart, AProc, APost, lists
<1>6. CASE SLoop \/ SWaitRequest \/ SWaitWorker \/ STest \/ SAssert \/ SPush
  BY <1>2, <1>6 DEF SLoop, SWaitRequest, SWaitWorker, STest, SAssert, SPush, lists
<1>7. CASE task_pop
  <2>1. alive
    BY <1>1, <1>7 DEF task_pop, SGoto
  <2>. QED  BY <1>2, <1>7, <2>1 DEF task_pop
<1>8. CASE SReference
  <2>1. alive
    BY <1>1, <1>8 DEF SReference, SGoto
  <2>. QED  BY <1>0, <1>8, <2>1 DEF SReference, FreedWithLast, lists
<1>9. CASE DBegin \/ DPostRequest \/ DPostWorker \/ DJoin \/ DPool \/ DDrain
  BY <1>2, <1>9 DEF DBegin, DPostRequest, DPostWorker, DJoin, DPool, DDrain, lists
<1>10. CASE DRelease \/ \E t \in Tasks : ARelease(t)
  <2>1. ref # 0
    BY <1>10, ReleaserHolds DEF IInv
  <2>2. \/ UNCHANGED <<alive, tasks, tasks_recycle_count, nodes>> /\ ref' # 0
        \/ ref' = 0 /\ ~alive' /\ tasks' = << >> /\ tasks_recycle_count' = 0
    BY <1>10, LastRelease DEF IInv
  <2>. QED  BY <1>0, <2>1, <2>2 DEF FreedWithLast
<1>. QED
  BY <1>3, <1>4, <1>5, <1>6, <1>7, <1>8, <1>9, <1>10 DEF Next, Post, Action, Scheduler, Destroy

(* Every step of the posters, the scheduler, the workers and               *)
(* task_queue_destroy keeps the types.                                     *)
LEMMA TypeStep ==
    ASSUME IInv, [Next]_vars, ref' \in Nat, NodesMatch'
    PROVE  TypeOK'
<1>. DEFINE PostPC == {"new", "push", "signal", "posted"}
            Lists == /\ tasks' \in Seq(Tasks) /\ tasks_count' \in 0 .. CountModulus - 1
                     /\ tasks_recycle_count' \in 0 .. MaxRecycle + 1
            Semas == sema_worker' \in Nat /\ sema_request' \in Nat
            Posts == ppc' \in [Tasks -> PostPC] /\ poster' \in [Tasks -> Tasks \cup {None}]
            Sched == spc' \in SchedulerPC /\ stask' \in Tasks \cup {None}
            Acts == apc' \in [Tasks -> ActionPC]
            Dest == dpc' \in DestroyPC /\ running' \in BOOLEAN /\ alive' \in BOOLEAN
            Pools == status' \in [Tasks -> Pool!Status] /\ phase' \in {"open", "closing", "gone"}
<1>0. TypeOK /\ None \notin Tasks /\ MaxRecycle \in Nat /\ CountModulus \in Nat \ {0}
  BY TaskQueueAssumption DEF IInv
<1>1. SUFFICES Lists /\ Semas /\ Posts /\ Sched /\ Acts /\ Dest /\ Pools
  <2>1. ASSUME Lists  PROVE nodes' \in Nat
    <3>1. Carried' \subseteq Tasks
      BY DEF Carried
    <3>2. Cardinality(Carried') \in Nat
      BY <3>1, CardTypes
    <3>3. Len(tasks') \in Nat
      BY <2>1
    <3>. QED  BY <1>0, <2>1, <3>2, <3>3 DEF NodesMatch
  <2>. QED  BY <2>1 DEF TypeOK
<1>2. CASE UNCHANGED vars
  BY <1>0, <1>2 DEF vars, lists, semas, pool, TypeOK
<1>3. ASSUME NEW t \in Tasks, task_alloc(t)
      PROVE Lists /\ Semas /\ Posts /\ Sched /\ Acts /\ Dest /\ Pools
  <2>1. Lists
    BY <1>0, <1>3 DEF task_alloc, TypeOK
  <2>2. Posts
    BY <1>0, <1>3 DEF task_alloc, TypeOK
  <2>. QED  BY <1>0, <1>3, <2>1, <2>2 DEF task_alloc, TypeOK, semas, pool
<1>4. ASSUME NEW t \in Tasks, task_push(t)
      PROVE Lists /\ Semas /\ Posts /\ Sched /\ Acts /\ Dest /\ Pools
  <2>1. tasks' \in Seq(Tasks)
    BY <1>0, <1>4 DEF task_push, TypeOK
  <2>2. tasks_count' \in 0 .. CountModulus - 1 /\ tasks_recycle_count' = tasks_recycle_count
    BY <1>0, <1>4 DEF task_push, TypeOK
  <2>. QED  BY <1>0, <1>4, <2>1, <2>2 DEF task_push, TypeOK, semas, pool
<1>5. ASSUME NEW t \in Tasks, PostSignal(t)
      PROVE Lists /\ Semas /\ Posts /\ Sched /\ Acts /\ Dest /\ Pools
  BY <1>0, <1>5 DEF PostSignal, TypeOK, lists, pool
<1>6. ASSUME NEW t \in Tasks, AStart(t) \/ AProc(t) \/ APost(t)
      PROVE Lists /\ Semas /\ Posts /\ Sched /\ Acts /\ Dest /\ Pools
  <2>1. Acts
    BY <1>0, <1>6 DEF AStart, AProc, APost, AGoto, TypeOK, ActionPC
  <2>2. Pools
    BY <1>0, <1>6 DEF AStart, AProc, APost, TypeOK, pool, Pool!Start, Pool!Become, Pool!Status
  <2>3. Lists /\ Posts /\ Sched /\ Dest
    BY <1>0, <1>6 DEF AStart, AProc, APost, TypeOK, lists
  <2>4. Semas
    BY <1>0, <1>6 DEF AStart, AProc, APost, TypeOK, semas
  <2>. QED  BY <2>1, <2>2, <2>3, <2>4
<1>7. ASSUME NEW t \in Tasks, task_recycle(t)
      PROVE Lists /\ Semas /\ Posts /\ Sched /\ Acts /\ Dest /\ Pools
  <2>1. Acts
    BY <1>0, <1>7 DEF task_recycle, AGoto, TypeOK, ActionPC
  <2>2. Lists
    BY <1>0, <1>7 DEF task_recycle, TypeOK
  <2>. QED  BY <1>0, <1>7, <2>1, <2>2 DEF task_recycle, TypeOK, semas, pool
<1>8. CASE DRelease \/ \E t \in Tasks : ARelease(t)
  <2>1. Lists
    <3>1. tasks' = tasks \/ tasks' = << >>
      BY <1>8 DEF DRelease, ARelease, task_queue_release, lists
    <3>2. tasks_count' = tasks_count
      BY <1>8 DEF DRelease, ARelease, task_queue_release, lists
    <3>3. tasks_recycle_count' = tasks_recycle_count \/ tasks_recycle_count' = 0
      BY <1>8 DEF DRelease, ARelease, task_queue_release, lists
    <3>4. tasks' \in Seq(Tasks)
      <4>1. << >> \in Seq(Tasks)
        OBVIOUS
      <4>2. tasks \in Seq(Tasks)
        BY <1>0 DEF TypeOK
      <4>. QED  BY <3>1, <4>1, <4>2, Zenon
    <3>5. 0 \in 0 .. MaxRecycle + 1
      BY <1>0
    <3>. QED  BY <1>0, <3>2, <3>3, <3>4, <3>5 DEF TypeOK
  <2>2. Acts
    BY <1>0, <1>8 DEF DRelease, ARelease, AGoto, TypeOK, ActionPC
  <2>3. Pools
    BY <1>0, <1>8 DEF DRelease, ARelease, TypeOK, pool, Pool!Finish, Pool!Become, Pool!Status
  <2>4. Dest
    BY <1>0, <1>8, Zenon DEF DRelease, ARelease, DGoto, task_queue_release, TypeOK, DestroyPC
  <2>. QED  BY <1>0, <1>8, <2>1, <2>2, <2>3, <2>4 DEF DRelease, ARelease, TypeOK, semas
<1>9. CASE SLoop \/ SWaitRequest \/ SWaitWorker \/ STest \/ SAssert \/ SReference
  <2>1. Lists /\ Posts /\ Acts /\ Dest /\ Pools
    BY <1>0, <1>9 DEF SLoop, SWaitRequest, SWaitWorker, STest, SAssert, SReference, TypeOK,
                      lists, pool
  <2>2. Sched
    BY <1>0, <1>9 DEF SLoop, SWaitRequest, SWaitWorker, STest, SAssert, SReference, SGoto,
                      TypeOK, SchedulerPC
  <2>3. Semas
    BY <1>0, <1>9 DEF SLoop, SWaitRequest, SWaitWorker, STest, SAssert, SReference, TypeOK, semas
  <2>. QED  BY <2>1, <2>2, <2>3
<1>10. CASE task_pop
  <2>1. /\ tasks # << >> /\ stask' = Head(tasks) /\ tasks' = Tail(tasks)
        /\ tasks_count' = (tasks_count + CountModulus - 1) % CountModulus
    BY <1>10 DEF task_pop, SGoto, RequestsMatch, IInv
  <2>2. stask' \in Tasks /\ tasks' \in Seq(Tasks)
    BY <1>0, <2>1 DEF TypeOK
  <2>3. tasks_count' \in 0 .. CountModulus - 1
    BY <1>0, <2>1 DEF TypeOK
  <2>. QED
    BY <1>0, <1>10, <2>2, <2>3 DEF task_pop, SGoto, TypeOK, SchedulerPC, semas, pool
<1>11. CASE SPush
  <2>1. Pools
    BY <1>0, <1>11, Zenon DEF SPush, TypeOK, Pool!Submit, Pool!Become, Pool!Status
  <2>. QED  BY <1>0, <1>11, <2>1 DEF SPush, SGoto, TypeOK, SchedulerPC, semas, lists
<1>12. CASE DBegin \/ DPostRequest \/ DPostWorker \/ DJoin \/ DPool \/ DDrain
  <2>1. Lists /\ Posts /\ Sched /\ Acts
    BY <1>0, <1>12 DEF DBegin, DPostRequest, DPostWorker, DJoin, DPool, DDrain, TypeOK, lists
  <2>2. Semas
    BY <1>0, <1>12 DEF DBegin, DPostRequest, DPostWorker, DJoin, DPool, DDrain, TypeOK, semas
  <2>3. Dest
    BY <1>0, <1>12, Zenon DEF DBegin, DPostRequest, DPostWorker, DJoin, DPool, DDrain, DGoto, TypeOK,
                       DestroyPC
  <2>4. Pools
    BY <1>0, <1>12 DEF DBegin, DPostRequest, DPostWorker, DJoin, DPool, DDrain, TypeOK, pool,
                       Pool!Close, Pool!Release, Pool!Status
  <2>. QED  BY <2>1, <2>2, <2>3, <2>4
<1>. QED
  BY <1>2, <1>3, <1>4, <1>5, <1>6, <1>7, <1>8, <1>9, <1>10, <1>11, <1>12
     DEF Next, Post, Action, Scheduler, Destroy

-----------------------------------------------------------------------------
(* task_queue_create leaves one reference, empty lists and a waiting       *)
(* scheduler.                                                              *)
LEMMA InitIInv ==
    ASSUME Init  PROVE IInv
<1>0. /\ None \notin Tasks /\ MaxRecycle \in Nat /\ CountModulus \in Nat \ {0}
      /\ MaxWorker \in Nat /\ InitialCounts \subseteq 0 .. CountModulus - 1
  BY TaskQueueAssumption
<1>1. TypeOK
  <2>1. ref \in Nat /\ sema_worker \in Nat /\ sema_request \in Nat /\ nodes \in Nat
    BY <1>0 DEF Init
  <2>2. tasks_count \in 0 .. CountModulus - 1 /\ tasks_recycle_count \in 0 .. MaxRecycle + 1
    BY <1>0 DEF Init
  <2>3. tasks \in Seq(Tasks)
    BY DEF Init
  <2>4. /\ spc \in SchedulerPC /\ stask \in Tasks \cup {None} /\ dpc \in DestroyPC
        /\ running \in BOOLEAN /\ alive \in BOOLEAN
    BY DEF Init, SchedulerPC, DestroyPC
  <2>5. /\ ppc \in [Tasks -> {"new", "push", "signal", "posted"}]
        /\ poster \in [Tasks -> Tasks \cup {None}] /\ apc \in [Tasks -> ActionPC]
    BY DEF Init, ActionPC
  <2>6. status \in [Tasks -> Pool!Status] /\ phase \in {"open", "closing", "gone"}
    BY DEF Init, Pool!Init, Pool!Status
  <2>. QED  BY <2>1, <2>2, <2>3, <2>4, <2>5, <2>6 DEF TypeOK
<1>2. Holding = {} /\ Signalling = {} /\ Carried = {}
  BY <1>0 DEF Init, Holding, Signalling, Carried, Pool!Init
<1>3. Cardinality({}) = 0
  BY CardTypes
<1>4. TaskPlaces /\ PostersInside /\ Stages
  BY <1>0 DEF Init, TaskPlaces, PostersInside, Stages, Pool!Init
<1>5. RequestsMatch /\ NodesMatch /\ RefMatches /\ FreedWithLast
  BY <1>2, <1>3 DEF Init, RequestsMatch, NodesMatch, RefMatches, FreedWithLast, One
<1>. QED  BY <1>1, <1>4, <1>5 DEF IInv

(* The inductive invariant of task-queue.c.                                *)
THEOREM IInvHolds == Spec => []IInv
<1>1. IInv /\ [Next]_vars => IInv'
  <2>. SUFFICES ASSUME IInv, [Next]_vars  PROVE IInv'
    OBVIOUS
  <2>1. TypeOK /\ TaskPlaces /\ PostersInside /\ Stages /\ RequestsMatch /\ NodesMatch /\ RefMatches
    BY DEF IInv
  <2>2. RefMatches' /\ ref' \in Nat /\ NodesMatch'
    BY <2>1, RefStep, NodesStep
  <2>3. TaskPlaces' /\ PostersInside' /\ Stages' /\ RequestsMatch' /\ FreedWithLast'
    BY <2>1, PlacesStep, PostersStep, StagesStep, RequestsStep, FreedStep
  <2>4. TypeOK'
    BY <2>2, TypeStep
  <2>. QED  BY <2>2, <2>3, <2>4 DEF IInv
<1>. QED  BY InitIInv, <1>1, PTL DEF Spec

(* Every variable of the queue keeps its type: in particular sema_request, *)
(* ref and the number of nodes never fall below zero and the recycle list  *)
(* stays within its limit.                                                 *)
THEOREM TypeCorrect == Spec => []TypeOK
<1>1. IInv => TypeOK
  BY DEF IInv
<1>. QED  BY IInvHolds, <1>1, PTL

(* task_queue_release frees the context when nobody uses it any more, and  *)
(* with it every task_ctx ever allocated.                                  *)
THEOREM ReferencesExact == Spec => []RefExact
<1>1. ASSUME IInv  PROVE RefExact
  <2>1. ref = Cardinality(Holding) + (IF dpc = "end" THEN 0 ELSE 1) + (IF spc = "push" THEN 1 ELSE 0)
    BY <1>1 DEF IInv, RefMatches, One
  <2>2. ASSUME ~alive
        PROVE  /\ nodes = 0 /\ spc = "gone" /\ dpc = "end"
               /\ \A t \in Tasks : apc[t] \in {"idle", "end"} /\ ppc[t] \in {"new", "posted"}
    <3>1. ref = 0 /\ tasks = << >> /\ tasks_recycle_count = 0
      BY <1>1, <2>2 DEF IInv, FreedWithLast
    <3>2. /\ spc = "gone" /\ dpc = "end" /\ stask = None
          /\ \A t \in Tasks : /\ apc[t] \in {"idle", "end"} /\ ppc[t] \in {"new", "posted"}
                              /\ status[t] \in {"new", "done"}
      BY <1>1, <3>1, NobodyInside DEF IInv
    <3>3. Carried = {}
      BY <3>2, TaskQueueAssumption DEF Carried
    <3>4. Cardinality(Carried) = 0
      BY <3>3, CardTypes
    <3>. QED  BY <1>1, <3>1, <3>2, <3>4 DEF IInv, NodesMatch
  <2>. QED  BY <2>1, <2>2 DEF RefExact
<1>. QED  BY IInvHolds, <1>1, PTL

(* assert(task) of task_queue_scheduler never fails.                       *)
THEOREM AssertHolds == Spec => []SchedulerFindsTask
<1>1. IInv => SchedulerFindsTask
  BY DEF IInv, Stages, SchedulerFindsTask
<1>. QED  BY IInvHolds, <1>1, PTL
=============================================================================
