------------------------------ MODULE WorkPool ------------------------------
(***************************************************************************)
(* What a thread pool promises, without threads, locks or events: a task   *)
(* that was accepted is run at most once, at most Max of them at a time;   *)
(* closing the pool starts nothing new, waits for the tasks that run and   *)
(* drops the others.  ThreadPool implements it, TaskQueue is built on it.  *)
(***************************************************************************)
EXTENDS Naturals, FiniteSets

CONSTANTS Tasks,  \* the tasks clients push
          Max     \* maximum thread count

VARIABLES status, \* what became of each task
          phase   \* "open", then "closing", then "gone"

vars == <<status, phase>>

Status == {"new", "refused", "queued", "running", "done", "dropped"}
Running == {t \in Tasks : status[t] = "running"}
Become(t, from, to) == status[t] = from /\ status' = [status EXCEPT ![t] = to]

Init == status = [t \in Tasks |-> "new"] /\ phase = "open"

(* Tasks that still run may push while the pool is closing.                *)
Submit(t) ==
    /\ phase = "open" \/ (phase = "closing" /\ Running # {})
    /\ Become(t, "new", "queued")
    /\ UNCHANGED phase

Refuse(t) ==
    /\ phase = "open" \/ (phase = "closing" /\ Running # {})
    /\ Become(t, "new", "refused")
    /\ UNCHANGED phase

Start(t) ==
    /\ phase = "open" /\ Cardinality(Running) < Max
    /\ Become(t, "queued", "running")
    /\ UNCHANGED phase

Finish(t) ==
    /\ Become(t, "running", "done")
    /\ UNCHANGED phase

Close ==
    /\ phase = "open" /\ phase' = "closing"
    /\ UNCHANGED status

Release ==
    /\ phase = "closing" /\ Running = {}
    /\ phase' = "gone"
    /\ status' = [t \in Tasks |-> IF status[t] = "queued" THEN "dropped" ELSE status[t]]

Next ==
    \/ \E t \in Tasks : Submit(t) \/ Refuse(t) \/ Start(t) \/ Finish(t)
    \/ Close \/ Release

Spec == Init /\ [][Next]_vars
=============================================================================
