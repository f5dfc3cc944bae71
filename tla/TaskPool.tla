------------------------------ MODULE TaskPool ------------------------------
(***************************************************************************)
(* What the thread pool of src/src/thread_pool.c promises its one user,    *)
(* the server's main thread: a task that was added is run exactly once,    *)
(* tasks are started in the order they were added, and the pool is not     *)
(* released while a task is still queued or running.  Threads, the mutex,  *)
(* the condition variable and the linked list are all absent here; module  *)
(* ThreadPool has them and implements this specification.                  *)
(***************************************************************************)
EXTENDS Naturals

CONSTANT MaxTasks     \* bound on the tasks of one behaviour, numbered as added

Task == 1..MaxTasks

VARIABLES status,     \* where each task is on its way through the pool
          phase       \* is the pool accepting, draining, or released

vars == <<status, phase>>

Init ==
    /\ status = [t \in Task |-> "new"]
    /\ phase = "open"

(* The user adds the next task. *)
Submit(t) ==
    /\ phase = "open"
    /\ status[t] = "new"
    /\ \A u \in Task : u < t => status[u] # "new"
    /\ status' = [status EXCEPT ![t] = "queued"]
    /\ UNCHANGED phase

(* Some thread starts the oldest queued task. *)
Start(t) ==
    /\ phase # "released"
    /\ status[t] = "queued"
    /\ \A u \in Task : u < t => status[u] # "queued"
    /\ status' = [status EXCEPT ![t] = "running"]
    /\ UNCHANGED phase

Finish(t) ==
    /\ status[t] = "running"
    /\ status' = [status EXCEPT ![t] = "done"]
    /\ UNCHANGED phase

(* The user asks for the end of the pool: nothing is accepted any more. *)
Close ==
    /\ phase = "open"
    /\ phase' = "draining"
    /\ UNCHANGED status

(* The pool is gone, and no accepted task has been dropped. *)
Release ==
    /\ phase # "released"
    /\ \A t \in Task : status[t] \in {"new", "done"}
    /\ phase' = "released"
    /\ UNCHANGED status

Next ==
    \/ \E t \in Task : Submit(t) \/ Start(t) \/ Finish(t)
    \/ Close
    \/ Release

Spec == Init /\ [][Next]_vars

FairSpec ==
    /\ Spec
    /\ \A t \in Task : WF_vars(Start(t)) /\ WF_vars(Finish(t))

=============================================================================
