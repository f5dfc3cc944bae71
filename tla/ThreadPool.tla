----------------------------- MODULE ThreadPool -----------------------------
(***************************************************************************)
(* src/src/thread_pool.c: worker threads that take tasks from a linked     *)
(* list under pool->lock and sleep on pool->notify when it is empty, and   *)
(* the owner thread (server_run) that creates the pool, adds tasks and     *)
(* destroys it.                                                            *)
(*                                                                         *)
(* Threads are numbered in the order pthread_create starts them.  A task   *)
(* node is numbered in the order thread_pool_add_task mallocs it; 0 is the *)
(* NULL pointer, and the number of no thread.  The owner's critical        *)
(* sections block nowhere and are one step each; a worker's is several,    *)
(* because what it tests under the lock and its going to sleep are two     *)
(* moments to a thread that does not take the lock.                        *)
(***************************************************************************)
EXTENDS Naturals

CONSTANTS NumThreads,     \* the thread_counts argument
          MaxTasks,       \* bound on the tasks added in one behaviour
          MaxSpurious,    \* bound on the spurious returns of pthread_cond_wait
          CreateMayFail   \* may thread_pool_create run out of memory or threads

ASSUME ThreadsAssumption == NumThreads \in Nat \ {0}
ASSUME BoundsAssumption  == MaxTasks \in Nat /\ MaxSpurious \in Nat
ASSUME CreateAssumption  == CreateMayFail \in BOOLEAN

Worker == 1..NumThreads
Task   == 1..MaxTasks
NULL   == 0

VARIABLES
    owner,      \* where the owner thread is in create / add / destroy
    created,    \* how many threads pthread_create has started
    shutdown,   \* pool->shutdown
    head,       \* pool->queue_head
    tail,       \* pool->queue_tail
    next,       \* the next field of every node
    added,      \* nodes malloced so far; node t is the t-th
    live,       \* nodes malloced and not yet freed
    lock,       \* the worker that holds pool->lock, 0 when it is free
    wpc,        \* where each worker is in worker_thread
    task,       \* the local variable task of each worker
    spurious    \* spurious wakeups so far

vars == <<owner, created, shutdown, head, tail, next, added, live,
          lock, wpc, task, spurious>>
listVars == <<head, tail, next, added, live>>

OwnerStates  == {"create", "failed", "broadcast", "unwind", "null",
                 "ready", "join", "destroyed"}
WorkerStates == {"absent", "lock", "check", "block", "wait", "wake",
                 "run", "exited"}

Init ==
    /\ owner = "create"
    /\ created = 0
    /\ shutdown = 0
    /\ head = NULL
    /\ tail = NULL
    /\ next = [t \in Task |-> NULL]
    /\ added = 0
    /\ live = {}
    /\ lock = 0
    /\ wpc = [w \in Worker |-> "absent"]
    /\ task = [w \in Worker |-> NULL]
    /\ spurious = 0

(* The nodes reached from queue_head: linked in the order they were added. *)
OnList == IF head = NULL THEN {} ELSE head..tail

Running == {w \in Worker : wpc[w] = "run"}
Waiting == {w \in Worker : wpc[w] = "wait"}

(* Mutant of Broadcast: notify one thread where the code notifies all. *)
BroadcastToOne ==
    \/ /\ Waiting = {}
       /\ UNCHANGED wpc
    \/ \E w \in Waiting : wpc' = [wpc EXCEPT ![w] = "wake"]

(* pthread_cond_broadcast: every sleeping thread leaves the condition
   variable and competes for the lock. *)
Broadcast ==
    wpc' = [w \in Worker |-> IF w \in Waiting THEN "wake" ELSE wpc[w]]

(* Mutant of Signal: the call is missing. *)
SignalNobody == UNCHANGED wpc

(* pthread_cond_signal: one sleeping thread does, if there is one. *)
Signal ==
    \/ /\ Waiting = {}
       /\ UNCHANGED wpc
    \/ \E w \in Waiting : wpc' = [wpc EXCEPT ![w] = "wake"]

-----------------------------------------------------------------------------
(* The owner: thread_pool_create *)

(* Mutant of MoreThreads: one turn of the loop too many. *)
MoreThreadsByOne == created <= NumThreads
MoreThreads      == created < NumThreads

(* One turn of the loop over pthread_create; the new thread runs at once. *)
CreateThread ==
    /\ owner = "create"
    /\ MoreThreads
    /\ created' = created + 1
    /\ wpc' = [wpc EXCEPT ![created + 1] = "lock"]
    /\ UNCHANGED <<owner, shutdown, listVars, lock, task, spurious>>

CreateDone ==
    /\ owner = "create"
    /\ created = NumThreads
    /\ owner' = "ready"
    /\ UNCHANGED <<created, shutdown, listVars, lock, wpc, task, spurious>>

(* malloc, pthread_mutex_init or pthread_cond_init fails before any thread
   exists: what was acquired is released and NULL returned. *)
CreateFailsEarly ==
    /\ CreateMayFail
    /\ owner = "create"
    /\ created = 0
    /\ owner' = "null"
    /\ UNCHANGED <<created, shutdown, listVars, lock, wpc, task, spurious>>

CreateThreadFails ==
    /\ CreateMayFail
    /\ owner = "create"
    /\ MoreThreads
    /\ owner' = "failed"
    /\ UNCHANGED <<created, shutdown, listVars, lock, wpc, task, spurious>>

(* pool->shutdown = 1, without the lock. *)
FailSetShutdown ==
    /\ owner = "failed"
    /\ shutdown' = 1
    /\ owner' = "broadcast"
    /\ UNCHANGED <<created, listVars, lock, wpc, task, spurious>>

(* The broadcast, without the lock either. *)
FailBroadcast ==
    /\ owner = "broadcast"
    /\ Broadcast
    /\ owner' = "unwind"
    /\ UNCHANGED <<created, shutdown, listVars, lock, task, spurious>>

(* Mutant of AllExited: the join loop stops one thread early. *)
AllButLastExited == \A w \in Worker : w < created => wpc[w] = "exited"

(* pthread_join of the threads that were started. *)
AllExited == \A w \in Worker : w <= created => wpc[w] = "exited"

FailJoin ==
    /\ owner = "unwind"
    /\ AllExited
    /\ owner' = "null"
    /\ UNCHANGED <<created, shutdown, listVars, lock, wpc, task, spurious>>

-----------------------------------------------------------------------------
(* The owner: thread_pool_add_task and thread_pool_destroy *)

(* Link a new node at the tail, signal one worker.  The error returns (the
   pool is shut down, malloc fails) change nothing and are stuttering steps. *)
AddTask ==
    /\ owner = "ready"
    /\ shutdown = 0
    /\ lock = 0
    /\ added < MaxTasks
    /\ LET t == added + 1 IN
        /\ added' = t
        /\ live' = live \cup {t}
        /\ tail' = t
        /\ IF tail = NULL
           THEN /\ head' = t
                /\ next' = [next EXCEPT ![t] = NULL]
           ELSE /\ next' = [next EXCEPT ![t] = NULL, ![tail] = t]
                /\ UNCHANGED head
    /\ Signal
    /\ UNCHANGED <<owner, created, shutdown, lock, task, spurious>>

(* Mutant of Destroy: set shutdown and broadcast without taking the lock. *)
DestroyUnlocked ==
    /\ owner = "ready"
    /\ shutdown' = 1
    /\ Broadcast
    /\ owner' = "join"
    /\ UNCHANGED <<created, listVars, lock, task, spurious>>

(* Set shutdown and wake everyone, under the lock. *)
Destroy ==
    /\ owner = "ready"
    /\ lock = 0
    /\ shutdown' = 1
    /\ Broadcast
    /\ owner' = "join"
    /\ UNCHANGED <<created, listVars, lock, task, spurious>>

(* All threads joined: free the nodes left on the list (the walk from
   queue_head), then the lock, the condition variable and the pool. *)
DestroyJoin ==
    /\ owner = "join"
    /\ AllExited
    /\ live' = live \ OnList
    /\ owner' = "destroyed"
    /\ UNCHANGED <<created, shutdown, head, tail, next, added, lock, wpc,
                   task, spurious>>

-----------------------------------------------------------------------------
(* A worker: worker_thread *)

(* pthread_mutex_lock at the top of the loop, or the re-acquisition inside
   pthread_cond_wait. *)
AcquireLock(w) ==
    /\ wpc[w] \in {"lock", "wake"}
    /\ lock = 0
    /\ lock' = w
    /\ wpc' = [wpc EXCEPT ![w] = "check"]
    /\ UNCHANGED <<owner, created, shutdown, listVars, task, spurious>>

(* The list is empty and the pool open: on the way into pthread_cond_wait,
   still holding the lock. *)
DecideToWait(w) ==
    /\ wpc[w] = "check"
    /\ head = NULL
    /\ shutdown = 0
    /\ wpc' = [wpc EXCEPT ![w] = "block"]
    /\ UNCHANGED <<owner, created, shutdown, listVars, lock, task, spurious>>

(* pthread_cond_wait releases the lock and blocks in one step. *)
CondWait(w) ==
    /\ wpc[w] = "block"
    /\ lock' = 0
    /\ wpc' = [wpc EXCEPT ![w] = "wait"]
    /\ UNCHANGED <<owner, created, shutdown, listVars, task, spurious>>

(* pthread_cond_wait may return with nobody having signalled. *)
SpuriousWakeup(w) ==
    /\ wpc[w] = "wait"
    /\ spurious < MaxSpurious
    /\ spurious' = spurious + 1
    /\ wpc' = [wpc EXCEPT ![w] = "wake"]
    /\ UNCHANGED <<owner, created, shutdown, listVars, lock, task>>

(* Mutant of MayExit: leave on shutdown with tasks still queued. *)
MayExitUndrained == shutdown = 1
MayExit          == shutdown = 1 /\ head = NULL

(* Shut down and nothing left to do: unlock and leave the loop. *)
Exit(w) ==
    /\ wpc[w] = "check"
    /\ MayExit
    /\ lock' = 0
    /\ wpc' = [wpc EXCEPT ![w] = "exited"]
    /\ UNCHANGED <<owner, created, shutdown, listVars, task, spurious>>

(* Mutant of TailAfter: queue_tail is not reset when the list runs empty. *)
TailAfterKept == tail
TailAfter     == IF next[head] = NULL THEN NULL ELSE tail

(* Unlink the first node and unlock. *)
TakeTask(w) ==
    /\ wpc[w] = "check"
    /\ head # NULL
    /\ task' = [task EXCEPT ![w] = head]
    /\ head' = next[head]
    /\ tail' = TailAfter
    /\ lock' = 0
    /\ wpc' = [wpc EXCEPT ![w] = "run"]
    /\ UNCHANGED <<owner, created, shutdown, next, added, live, spurious>>

(* task->function returns; the node is freed. *)
FinishTask(w) ==
    /\ wpc[w] = "run"
    /\ live' = live \ {task[w]}
    /\ task' = [task EXCEPT ![w] = NULL]
    /\ wpc' = [wpc EXCEPT ![w] = "lock"]
    /\ UNCHANGED <<owner, created, shutdown, head, tail, next, added, lock,
                   spurious>>

-----------------------------------------------------------------------------
OwnerCreates ==
    \/ CreateThread
    \/ CreateDone
    \/ CreateFailsEarly
    \/ CreateThreadFails
    \/ FailSetShutdown
    \/ FailBroadcast
    \/ FailJoin

WorkerStep(w) ==
    \/ AcquireLock(w)
    \/ DecideToWait(w)
    \/ CondWait(w)
    \/ Exit(w)
    \/ TakeTask(w)
    \/ FinishTask(w)

(* thread_pool_create has returned NULL, or thread_pool_destroy has
   returned: nothing is left to run. *)
Terminated ==
    /\ owner \in {"null", "destroyed"}
    /\ UNCHANGED vars

Next ==
    \/ OwnerCreates
    \/ AddTask
    \/ Destroy
    \/ DestroyJoin
    \/ \E w \in Worker : WorkerStep(w) \/ SpuriousWakeup(w)
    \/ Terminated

Spec == Init /\ [][Next]_vars

(* Every thread is scheduled, and a task returns.  Nothing makes the owner
   add a task or destroy the pool. *)
Fair(w) == WF_vars(WorkerStep(w))

FairSpec ==
    /\ Spec
    /\ WF_vars(OwnerCreates)
    /\ WF_vars(DestroyJoin)
    /\ \A w \in Worker : Fair(w)

-----------------------------------------------------------------------------
(* Properties *)

(* Every variable stays in its range; the worker that holds the lock exists. *)
TypeOK ==
    /\ owner \in OwnerStates
    /\ created \in 0..NumThreads
    /\ shutdown \in {0, 1}
    /\ head \in 0..MaxTasks
    /\ tail \in 0..MaxTasks
    /\ next \in [Task -> 0..MaxTasks]
    /\ added \in 0..MaxTasks
    /\ live \in SUBSET Task
    /\ lock \in 0..NumThreads
    /\ wpc \in [Worker -> WorkerStates]
    /\ task \in [Worker -> 0..MaxTasks]
    /\ spurious \in 0..MaxSpurious

(* A node that was malloced and not freed is either on the list or in the
   hands of exactly one worker: no task is lost between queue_head and
   queue_tail, none is run twice, and no freed node is reachable. *)
TaskOwnership ==
    /\ live = OnList \cup {task[w] : w \in Running}
    /\ \A w \in Running : task[w] \notin OnList
    /\ \A v, w \in Running : task[v] = task[w] => v = w

(* While a task is queued, some worker is awake and will look at the list:
   the one signal per task in thread_pool_add_task is enough, whatever the
   workers were doing when it was sent. *)
NoSleepOnWork ==
    head # NULL => \E w \in Worker : wpc[w] \in {"lock", "check", "wake", "run"}

(* When thread_pool_destroy has set shutdown no worker is asleep on the
   condition variable or about to be: the broadcast under the lock is missed
   by nobody, so the joins that follow end. *)
NobodyMissesShutdown ==
    owner = "join" => \A w \in Worker : wpc[w] \notin {"block", "wait"}

(* Once thread_pool_destroy or a failed thread_pool_create has freed the pool,
   no worker is left that could touch its lock or its list, and no accepted
   task was dropped: the loop that frees left-over nodes finds none. *)
ReleasedPoolIsQuiet ==
    owner \in {"null", "destroyed"} =>
        /\ \A w \in Worker : wpc[w] \in {"absent", "exited"}
        /\ head = NULL
        /\ live = {}

(* thread_pool_destroy returns, after every queued task has been run. *)
DestroyReturns == owner = "join" ~> owner = "destroyed"

(* A thread_pool_create that could not start all its threads returns NULL:
   "mark the shutdown and wake the existing threads to make them exit". *)
CreateFailureReturns == owner = "failed" ~> owner = "null"

(* Where a task is, as the abstract pool sees it. *)
Status(t) ==
    IF t > added THEN "new"
    ELSE IF t \notin live THEN "done"
    ELSE IF \E w \in Running : task[w] = t THEN "running"
    ELSE "queued"

StatusMap == [t \in Task |-> Status(t)]

PhaseMap ==
    IF owner \in {"null", "destroyed"} THEN "released"
    ELSE IF shutdown = 1 THEN "draining"
    ELSE "open"

Abstract == INSTANCE TaskPool WITH status <- StatusMap, phase <- PhaseMap

(* The threads, the lock and the list implement the abstract pool: every task
   is run exactly once, in the order of the add_task calls, and before the
   pool is released. *)
ImplementsTaskPool == Abstract!Spec

(* And with the threads scheduled fairly every queued task is run. *)
ImplementsFairTaskPool == Abstract!FairSpec

=============================================================================
