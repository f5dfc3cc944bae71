--------------------------- MODULE ThreadPoolProofs ---------------------------
(***************************************************************************)
(* Proofs about ThreadPool, for every number of threads and tasks.  The    *)
(* safety properties are consequences of one inductive invariant, IInv.    *)
(***************************************************************************)
EXTENDS ThreadPool, FiniteSetTheorems, TLAPS

USE DEF MoreThreads, MayExit, TailAfter

-----------------------------------------------------------------------------
(* The inductive invariant *)

(* The list: queue_head and queue_tail are NULL together, and between them
   the nodes are linked in the order of their allocation. *)
ListShape ==
    /\ head = NULL <=> tail = NULL
    /\ head # NULL =>
        /\ head <= tail
        /\ tail = added
        /\ next[tail] = NULL
        /\ \A t \in Task : head <= t /\ t < tail => next[t] = t + 1
    /\ live \subseteq 1..added

(* The lock is held exactly by the worker that looks at the list. *)
LockHeld ==
    \A w \in Worker : wpc[w] \in {"check", "block"} <=> lock = w

(* What a worker's place says of the pool. *)
WorkerPlaces ==
    \A w \in Worker :
        /\ wpc[w] = "absent" <=> w > created
        /\ wpc[w] = "block" => head = NULL
        /\ wpc[w] = "exited" => shutdown = 1 /\ head = NULL

(* What the owner's place says of the pool. *)
OwnerPlaces ==
    /\ owner \in {"create", "failed", "ready"} => shutdown = 0
    /\ owner \in {"join", "destroyed"} => shutdown = 1
    /\ owner \in {"create", "failed", "broadcast", "unwind", "null"} => added = 0
    /\ owner \in {"ready", "join", "destroyed"} => created = NumThreads
    /\ owner \in {"null", "destroyed"} => AllExited

IInv ==
    /\ TypeOK
    /\ ListShape
    /\ LockHeld
    /\ WorkerPlaces
    /\ OwnerPlaces
    /\ TaskOwnership
    /\ NoSleepOnWork
    /\ NobodyMissesShutdown

(* The next-state relation, one disjunct per action of one thread. *)
LEMMA NextCases ==
    ASSUME [Next]_vars
    PROVE  \/ CreateThread \/ CreateDone \/ CreateFailsEarly
           \/ CreateThreadFails \/ FailSetShutdown \/ FailBroadcast \/ FailJoin
           \/ AddTask \/ Destroy \/ DestroyJoin
           \/ \E w \in Worker :
                \/ AcquireLock(w) \/ DecideToWait(w) \/ CondWait(w) \/ Exit(w)
                \/ TakeTask(w) \/ FinishTask(w) \/ SpuriousWakeup(w)
           \/ UNCHANGED vars
BY DEF Next, OwnerCreates, WorkerStep, Terminated

-----------------------------------------------------------------------------
(* Type correctness *)

LEMMA InitTypeOK == Init => TypeOK
BY ThreadsAssumption, BoundsAssumption
   DEF Init, TypeOK, OwnerStates, WorkerStates, NULL

LEMMA NextTypeOK == TypeOK /\ [Next]_vars => TypeOK'
<1> SUFFICES ASSUME TypeOK, [Next]_vars
             PROVE  TypeOK'
  OBVIOUS
<1> USE ThreadsAssumption, BoundsAssumption
    DEF TypeOK, OwnerStates, WorkerStates, listVars
<1>1. CASE CreateThread
  <2>1. created + 1 \in Worker /\ created + 1 \in 0..NumThreads
    BY <1>1 DEF CreateThread, Worker
  <2>2. QED
    BY <1>1, <2>1 DEF CreateThread
<1>2. CASE CreateDone
  BY <1>2 DEF CreateDone
<1>3. CASE CreateFailsEarly
  BY <1>3 DEF CreateFailsEarly
<1>4. CASE CreateThreadFails
  BY <1>4 DEF CreateThreadFails
<1>5. CASE FailSetShutdown
  BY <1>5 DEF FailSetShutdown
<1>6. CASE FailBroadcast
  BY <1>6 DEF FailBroadcast, Broadcast
<1>7. CASE FailJoin
  BY <1>7 DEF FailJoin
<1>8. CASE AddTask
  <2>1. added + 1 \in Task /\ added + 1 \in 0..MaxTasks
    BY <1>8 DEF AddTask, Task
  <2>2. wpc' \in [Worker -> WorkerStates]
    BY <1>8 DEF AddTask, Signal, Waiting
  <2>3. next' \in [Task -> 0..MaxTasks]
    BY <1>8, <2>1 DEF AddTask, NULL
  <2>4. live' \in SUBSET Task /\ head' \in 0..MaxTasks /\ tail' \in 0..MaxTasks
    BY <1>8, <2>1 DEF AddTask
  <2>5. QED
    BY <1>8, <2>1, <2>2, <2>3, <2>4 DEF AddTask
<1>9. CASE Destroy
  BY <1>9 DEF Destroy, Broadcast
<1>10. CASE DestroyJoin
  BY <1>10 DEF DestroyJoin
<1>11. ASSUME NEW w \in Worker, AcquireLock(w) PROVE TypeOK'
  BY <1>11 DEF AcquireLock, Worker
<1>12. ASSUME NEW w \in Worker, DecideToWait(w) PROVE TypeOK'
  BY <1>12 DEF DecideToWait
<1>13. ASSUME NEW w \in Worker, CondWait(w) PROVE TypeOK'
  BY <1>13 DEF CondWait
<1>14. ASSUME NEW w \in Worker, Exit(w) PROVE TypeOK'
  BY <1>14 DEF Exit
<1>15. ASSUME NEW w \in Worker, TakeTask(w) PROVE TypeOK'
  <2>1. next[head] \in 0..MaxTasks
    BY <1>15 DEF TakeTask, Task, NULL
  <2>2. NULL \in 0..MaxTasks
    BY DEF NULL
  <2>3. QED
    BY <1>15, <2>1, <2>2 DEF TakeTask
<1>16. ASSUME NEW w \in Worker, FinishTask(w) PROVE TypeOK'
  BY <1>16 DEF FinishTask, NULL
<1>17. ASSUME NEW w \in Worker, SpuriousWakeup(w) PROVE TypeOK'
  BY <1>17 DEF SpuriousWakeup
<1>18. CASE UNCHANGED vars
  BY <1>18 DEF vars
<1>19. QED
  BY <1>1, <1>2, <1>3, <1>4, <1>5, <1>6, <1>7, <1>8, <1>9, <1>10, <1>11,
     <1>12, <1>13, <1>14, <1>15, <1>16, <1>17, <1>18, NextCases

(* Every variable of the pool stays in its range, for any number of threads
   and tasks. *)
THEOREM TypeCorrect == Spec => []TypeOK
BY InitTypeOK, NextTypeOK, PTL DEF Spec

-----------------------------------------------------------------------------
(* The invariant is inductive *)

LEMMA InitIInv == Init => IInv
<1> SUFFICES ASSUME Init
             PROVE  IInv
  OBVIOUS
<1>1. TypeOK
  BY InitTypeOK
<1>2. ListShape
  BY BoundsAssumption DEF Init, ListShape
<1>3. LockHeld
  BY ThreadsAssumption DEF Init, LockHeld, Worker
<1>4. WorkerPlaces
  BY ThreadsAssumption DEF Init, WorkerPlaces, Worker
<1>5. OwnerPlaces
  BY DEF Init, OwnerPlaces
<1>6. TaskOwnership
  BY DEF Init, TaskOwnership, OnList, Running
<1>7. NoSleepOnWork /\ NobodyMissesShutdown
  BY DEF Init, NoSleepOnWork, NobodyMissesShutdown
<1>8. QED
  BY <1>1, <1>2, <1>3, <1>4, <1>5, <1>6, <1>7 DEF IInv

LEMMA NextIInv == IInv /\ [Next]_vars => IInv'
<1> SUFFICES ASSUME IInv, [Next]_vars
             PROVE  IInv'
  OBVIOUS
<1> USE ThreadsAssumption, BoundsAssumption
    DEF listVars
<1>a. TypeOK /\ TypeOK'
  BY NextTypeOK DEF IInv
<1>1. CASE CreateThread
  <2>1. ListShape'
    BY <1>1 DEF CreateThread, IInv, ListShape
  <2>2. LockHeld'
    <3>1. created + 1 \in Worker /\ wpc[created + 1] = "absent"
      BY <1>a, <1>1 DEF CreateThread, IInv, TypeOK, WorkerPlaces, Worker
    <3>2. lock # created + 1
      BY <3>1 DEF IInv, LockHeld
    <3>3. QED
      BY <1>a, <1>1, <3>1, <3>2 DEF CreateThread, IInv, TypeOK, LockHeld
  <2>3. WorkerPlaces'
    BY <1>a, <1>1 DEF CreateThread, IInv, TypeOK, WorkerPlaces, Worker
  <2>4. OwnerPlaces'
    BY <1>a, <1>1
       DEF CreateThread, IInv, TypeOK, OwnerPlaces, AllExited, Worker
  <2>5. TaskOwnership'
    <3>1. created + 1 \in Worker /\ wpc[created + 1] = "absent"
      BY <1>a, <1>1 DEF CreateThread, IInv, TypeOK, WorkerPlaces, Worker
    <3>2. Running' = Running
      BY <1>a, <1>1, <3>1 DEF CreateThread, TypeOK, Running
    <3>3. QED
      BY <1>1, <3>2 DEF CreateThread, IInv, TaskOwnership, OnList
  <2>6. NoSleepOnWork'
    BY <1>a, <1>1 DEF CreateThread, IInv, TypeOK, NoSleepOnWork, Worker, NULL
  <2>7. NobodyMissesShutdown'
    BY <1>a, <1>1 DEF CreateThread, IInv, TypeOK, NobodyMissesShutdown
  <2>8. QED
    BY <1>a, <2>1, <2>2, <2>3, <2>4, <2>5, <2>6, <2>7 DEF IInv
<1>2. CASE CreateDone
  <2>1. ListShape'
    BY <1>2 DEF CreateDone, IInv, ListShape
  <2>2. LockHeld'
    BY <1>a, <1>2 DEF CreateDone, IInv, TypeOK, LockHeld, Worker
  <2>3. WorkerPlaces'
    BY <1>a, <1>2 DEF CreateDone, IInv, TypeOK, WorkerPlaces, Worker
  <2>4. OwnerPlaces'
    BY <1>a, <1>2 DEF CreateDone, IInv, TypeOK, OwnerPlaces, AllExited, Worker
  <2>5. TaskOwnership'
    BY <1>a, <1>2 DEF CreateDone, IInv, TypeOK, TaskOwnership, OnList, Running
  <2>6. NoSleepOnWork'
    BY <1>a, <1>2 DEF CreateDone, IInv, TypeOK, NoSleepOnWork, Worker, NULL
  <2>7. NobodyMissesShutdown'
    BY <1>a, <1>2 DEF CreateDone, IInv, TypeOK, NobodyMissesShutdown
  <2>8. QED
    BY <1>a, <2>1, <2>2, <2>3, <2>4, <2>5, <2>6, <2>7 DEF IInv
<1>3. CASE CreateFailsEarly
  <2>1. ListShape'
    BY <1>3 DEF CreateFailsEarly, IInv, ListShape
  <2>2. LockHeld'
    BY <1>a, <1>3 DEF CreateFailsEarly, IInv, TypeOK, LockHeld, Worker
  <2>3. WorkerPlaces'
    BY <1>a, <1>3 DEF CreateFailsEarly, IInv, TypeOK, WorkerPlaces, Worker
  <2>4. OwnerPlaces'
    BY <1>a, <1>3
       DEF CreateFailsEarly, IInv, TypeOK, OwnerPlaces, AllExited, Worker
  <2>5. TaskOwnership'
    BY <1>a, <1>3
       DEF CreateFailsEarly, IInv, TypeOK, TaskOwnership, OnList, Running
  <2>6. NoSleepOnWork'
    BY <1>a, <1>3
       DEF CreateFailsEarly, IInv, TypeOK, NoSleepOnWork, Worker, NULL
  <2>7. NobodyMissesShutdown'
    BY <1>a, <1>3 DEF CreateFailsEarly, IInv, TypeOK, NobodyMissesShutdown
  <2>8. QED
    BY <1>a, <2>1, <2>2, <2>3, <2>4, <2>5, <2>6, <2>7 DEF IInv
<1>4. CASE CreateThreadFails
  <2>1. ListShape'
    BY <1>4 DEF CreateThreadFails, IInv, ListShape
  <2>2. LockHeld'
    BY <1>a, <1>4 DEF CreateThreadFails, IInv, TypeOK, LockHeld, Worker
  <2>3. WorkerPlaces'
    BY <1>a, <1>4 DEF CreateThreadFails, IInv, TypeOK, WorkerPlaces, Worker
  <2>4. OwnerPlaces'
    BY <1>a, <1>4
       DEF CreateThreadFails, IInv, TypeOK, OwnerPlaces, AllExited, Worker
  <2>5. TaskOwnership'
    BY <1>a, <1>4
       DEF CreateThreadFails, IInv, TypeOK, TaskOwnership, OnList, Running
  <2>6. NoSleepOnWork'
    BY <1>a, <1>4
       DEF CreateThreadFails, IInv, TypeOK, NoSleepOnWork, Worker, NULL
  <2>7. NobodyMissesShutdown'
    BY <1>a, <1>4 DEF CreateThreadFails, IInv, TypeOK, NobodyMissesShutdown
  <2>8. QED
    BY <1>a, <2>1, <2>2, <2>3, <2>4, <2>5, <2>6, <2>7 DEF IInv
<1>5. CASE FailSetShutdown
  <2>1. ListShape'
    BY <1>5 DEF FailSetShutdown, IInv, ListShape
  <2>2. LockHeld'
    BY <1>a, <1>5 DEF FailSetShutdown, IInv, TypeOK, LockHeld, Worker
  <2>3. WorkerPlaces'
    BY <1>a, <1>5 DEF FailSetShutdown, IInv, TypeOK, WorkerPlaces, Worker
  <2>4. OwnerPlaces'
    BY <1>a, <1>5
       DEF FailSetShutdown, IInv, TypeOK, OwnerPlaces, AllExited, Worker
  <2>5. TaskOwnership'
    BY <1>a, <1>5
       DEF FailSetShutdown, IInv, TypeOK, TaskOwnership, OnList, Running
  <2>6. NoSleepOnWork'
    BY <1>a, <1>5
       DEF FailSetShutdown, IInv, TypeOK, NoSleepOnWork, Worker, NULL
  <2>7. NobodyMissesShutdown'
    BY <1>a, <1>5 DEF FailSetShutdown, IInv, TypeOK, NobodyMissesShutdown
  <2>8. QED
    BY <1>a, <2>1, <2>2, <2>3, <2>4, <2>5, <2>6, <2>7 DEF IInv
<1>6. CASE FailBroadcast
  <2>1. ListShape'
    BY <1>6 DEF FailBroadcast, IInv, ListShape
  <2>2. LockHeld'
    BY <1>a, <1>6
       DEF FailBroadcast, IInv, TypeOK, LockHeld, Worker, Broadcast, Waiting
  <2>3. WorkerPlaces'
    BY <1>a, <1>6
       DEF FailBroadcast, IInv, TypeOK, WorkerPlaces, Worker, Broadcast,
           Waiting
  <2>4. OwnerPlaces'
    BY <1>a, <1>6
       DEF FailBroadcast, IInv, TypeOK, OwnerPlaces, AllExited, Worker,
           Broadcast, Waiting
  <2>5. TaskOwnership'
    BY <1>a, <1>6
       DEF FailBroadcast, IInv, TypeOK, TaskOwnership, OnList, Running,
           Broadcast, Waiting
  <2>6. NoSleepOnWork'
    BY <1>a, <1>6
       DEF FailBroadcast, IInv, TypeOK, NoSleepOnWork, Worker, NULL, Broadcast,
           Waiting
  <2>7. NobodyMissesShutdown'
    BY <1>a, <1>6
       DEF FailBroadcast, IInv, TypeOK, NobodyMissesShutdown, Broadcast,
           Waiting
  <2>8. QED
    BY <1>a, <2>1, <2>2, <2>3, <2>4, <2>5, <2>6, <2>7 DEF IInv
<1>7. CASE FailJoin
  <2>1. ListShape'
    BY <1>7 DEF FailJoin, IInv, ListShape
  <2>2. LockHeld'
    BY <1>a, <1>7 DEF FailJoin, IInv, TypeOK, LockHeld, Worker
  <2>3. WorkerPlaces'
    BY <1>a, <1>7 DEF FailJoin, IInv, TypeOK, WorkerPlaces, Worker
  <2>4. OwnerPlaces'
    BY <1>a, <1>7 DEF FailJoin, IInv, TypeOK, OwnerPlaces, AllExited, Worker
  <2>5. TaskOwnership'
    BY <1>a, <1>7 DEF FailJoin, IInv, TypeOK, TaskOwnership, OnList, Running
  <2>6. NoSleepOnWork'
    BY <1>a, <1>7 DEF FailJoin, IInv, TypeOK, NoSleepOnWork, Worker, NULL
  <2>7. NobodyMissesShutdown'
    BY <1>a, <1>7 DEF FailJoin, IInv, TypeOK, NobodyMissesShutdown
  <2>8. QED
    BY <1>a, <2>1, <2>2, <2>3, <2>4, <2>5, <2>6, <2>7 DEF IInv
<1>8. CASE AddTask
  <2>1. ListShape'
    <3>1. added + 1 \in Task /\ added + 1 # NULL
      BY <1>a, <1>8 DEF AddTask, TypeOK, Task, NULL
    <3>2. CASE tail = NULL
      BY <1>a, <1>8, <3>1, <3>2 DEF AddTask, IInv, TypeOK, ListShape, Task, NULL
    <3>3. CASE tail # NULL
      <4>1. tail \in Task /\ tail = added /\ head # NULL /\ head <= tail
        BY <1>a, <3>3 DEF IInv, TypeOK, ListShape, Task, NULL
      <4>2. /\ head' = head /\ tail' = tail + 1 /\ added' = added + 1
            /\ next' = [next EXCEPT ![tail + 1] = NULL, ![tail] = tail + 1]
            /\ live' = live \cup {tail + 1}
        BY <1>8, <3>3, <4>1 DEF AddTask
      <4>3. next'[tail + 1] = NULL /\ next'[tail] = tail + 1
        BY <1>a, <3>1, <4>1, <4>2 DEF TypeOK, Task
      <4>4. ASSUME NEW t \in Task, head <= t, t < tail + 1
            PROVE  next'[t] = t + 1
        BY <1>a, <4>1, <4>2, <4>3, <4>4 DEF IInv, TypeOK, ListShape, Task
      <4>5. live' \subseteq 1..added'
        BY <1>a, <4>1, <4>2 DEF IInv, TypeOK, ListShape
      <4>6. QED
        BY <1>a, <4>1, <4>2, <4>3, <4>4, <4>5 DEF TypeOK, ListShape, NULL
    <3>4. QED
      BY <3>2, <3>3
  <2>2. LockHeld'
    BY <1>a, <1>8 DEF AddTask, IInv, TypeOK, LockHeld, Worker, Signal, Waiting
  <2>3. WorkerPlaces'
    <3>1. \A w \in Worker : wpc[w] \notin {"check", "block"}
      BY <1>a, <1>8 DEF AddTask, IInv, LockHeld, Worker
    <3>2. QED
      BY <1>a, <1>8, <3>1 DEF AddTask, IInv, TypeOK, WorkerPlaces, Signal, Waiting
  <2>4. OwnerPlaces'
    BY <1>a, <1>8
       DEF AddTask, IInv, TypeOK, OwnerPlaces, AllExited, Worker, Signal,
           Waiting
  <2>5. TaskOwnership'
    <3>1. Running' = Running /\ task' = task
      BY <1>a, <1>8 DEF AddTask, TypeOK, Running, Signal, Waiting
    <3>2. OnList' = OnList \cup {added + 1}
      BY <1>a, <1>8 DEF AddTask, IInv, TypeOK, ListShape, OnList, NULL
    <3>3. added + 1 \notin live
      BY <1>a DEF IInv, TypeOK, ListShape
    <3>4. live' = live \cup {added + 1}
      BY <1>8 DEF AddTask
    <3>5. QED
      BY <3>1, <3>2, <3>3, <3>4 DEF IInv, TaskOwnership
  <2>6. NoSleepOnWork'
    <3>1. \A w \in Worker : wpc[w] \notin {"absent", "exited", "check", "block"}
      BY <1>a, <1>8
         DEF AddTask, IInv, TypeOK, WorkerPlaces, OwnerPlaces, LockHeld, Worker
    <3>2. CASE Waiting = {}
      <4>1. 1 \in Worker /\ wpc[1] # "wait"
        BY <3>2 DEF Waiting, Worker
      <4>2. wpc[1] \in WorkerStates
        BY <1>a, <4>1 DEF TypeOK
      <4>3. wpc' = wpc
        BY <1>8, <3>2 DEF AddTask, Signal
      <4>4. QED
        BY <3>1, <4>1, <4>2, <4>3 DEF NoSleepOnWork, WorkerStates
    <3>3. CASE \E w \in Waiting : wpc' = [wpc EXCEPT ![w] = "wake"]
      BY <1>a, <3>3 DEF TypeOK, Waiting, NoSleepOnWork
    <3>4. QED
      BY <1>8, <3>2, <3>3 DEF AddTask, Signal
  <2>7. NobodyMissesShutdown'
    BY <1>a, <1>8
       DEF AddTask, IInv, TypeOK, NobodyMissesShutdown, Signal, Waiting
  <2>8. QED
    BY <1>a, <2>1, <2>2, <2>3, <2>4, <2>5, <2>6, <2>7 DEF IInv
<1>9. CASE Destroy
  <2>1. ListShape'
    BY <1>9 DEF Destroy, IInv, ListShape
  <2>2. LockHeld'
    BY <1>a, <1>9
       DEF Destroy, IInv, TypeOK, LockHeld, Worker, Broadcast, Waiting
  <2>3. WorkerPlaces'
    BY <1>a, <1>9
       DEF Destroy, IInv, TypeOK, WorkerPlaces, Worker, Broadcast, Waiting
  <2>4. OwnerPlaces'
    BY <1>a, <1>9
       DEF Destroy, IInv, TypeOK, OwnerPlaces, AllExited, Worker, Broadcast,
           Waiting
  <2>5. TaskOwnership'
    BY <1>a, <1>9
       DEF Destroy, IInv, TypeOK, TaskOwnership, OnList, Running, Broadcast,
           Waiting
  <2>6. NoSleepOnWork'
    BY <1>a, <1>9
       DEF Destroy, IInv, TypeOK, NoSleepOnWork, Worker, NULL, Broadcast,
           Waiting
  <2>7. NobodyMissesShutdown'
    <3>1. \A w \in Worker : wpc[w] # "block"
      BY <1>a, <1>9 DEF Destroy, IInv, LockHeld, Worker
    <3>2. QED
      BY <1>9, <3>1 DEF Destroy, Broadcast, Waiting, NobodyMissesShutdown
  <2>8. QED
    BY <1>a, <2>1, <2>2, <2>3, <2>4, <2>5, <2>6, <2>7 DEF IInv
<1>10. CASE DestroyJoin
  <2>1. ListShape'
    BY <1>a, <1>10 DEF DestroyJoin, IInv, TypeOK, ListShape, Task, NULL
  <2>2. LockHeld'
    BY <1>a, <1>10 DEF DestroyJoin, IInv, TypeOK, LockHeld, Worker
  <2>3. WorkerPlaces'
    BY <1>a, <1>10 DEF DestroyJoin, IInv, TypeOK, WorkerPlaces, Worker
  <2>4. OwnerPlaces'
    BY <1>a, <1>10
       DEF DestroyJoin, IInv, TypeOK, OwnerPlaces, AllExited, Worker
  <2>5. TaskOwnership'
    <3>1. \A w \in Worker : wpc[w] = "exited"
      BY <1>a, <1>10 DEF DestroyJoin, AllExited, IInv, TypeOK, OwnerPlaces, Worker
    <3>2. 1 \in Worker
      BY DEF Worker
    <3>3. head = NULL
      BY <3>1, <3>2 DEF IInv, WorkerPlaces
    <3>4. Running = {} /\ Running' = {}
      BY <1>10, <3>1 DEF DestroyJoin, Running
    <3>5. OnList = {} /\ OnList' = {}
      BY <1>10, <3>3 DEF DestroyJoin, OnList
    <3>6. QED
      BY <1>10, <3>4, <3>5 DEF DestroyJoin, IInv, TaskOwnership
  <2>6. NoSleepOnWork'
    BY <1>a, <1>10 DEF DestroyJoin, IInv, TypeOK, NoSleepOnWork, Worker, NULL
  <2>7. NobodyMissesShutdown'
    BY <1>a, <1>10 DEF DestroyJoin, IInv, TypeOK, NobodyMissesShutdown
  <2>8. QED
    BY <1>a, <2>1, <2>2, <2>3, <2>4, <2>5, <2>6, <2>7 DEF IInv
<1>11. ASSUME NEW w \in Worker, AcquireLock(w) PROVE IInv'
  <2>1. ListShape'
    BY <1>11 DEF AcquireLock, IInv, ListShape
  <2>2. LockHeld'
    BY <1>a, <1>11 DEF AcquireLock, IInv, TypeOK, LockHeld, Worker
  <2>3. WorkerPlaces'
    BY <1>a, <1>11 DEF AcquireLock, IInv, TypeOK, WorkerPlaces, Worker
  <2>4. OwnerPlaces'
    BY <1>a, <1>11
       DEF AcquireLock, IInv, TypeOK, OwnerPlaces, AllExited, Worker
  <2>5. TaskOwnership'
    BY <1>a, <1>11
       DEF AcquireLock, IInv, TypeOK, TaskOwnership, OnList, Running
  <2>6. NoSleepOnWork'
    BY <1>a, <1>11 DEF AcquireLock, IInv, TypeOK, NoSleepOnWork, Worker, NULL
  <2>7. NobodyMissesShutdown'
    BY <1>a, <1>11 DEF AcquireLock, IInv, TypeOK, NobodyMissesShutdown
  <2>8. QED
    BY <1>a, <2>1, <2>2, <2>3, <2>4, <2>5, <2>6, <2>7 DEF IInv
<1>12. ASSUME NEW w \in Worker, DecideToWait(w) PROVE IInv'
  <2>1. ListShape'
    BY <1>12 DEF DecideToWait, IInv, ListShape
  <2>2. LockHeld'
    BY <1>a, <1>12 DEF DecideToWait, IInv, TypeOK, LockHeld, Worker
  <2>3. WorkerPlaces'
    BY <1>a, <1>12 DEF DecideToWait, IInv, TypeOK, WorkerPlaces, Worker
  <2>4. OwnerPlaces'
    BY <1>a, <1>12
       DEF DecideToWait, IInv, TypeOK, OwnerPlaces, AllExited, Worker
  <2>5. TaskOwnership'
    BY <1>a, <1>12
       DEF DecideToWait, IInv, TypeOK, TaskOwnership, OnList, Running
  <2>6. NoSleepOnWork'
    BY <1>a, <1>12 DEF DecideToWait, IInv, TypeOK, NoSleepOnWork, Worker, NULL
  <2>7. NobodyMissesShutdown'
    BY <1>a, <1>12 DEF DecideToWait, IInv, OwnerPlaces, NobodyMissesShutdown
  <2>8. QED
    BY <1>a, <2>1, <2>2, <2>3, <2>4, <2>5, <2>6, <2>7 DEF IInv
<1>13. ASSUME NEW w \in Worker, CondWait(w) PROVE IInv'
  <2>1. ListShape'
    BY <1>13 DEF CondWait, IInv, ListShape
  <2>2. LockHeld'
    BY <1>a, <1>13 DEF CondWait, IInv, TypeOK, LockHeld, Worker
  <2>3. WorkerPlaces'
    BY <1>a, <1>13 DEF CondWait, IInv, TypeOK, WorkerPlaces, Worker
  <2>4. OwnerPlaces'
    BY <1>a, <1>13 DEF CondWait, IInv, TypeOK, OwnerPlaces, AllExited, Worker
  <2>5. TaskOwnership'
    BY <1>a, <1>13 DEF CondWait, IInv, TypeOK, TaskOwnership, OnList, Running
  <2>6. NoSleepOnWork'
    BY <1>a, <1>13 DEF CondWait, IInv, TypeOK, NoSleepOnWork, Worker, NULL
  <2>7. NobodyMissesShutdown'
    BY <1>a, <1>13 DEF CondWait, IInv, TypeOK, NobodyMissesShutdown
  <2>8. QED
    BY <1>a, <2>1, <2>2, <2>3, <2>4, <2>5, <2>6, <2>7 DEF IInv
<1>14. ASSUME NEW w \in Worker, Exit(w) PROVE IInv'
  <2>1. ListShape'
    BY <1>14 DEF Exit, IInv, ListShape
  <2>2. LockHeld'
    BY <1>a, <1>14 DEF Exit, IInv, TypeOK, LockHeld, Worker
  <2>3. WorkerPlaces'
    BY <1>a, <1>14 DEF Exit, IInv, TypeOK, WorkerPlaces, Worker
  <2>4. OwnerPlaces'
    BY <1>a, <1>14 DEF Exit, IInv, TypeOK, OwnerPlaces, AllExited, Worker
  <2>5. TaskOwnership'
    BY <1>a, <1>14 DEF Exit, IInv, TypeOK, TaskOwnership, OnList, Running
  <2>6. NoSleepOnWork'
    BY <1>a, <1>14 DEF Exit, IInv, TypeOK, NoSleepOnWork, Worker, NULL
  <2>7. NobodyMissesShutdown'
    BY <1>a, <1>14 DEF Exit, IInv, TypeOK, NobodyMissesShutdown
  <2>8. QED
    BY <1>a, <2>1, <2>2, <2>3, <2>4, <2>5, <2>6, <2>7 DEF IInv
<1>15. ASSUME NEW w \in Worker, TakeTask(w) PROVE IInv'
  <2>1. ListShape'
    BY <1>a, <1>15 DEF TakeTask, IInv, TypeOK, ListShape, Task, NULL
  <2>2. LockHeld'
    BY <1>a, <1>15 DEF TakeTask, IInv, TypeOK, LockHeld, Worker
  <2>3. WorkerPlaces'
    BY <1>a, <1>15 DEF TakeTask, IInv, TypeOK, WorkerPlaces, Worker
  <2>4. OwnerPlaces'
    BY <1>a, <1>15 DEF TakeTask, IInv, TypeOK, OwnerPlaces, AllExited, Worker
  <2>5. TaskOwnership'
    <3>1. head \in Task /\ head \in OnList /\ wpc[w] # "run"
      BY <1>a, <1>15 DEF TakeTask, IInv, TypeOK, ListShape, OnList, Task, NULL
    <3>2. Running' = Running \cup {w} /\ w \notin Running
      BY <1>a, <1>15, <3>1 DEF TakeTask, TypeOK, Running
    <3>3. task'[w] = head /\ \A v \in Running : task'[v] = task[v]
      BY <1>a, <1>15, <3>2 DEF TakeTask, TypeOK, Running
    <3>4. OnList' = OnList \ {head}
      <4>1. CASE head = tail
        <5>1. head' = NULL
          BY <1>15, <4>1 DEF TakeTask, IInv, ListShape
        <5>2. QED
          BY <1>a, <1>15, <4>1, <5>1 DEF TakeTask, TypeOK, OnList, NULL
      <4>2. CASE head # tail
        <5>1. head' = head + 1 /\ head' # NULL /\ tail' = tail /\ head < tail
          BY <1>a, <1>15, <3>1, <4>2 DEF TakeTask, IInv, TypeOK, ListShape, NULL, Task
        <5>2. QED
          BY <1>a, <1>15, <5>1 DEF TakeTask, TypeOK, OnList, NULL
      <4>3. QED
        BY <4>1, <4>2
    <3>5. live' = live
      BY <1>15 DEF TakeTask
    <3>6. {task'[v] : v \in Running'} = {task[v] : v \in Running} \cup {head}
      BY <3>2, <3>3
    <3>7. QED
      BY <3>1, <3>2, <3>3, <3>4, <3>5, <3>6 DEF IInv, TaskOwnership
  <2>6. NoSleepOnWork'
    BY <1>a, <1>15 DEF TakeTask, IInv, TypeOK, NoSleepOnWork, Worker, NULL
  <2>7. NobodyMissesShutdown'
    BY <1>a, <1>15 DEF TakeTask, IInv, TypeOK, NobodyMissesShutdown
  <2>8. QED
    BY <1>a, <2>1, <2>2, <2>3, <2>4, <2>5, <2>6, <2>7 DEF IInv
<1>16. ASSUME NEW w \in Worker, FinishTask(w) PROVE IInv'
  <2>1. ListShape'
    BY <1>a, <1>16 DEF FinishTask, IInv, TypeOK, ListShape, Task, NULL
  <2>2. LockHeld'
    BY <1>a, <1>16 DEF FinishTask, IInv, TypeOK, LockHeld, Worker
  <2>3. WorkerPlaces'
    BY <1>a, <1>16 DEF FinishTask, IInv, TypeOK, WorkerPlaces, Worker
  <2>4. OwnerPlaces'
    BY <1>a, <1>16 DEF FinishTask, IInv, TypeOK, OwnerPlaces, AllExited, Worker
  <2>5. TaskOwnership'
    <3>1. w \in Running /\ Running' = Running \ {w}
      BY <1>a, <1>16 DEF FinishTask, TypeOK, Running
    <3>2. \A v \in Running' : task'[v] = task[v]
      BY <1>a, <1>16, <3>1 DEF FinishTask, TypeOK, Running
    <3>3. OnList' = OnList /\ live' = live \ {task[w]}
      BY <1>16 DEF FinishTask, OnList
    <3>4. {task'[v] : v \in Running'} = {task[v] : v \in Running} \ {task[w]}
      BY <3>1, <3>2 DEF IInv, TaskOwnership
    <3>5. QED
      BY <3>1, <3>2, <3>3, <3>4 DEF IInv, TaskOwnership
  <2>6. NoSleepOnWork'
    BY <1>a, <1>16 DEF FinishTask, IInv, TypeOK, NoSleepOnWork, Worker, NULL
  <2>7. NobodyMissesShutdown'
    BY <1>a, <1>16 DEF FinishTask, IInv, TypeOK, NobodyMissesShutdown
  <2>8. QED
    BY <1>a, <2>1, <2>2, <2>3, <2>4, <2>5, <2>6, <2>7 DEF IInv
<1>17. ASSUME NEW w \in Worker, SpuriousWakeup(w) PROVE IInv'
  <2>1. ListShape'
    BY <1>17 DEF SpuriousWakeup, IInv, ListShape
  <2>2. LockHeld'
    BY <1>a, <1>17 DEF SpuriousWakeup, IInv, TypeOK, LockHeld, Worker
  <2>3. WorkerPlaces'
    BY <1>a, <1>17 DEF SpuriousWakeup, IInv, TypeOK, WorkerPlaces, Worker
  <2>4. OwnerPlaces'
    BY <1>a, <1>17
       DEF SpuriousWakeup, IInv, TypeOK, OwnerPlaces, AllExited, Worker
  <2>5. TaskOwnership'
    BY <1>a, <1>17
       DEF SpuriousWakeup, IInv, TypeOK, TaskOwnership, OnList, Running
  <2>6. NoSleepOnWork'
    BY <1>a, <1>17
       DEF SpuriousWakeup, IInv, TypeOK, NoSleepOnWork, Worker, NULL
  <2>7. NobodyMissesShutdown'
    BY <1>a, <1>17 DEF SpuriousWakeup, IInv, TypeOK, NobodyMissesShutdown
  <2>8. QED
    BY <1>a, <2>1, <2>2, <2>3, <2>4, <2>5, <2>6, <2>7 DEF IInv
<1>18. CASE UNCHANGED vars
  BY <1>18
     DEF vars, IInv, TypeOK, ListShape, LockHeld, WorkerPlaces, OwnerPlaces,
         TaskOwnership, NoSleepOnWork, NobodyMissesShutdown, AllExited,
         OnList, Running
<1>19. QED
  BY <1>1, <1>2, <1>3, <1>4, <1>5, <1>6, <1>7, <1>8, <1>9, <1>10, <1>11,
     <1>12, <1>13, <1>14, <1>15, <1>16, <1>17, <1>18, NextCases

(* Every reachable state of the pool satisfies the inductive invariant. *)
THEOREM Invariance == Spec => []IInv
BY InitIInv, NextIInv, PTL DEF Spec

-----------------------------------------------------------------------------
(* The safety properties *)

LEMMA IInvReleased == IInv => ReleasedPoolIsQuiet
<1> SUFFICES ASSUME IInv, owner \in {"null", "destroyed"}
             PROVE  /\ \A w \in Worker : wpc[w] \in {"absent", "exited"}
                    /\ head = NULL
                    /\ live = {}
  BY DEF ReleasedPoolIsQuiet
<1> USE ThreadsAssumption, BoundsAssumption
<1>1. \A w \in Worker : wpc[w] \in {"absent", "exited"}
  BY DEF IInv, TypeOK, OwnerPlaces, WorkerPlaces, AllExited, Worker
<1>2. Running = {}
  BY <1>1 DEF Running
<1>3. head = NULL
  <2>1. CASE owner = "null"
    BY <2>1 DEF IInv, TypeOK, OwnerPlaces, ListShape, NULL
  <2>2. CASE owner = "destroyed"
    <3>1. 1 \in Worker /\ wpc[1] = "exited"
      BY <2>2 DEF IInv, TypeOK, OwnerPlaces, AllExited, Worker
    <3>2. QED
      BY <3>1 DEF IInv, WorkerPlaces
  <2>3. QED
    BY <2>1, <2>2
<1>4. live = {}
  BY <1>2, <1>3 DEF IInv, TaskOwnership, OnList
<1>5. QED
  BY <1>1, <1>3, <1>4

(* Every task node is on the list or with exactly one worker, and no freed
   node is reachable (TaskOwnership), for any number of threads and tasks. *)
THEOREM TaskOwned == Spec => []TaskOwnership
<1>1. IInv => TaskOwnership
  BY DEF IInv
<1>2. QED
  BY <1>1, Invariance, PTL

(* No task waits on the list while every worker sleeps: the single signal of
   thread_pool_add_task loses no wakeup. *)
THEOREM WorkIsSeen == Spec => []NoSleepOnWork
<1>1. IInv => NoSleepOnWork
  BY DEF IInv
<1>2. QED
  BY <1>1, Invariance, PTL

(* The broadcast of thread_pool_destroy reaches every worker. *)
THEOREM ShutdownIsSeen == Spec => []NobodyMissesShutdown
<1>1. IInv => NobodyMissesShutdown
  BY DEF IInv
<1>2. QED
  BY <1>1, Invariance, PTL

(* Nothing of the pool is in use, queued or leaked once it has been freed. *)
THEOREM ReleasedQuiet == Spec => []ReleasedPoolIsQuiet
BY IInvReleased, Invariance, PTL

-------------------------------------------------------------------------------
(* thread_pool_destroy: what the joins still have to wait for *)

(* The workers that have yet to take the lock, and to look at the list. *)
ToLock == {w \in Worker : wpc[w] \in {"lock", "wake"}}
ToLook == {w \in Worker : wpc[w] \in {"lock", "wake", "check"}}

(* The steps the workers have left to take: a task costs three (it is unlinked
   and run, and its worker takes the lock again), leaving the loop one, and
   getting the lock first another. *)
Remaining == 3 * Cardinality(live) + Cardinality(ToLock) + Cardinality(ToLook)

(* The guards of worker w's steps while the owner joins. *)
Unblocked(w) ==
    \/ wpc[w] \in {"lock", "wake"} /\ lock = 0
    \/ wpc[w] \in {"check", "run"}

Joining == owner = "join" /\ ~AllExited

LEMMA FiniteSets ==
    ASSUME TypeOK
    PROVE  IsFiniteSet(live) /\ \A S \in SUBSET Worker : IsFiniteSet(S)
<1>1. IsFiniteSet(Worker) /\ IsFiniteSet(Task)
  BY ThreadsAssumption, BoundsAssumption, FS_Interval DEF Worker, Task
<1>2. live \in SUBSET Task
  BY DEF TypeOK
<1>3. IsFiniteSet(live)
  BY <1>1, <1>2, FS_Subset
<1>4. \A S \in SUBSET Worker : IsFiniteSet(S)
  BY <1>1, FS_Subset
<1> QED
  BY <1>3, <1>4

LEMMA RemainingType ==
    ASSUME TypeOK
    PROVE  Remaining \in Nat
<1>1. ToLock \in SUBSET Worker /\ ToLook \in SUBSET Worker
  BY DEF ToLock, ToLook
<1>2. /\ Cardinality(live) \in Nat /\ Cardinality(ToLock) \in Nat
      /\ Cardinality(ToLook) \in Nat
  BY <1>1, FiniteSets, FS_CardinalityType
<1> QED
  BY <1>2 DEF Remaining

(* While some worker has not left the loop one of them can go on: nobody
   sleeps, and whoever holds the lock is not blocked. *)
LEMMA SomeoneUnblocked ==
    ASSUME IInv, Joining
    PROVE  \E w \in Worker : Unblocked(w)
<1>1. PICK w \in Worker : wpc[w] \in {"lock", "wake", "check", "run"}
  BY ThreadsAssumption
     DEF Joining, AllExited, IInv, TypeOK, WorkerStates, OwnerPlaces, WorkerPlaces,
         NobodyMissesShutdown, Worker
<1>2. CASE lock = 0
  BY <1>1, <1>2 DEF Unblocked
<1>3. CASE lock # 0
  <2>1. lock \in Worker
    BY <1>3, ThreadsAssumption DEF IInv, TypeOK, Worker
  <2>2. wpc[lock] = "check"
    BY <2>1 DEF IInv, LockHeld, NobodyMissesShutdown, Joining
  <2> QED
    BY <2>1, <2>2 DEF Unblocked
<1> QED
  BY <1>2, <1>3

(* Every step of a worker is one less to wait for. *)
LEMMA WorkerCountsDown ==
    ASSUME IInv, owner = "join", NEW w \in Worker, WorkerStep(w)
    PROVE  Remaining' = Remaining - 1
<1>a. TypeOK
  BY DEF IInv
<1>b. /\ IsFiniteSet(live) /\ IsFiniteSet(ToLock) /\ IsFiniteSet(ToLook)
  BY <1>a, FiniteSets DEF ToLock, ToLook
<1>c. /\ Cardinality(live) \in Nat /\ Cardinality(ToLock) \in Nat
      /\ Cardinality(ToLook) \in Nat
  BY <1>b, FS_CardinalityType
<1>d. wpc \in [Worker -> WorkerStates] /\ shutdown = 1
  BY <1>a DEF TypeOK, IInv, OwnerPlaces
<1>1. CASE AcquireLock(w)
  <2>1. /\ live' = live /\ ToLock' = ToLock \ {w} /\ ToLook' = ToLook
        /\ w \in ToLock
    BY <1>1, <1>d DEF AcquireLock, listVars, ToLock, ToLook
  <2>2. Cardinality(ToLock') = Cardinality(ToLock) - 1
    BY <2>1, <1>b, FS_RemoveElement
  <2> QED
    BY <2>1, <2>2, <1>c DEF Remaining
<1>2. CASE Exit(w)
  <2>1. /\ live' = live /\ ToLock' = ToLock /\ ToLook' = ToLook \ {w}
        /\ w \in ToLook
    BY <1>2, <1>d DEF Exit, listVars, ToLock, ToLook
  <2>2. Cardinality(ToLook') = Cardinality(ToLook) - 1
    BY <2>1, <1>b, FS_RemoveElement
  <2> QED
    BY <2>1, <2>2, <1>c DEF Remaining
<1>3. CASE TakeTask(w)
  <2>1. /\ live' = live /\ ToLock' = ToLock /\ ToLook' = ToLook \ {w}
        /\ w \in ToLook
    BY <1>3, <1>d DEF TakeTask, ToLock, ToLook
  <2>2. Cardinality(ToLook') = Cardinality(ToLook) - 1
    BY <2>1, <1>b, FS_RemoveElement
  <2> QED
    BY <2>1, <2>2, <1>c DEF Remaining
<1>4. CASE FinishTask(w)
  <2>1. /\ live' = live \ {task[w]} /\ ToLock' = ToLock \cup {w}
        /\ ToLook' = ToLook \cup {w}
        /\ w \notin ToLock /\ w \notin ToLook
    BY <1>4, <1>d DEF FinishTask, ToLock, ToLook
  <2>2. task[w] \in live
    BY <1>4 DEF FinishTask, IInv, TaskOwnership, Running
  <2>3. Cardinality(live') = Cardinality(live) - 1
    BY <2>1, <2>2, <1>b, FS_RemoveElement
  <2>4. /\ Cardinality(ToLock') = Cardinality(ToLock) + 1
        /\ Cardinality(ToLook') = Cardinality(ToLook) + 1
    BY <2>1, <1>b, FS_AddElement
  <2> QED
    BY <2>1, <2>3, <2>4, <1>c DEF Remaining
<1>5. ~DecideToWait(w) /\ ~CondWait(w)
  BY <1>d DEF DecideToWait, CondWait, IInv, NobodyMissesShutdown
<1> QED
  BY <1>1, <1>2, <1>3, <1>4, <1>5 DEF WorkerStep

(* The owner waits exactly as long as a worker has a step left. *)
LEMMA NothingRemains ==
    ASSUME IInv, owner = "join"
    PROVE  AllExited <=> Remaining = 0
<1>a. TypeOK
  BY DEF IInv
<1>b. /\ IsFiniteSet(live) /\ IsFiniteSet(ToLock) /\ IsFiniteSet(ToLook)
  BY <1>a, FiniteSets DEF ToLock, ToLook
<1>c. /\ Cardinality(live) \in Nat /\ Cardinality(ToLock) \in Nat
      /\ Cardinality(ToLook) \in Nat
  BY <1>b, FS_CardinalityType
<1>1. Remaining = 0 <=> live = {} /\ ToLock = {} /\ ToLook = {}
  <2>a. \A a, b, c \in Nat : 3 * a + b + c = 0 <=> a = 0 /\ b = 0 /\ c = 0
    OBVIOUS
  <2>1. Remaining = 0 <=>
          Cardinality(live) = 0 /\ Cardinality(ToLock) = 0 /\ Cardinality(ToLook) = 0
    BY <1>c, <2>a DEF Remaining
  <2> QED
    BY <2>1, <1>b, FS_EmptySet
<1>2. ASSUME AllExited PROVE live = {} /\ ToLock = {} /\ ToLook = {}
  <2>1. \A w \in Worker : wpc[w] = "exited"
    BY <1>2 DEF AllExited, IInv, OwnerPlaces, Worker
  <2>2. Running = {} /\ ToLock = {} /\ ToLook = {}
    BY <2>1 DEF Running, ToLock, ToLook
  <2>3. 1 \in Worker
    BY ThreadsAssumption DEF Worker
  <2>4. OnList = {}
    BY <2>1, <2>3 DEF OnList, IInv, WorkerPlaces
  <2> QED
    BY <2>2, <2>4 DEF IInv, TaskOwnership
<1>3. ASSUME live = {}, ToLock = {}, ToLook = {} PROVE AllExited
  <2>1. Running = {}
    BY <1>3 DEF IInv, TaskOwnership
  <2>2. \A w \in Worker : wpc[w] \notin {"lock", "wake", "check", "run", "block", "wait"}
    BY <1>3, <2>1 DEF ToLock, ToLook, Running, IInv, NobodyMissesShutdown
  <2>3. \A w \in Worker : wpc[w] # "absent"
    BY ThreadsAssumption DEF IInv, OwnerPlaces, WorkerPlaces, Worker
  <2> QED
    BY <1>a, <2>2, <2>3 DEF TypeOK, WorkerStates, AllExited
<1> QED
  BY <1>1, <1>2, <1>3

(* While the owner joins nothing happens but the workers' steps. *)
LEMMA JoinSteps ==
    ASSUME IInv, owner = "join", [Next]_vars
    PROVE  \/ UNCHANGED vars
           \/ owner' = "join" /\ Remaining' = Remaining - 1
           \/ owner' = "destroyed" /\ AllExited
<1>1. ASSUME NEW w \in Worker, WorkerStep(w)
      PROVE  owner' = "join" /\ Remaining' = Remaining - 1
  <2>1. owner' = owner
    BY <1>1 DEF WorkerStep, AcquireLock, DecideToWait, CondWait, Exit, TakeTask,
                FinishTask
  <2> QED
    BY <1>1, <2>1, WorkerCountsDown
<1>2. \A w \in Worker : ~SpuriousWakeup(w)
  BY DEF SpuriousWakeup, IInv, NobodyMissesShutdown
<1>3. ~OwnerCreates /\ ~AddTask /\ ~Destroy /\ ~Terminated
  BY DEF OwnerCreates, CreateThread, CreateDone, CreateFailsEarly, CreateThreadFails,
         FailSetShutdown, FailBroadcast, FailJoin, AddTask, Destroy, Terminated
<1>4. CASE DestroyJoin
  BY <1>4 DEF DestroyJoin
<1> QED
  BY <1>1, <1>2, <1>3, <1>4 DEF Next

(* pthread_join never waits for a worker that cannot go on: while threads are
   left one of them has a step to take, and each step is one less of a number
   that is zero exactly when all have left (thread_pool.c:179). *)
JoinsCountDown ==
    /\ [](Joining => Remaining > 0 /\ \E w \in Worker : Unblocked(w))
    /\ [][owner = "join" =>
            \/ owner' = "join" /\ Remaining' = Remaining - 1
            \/ owner' = "destroyed" /\ Remaining = 0]_vars

(* The joins of thread_pool_destroy wait for nothing that does not come
   (JoinsCountDown), for any number of threads and tasks. *)
THEOREM JoinsEnd == Spec => JoinsCountDown
<1>1. IInv => (Joining => Remaining > 0 /\ \E w \in Worker : Unblocked(w))
  BY SomeoneUnblocked, NothingRemains, RemainingType DEF Joining, IInv
<1>2. IInv /\ [Next]_vars =>
        [owner = "join" =>
            \/ owner' = "join" /\ Remaining' = Remaining - 1
            \/ owner' = "destroyed" /\ Remaining = 0]_vars
  BY JoinSteps, NothingRemains
<1> QED
  BY <1>1, <1>2, Invariance, PTL DEF Spec, JoinsCountDown

(* The guards that Unblocked and AllExited spell out do enable the steps. *)
CanGo(w)   == owner = "join" /\ Unblocked(w) => ENABLED <<WorkerStep(w)>>_vars
OwnerCanGo == owner = "join" /\ AllExited => ENABLED <<DestroyJoin>>_vars
Everyone   == \A w \in Worker : CanGo(w)

(* What the scheduler gives. *)
Scheduled ==
    /\ []IInv /\ [][Next]_vars
    /\ WF_vars(DestroyJoin) /\ []OwnerCanGo
    /\ [](\A w \in Worker : Fair(w)) /\ []Everyone

AtJoin(n)  == owner = "join" /\ Remaining = n
OneLess(n) == owner = "join" /\ Remaining = n - 1

(* A worker that can go on does, or another has gone before it. *)
LEMMA OneGoes ==
    ASSUME NEW CONSTANT n \in Nat, NEW CONSTANT v \in Worker
    PROVE  Scheduled => (AtJoin(n) /\ Unblocked(v) /\ ~AllExited => <>OneLess(n))
<1> DEFINE P == AtJoin(n) /\ Unblocked(v) /\ ~AllExited
<1>1. IInv /\ P /\ [Next]_vars => P' \/ OneLess(n)'
  <2> SUFFICES ASSUME IInv, P, [Next]_vars
               PROVE  P' \/ OneLess(n)'
    OBVIOUS
  <2>1. CASE UNCHANGED vars
    BY <2>1 DEF vars, AtJoin, Remaining, ToLock, ToLook, Unblocked, AllExited
  <2> QED
    BY <2>1, JoinSteps DEF AtJoin, OneLess
<1>2. IInv /\ P /\ <<WorkerStep(v)>>_vars => OneLess(n)'
  <2> SUFFICES ASSUME IInv, P, WorkerStep(v)
               PROVE  OneLess(n)'
    OBVIOUS
  <2>1. owner' = owner
    BY DEF WorkerStep, AcquireLock, DecideToWait, CondWait, Exit, TakeTask, FinishTask
  <2> QED
    BY <2>1, WorkerCountsDown DEF AtJoin, OneLess
<1>3. P /\ CanGo(v) => ENABLED <<WorkerStep(v)>>_vars
  BY DEF CanGo, AtJoin
<1>4. Scheduled => []IInv /\ [][Next]_vars /\ Fair(v) /\ []CanGo(v)
  <2>1. Everyone => CanGo(v)
    BY DEF Everyone
  <2>2. (\A w \in Worker : Fair(w)) => Fair(v)
    OBVIOUS
  <2> QED
    BY <2>1, <2>2, PTL DEF Scheduled
<1> HIDE DEF P
<1>5. Scheduled => (P => <>OneLess(n))
  BY <1>1, <1>2, <1>3, <1>4, PTL DEF Fair
<1> QED
  BY <1>5 DEF P

Counted == Remaining \in Nat

LEMMA AlwaysCounted == IInv => Counted
BY RemainingType DEF IInv, Counted

Over     == owner = "join" /\ AllExited
Returned == owner = "destroyed"

(* Nor does the owner wait once all have left. *)
LEMMA OwnerGoes == Scheduled => (Over => <>Returned)
<1>1. IInv /\ Over /\ [Next]_vars => Over' \/ Returned'
  <2> SUFFICES ASSUME IInv, Over, [Next]_vars
               PROVE  Over' \/ Returned'
    OBVIOUS
  <2>1. IInv'
    BY NextIInv
  <2>2. Counted'
    BY <2>1, AlwaysCounted, PTL
  <2>3. Remaining = 0
    BY NothingRemains DEF Over
  <2>4. UNCHANGED vars => Over'
    BY DEF vars, AllExited, Over
  <2> QED
    BY <2>2, <2>3, <2>4, JoinSteps DEF Counted, Over, Returned
<1>2. <<DestroyJoin>>_vars => Returned'
  BY DEF DestroyJoin, Returned
<1>3. OwnerCanGo /\ Over => ENABLED <<DestroyJoin>>_vars
  BY DEF OwnerCanGo, Over
<1> QED
  BY <1>1, <1>2, <1>3, PTL DEF Scheduled

(* The joins go on, or are over and thread_pool_destroy returns. *)
DestroyAdvances(n) == AtJoin(n) ~> Returned \/ OneLess(n)

(* If the threads are scheduled and every task returns, thread_pool_destroy
   never stays where it is: as long as the joins are not over the number of
   steps they wait for drops, and when they are it returns. *)
THEOREM JoinsAdvance ==
    ASSUME NEW CONSTANT n \in Nat
    PROVE  FairSpec /\ []OwnerCanGo /\ []Everyone => DestroyAdvances(n)
<1>1. Scheduled =>
        ((\E v \in Worker : AtJoin(n) /\ Unblocked(v) /\ ~AllExited) => <>OneLess(n))
  <2>1. \A v \in Worker :
          Scheduled => (AtJoin(n) /\ Unblocked(v) /\ ~AllExited => <>OneLess(n))
    BY OneGoes
  <2> QED
    BY <2>1
<1>2. IInv /\ AtJoin(n) /\ ~AllExited =>
        \E v \in Worker : AtJoin(n) /\ Unblocked(v) /\ ~AllExited
  BY SomeoneUnblocked DEF AtJoin, Joining
<1>3. Scheduled => (AtJoin(n) => <>(Returned \/ OneLess(n)))
  <2>1. AtJoin(n) /\ AllExited => Over
    BY DEF AtJoin, Over
  <2>2. Scheduled => IInv
    BY PTL DEF Scheduled
  <2> QED
    BY <1>1, <1>2, <2>1, <2>2, OwnerGoes, PTL
<1>4. Scheduled => []Scheduled
  BY PTL DEF Scheduled
<1>5. Scheduled => (AtJoin(n) ~> Returned \/ OneLess(n))
  BY <1>3, <1>4, PTL
<1>6. FairSpec /\ []OwnerCanGo /\ []Everyone => Scheduled
  <2>1. (\A w \in Worker : Fair(w)) => [](\A w \in Worker : Fair(w))
    <3>1. ASSUME NEW CONSTANT w \in Worker PROVE Fair(w) => []Fair(w)
      BY PTL DEF Fair
    <3>2. (\A w \in Worker : []Fair(w)) => [](\A w \in Worker : Fair(w))
      OBVIOUS
    <3> QED
      BY <3>1, <3>2
  <2>2. FairSpec => Spec /\ WF_vars(DestroyJoin) /\ (\A w \in Worker : Fair(w))
    BY PTL DEF FairSpec
  <2> QED
    BY <2>1, <2>2, Invariance, PTL DEF Scheduled, Spec
<1> QED
  BY <1>5, <1>6 DEF DestroyAdvances

-------------------------------------------------------------------------------
(* Refinement: under the mapping of a node to its place on the way through
   the pool (StatusMap, PhaseMap) each step of a thread is a step of the
   abstract pool or leaves it unchanged. *)

(* A step after which the same nodes exist, are live and are running leaves
   every task where it was. *)
LEMMA StatusUnchanged ==
    ASSUME added' = added, live' = live, Running' = Running,
           \A w \in Running : task'[w] = task[w]
    PROVE  StatusMap' = StatusMap
BY DEF StatusMap, Status

(* Before the first task every task is new. *)
LEMMA AllNew ==
    ASSUME added = 0
    PROVE  StatusMap = [t \in Task |-> "new"]
BY BoundsAssumption DEF StatusMap, Status, Task

LEMMA InitRefines == Init => Abstract!Init
BY AllNew DEF Init, Abstract!Init, PhaseMap, Task, Abstract!Task

(* The owner adds a task: it is submitted. *)
LEMMA AddTaskRefines ==
    ASSUME IInv, IInv', AddTask
    PROVE  \E t \in Abstract!Task : Abstract!Submit(t)
<1> USE BoundsAssumption
<1>0. PICK t \in Task : t = added + 1
  BY DEF AddTask, IInv, TypeOK, Task
<1>1. added' = t /\ live' = live \cup {t} /\ task' = task
  BY <1>0 DEF AddTask
<1>2. Running' = Running
  BY DEF AddTask, IInv, TypeOK, Running, Signal, Waiting
<1>3. t \notin live
  BY <1>0 DEF IInv, TypeOK, ListShape
<1>4. \A w \in Running : task[w] # t
  BY <1>3 DEF IInv, TaskOwnership
<1>5. StatusMap[t] = "new" /\ \A u \in Task : u < t => StatusMap[u] # "new"
  BY <1>0 DEF StatusMap, Status, IInv, TypeOK, Task
<1>6. Status(t)' = "queued"
  BY <1>1, <1>2, <1>4 DEF Status, IInv, TypeOK, Task
<1>7. \A u \in Task : u # t => Status(u)' = Status(u)
  BY <1>0, <1>1, <1>2 DEF Status, IInv, TypeOK, Task
<1>8. StatusMap' = [StatusMap EXCEPT ![t] = "queued"]
  BY <1>6, <1>7 DEF StatusMap
<1>9. PhaseMap = "open" /\ PhaseMap' = PhaseMap
  BY DEF AddTask, PhaseMap
<1>10. QED
  BY <1>1, <1>5, <1>8, <1>9 DEF Abstract!Submit, Abstract!Task, Task

(* A worker unlinks the first node: the oldest queued task is started. *)
LEMMA TakeTaskRefines ==
    ASSUME IInv, IInv', NEW w \in Worker, TakeTask(w)
    PROVE  \E t \in Abstract!Task : Abstract!Start(t)
<1> USE BoundsAssumption
<1>0. PICK t \in Task : t = head
  BY DEF TakeTask, IInv, TypeOK, Task, NULL
<1>1. t \in OnList /\ t <= added
  BY <1>0 DEF TakeTask, IInv, TypeOK, ListShape, OnList, Task, NULL
<1>2. Running' = Running \cup {w} /\ w \notin Running
  BY DEF TakeTask, IInv, TypeOK, Running
<1>3. task'[w] = t /\ \A v \in Running : task'[v] = task[v]
  BY <1>0, <1>2 DEF TakeTask, IInv, TypeOK, Running
<1>a. added \in Nat /\ t \in Nat /\ ~(t > added)
  BY <1>1 DEF IInv, TypeOK, Task
<1>b. t \in live /\ \A v \in Running : task[v] # t
  BY <1>1 DEF IInv, TaskOwnership
<1>4. Status(t) = "queued"
  BY <1>a, <1>b DEF Status
<1>5. \A u \in Task : u < t => Status(u) # "queued"
  <2> SUFFICES ASSUME NEW u \in Task, u < t, u \in live
               PROVE  \E v \in Running : task[v] = u
    BY DEF Status
  <2>1. u \notin OnList
    BY <1>0, <1>1 DEF OnList, IInv, TypeOK, Task, NULL
  <2>2. QED
    BY <2>1 DEF IInv, TaskOwnership
<1>6. added' = added /\ live' = live
  BY DEF TakeTask
<1>7. Status(t)' = "running"
  <2>1. \E v \in Running' : task'[v] = t
    BY <1>2, <1>3
  <2>2. ~(t > added') /\ t \in live'
    BY <1>a, <1>b, <1>6
  <2>3. QED
    BY <2>1, <2>2 DEF Status
<1>8. \A u \in Task : u # t => Status(u)' = Status(u)
  BY <1>2, <1>3, <1>6 DEF Status
<1>9. StatusMap' = [StatusMap EXCEPT ![t] = "running"]
  BY <1>7, <1>8 DEF StatusMap
<1>10. PhaseMap # "released" /\ PhaseMap' = PhaseMap
  <2>1. wpc[w] = "check"
    BY DEF TakeTask
  <2>2. owner \notin {"null", "destroyed"}
    BY <2>1, IInvReleased DEF ReleasedPoolIsQuiet
  <2>3. QED
    BY <2>2 DEF TakeTask, PhaseMap
<1>11. QED
  BY <1>1, <1>4, <1>5, <1>9, <1>10 DEF Abstract!Start, Abstract!Task, Task, StatusMap

(* task->function returns and the node is freed: the task is done. *)
LEMMA FinishTaskRefines ==
    ASSUME IInv, IInv', NEW w \in Worker, FinishTask(w)
    PROVE  \E t \in Abstract!Task : Abstract!Finish(t)
<1> USE BoundsAssumption
<1>0. wpc[w] = "run"
  BY DEF FinishTask
<1>a. PICK t \in Task : t = task[w] /\ t \in live
  BY <1>0 DEF IInv, TypeOK, TaskOwnership, Running
<1>1. w \in Running /\ Running' = Running \ {w}
  BY DEF FinishTask, IInv, TypeOK, Running
<1>2. t <= added
  BY <1>a DEF IInv, TypeOK, ListShape
<1>3. \A v \in Running' : task'[v] = task[v] /\ task[v] # t
  BY <1>1, <1>a DEF FinishTask, IInv, TypeOK, TaskOwnership, Running
<1>4. live' = live \ {t} /\ added' = added
  BY <1>a DEF FinishTask
<1>5. Status(t) = "running"
  <2>1. ~(t > added)
    BY <1>2 DEF IInv, TypeOK, Task
  <2>2. \E v \in Running : task[v] = t
    BY <1>1, <1>a
  <2>3. QED
    BY <1>a, <2>1, <2>2 DEF Status
<1>6. Status(t)' = "done"
  BY <1>2, <1>4 DEF Status, IInv, TypeOK, Task
<1>7. \A u \in Task : u # t => Status(u)' = Status(u)
  BY <1>1, <1>3, <1>4, <1>a DEF Status
<1>8. StatusMap' = [StatusMap EXCEPT ![t] = "done"]
  BY <1>6, <1>7 DEF StatusMap
<1>9. PhaseMap' = PhaseMap
  BY DEF FinishTask, PhaseMap
<1>10. QED
  BY <1>2, <1>5, <1>8, <1>9 DEF Abstract!Finish, Abstract!Task, Task, StatusMap

(* thread_pool_destroy, or a failed create, sets shutdown: the pool closes. *)
LEMMA CloseRefines ==
    ASSUME IInv, IInv', FailSetShutdown \/ Destroy
    PROVE  Abstract!Close
<1>1. PhaseMap = "open" /\ PhaseMap' = "draining"
  BY DEF FailSetShutdown, Destroy, IInv, OwnerPlaces, PhaseMap
<1>2. Running' = Running
  BY DEF FailSetShutdown, Destroy, Broadcast, Waiting, IInv, TypeOK, Running
<1>3. StatusMap' = StatusMap
  BY <1>2, StatusUnchanged DEF FailSetShutdown, Destroy, listVars
<1>4. QED
  BY <1>1, <1>3 DEF Abstract!Close

(* The invariant of the next state, restated. *)
LEMMA IInvReleasedNext == IInv' => ReleasedPoolIsQuiet'
BY IInvReleased, PTL

(* The pool is freed, or was never created: nothing accepted is left. *)
LEMMA ReleaseRefines ==
    ASSUME IInv, IInv', CreateFailsEarly \/ FailJoin \/ DestroyJoin
    PROVE  Abstract!Release
<1> USE BoundsAssumption
<1>1. PhaseMap # "released" /\ PhaseMap' = "released"
  BY DEF CreateFailsEarly, FailJoin, DestroyJoin, PhaseMap
<1>2. live' = {} /\ added' = added
  BY IInvReleasedNext
     DEF CreateFailsEarly, FailJoin, DestroyJoin, listVars, ReleasedPoolIsQuiet
<1>3. OnList = {} /\ live = {}
  BY <1>2, IInvReleasedNext
     DEF CreateFailsEarly, FailJoin, DestroyJoin, listVars,
         ReleasedPoolIsQuiet, OnList, IInv, TaskOwnership, NULL
<1>4. \A t \in Task : Status(t) \in {"new", "done"} /\ Status(t)' = Status(t)
  BY <1>2, <1>3 DEF Status
<1>5. StatusMap' = StatusMap
  BY <1>4 DEF StatusMap
<1>6. QED
  BY <1>1, <1>4, <1>5 DEF Abstract!Release, Abstract!Task, Task, StatusMap

(* The steps of the threads that the abstract pool does not see. *)
LEMMA StutterRefines ==
    ASSUME IInv, IInv',
           \/ CreateThread \/ CreateDone \/ CreateThreadFails \/ FailBroadcast
           \/ \E w \in Worker :
                \/ AcquireLock(w) \/ DecideToWait(w) \/ CondWait(w) \/ Exit(w)
                \/ SpuriousWakeup(w)
           \/ UNCHANGED vars
    PROVE  UNCHANGED Abstract!vars
<1>1. added' = added /\ live' = live /\ task' = task /\ shutdown' = shutdown
  BY DEF CreateThread, CreateDone, CreateThreadFails, FailBroadcast,
         AcquireLock, DecideToWait, CondWait, Exit, SpuriousWakeup, vars,
         listVars
<1>2. PhaseMap' = PhaseMap
  BY <1>1
     DEF CreateThread, CreateDone, CreateThreadFails, FailBroadcast,
         AcquireLock, DecideToWait, CondWait, Exit, SpuriousWakeup, vars,
         PhaseMap
<1>3. Running' = Running
  <2>1. CASE CreateThread
    BY <2>1, ThreadsAssumption
       DEF CreateThread, IInv, TypeOK, WorkerPlaces, Running, Worker
  <2>2. CASE CreateDone \/ CreateThreadFails \/ UNCHANGED vars
    BY <2>2 DEF CreateDone, CreateThreadFails, vars, Running
  <2>3. CASE FailBroadcast
    BY <2>3 DEF FailBroadcast, Broadcast, Waiting, Running
  <2>4. ASSUME NEW w \in Worker,
               \/ AcquireLock(w) \/ DecideToWait(w) \/ CondWait(w) \/ Exit(w)
               \/ SpuriousWakeup(w)
        PROVE  Running' = Running
    BY <2>4 DEF AcquireLock, DecideToWait, CondWait, Exit, SpuriousWakeup,
                IInv, TypeOK, Running
  <2>5. QED
    BY <2>1, <2>2, <2>3, <2>4
<1>4. StatusMap' = StatusMap
  BY <1>1, <1>3, StatusUnchanged
<1>5. QED
  BY <1>2, <1>4 DEF Abstract!vars

LEMMA NextRefines ==
    ASSUME IInv, IInv', [Next]_vars
    PROVE  [Abstract!Next]_(Abstract!vars)
BY NextCases, AddTaskRefines, TakeTaskRefines, FinishTaskRefines,
   CloseRefines, ReleaseRefines, StutterRefines
   DEF Abstract!Next

(* The threads, the lock, the condition variable and the list of
   thread_pool.c implement the abstract pool: every accepted task is run
   exactly once, in order, and before the pool is released. *)
THEOREM Refinement == Spec => ImplementsTaskPool
<1>1. IInv /\ IInv' /\ [Next]_vars => [Abstract!Next]_(Abstract!vars)
  BY NextRefines
<1>2. QED
  BY <1>1, InitRefines, Invariance, PTL DEF Spec, ImplementsTaskPool, Abstract!Spec

===============================================================================
