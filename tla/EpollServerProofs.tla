-------------------------- MODULE EpollServerProofs --------------------------
(***************************************************************************)
(* Proofs about EpollServer, for any number of clients, workers and        *)
(* descriptors, any timeout and any choice of failures: first types and    *)
(* resources, then that EPOLLONESHOT, in_use and the mutex keep two threads *)
(* off one connection until the timeout closes a connection that has a     *)
(* task pending, that server_run leaves nothing behind, and that every     *)
(* task ends.                                                              *)
(***************************************************************************)
EXTENDS EpollServer, SequenceTheorems, TLAPS

USE DEF Cleared, Disarmed, InTable, AcceptFails, Drained, TaskQueued, Marked, Unmarked

(* The next-state relation, one disjunct per action; but for clients coming,
   sending and leaving, it steps only from states where behaviour is defined. *)
LEMMA NextCases ==
    ASSUME [Next]_vars
    PROVE  \/ Tick \/ Signal
           \/ \E c \in Client : Connect(c) \/ Send(c) \/ HangUp(c)
           \/ EpollWait \/ LeaveLoop \/ ListenEvent \/ CheckTimeout \/ SkipCheck
           \/ \E f \in Fd : Dispatch(f) \/ DispatchFails(f)
           \/ \E c \in Client, f \in Fd : Accept(c, f) \/ AcceptDrops(c, f)
           \/ Defined /\ Register
           \/ RegisterFails \/ AcceptStops \/ Cleanup
           \/ \E w \in Worker :
                \/ Take(w) \/ AcquireNothing(w) \/ Acquire(w)
                \/ Defined /\ Touch(w)
                \/ Defined /\ ReadBytes(w)
                \/ ReadDrained(w) \/ ReadEnds(w)
                \/ Defined /\ Incomplete(w)
                \/ Rearm(w) \/ Complete(w)
                \/ Defined /\ Serve(w)
                \/ ServeFails(w)
                \/ Defined /\ HandBack(w)
                \/ Close(w)
           \/ UNCHANGED vars
BY DEF Next, World, MainStep, WorkerStep, Halted

-----------------------------------------------------------------------------
(* Type correctness *)

LEMMA InitTypeOK == Init => TypeOK
BY SizesAssumption
   DEF Init, TypeOK, ClientStates, MainStates, WorkerStates, Busy, NoFd

(* Closing leaves every variable it changes in its range. *)
LEMMA CloseTypes ==
    ASSUME TypeOK, NEW F, CloseSlots(F)
    PROVE  /\ client' \in [Client -> ClientStates]
           /\ readable' \in SUBSET Client
           /\ hungup' \in SUBSET Client
           /\ sock' \in [Fd -> Client \cup {NULL}]
           /\ watch' \in [Fd -> {"out", "armed", "off"}]
           /\ \A f \in Fd : watch'[f] # "out" => f \in Slot
           /\ connections' \in [Slot -> Client \cup {NULL}]
           /\ heap' \in SUBSET Client
           /\ inUse' \in SUBSET Client
           /\ keepAlive' \in SUBSET Client
           /\ readPos' \in [Client -> 0..BufferSize]
           /\ age' \in [Client -> 0..(Timeout + 1)]
BY SizesAssumption DEF TypeOK, CloseSlots, ClientStates

LEMMA NextTypeOK == TypeOK /\ [Next]_vars => TypeOK'
<1> SUFFICES ASSUME TypeOK, [Next]_vars
             PROVE  TypeOK'
  OBVIOUS
<1> USE SizesAssumption
    DEF TypeOK, kernelVars, connVars, mainVars, workerVars, Busy
<1>1. CASE Tick
  BY <1>1 DEF Tick
<1>2. CASE Signal
  BY <1>2 DEF Signal
<1>3. ASSUME NEW c \in Client, Connect(c) PROVE TypeOK'
  BY <1>3 DEF Connect, ClientStates
<1>4. ASSUME NEW c \in Client, Send(c) PROVE TypeOK'
  BY <1>4 DEF Send
<1>5. ASSUME NEW c \in Client, HangUp(c) PROVE TypeOK'
  BY <1>5 DEF HangUp
<1>6. CASE EpollWait
  <2>1. Ready \subseteq Fd \cap Slot
    BY DEF Ready
  <2>2. QED
    BY <1>6, <2>1 DEF EpollWait, MainStates
<1>7. CASE LeaveLoop
  BY <1>7 DEF LeaveLoop, MainStates
<1>8. CASE ListenEvent
  BY <1>8 DEF ListenEvent, MainStates
<1>9. CASE CheckTimeout
  BY <1>9, CloseTypes DEF CheckTimeout, MainStates
<1>10. CASE SkipCheck
  BY <1>10 DEF SkipCheck, MainStates
<1>11. ASSUME NEW f \in Fd, Dispatch(f) PROVE TypeOK'
  BY <1>11 DEF Dispatch, ListenFd, Fd
<1>12. ASSUME NEW f \in Fd, DispatchFails(f) PROVE TypeOK'
  BY <1>12, CloseTypes DEF DispatchFails
<1>13. ASSUME NEW c \in Client, NEW f \in Fd, Accept(c, f) PROVE TypeOK'
  BY <1>13 DEF Accept, ClientStates, MainStates
<1>14. ASSUME NEW c \in Client, NEW f \in Fd, AcceptDrops(c, f) PROVE TypeOK'
  BY <1>14 DEF AcceptDrops, ClientStates
<1>15. CASE Register
  BY <1>15 DEF Register, MainStates
<1>16. CASE RegisterFails
  BY <1>16, CloseTypes DEF RegisterFails, MainStates
<1>17. CASE AcceptStops
  BY <1>17 DEF AcceptStops, MainStates
<1>18. CASE Cleanup
  BY <1>18, CloseTypes DEF Cleanup, MainStates
<1>19. ASSUME NEW w \in Worker, Take(w) PROVE TypeOK'
  BY <1>19 DEF Take, Goto, WorkerStates
<1>20. ASSUME NEW w \in Worker, AcquireNothing(w) PROVE TypeOK'
  BY <1>20 DEF AcquireNothing, Return, WorkerStates
<1>21. ASSUME NEW w \in Worker, Acquire(w) PROVE TypeOK'
  BY <1>21 DEF Acquire, Goto, WorkerStates
<1>22. ASSUME NEW w \in Worker, Touch(w), Defined PROVE TypeOK'
  <2>1. 0 \in 0..(Timeout + 1)
    OBVIOUS
  <2>2. QED
    BY <1>22, <2>1 DEF Touch, Goto, WorkerStates
<1>23. ASSUME NEW w \in Worker, ReadBytes(w), Defined PROVE TypeOK'
  BY <1>23 DEF ReadBytes, Defined
<1>24. ASSUME NEW w \in Worker, ReadDrained(w) PROVE TypeOK'
  BY <1>24 DEF ReadDrained, Goto, WorkerStates
<1>25. ASSUME NEW w \in Worker, ReadEnds(w) PROVE TypeOK'
  BY <1>25 DEF ReadEnds, Goto, WorkerStates
<1>26. ASSUME NEW w \in Worker, Incomplete(w) PROVE TypeOK'
  BY <1>26 DEF Incomplete, Goto, WorkerStates
<1>27. ASSUME NEW w \in Worker, Rearm(w) PROVE TypeOK'
  BY <1>27 DEF Rearm, Arm, Return, WorkerStates
<1>28. ASSUME NEW w \in Worker, Complete(w) PROVE TypeOK'
  BY <1>28 DEF Complete, Goto, WorkerStates
<1>29. ASSUME NEW w \in Worker, Serve(w), Defined PROVE TypeOK'
  BY <1>29 DEF Serve, Goto, WorkerStates, Defined
<1>30. ASSUME NEW w \in Worker, ServeFails(w) PROVE TypeOK'
  BY <1>30 DEF ServeFails, Goto, WorkerStates
<1>31. ASSUME NEW w \in Worker, HandBack(w), Defined PROVE TypeOK'
  BY <1>31 DEF HandBack, Arm, Return, WorkerStates
<1>32. ASSUME NEW w \in Worker, Close(w) PROVE TypeOK'
  BY <1>32, CloseTypes DEF Close, Return, WorkerStates
<1>33. CASE UNCHANGED vars
  BY <1>33 DEF vars
<1>34. QED
  BY <1>1, <1>2, <1>3, <1>4, <1>5, <1>6, <1>7, <1>8, <1>9, <1>10, <1>11,
     <1>12, <1>13, <1>14, <1>15, <1>16, <1>17, <1>18, <1>19, <1>20, <1>21,
     <1>22, <1>23, <1>24, <1>25, <1>26, <1>27, <1>28, <1>29, <1>30, <1>31,
     <1>32, <1>33, NextCases

(* Every variable of the server stays in its range: in particular no
   descriptor indexes connections[] out of bounds, in accept or in a task. *)
THEOREM TypeCorrect == Spec => []TypeOK
BY InitTypeOK, NextTypeOK, PTL DEF Spec

-----------------------------------------------------------------------------
(* What closing does *)

LEMMA CloseEffect ==
    ASSUME TypeOK, ResourcesMatch, NEW F \in SUBSET Slot, CloseSlots(F)
    PROVE  /\ connections' = [f \in Slot |-> IF f \in F THEN NULL ELSE connections[f]]
           /\ \A c \in Client :
                /\ c \in heap' <=> c \in heap /\ \A f \in F : connections[f] # c
                /\ c \in inUse' <=> c \in inUse /\ \A f \in F : connections[f] # c
                /\ client'[c] = IF \E f \in F : connections[f] = c
                                THEN "closed" ELSE client[c]
           /\ \A f \in Fd :
                /\ sock'[f] = IF f \in F THEN NULL ELSE sock[f]
                /\ watch'[f] = IF f \in F THEN "out" ELSE watch[f]
<1> DEFINE gone == UNION {At(f) : f \in F}
<1>1. \A c \in Client : c \in gone <=> \E f \in F : connections[f] = c
  BY NullAssumption DEF At, TypeOK
<1>2. \A f \in F : At(f) # {} <=> connections[f] # NULL
  BY DEF At
<1>3. \A f \in Fd \cap F : connections[f] = NULL => sock[f] = NULL /\ watch[f] = "out"
  BY DEF ResourcesMatch, TypeOK, Occupied
<1>4. \A f \in Fd :
        /\ sock'[f] = IF f \in F THEN NULL ELSE sock[f]
        /\ watch'[f] = IF f \in F THEN "out" ELSE watch[f]
  BY <1>2, <1>3 DEF CloseSlots
<1>5. \A c \in Client :
        /\ c \in heap' <=> c \in heap /\ \A f \in F : connections[f] # c
        /\ c \in inUse' <=> c \in inUse /\ \A f \in F : connections[f] # c
        /\ client'[c] = IF \E f \in F : connections[f] = c
                        THEN "closed" ELSE client[c]
  BY <1>1 DEF CloseSlots
<1>6. QED
  BY <1>4, <1>5 DEF CloseSlots

-----------------------------------------------------------------------------
(* Descriptors, slots and structures agree *)

LEMMA InitMatch == Init => ResourcesMatch
BY NullAssumption
   DEF Init, ResourcesMatch, Occupied, Registering

(* A step that leaves all of them alone. *)
LEMMA StaysMatched ==
    ASSUME ResourcesMatch, Registering' = Registering,
           UNCHANGED <<client, sock, watch, connections, heap>>
    PROVE  ResourcesMatch'
BY DEF ResourcesMatch, Occupied

LEMMA CloseMatch ==
    ASSUME TypeOK, ResourcesMatch, NEW F \in SUBSET Slot, CloseSlots(F),
           \/ Registering' = Registering
           \/ Registering \subseteq F /\ Registering' = {}
    PROVE  ResourcesMatch'
<1>1. Occupied' = Occupied \ F
  BY CloseEffect DEF Occupied
<1>2. \A f \in Fd : sock'[f] = IF f \in Slot THEN connections'[f] ELSE NULL
  BY CloseEffect DEF ResourcesMatch
<1>3. \A f \in Fd : watch'[f] # "out" <=> f \in Occupied' \ Registering'
  BY CloseEffect, <1>1 DEF ResourcesMatch, TypeOK
<1>4. \A c \in Client : c \in heap' <=> \E f \in Slot : connections'[f] = c
  <2> SUFFICES ASSUME NEW c \in Client
               PROVE  c \in heap' <=> \E f \in Slot : connections'[f] = c
    OBVIOUS
  <2>1. ASSUME c \in heap' PROVE \E f \in Slot : connections'[f] = c
    BY <2>1, CloseEffect DEF ResourcesMatch
  <2>2. ASSUME NEW f \in Slot, connections'[f] = c PROVE c \in heap'
    <3>1. f \notin F /\ connections[f] = c /\ f \in Occupied
      BY <2>2, CloseEffect, NullAssumption DEF Occupied
    <3>2. c \in heap /\ \A g \in F : connections[g] # c
      BY <3>1 DEF ResourcesMatch, Occupied
    <3>3. QED
      BY <3>2, CloseEffect
  <2>3. QED
    BY <2>1, <2>2
<1>5. \A f, g \in Occupied' : connections'[f] = connections'[g] => f = g
  BY CloseEffect, <1>1 DEF ResourcesMatch, Occupied
<1>6. \A c \in Client : c \in heap' <=> client'[c] = "open"
  <2> SUFFICES ASSUME NEW c \in Client
               PROVE  c \in heap' <=> client'[c] = "open"
    OBVIOUS
  <2>1. CASE \E f \in F : connections[f] = c
    BY <2>1, CloseEffect
  <2>2. CASE ~\E f \in F : connections[f] = c
    BY <2>2, CloseEffect DEF ResourcesMatch
  <2>3. QED
    BY <2>1, <2>2
<1>7. QED
  BY <1>2, <1>3, <1>4, <1>5, <1>6 DEF ResourcesMatch

LEMMA NextMatch == TypeOK /\ ResourcesMatch /\ [Next]_vars => ResourcesMatch'
<1> SUFFICES ASSUME TypeOK, ResourcesMatch, [Next]_vars
             PROVE  ResourcesMatch'
  OBVIOUS
<1> USE DEF kernelVars, connVars, mainVars, workerVars
<1>1. CASE \/ Tick \/ Signal \/ LeaveLoop \/ ListenEvent \/ SkipCheck
           \/ AcceptStops
           \/ UNCHANGED vars
  BY <1>1, StaysMatched
     DEF Tick, Signal, LeaveLoop, ListenEvent, SkipCheck, AcceptStops, vars,
         Registering
<1>2. ASSUME NEW c \in Client, Connect(c) PROVE ResourcesMatch'
  BY <1>2 DEF Connect, ResourcesMatch, TypeOK, Occupied, Registering
<1>3. ASSUME NEW c \in Client, Send(c) \/ HangUp(c) PROVE ResourcesMatch'
  BY <1>3, StaysMatched DEF Send, HangUp, Registering
<1>4. CASE EpollWait
  BY <1>4 DEF EpollWait, ResourcesMatch, TypeOK, Occupied, Registering, Ready
<1>5. CASE CheckTimeout
  <2>1. Expired \subseteq Slot /\ Registering' = Registering
    BY <1>5 DEF CheckTimeout, Expired, Registering
  <2>2. QED
    BY <1>5, <2>1, CloseMatch DEF CheckTimeout
<1>6. ASSUME NEW f \in Fd, Dispatch(f) PROVE ResourcesMatch'
  BY <1>6, StaysMatched DEF Dispatch, Registering
<1>7. ASSUME NEW f \in Fd, DispatchFails(f) PROVE ResourcesMatch'
  <2>1. f \in Slot
    BY <1>7 DEF DispatchFails, TypeOK, ListenFd, Fd, SizesAssumption
  <2>2. Registering' = Registering
    BY <1>7 DEF DispatchFails, Registering
  <2>3. QED
    BY <1>7, <2>1, <2>2, CloseMatch DEF DispatchFails
<1>8. ASSUME NEW c \in Client, NEW f \in Fd, Accept(c, f) PROVE ResourcesMatch'
  <2>1. /\ f \in Slot /\ sock[f] = NULL /\ connections[f] = NULL
        /\ c \notin heap /\ c # NULL
    BY <1>8, NullAssumption DEF Accept, Backlog, FreeFd, ResourcesMatch
  <2>2. /\ sock' = [sock EXCEPT ![f] = c]
        /\ connections' = [connections EXCEPT ![f] = c]
        /\ heap' = heap \cup {c} /\ client' = [client EXCEPT ![c] = "open"]
        /\ watch' = watch /\ Registering' = {f} /\ Registering = {}
    BY <1>8 DEF Accept, Registering
  <2>3. Occupied' = Occupied \cup {f} /\ f \notin Occupied
    BY <2>1, <2>2 DEF TypeOK, Occupied
  <2>4. \A g \in Slot : connections[g] # c
    BY <2>1 DEF ResourcesMatch
  <2>5. \A g \in Fd : sock'[g] = IF g \in Slot THEN connections'[g] ELSE NULL
    BY <2>1, <2>2 DEF ResourcesMatch, TypeOK
  <2>6. \A g \in Fd : watch'[g] # "out" <=> g \in Occupied' \ Registering'
    BY <2>2, <2>3 DEF ResourcesMatch
  <2>7. \A d \in Client : d \in heap' <=> \E g \in Slot : connections'[g] = d
    <3>1. connections'[f] = c /\ \A g \in Slot : g # f => connections'[g] = connections[g]
      BY <2>1, <2>2 DEF TypeOK
    <3>2. c \in heap' /\ \A d \in Client : d # c => (d \in heap' <=> d \in heap)
      BY <2>2
    <3>3. ASSUME NEW d \in Client, d # c
          PROVE  d \in heap <=> \E g \in Slot : connections'[g] = d
      <4>1. d \in heap <=> \E g \in Slot : connections[g] = d
        BY DEF ResourcesMatch
      <4>2. connections[f] # d
        BY <2>1, NullAssumption
      <4>3. QED
        BY <3>1, <3>3, <4>1, <4>2
    <3>4. QED
      BY <2>1, <3>1, <3>2, <3>3
  <2>8. \A g, h \in Occupied' : connections'[g] = connections'[h] => g = h
    BY <2>1, <2>2, <2>3, <2>4 DEF ResourcesMatch, TypeOK, Occupied
  <2>9. \A d \in Client : d \in heap' <=> client'[d] = "open"
    BY <2>2 DEF ResourcesMatch, TypeOK
  <2>10. QED
    BY <2>5, <2>6, <2>7, <2>8, <2>9 DEF ResourcesMatch
<1>9. ASSUME NEW c \in Client, NEW f \in Fd, AcceptDrops(c, f)
      PROVE  ResourcesMatch'
  BY <1>9 DEF AcceptDrops, ResourcesMatch, TypeOK, Occupied, Registering, Backlog
<1>10. CASE Defined /\ Register
  BY <1>10 DEF Register, Defined, ResourcesMatch, TypeOK, Occupied, Registering
<1>11. CASE RegisterFails
  <2>1. {newFd} \in SUBSET Slot
    BY <1>11 DEF RegisterFails, TypeOK
  <2>2. Registering \subseteq {newFd} /\ Registering' = {}
    BY <1>11 DEF RegisterFails, Registering
  <2>3. QED
    BY <1>11, <2>1, <2>2, CloseMatch DEF RegisterFails
<1>12. CASE Cleanup
  <2>1. Registering' = Registering
    BY <1>12 DEF Cleanup, Registering
  <2>2. QED
    BY <1>12, <2>1, CloseMatch DEF Cleanup
<1>13. ASSUME NEW w \in Worker,
              \/ Take(w) \/ AcquireNothing(w) \/ Acquire(w) \/ Touch(w)
              \/ ReadBytes(w) \/ ReadDrained(w) \/ ReadEnds(w) \/ Incomplete(w)
              \/ Complete(w) \/ Serve(w) \/ ServeFails(w)
       PROVE  ResourcesMatch'
  BY <1>13, StaysMatched
     DEF Take, AcquireNothing, Acquire, Touch, ReadBytes, ReadDrained, ReadEnds,
         Incomplete, Complete, Serve, ServeFails, Registering
<1>14. ASSUME NEW w \in Worker, Rearm(w) \/ HandBack(w) PROVE ResourcesMatch'
  BY <1>14
     DEF Rearm, HandBack, Arm, ResourcesMatch, TypeOK, Occupied, Registering
<1>15. ASSUME NEW w \in Worker, Close(w) PROVE ResourcesMatch'
  <2>1. wfd[w] \in Slot
    BY <1>15 DEF Close, TypeOK, Busy
  <2>2. Registering' = Registering
    BY <1>15 DEF Close, Registering
  <2>3. QED
    BY <1>15, <2>1, <2>2, CloseMatch DEF Close
<1>16. QED
  BY <1>1, <1>2, <1>3, <1>4, <1>5, <1>6, <1>7, <1>8, <1>9, <1>10, <1>11,
     <1>12, <1>13, <1>14, <1>15, NextCases

(* No descriptor, epoll registration or structure leaks or is released twice,
   whatever two threads do to one connection, until behaviour is undefined. *)
THEOREM ResourcesMatched == Spec => []ResourcesMatch
<1>1. TypeOK /\ ResourcesMatch /\ [Next]_vars => TypeOK' /\ ResourcesMatch'
  BY NextTypeOK, NextMatch
<1>2. QED
  BY InitTypeOK, InitMatch, <1>1, PTL DEF Spec

-----------------------------------------------------------------------------
(* Exclusion *)

(* A worker's pointer is to its slot's connection, or to a closed one. *)
HeldPlace ==
    \A w \in Holding :
        /\ held[w] \in Client
        /\ held[w] \in heap => connections[wfd[w]] = held[w]
        /\ client[held[w]] \in {"open", "closed"}

(* Marks are on live structures, and each is a worker's. *)
Marks == inUse \subseteq heap /\ InUseIsHeld

(* Only the handling of one epoll_wait's events leaves events around. *)
MainPlaces == mpc \in {"poll", "drain", "done"} => events = {}

EInv ==
    /\ TypeOK
    /\ ResourcesMatch
    /\ HeldPlace
    /\ Marks
    /\ MainPlaces
    /\ OneOwner
    /\ HeldIsProtected
    /\ LeavesNothing

-----------------------------------------------------------------------------
(* The task queue as a set *)

LEMMA QueueAppend ==
    ASSUME NEW S, queue \in Seq(S), NEW f \in S, queue' = Append(queue, f)
    PROVE  /\ Queued' = Queued \cup {f}
           /\ f \notin Queued /\ (\A i, j \in DOMAIN queue : queue[i] = queue[j] => i = j)
              => \A i, j \in DOMAIN queue' : queue'[i] = queue'[j] => i = j
<1>1. /\ DOMAIN queue = 1..Len(queue) /\ Len(queue) \in Nat
      /\ DOMAIN queue' = 1..(Len(queue) + 1)
      /\ \A i \in 1..Len(queue) : queue'[i] = queue[i]
      /\ queue'[Len(queue) + 1] = f
  OBVIOUS
<1>2. Queued' = Queued \cup {f}
  BY <1>1 DEF Queued
<1>3. QED
  BY <1>1, <1>2 DEF Queued

LEMMA QueueTail ==
    ASSUME NEW S, queue \in Seq(S), queue # <<>>, queue' = Tail(queue),
           \A i, j \in DOMAIN queue : queue[i] = queue[j] => i = j
    PROVE  /\ Head(queue) \in Queued
           /\ Queued' = Queued \ {Head(queue)}
           /\ \A i, j \in DOMAIN queue' : queue'[i] = queue'[j] => i = j
<1>1. /\ DOMAIN queue = 1..Len(queue) /\ Len(queue) \in Nat /\ Len(queue) > 0
      /\ DOMAIN queue' = 1..(Len(queue) - 1)
      /\ \A i \in 1..(Len(queue) - 1) : queue'[i] = queue[i + 1]
      /\ Head(queue) = queue[1]
  OBVIOUS
<1>2. Head(queue) \in Queued
  BY <1>1 DEF Queued
<1>3. \A i \in 2..Len(queue) : i - 1 \in DOMAIN queue' /\ queue'[i - 1] = queue[i]
  BY <1>1
<1>4. Queued' = Queued \ {Head(queue)}
  <2>1. ASSUME NEW f \in Queued' PROVE f \in Queued /\ f # Head(queue)
    <3>1. PICK i \in DOMAIN queue' : f = queue'[i]
      BY DEF Queued
    <3>2. i + 1 \in DOMAIN queue /\ f = queue[i + 1] /\ i + 1 # 1
      BY <1>1, <3>1
    <3>3. 1 \in DOMAIN queue
      BY <1>1
    <3>4. QED
      BY <1>1, <3>2, <3>3 DEF Queued
  <2>2. ASSUME NEW f \in Queued, f # Head(queue) PROVE f \in Queued'
    <3>1. PICK i \in DOMAIN queue : f = queue[i]
      BY DEF Queued
    <3>2. i \in 2..Len(queue)
      BY <1>1, <2>2, <3>1
    <3>3. QED
      BY <1>3, <3>1, <3>2 DEF Queued
  <2>3. QED
    BY <2>1, <2>2
<1>5. \A i, j \in DOMAIN queue' : queue'[i] = queue'[j] => i = j
  <2> SUFFICES ASSUME NEW i \in DOMAIN queue', NEW j \in DOMAIN queue',
                      queue'[i] = queue'[j]
               PROVE  i = j
    OBVIOUS
  <2>1. i + 1 \in DOMAIN queue /\ j + 1 \in DOMAIN queue /\ queue[i + 1] = queue[j + 1]
    BY <1>1
  <2>2. i + 1 = j + 1
    BY <2>1
  <2>3. QED
    BY <1>1, <2>2
<1>6. QED
  BY <1>2, <1>4, <1>5

-----------------------------------------------------------------------------
(* Pointers, marks and the main thread's place *)

LEMMA InitEInv == Init => EInv
<1> SUFFICES ASSUME Init
             PROVE  EInv
  OBVIOUS
<1>1. TypeOK /\ ResourcesMatch
  BY InitTypeOK, InitMatch
<1>2. HeldPlace /\ Marks /\ MainPlaces /\ LeavesNothing /\ AllMarked
  BY DEF Init, HeldPlace, Holding, Marks, InUseIsHeld, MainPlaces, LeavesNothing,
         AllMarked
<1>3. EachOnce
  BY DEF Init, EachOnce, Busy, Occupied, Armed, Fired, Queued, Working, Registering
<1>4. QED
  BY <1>1, <1>2, <1>3 DEF EInv, OneOwner, HeldIsProtected

LEMMA NextHeldPlace ==
    TypeOK /\ ResourcesMatch /\ HeldPlace /\ [Next]_vars => HeldPlace'
<1> SUFFICES ASSUME TypeOK, ResourcesMatch, HeldPlace, [Next]_vars
             PROVE  HeldPlace'
  OBVIOUS
<1> USE DEF kernelVars, connVars, mainVars, workerVars
<1>1. ASSUME NEW F \in SUBSET Slot, CloseSlots(F),
             Holding' \subseteq Holding,
             \A w \in Holding' : wfd'[w] = wfd[w] /\ held'[w] = held[w]
      PROVE  HeldPlace'
  <2> SUFFICES ASSUME NEW w \in Holding'
               PROVE  /\ held[w] \in Client
                      /\ held[w] \in heap' => connections'[wfd[w]] = held[w]
                      /\ client'[held[w]] \in {"open", "closed"}
    BY <1>1 DEF HeldPlace
  <2>1. w \in Holding /\ held[w] \in Client /\ wfd[w] \in Slot
    BY <1>1 DEF HeldPlace, Holding, TypeOK, Busy
  <2>2. held[w] \in heap' =>
          held[w] \in heap /\ wfd[w] \notin F /\ connections[wfd[w]] = held[w]
    BY <1>1, <2>1, CloseEffect DEF HeldPlace
  <2>3. client'[held[w]] \in {"open", "closed"}
    BY <1>1, <2>1, CloseEffect DEF HeldPlace
  <2>4. QED
    BY <1>1, <2>1, <2>2, <2>3, CloseEffect
<1>2. CASE \/ Tick \/ Signal \/ EpollWait \/ LeaveLoop \/ ListenEvent
           \/ SkipCheck \/ AcceptStops \/ Register \/ UNCHANGED vars
  BY <1>2
     DEF Tick, Signal, EpollWait, LeaveLoop, ListenEvent, SkipCheck, AcceptStops,
         Register, vars, HeldPlace, Holding
<1>3. ASSUME NEW c \in Client, Connect(c) \/ Send(c) \/ HangUp(c)
      PROVE  HeldPlace'
  BY <1>3 DEF Connect, Send, HangUp, HeldPlace, Holding, TypeOK
<1>4. CASE CheckTimeout
  BY <1>1, <1>4 DEF CheckTimeout, Expired, Holding
<1>5. ASSUME NEW f \in Fd, Dispatch(f) PROVE HeldPlace'
  BY <1>5 DEF Dispatch, HeldPlace, Holding
<1>6. ASSUME NEW f \in Fd, DispatchFails(f) PROVE HeldPlace'
  <2>1. f \in Slot
    BY <1>6, SizesAssumption DEF DispatchFails, TypeOK, ListenFd, Fd
  <2>2. QED
    BY <1>1, <1>6, <2>1 DEF DispatchFails, Holding
<1>7. ASSUME NEW c \in Client, NEW f \in Fd, Accept(c, f) PROVE HeldPlace'
  <2>1. f \in Slot /\ connections[f] = NULL /\ client[c] = "backlog"
    BY <1>7 DEF Accept, FreeFd, Backlog, ResourcesMatch
  <2>2. /\ connections' = [connections EXCEPT ![f] = c]
        /\ heap' = heap \cup {c} /\ client' = [client EXCEPT ![c] = "open"]
        /\ Holding' = Holding /\ held' = held /\ wfd' = wfd
    BY <1>7 DEF Accept, Holding
  <2>3. ASSUME NEW w \in Holding
        PROVE  /\ held[w] \in heap' => connections'[wfd[w]] = held[w]
               /\ client'[held[w]] \in {"open", "closed"}
    <3>1. held[w] \in Client /\ held[w] # c /\ wfd[w] \in Slot
      BY <2>1 DEF HeldPlace, Holding, TypeOK, Busy
    <3>2. held[w] \in heap => wfd[w] # f
      BY <2>1, <3>1, NullAssumption DEF HeldPlace
    <3>3. QED
      BY <2>2, <3>1, <3>2 DEF HeldPlace, TypeOK
  <2>4. QED
    BY <2>2, <2>3 DEF HeldPlace
<1>8. ASSUME NEW c \in Client, NEW f \in Fd, AcceptDrops(c, f) PROVE HeldPlace'
  BY <1>8 DEF AcceptDrops, Backlog, HeldPlace, Holding, TypeOK
<1>9. CASE RegisterFails
  BY <1>1, <1>9 DEF RegisterFails, TypeOK, Holding
<1>10. CASE Cleanup
  BY <1>1, <1>10 DEF Cleanup, Holding
<1>11. ASSUME NEW w \in Worker, Take(w) PROVE HeldPlace'
  BY <1>11 DEF Take, Goto, HeldPlace, Holding, TypeOK
<1>12. ASSUME NEW w \in Worker, AcquireNothing(w) PROVE HeldPlace'
  BY <1>12 DEF AcquireNothing, Return, HeldPlace, Holding, TypeOK
<1>13. ASSUME NEW w \in Worker, Acquire(w) PROVE HeldPlace'
  <2>1. wfd[w] \in Slot /\ connections[wfd[w]] \in heap
    BY <1>13 DEF Acquire, TypeOK, Busy, ResourcesMatch
  <2>2. Holding' = Holding \cup {w} /\ w \notin Holding
    BY <1>13 DEF Acquire, Goto, Holding, TypeOK
  <2>3. /\ held'[w] = connections[wfd[w]]
        /\ \A v \in Holding : held'[v] = held[v]
        /\ UNCHANGED <<wfd, heap, connections, client>>
    BY <1>13, <2>2 DEF Acquire, TypeOK, Holding
  <2>4. connections[wfd[w]] \in Client /\ client[connections[wfd[w]]] = "open"
    BY <2>1 DEF TypeOK, ResourcesMatch
  <2>5. QED
    BY <2>1, <2>2, <2>3, <2>4 DEF HeldPlace
<1>14. ASSUME NEW w \in Worker,
              \/ Touch(w) \/ ReadBytes(w) \/ ReadDrained(w) \/ ReadEnds(w)
              \/ Incomplete(w) \/ Complete(w) \/ Serve(w) \/ ServeFails(w)
       PROVE  HeldPlace'
  <2>1. Holding' \subseteq Holding
    BY <1>14
       DEF Touch, ReadBytes, ReadDrained, ReadEnds, Incomplete, Complete, Serve,
           ServeFails, Goto, Holding, TypeOK
  <2>2. UNCHANGED <<held, wfd, heap, connections, client>>
    BY <1>14
       DEF Touch, ReadBytes, ReadDrained, ReadEnds, Incomplete, Complete, Serve,
           ServeFails
  <2>3. QED
    BY <2>1, <2>2 DEF HeldPlace
<1>15. ASSUME NEW w \in Worker, Rearm(w) \/ HandBack(w) PROVE HeldPlace'
  BY <1>15 DEF Rearm, HandBack, Return, HeldPlace, Holding, TypeOK
<1>16. ASSUME NEW w \in Worker, Close(w) PROVE HeldPlace'
  <2>1. {wfd[w]} \in SUBSET Slot
    BY <1>16 DEF Close, TypeOK, Busy
  <2>2. /\ Holding' \subseteq Holding
        /\ \A v \in Holding' : wfd'[v] = wfd[v] /\ held'[v] = held[v]
    BY <1>16 DEF Close, Return, Holding, TypeOK
  <2>3. QED
    BY <1>1, <1>16, <2>1, <2>2 DEF Close
<1>17. QED
  BY <1>2, <1>3, <1>4, <1>5, <1>6, <1>7, <1>8, <1>9, <1>10, <1>11, <1>12,
     <1>13, <1>14, <1>15, <1>16, NextCases

LEMMA NextMarks ==
    TypeOK /\ ResourcesMatch /\ HeldPlace /\ Marks /\ [Next]_vars => Marks'
<1> SUFFICES ASSUME TypeOK, ResourcesMatch, HeldPlace, Marks, [Next]_vars
             PROVE  Marks'
  OBVIOUS
<1> USE DEF kernelVars, connVars, mainVars, workerVars
<1>1. ASSUME NEW F \in SUBSET Slot, CloseSlots(F),
             \A w \in Holding : \/ w \in Holding' /\ held'[w] = held[w]
                                \/ held[w] \notin inUse'
      PROVE  Marks'
  <2>1. inUse' \subseteq heap' /\ inUse' \subseteq inUse
    BY <1>1, CloseEffect DEF Marks, TypeOK, CloseSlots
  <2>2. InUseIsHeld'
    BY <1>1, <2>1 DEF Marks, InUseIsHeld
  <2>3. QED
    BY <2>1, <2>2 DEF Marks
<1>2. CASE \/ Tick \/ Signal \/ EpollWait \/ LeaveLoop \/ ListenEvent
           \/ SkipCheck \/ AcceptStops \/ Register \/ UNCHANGED vars
  BY <1>2
     DEF Tick, Signal, EpollWait, LeaveLoop, ListenEvent, SkipCheck, AcceptStops,
         Register, vars, Marks, InUseIsHeld, Holding
<1>3. ASSUME NEW c \in Client, Connect(c) \/ Send(c) \/ HangUp(c)
      PROVE  Marks'
  BY <1>3 DEF Connect, Send, HangUp, Marks, InUseIsHeld, Holding
<1>4. CASE CheckTimeout
  BY <1>1, <1>4 DEF CheckTimeout, Expired, Holding
<1>5. ASSUME NEW f \in Fd, Dispatch(f) PROVE Marks'
  BY <1>5 DEF Dispatch, Marks, InUseIsHeld, Holding
<1>6. ASSUME NEW f \in Fd, DispatchFails(f) PROVE Marks'
  <2>1. f \in Slot
    BY <1>6, SizesAssumption DEF DispatchFails, TypeOK, ListenFd, Fd
  <2>2. QED
    BY <1>1, <1>6, <2>1 DEF DispatchFails, Holding
<1>7. ASSUME NEW c \in Client, NEW f \in Fd, Accept(c, f) \/ AcceptDrops(c, f)
      PROVE  Marks'
  BY <1>7 DEF Accept, AcceptDrops, Marks, InUseIsHeld, Holding
<1>8. CASE RegisterFails
  BY <1>1, <1>8 DEF RegisterFails, TypeOK, Holding
<1>9. CASE Cleanup
  BY <1>1, <1>9 DEF Cleanup, Holding
<1>10. ASSUME NEW w \in Worker, Take(w) \/ AcquireNothing(w) \/ Rearm(w)
       PROVE  Marks'
  <2>1. Holding' = Holding /\ UNCHANGED <<inUse, heap>> /\ \A v \in Holding : held'[v] = held[v]
    BY <1>10 DEF Take, AcquireNothing, Rearm, Goto, Return, Holding, TypeOK
  <2>2. QED
    BY <2>1 DEF Marks, InUseIsHeld
<1>11. ASSUME NEW w \in Worker, Acquire(w) PROVE Marks'
  <2>1. wfd[w] \in Slot /\ connections[wfd[w]] \in heap
    BY <1>11 DEF Acquire, TypeOK, Busy, ResourcesMatch
  <2>2. Holding' = Holding \cup {w} /\ w \notin Holding
    BY <1>11 DEF Acquire, Goto, Holding, TypeOK
  <2>3. /\ held'[w] = connections[wfd[w]]
        /\ \A v \in Holding : held'[v] = held[v]
        /\ inUse' = inUse \cup {connections[wfd[w]]} /\ heap' = heap
    BY <1>11, <2>2 DEF Acquire, TypeOK, Holding
  <2>4. QED
    BY <2>1, <2>2, <2>3 DEF Marks, InUseIsHeld
<1>12. ASSUME NEW w \in Worker,
              \/ Touch(w) \/ ReadBytes(w) \/ ReadDrained(w) \/ ReadEnds(w)
              \/ Complete(w) \/ Serve(w) \/ ServeFails(w)
       PROVE  Marks'
  <2>1. Holding' = Holding
    BY <1>12
       DEF Touch, ReadBytes, ReadDrained, ReadEnds, Complete, Serve, ServeFails,
           Goto, Holding, TypeOK
  <2>2. UNCHANGED <<held, heap, inUse>>
    BY <1>12
       DEF Touch, ReadBytes, ReadDrained, ReadEnds, Complete, Serve, ServeFails
  <2>3. QED
    BY <2>1, <2>2 DEF Marks, InUseIsHeld
<1>13. ASSUME NEW w \in Worker, Incomplete(w) \/ HandBack(w) PROVE Marks'
  <2>1. Holding' = Holding \ {w} /\ inUse' = inUse \ {held[w]} /\ heap' = heap
    BY <1>13 DEF Incomplete, HandBack, Goto, Return, Holding, TypeOK
  <2>2. \A v \in Holding' : held'[v] = held[v]
    BY <1>13, <2>1 DEF Incomplete, HandBack, Return, TypeOK, Holding
  <2>3. QED
    BY <2>1, <2>2 DEF Marks, InUseIsHeld
<1>14. ASSUME NEW w \in Worker, Close(w) PROVE Marks'
  <2>1. {wfd[w]} \in SUBSET Slot /\ w \in Holding
    BY <1>14 DEF Close, TypeOK, Busy, Holding
  <2>2. held[w] \notin inUse'
    <3>1. CASE held[w] \in heap
      BY <1>14, <2>1, <3>1, CloseEffect DEF Close, HeldPlace
    <3>2. CASE held[w] \notin heap
      BY <1>14, <3>2 DEF Close, CloseSlots, Marks
    <3>3. QED
      BY <3>1, <3>2
  <2>3. \A v \in Holding : v # w => v \in Holding' /\ held'[v] = held[v]
    BY <1>14 DEF Close, Return, Holding, TypeOK
  <2>4. QED
    BY <1>1, <1>14, <2>1, <2>2, <2>3 DEF Close
<1>15. QED
  BY <1>2, <1>3, <1>4, <1>5, <1>6, <1>7, <1>8, <1>9, <1>10, <1>11, <1>12,
     <1>13, <1>14, NextCases

LEMMA NextMainPlaces == TypeOK /\ MainPlaces /\ [Next]_vars => MainPlaces'
<1> SUFFICES ASSUME TypeOK, MainPlaces, [Next]_vars
             PROVE  MainPlaces'
  OBVIOUS
<1> USE DEF MainPlaces, mainVars
<1>1. CASE \/ Tick \/ Signal \/ EpollWait \/ LeaveLoop \/ ListenEvent
           \/ CheckTimeout \/ SkipCheck \/ Register \/ RegisterFails
           \/ AcceptStops \/ Cleanup \/ UNCHANGED vars
  BY <1>1
     DEF Tick, Signal, EpollWait, LeaveLoop, ListenEvent, CheckTimeout, SkipCheck,
         Register, RegisterFails, AcceptStops, Cleanup, vars
<1>2. ASSUME NEW c \in Client, Connect(c) \/ Send(c) \/ HangUp(c)
      PROVE  MainPlaces'
  BY <1>2 DEF Connect, Send, HangUp
<1>3. ASSUME NEW f \in Fd, Dispatch(f) \/ DispatchFails(f) PROVE MainPlaces'
  BY <1>3 DEF Dispatch, DispatchFails
<1>4. ASSUME NEW c \in Client, NEW f \in Fd, Accept(c, f) \/ AcceptDrops(c, f)
      PROVE  MainPlaces'
  BY <1>4 DEF Accept, AcceptDrops
<1>5. ASSUME NEW w \in Worker,
             \/ Take(w) \/ AcquireNothing(w) \/ Acquire(w) \/ Touch(w)
             \/ ReadBytes(w) \/ ReadDrained(w) \/ ReadEnds(w) \/ Incomplete(w)
             \/ Rearm(w) \/ Complete(w) \/ Serve(w) \/ ServeFails(w)
             \/ HandBack(w) \/ Close(w)
      PROVE  MainPlaces'
  BY <1>5
     DEF Take, AcquireNothing, Acquire, Touch, ReadBytes, ReadDrained, ReadEnds,
         Incomplete, Rearm, Complete, Serve, ServeFails, HandBack, Close
<1>6. QED
  BY <1>1, <1>2, <1>3, <1>4, <1>5, NextCases

-----------------------------------------------------------------------------
(* Every connection in one place *)

(* Closing the slots F takes their descriptors out of the epoll instance and
   of connections[]. *)
LEMMA ClosePlaces ==
    ASSUME TypeOK, ResourcesMatch, NEW F \in SUBSET Slot, CloseSlots(F)
    PROVE  Occupied' = Occupied \ F /\ Armed' = Armed \ F
BY CloseEffect DEF Occupied, Armed

(* The workers that go on holding a connection outside F keep their marks. *)
LEMMA CloseMarks ==
    ASSUME TypeOK, ResourcesMatch, HeldPlace, AllMarked,
           NEW F \in SUBSET Slot, CloseSlots(F),
           \A w \in Holding' : /\ w \in Holding /\ wfd[w] \notin F
                               /\ held'[w] = held[w] /\ wfd'[w] = wfd[w]
    PROVE  AllMarked'
<1> SUFFICES ASSUME NEW w \in Holding'
             PROVE  held[w] \in inUse' /\ held[w] = connections'[wfd[w]]
  BY DEF AllMarked
<1>1. /\ w \in Holding /\ wfd[w] \in Slot \ F /\ held[w] \in Client
      /\ held[w] \in inUse /\ held[w] = connections[wfd[w]]
  BY DEF AllMarked, HeldPlace, TypeOK, Busy, Holding
<1>2. \A f \in F : connections[f] # held[w]
  BY <1>1, NullAssumption DEF ResourcesMatch, Occupied
<1>3. QED
  BY <1>1, <1>2, CloseEffect

(* A step that moves no descriptor. *)
LEMMA OnceStays ==
    ASSUME EachOnce, UNCHANGED <<queue, connections>>,
           Armed' = Armed, Fired' = Fired, Registering' = Registering,
           Busy' = Busy, \A w \in Busy : wfd'[w] = wfd[w]
    PROVE  EachOnce'
<1>1. Occupied' = Occupied /\ Queued' = Queued /\ Working' = Working
  BY DEF Occupied, Queued, Working
<1>2. QED
  BY <1>1 DEF EachOnce

(* A step that takes the descriptors F out of wherever they are. *)
LEMMA OnceRemoved ==
    ASSUME EachOnce, NEW F,
           \A i, j \in DOMAIN queue' : queue'[i] = queue'[j] => i = j,
           \A v, w \in Busy' : wfd'[v] = wfd'[w] => v = w,
           Occupied' = Occupied \ F, Armed' = Armed \ F, Fired' = Fired \ F,
           Queued' = Queued \ F, Working' = Working \ F,
           Registering' = Registering \ F
    PROVE  EachOnce'
BY DEF EachOnce

(* The end of a worker's task frees its descriptor. *)
LEMMA ReturnWorking ==
    ASSUME TypeOK, EachOnce, NEW w \in Busy, Return(w)
    PROVE  /\ Working' = Working \ {wfd[w]}
           /\ \A u, v \in Busy' : wfd'[u] = wfd'[v] => u = v
<1>1. Busy' = Busy \ {w} /\ \A v \in Busy' : wfd'[v] = wfd[v]
  BY DEF Return, Busy, TypeOK
<1>2. QED
  BY <1>1 DEF EachOnce, Working

LEMMA NextOnce ==
    ASSUME TypeOK, ResourcesMatch, HeldPlace, Marks, MainPlaces, EachOnce,
           AllMarked, [Next]_vars, overtaken' = 0
    PROVE  EachOnce'
<1> USE DEF kernelVars, connVars, mainVars, workerVars
<1>1. CASE \/ Tick \/ Signal \/ LeaveLoop \/ ListenEvent \/ SkipCheck
           \/ AcceptStops \/ UNCHANGED vars
  BY <1>1, OnceStays
     DEF Tick, Signal, LeaveLoop, ListenEvent, SkipCheck, AcceptStops, vars,
         Armed, Fired, Registering, Busy
<1>2. ASSUME NEW c \in Client, Connect(c) \/ Send(c) \/ HangUp(c)
      PROVE  EachOnce'
  BY <1>2, OnceStays
     DEF Connect, Send, HangUp, Armed, Fired, Registering, Busy
<1>3. CASE EpollWait
  <2>1. Fired = {} /\ Fired' = Ready
    BY <1>3, SizesAssumption
       DEF EpollWait, MainPlaces, Fired, Ready, Fd, ListenFd
  <2>2. Ready \subseteq Armed /\ Armed' = Armed \ Ready
    BY <1>3 DEF EpollWait, Ready, Armed, TypeOK
  <2>3. /\ UNCHANGED <<queue, connections, wpc, wfd>>
        /\ Registering = {} /\ Registering' = {}
    BY <1>3 DEF EpollWait, Registering
  <2>4. Occupied' = Occupied /\ Queued' = Queued /\ Working' = Working /\ Busy' = Busy
    BY <2>3 DEF Occupied, Queued, Working, Busy
  <2>5. QED
    BY <2>1, <2>2, <2>3, <2>4 DEF EachOnce
<1>4. CASE CheckTimeout
  <2>1. Expired \in SUBSET Slot /\ CloseSlots(Expired) /\ Expired \cap Pending = {}
    BY <1>4 DEF CheckTimeout, Expired
  <2>2. Expired \subseteq Occupied
    BY NullAssumption DEF Expired, At, Occupied
  <2>3. Fired = {} /\ Registering = {} /\ Expired \cap Queued = {}
    BY <1>4, <2>1 DEF CheckTimeout, Fired, Registering, Pending
  <2>4. Expired \cap Working = {}
    <3> SUFFICES ASSUME NEW w \in Busy, wfd[w] \in Expired
                 PROVE  FALSE
      BY DEF Working
    <3>1. w \in Holding
      BY <2>1 DEF Pending
    <3>2. held[w] \in inUse /\ held[w] = connections[wfd[w]]
      BY <3>1 DEF AllMarked
    <3>3. QED
      BY <3>2 DEF Expired, At
  <2>5. Occupied' = Occupied \ Expired /\ Armed' = Armed \ Expired
    BY <2>1, ClosePlaces
  <2>6. /\ UNCHANGED <<queue, wpc, wfd, events>>
        /\ Registering' = {}
    BY <1>4 DEF CheckTimeout, Registering
  <2>7. Fired' = Fired /\ Queued' = Queued /\ Working' = Working /\ Busy' = Busy
    BY <2>6 DEF Fired, Queued, Working, Busy
  <2>8. QED
    BY <2>3, <2>4, <2>5, <2>6, <2>7, OnceRemoved DEF EachOnce
<1>5. ASSUME NEW f \in Fd, Dispatch(f) PROVE EachOnce'
  <2>1. f \in Fired /\ f \in Fd \cap Slot /\ Fired' = Fired \ {f}
    BY <1>5, SizesAssumption DEF Dispatch, Fired, TypeOK, ListenFd, Fd
  <2>2. f \notin Queued
    BY <2>1 DEF EachOnce
  <2>3. /\ Queued' = Queued \cup {f}
        /\ \A i, j \in DOMAIN queue' : queue'[i] = queue'[j] => i = j
    BY <1>5, <2>1, <2>2, QueueAppend DEF Dispatch, TypeOK, EachOnce
  <2>4. UNCHANGED <<watch, connections, mpc, newFd, wpc, wfd>>
    BY <1>5 DEF Dispatch
  <2>5. /\ Occupied' = Occupied /\ Armed' = Armed /\ Working' = Working
        /\ Busy' = Busy /\ Registering' = Registering
    BY <2>4 DEF Occupied, Armed, Working, Busy, Registering
  <2>6. QED
    BY <2>1, <2>3, <2>4, <2>5 DEF EachOnce
<1>6. ASSUME NEW f \in Fd, DispatchFails(f) PROVE EachOnce'
  <2>1. f \in Fired /\ f \in Slot /\ Fired' = Fired \ {f}
    BY <1>6, SizesAssumption DEF DispatchFails, Fired, TypeOK, ListenFd, Fd
  <2>2. Occupied' = Occupied \ {f} /\ Armed' = Armed \ {f}
    BY <1>6, <2>1, ClosePlaces DEF DispatchFails
  <2>3. UNCHANGED <<queue, mpc, newFd, wpc, wfd>>
    BY <1>6 DEF DispatchFails
  <2>4. /\ Queued' = Queued /\ Working' = Working /\ Busy' = Busy
        /\ Registering' = Registering
    BY <2>3 DEF Queued, Working, Busy, Registering
  <2>5. QED
    BY <2>1, <2>2, <2>3, <2>4, OnceRemoved DEF EachOnce
<1>7. ASSUME NEW c \in Client, NEW f \in Fd, Accept(c, f) PROVE EachOnce'
  <2>1. f \in Slot /\ connections[f] = NULL
    BY <1>7 DEF Accept, FreeFd, ResourcesMatch
  <2>2. Occupied' = Occupied \cup {f} /\ f \notin Occupied
    BY <1>7, <2>1, NullAssumption DEF Accept, Occupied, TypeOK
  <2>3. /\ UNCHANGED <<queue, watch, events, wpc, wfd>>
        /\ Registering = {} /\ Registering' = {f}
    BY <1>7 DEF Accept, Registering
  <2>4. /\ Queued' = Queued /\ Armed' = Armed /\ Fired' = Fired
        /\ Working' = Working /\ Busy' = Busy
    BY <2>3 DEF Queued, Armed, Fired, Working, Busy
  <2>5. QED
    BY <2>2, <2>3, <2>4 DEF EachOnce
<1>8. ASSUME NEW c \in Client, NEW f \in Fd, AcceptDrops(c, f) PROVE EachOnce'
  BY <1>8, OnceStays DEF AcceptDrops, Armed, Fired, Registering, Busy
<1>9. CASE Defined /\ Register
  <2>1. newFd \in Fd /\ Registering = {newFd} /\ Registering' = {}
    BY <1>9 DEF Register, Registering, TypeOK
  <2>2. Armed' = Armed \cup {newFd}
    BY <1>9, <2>1 DEF Register, Armed, TypeOK
  <2>3. UNCHANGED <<queue, connections, events, wpc, wfd>>
    BY <1>9 DEF Register
  <2>4. /\ Occupied' = Occupied /\ Queued' = Queued /\ Fired' = Fired
        /\ Working' = Working /\ Busy' = Busy
    BY <2>3 DEF Occupied, Queued, Fired, Working, Busy
  <2>5. QED
    BY <2>1, <2>2, <2>3, <2>4 DEF EachOnce
<1>10. CASE RegisterFails
  <2>1. newFd \in Slot /\ Registering = {newFd} /\ Registering' = {}
    BY <1>10 DEF RegisterFails, Registering, TypeOK
  <2>2. Occupied' = Occupied \ {newFd} /\ Armed' = Armed \ {newFd}
    BY <1>10, <2>1, ClosePlaces DEF RegisterFails
  <2>3. UNCHANGED <<queue, events, wpc, wfd>>
    BY <1>10 DEF RegisterFails
  <2>4. Queued' = Queued /\ Fired' = Fired /\ Working' = Working /\ Busy' = Busy
    BY <2>3 DEF Queued, Fired, Working, Busy
  <2>5. QED
    BY <2>1, <2>2, <2>3, <2>4, OnceRemoved DEF EachOnce
<1>11. CASE Cleanup
  <2>1. Fired = {} /\ Queued = {} /\ Working = {} /\ Registering = {} /\ Busy = {}
    BY <1>11 DEF Cleanup, MainPlaces, Fired, Queued, Working, Registering
  <2>2. Occupied' = Occupied \ Slot /\ Armed' = Armed \ Slot
    BY <1>11, ClosePlaces DEF Cleanup
  <2>3. UNCHANGED <<queue, events, wpc, wfd>> /\ Registering' = {}
    BY <1>11 DEF Cleanup, Registering
  <2>4. Queued' = Queued /\ Fired' = Fired /\ Working' = Working /\ Busy' = Busy
    BY <2>3 DEF Queued, Fired, Working, Busy
  <2>5. QED
    BY <2>1, <2>2, <2>3, <2>4, OnceRemoved DEF EachOnce
<1>12. ASSUME NEW w \in Worker, Take(w) PROVE EachOnce'
  <2>1. /\ Head(queue) \in Queued
        /\ Queued' = Queued \ {Head(queue)}
        /\ \A i, j \in DOMAIN queue' : queue'[i] = queue'[j] => i = j
    BY <1>12, QueueTail DEF Take, TypeOK, EachOnce
  <2>2. /\ Busy' = Busy \cup {w} /\ w \notin Busy
        /\ wfd'[w] = Head(queue) /\ \A v \in Busy : wfd'[v] = wfd[v]
    BY <1>12 DEF Take, Goto, Busy, TypeOK
  <2>3. Working' = Working \cup {Head(queue)}
    BY <2>2 DEF Working
  <2>4. \A u, v \in Busy' : wfd'[u] = wfd'[v] => u = v
    <3>1. \A v \in Busy : wfd[v] # Head(queue)
      BY <2>1 DEF EachOnce, Working
    <3>2. QED
      BY <2>2, <3>1 DEF EachOnce
  <2>5. UNCHANGED <<watch, connections, events, mpc, newFd>>
    BY <1>12 DEF Take
  <2>6. /\ Occupied' = Occupied /\ Armed' = Armed /\ Fired' = Fired
        /\ Registering' = Registering
    BY <2>5 DEF Occupied, Armed, Fired, Registering
  <2>7. QED
    BY <2>1, <2>3, <2>4, <2>6 DEF EachOnce
<1>13. ASSUME NEW w \in Worker, AcquireNothing(w) PROVE EachOnce'
  <2>1. wfd[w] \in Working /\ wfd[w] \notin Occupied
    BY <1>13 DEF AcquireNothing, Working, Busy, Occupied
  <2>2. QED
    BY <2>1 DEF EachOnce
<1>14. ASSUME NEW w \in Worker,
              \/ Acquire(w) \/ Touch(w) \/ ReadBytes(w) \/ ReadDrained(w)
              \/ ReadEnds(w) \/ Incomplete(w) \/ Complete(w) \/ Serve(w)
              \/ ServeFails(w)
       PROVE  EachOnce'
  <2>1. Busy' = Busy
    BY <1>14
       DEF Acquire, Touch, ReadBytes, ReadDrained, ReadEnds, Incomplete, Complete,
           Serve, ServeFails, Goto, Busy, TypeOK
  <2>2. UNCHANGED <<queue, connections, watch, events, mpc, newFd, wfd>>
    BY <1>14
       DEF Acquire, Touch, ReadBytes, ReadDrained, ReadEnds, Incomplete, Complete,
           Serve, ServeFails
  <2>3. QED
    BY <2>1, <2>2, OnceStays DEF Armed, Fired, Registering
<1>15. ASSUME NEW w \in Worker, Rearm(w) \/ HandBack(w) PROVE EachOnce'
  <2>1. w \in Busy /\ wfd[w] \in Working /\ wfd[w] \in Fd
    BY <1>15 DEF Rearm, HandBack, Busy, Working, TypeOK
  <2>2. /\ Working' = Working \ {wfd[w]}
        /\ \A u, v \in Busy' : wfd'[u] = wfd'[v] => u = v
    BY <1>15, <2>1, ReturnWorking DEF Rearm, HandBack
  <2>3. watch[wfd[w]] # "out"
    BY <2>1 DEF EachOnce, ResourcesMatch
  <2>4. Armed' = Armed \cup {wfd[w]}
    BY <1>15, <2>1, <2>3 DEF Rearm, HandBack, Arm, Armed
  <2>5. UNCHANGED <<queue, connections, events, mpc, newFd>>
    BY <1>15 DEF Rearm, HandBack
  <2>6. /\ Occupied' = Occupied /\ Queued' = Queued /\ Fired' = Fired
        /\ Registering' = Registering
    BY <2>5 DEF Occupied, Queued, Fired, Registering
  <2>7. QED
    BY <2>1, <2>2, <2>4, <2>5, <2>6 DEF EachOnce
<1>16. ASSUME NEW w \in Worker, Close(w) PROVE EachOnce'
  <2>1. w \in Busy /\ wfd[w] \in Working /\ wfd[w] \in Slot
    BY <1>16 DEF Close, Busy, Working, TypeOK
  <2>2. /\ Working' = Working \ {wfd[w]}
        /\ \A u, v \in Busy' : wfd'[u] = wfd'[v] => u = v
    BY <1>16, <2>1, ReturnWorking DEF Close
  <2>3. Occupied' = Occupied \ {wfd[w]} /\ Armed' = Armed \ {wfd[w]}
    BY <1>16, <2>1, ClosePlaces DEF Close
  <2>4. UNCHANGED <<queue, events, mpc, newFd>>
    BY <1>16 DEF Close
  <2>5. Queued' = Queued /\ Fired' = Fired /\ Registering' = Registering
    BY <2>4 DEF Queued, Fired, Registering
  <2>6. QED
    BY <2>1, <2>2, <2>3, <2>4, <2>5, OnceRemoved DEF EachOnce
<1>17. QED
  BY <1>1, <1>2, <1>3, <1>4, <1>5, <1>6, <1>7, <1>8, <1>9, <1>10, <1>11,
     <1>12, <1>13, <1>14, <1>15, <1>16, NextCases

-----------------------------------------------------------------------------
(* Every held connection marked *)

LEMMA NextMarked ==
    ASSUME TypeOK, ResourcesMatch, HeldPlace, Marks, MainPlaces, EachOnce,
           AllMarked, [Next]_vars, overtaken' = 0
    PROVE  AllMarked'
<1> USE DEF kernelVars, connVars, mainVars, workerVars
<1>1. ASSUME Holding' \subseteq Holding,
             \A w \in Holding' : held'[w] = held[w] /\ wfd'[w] = wfd[w],
             \A w \in Holding' : held[w] \in inUse',
             \A w \in Holding' : connections'[wfd[w]] = connections[wfd[w]]
      PROVE  AllMarked'
  BY <1>1 DEF AllMarked
<1>2. CASE \/ Tick \/ Signal \/ EpollWait \/ LeaveLoop \/ ListenEvent
           \/ SkipCheck \/ AcceptStops \/ Register \/ UNCHANGED vars
  BY <1>2
     DEF Tick, Signal, EpollWait, LeaveLoop, ListenEvent, SkipCheck, AcceptStops,
         Register, vars, AllMarked, Holding
<1>3. ASSUME NEW c \in Client, Connect(c) \/ Send(c) \/ HangUp(c)
      PROVE  AllMarked'
  BY <1>3 DEF Connect, Send, HangUp, AllMarked, Holding
<1>4. CASE CheckTimeout
  <2>1. Expired \in SUBSET Slot /\ CloseSlots(Expired)
    BY <1>4 DEF CheckTimeout, Expired
  <2>2. \A w \in Holding : wfd[w] \notin Expired
    BY DEF AllMarked, Expired, At
  <2>3. QED
    BY <1>4, <2>1, <2>2, CloseMarks DEF CheckTimeout, Holding
<1>5. ASSUME NEW f \in Fd, Dispatch(f) PROVE AllMarked'
  BY <1>5 DEF Dispatch, AllMarked, Holding
<1>6. ASSUME NEW f \in Fd, DispatchFails(f) PROVE AllMarked'
  <2>1. f \in Slot /\ f \in Fired
    BY <1>6, SizesAssumption DEF DispatchFails, Fired, TypeOK, ListenFd, Fd
  <2>2. \A w \in Holding : wfd[w] # f
    BY <2>1 DEF EachOnce, Working, Holding, Busy
  <2>3. QED
    BY <1>6, <2>1, <2>2, CloseMarks DEF DispatchFails, Holding
<1>7. ASSUME NEW c \in Client, NEW f \in Fd, Accept(c, f) PROVE AllMarked'
  <2>1. f \notin Occupied
    BY <1>7 DEF Accept, FreeFd, ResourcesMatch, Occupied
  <2>2. \A w \in Holding : wfd[w] # f /\ wfd[w] \in Slot
    BY <2>1 DEF EachOnce, Working, Holding, Busy, TypeOK
  <2>3. QED
    BY <1>7, <2>2 DEF Accept, AllMarked, Holding, TypeOK
<1>8. ASSUME NEW c \in Client, NEW f \in Fd, AcceptDrops(c, f) PROVE AllMarked'
  BY <1>8 DEF AcceptDrops, AllMarked, Holding
<1>9. CASE RegisterFails
  <2>1. newFd \in Slot /\ newFd \in Registering
    BY <1>9 DEF RegisterFails, Registering, TypeOK
  <2>2. \A w \in Holding : wfd[w] # newFd
    BY <2>1 DEF EachOnce, Working, Holding, Busy
  <2>3. QED
    BY <1>9, <2>1, <2>2, CloseMarks DEF RegisterFails, Holding
<1>10. CASE Cleanup
  BY <1>10 DEF Cleanup, AllMarked, Holding, Busy
<1>11. ASSUME NEW w \in Worker, Take(w) \/ AcquireNothing(w) \/ Rearm(w)
       PROVE  AllMarked'
  <2>1. Holding' = Holding /\ w \notin Holding
    BY <1>11 DEF Take, AcquireNothing, Rearm, Goto, Return, Holding, TypeOK
  <2>2. /\ \A v \in Holding : held'[v] = held[v] /\ wfd'[v] = wfd[v]
        /\ UNCHANGED <<inUse, connections>>
    BY <1>11, <2>1 DEF Take, AcquireNothing, Rearm, Return, Holding, TypeOK
  <2>3. QED
    BY <1>1, <2>1, <2>2 DEF AllMarked
<1>12. ASSUME NEW w \in Worker, Acquire(w) PROVE AllMarked'
  <2>1. Holding' = Holding \cup {w} /\ w \notin Holding
    BY <1>12 DEF Acquire, Goto, Holding, TypeOK
  <2>2. /\ held'[w] = connections[wfd[w]]
        /\ \A v \in Holding : held'[v] = held[v]
        /\ inUse' = inUse \cup {connections[wfd[w]]}
        /\ UNCHANGED <<wfd, connections>>
    BY <1>12, <2>1 DEF Acquire, TypeOK, Holding
  <2>3. QED
    BY <2>1, <2>2 DEF AllMarked
<1>13. ASSUME NEW w \in Worker,
              \/ Touch(w) \/ ReadBytes(w) \/ ReadDrained(w) \/ ReadEnds(w)
              \/ Complete(w) \/ Serve(w) \/ ServeFails(w)
       PROVE  AllMarked'
  <2>1. Holding' = Holding
    BY <1>13
       DEF Touch, ReadBytes, ReadDrained, ReadEnds, Complete, Serve, ServeFails,
           Goto, Holding, TypeOK
  <2>2. UNCHANGED <<held, wfd, inUse, connections>>
    BY <1>13
       DEF Touch, ReadBytes, ReadDrained, ReadEnds, Complete, Serve, ServeFails
  <2>3. QED
    BY <2>1, <2>2 DEF AllMarked
<1>14. ASSUME NEW w \in Worker, Incomplete(w) \/ HandBack(w) PROVE AllMarked'
  <2>1. /\ Holding' = Holding \ {w} /\ w \in Holding
        /\ inUse' = inUse \ {held[w]} /\ connections' = connections
    BY <1>14 DEF Incomplete, HandBack, Goto, Return, Holding, TypeOK
  <2>2. \A v \in Holding' : held'[v] = held[v] /\ wfd'[v] = wfd[v]
    BY <1>14, <2>1 DEF Incomplete, HandBack, Return, TypeOK, Holding
  <2>3. \A v \in Holding' : held[v] # held[w]
    <3> SUFFICES ASSUME NEW v \in Holding', held[v] = held[w]
                 PROVE  FALSE
      OBVIOUS
    <3>1. /\ v \in Busy /\ w \in Busy /\ v # w /\ v \in Holding
          /\ wfd[v] \in Slot /\ wfd[w] \in Slot
      BY <2>1 DEF Holding, Busy, TypeOK
    <3>2. connections[wfd[v]] = connections[wfd[w]] /\ connections[wfd[w]] # NULL
      BY <2>1, <3>1, NullAssumption DEF AllMarked, HeldPlace
    <3>3. wfd[v] = wfd[w]
      BY <3>1, <3>2 DEF ResourcesMatch, Occupied
    <3>4. QED
      BY <3>1, <3>3 DEF EachOnce
  <2>4. QED
    BY <1>1, <2>1, <2>2, <2>3 DEF AllMarked
<1>15. ASSUME NEW w \in Worker, Close(w) PROVE AllMarked'
  <2>1. {wfd[w]} \in SUBSET Slot /\ w \in Holding
    BY <1>15 DEF Close, TypeOK, Busy, Holding
  <2>2. Holding' = Holding \ {w}
    BY <1>15 DEF Close, Return, Holding, TypeOK
  <2>3. \A v \in Holding' : /\ v \in Holding /\ wfd[v] \notin {wfd[w]}
                            /\ held'[v] = held[v] /\ wfd'[v] = wfd[v]
    BY <1>15, <2>1, <2>2 DEF Close, Return, Holding, Busy, TypeOK, EachOnce
  <2>4. QED
    BY <1>15, <2>1, <2>3, CloseMarks DEF Close
<1>16. QED
  BY <1>2, <1>3, <1>4, <1>5, <1>6, <1>7, <1>8, <1>9, <1>10, <1>11, <1>12,
     <1>13, <1>14, <1>15, NextCases

-----------------------------------------------------------------------------
(* The history variable is never reset, and nothing happens to a stopped
   server. *)

LEMMA OvertakenStays ==
    ASSUME TypeOK, [Next]_vars, overtaken' = 0
    PROVE  overtaken = 0
<1>1. CASE CheckTimeout
  BY <1>1 DEF CheckTimeout, TypeOK
<1>2. CASE ~CheckTimeout
  BY <1>2
     DEF Next, World, MainStep, WorkerStep, Halted, vars, Tick, Signal, Connect,
         Send, HangUp, EpollWait, LeaveLoop, ListenEvent, SkipCheck, Dispatch,
         DispatchFails, Accept, AcceptDrops, Register, RegisterFails, AcceptStops,
         Cleanup, Take, AcquireNothing, Acquire, Touch, ReadBytes, ReadDrained,
         ReadEnds, Incomplete, Rearm, Complete, Serve, ServeFails, HandBack, Close
<1>3. QED
  BY <1>1, <1>2

LEMMA NextLeavesNothing ==
    TypeOK /\ ResourcesMatch /\ LeavesNothing /\ [Next]_vars => LeavesNothing'
<1> SUFFICES ASSUME TypeOK, ResourcesMatch, LeavesNothing, [Next]_vars,
                    mpc' = "done"
             PROVE  /\ queue' = <<>> /\ Busy' = {}
                    /\ heap' = {} /\ \A f \in Fd : sock'[f] = NULL
  BY DEF LeavesNothing
<1> USE DEF kernelVars, connVars, mainVars, workerVars
<1>1. CASE Cleanup
  <2>1. Slot \in SUBSET Slot /\ CloseSlots(Slot)
    BY <1>1 DEF Cleanup
  <2>2. \A c \in Client : c \notin heap'
    BY <2>1, CloseEffect DEF ResourcesMatch
  <2>3. heap' \subseteq Client
    BY <2>1 DEF CloseSlots, TypeOK
  <2>4. \A f \in Fd : sock'[f] = NULL
    BY <2>1, CloseEffect DEF ResourcesMatch
  <2>5. QED
    BY <1>1, <2>2, <2>3, <2>4 DEF Cleanup, Busy
<1>2. CASE mpc = "done"
  <2>1. /\ queue = <<>> /\ Busy = {} /\ heap = {}
        /\ \A f \in Fd : sock[f] = NULL
    BY <1>2 DEF LeavesNothing
  <2>2. \A w \in Worker : wpc[w] = "idle"
    BY <2>1 DEF Busy
  <2>3. UNCHANGED <<queue, wpc, heap, sock>>
    BY <1>2, <2>1, <2>2
       DEF Next, World, MainStep, WorkerStep, Halted, vars, Tick, Signal, Connect,
           Send, HangUp, EpollWait, LeaveLoop, ListenEvent, CheckTimeout, SkipCheck,
           Dispatch, DispatchFails, Accept, AcceptDrops, Register, RegisterFails,
           AcceptStops, Cleanup, Take, AcquireNothing, Acquire, Touch, ReadBytes,
           ReadDrained, ReadEnds, Incomplete, Rearm, Complete, Serve, ServeFails,
           HandBack, Close
  <2>4. QED
    BY <2>1, <2>3 DEF Busy
<1>3. CASE mpc # "done" /\ ~Cleanup
  BY <1>3
     DEF Next, World, MainStep, WorkerStep, Halted, vars, Tick, Signal, Connect,
         Send, HangUp, EpollWait, LeaveLoop, ListenEvent, CheckTimeout, SkipCheck,
         Dispatch, DispatchFails, Accept, AcceptDrops, Register, RegisterFails,
         AcceptStops, Take, AcquireNothing, Acquire, Touch, ReadBytes, ReadDrained,
         ReadEnds, Incomplete, Rearm, Complete, Serve, ServeFails, HandBack, Close
<1>4. QED
  BY <1>1, <1>2, <1>3

-----------------------------------------------------------------------------
(* The theorems *)

LEMMA NextEInv == EInv /\ [Next]_vars => EInv'
<1> SUFFICES ASSUME EInv, [Next]_vars
             PROVE  EInv'
  OBVIOUS
<1>1. TypeOK' /\ ResourcesMatch'
  BY NextTypeOK, NextMatch DEF EInv
<1>2. HeldPlace' /\ Marks' /\ MainPlaces' /\ LeavesNothing'
  BY NextHeldPlace, NextMarks, NextMainPlaces, NextLeavesNothing DEF EInv
<1>3. ASSUME overtaken' = 0 PROVE EachOnce' /\ AllMarked'
  <2>1. EachOnce /\ AllMarked
    BY <1>3, OvertakenStays DEF EInv, OneOwner, HeldIsProtected
  <2>2. QED
    BY <1>3, <2>1, NextOnce, NextMarked DEF EInv
<1>4. QED
  BY <1>1, <1>2, <1>3 DEF EInv, OneOwner, HeldIsProtected

(* Every reachable state of the server satisfies the inductive invariant. *)
THEOREM Invariance == Spec => []EInv
BY InitEInv, NextEInv, PTL DEF Spec

(* Until the timeout closes a connection with a task pending, EPOLLONESHOT
   keeps every connection in exactly one place: no descriptor is queued twice,
   and no two workers have the same one. *)
THEOREM OneShot == Spec => []OneOwner
<1>1. EInv => OneOwner
  BY DEF EInv
<1>2. QED
  BY <1>1, Invariance, PTL

(* Until then the pointer a worker keeps is to the connection in its slot, and
   in_use hides that connection from the timeout. *)
THEOREM HeldProtected == Spec => []HeldIsProtected
<1>1. EInv => HeldIsProtected
  BY DEF EInv
<1>2. QED
  BY <1>1, Invariance, PTL

(* in_use is set only while a worker is at work on the connection. *)
THEOREM MarksAreHeld == Spec => []InUseIsHeld
<1>1. EInv => InUseIsHeld
  BY DEF EInv, Marks
<1>2. QED
  BY <1>1, Invariance, PTL

(* Until then no worker touches a freed structure, and accept registers the
   connection it has stored. *)
THEOREM MemorySafe == Spec => []NoUseAfterFree
<1>1. EInv => NoUseAfterFree
  <2> SUFFICES ASSUME EInv, overtaken = 0
               PROVE  Defined
    BY DEF NoUseAfterFree
  <2>1. EachOnce /\ AllMarked /\ inUse \subseteq heap
    BY DEF EInv, OneOwner, HeldIsProtected, Marks
  <2>2. mpc = "register" => connections[newFd] # NULL
    BY <2>1 DEF EachOnce, Registering, Occupied
  <2>3. \A w \in Holding : held[w] \in heap
    BY <2>1 DEF AllMarked
  <2>4. QED
    BY <2>2, <2>3 DEF Defined, Holding
<1>2. QED
  BY <1>1, Invariance, PTL

(* A server_run that returns leaves no task, worker, descriptor or structure. *)
THEOREM CleanShutdown == Spec => []LeavesNothing
<1>1. EInv => LeavesNothing
  BY DEF EInv
<1>2. QED
  BY <1>1, Invariance, PTL

-----------------------------------------------------------------------------
(* Tasks end *)

(* The steps that worker w has at most left in its task: the read loop goes
   round while there is space in the buffer. *)
ToDo(w) ==
    IF wpc[w] = "taken" THEN BufferSize + 6
    ELSE IF wpc[w] = "touch" THEN BufferSize + 5
    ELSE IF wpc[w] = "read" THEN (BufferSize - readPos[held[w]]) + 4
    ELSE IF wpc[w] = "check" THEN 3
    ELSE IF wpc[w] = "serve" THEN 2
    ELSE IF wpc[w] = "idle" THEN 0
    ELSE 1

ToDoTypes == \A w \in Worker : ToDo(w) \in Nat

LEMMA ToDoBounds ==
    ASSUME EInv, NEW w \in Worker
    PROVE  /\ ToDo(w) \in Nat /\ ToDo(w) <= BufferSize + 6
           /\ w \in Busy <=> ToDo(w) > 0
<1>1. BufferSize \in Nat
  BY SizesAssumption
<1>2. wpc[w] = "read" => readPos[held[w]] \in 0..BufferSize
  BY DEF EInv, HeldPlace, TypeOK, Holding
<1> QED
  BY <1>1, <1>2 DEF ToDo, Busy

(* A step of its own takes the worker nearer to the end of its task, also
   when the timeout has overtaken it. *)
LEMMA OwnStep ==
    ASSUME EInv, EInv', NEW w \in Busy, WorkerStep(w)
    PROVE  ToDo(w)' < ToDo(w)
<1>0. w \in Worker /\ wpc[w] \in WorkerStates /\ wpc[w] # "idle"
  BY DEF Busy, EInv, TypeOK
<1>a. /\ BufferSize \in Nat /\ wpc \in [Worker -> WorkerStates]
      /\ readPos \in [Client -> 0..BufferSize]
  BY SizesAssumption DEF EInv, TypeOK
<1>b. w \in Holding => held[w] \in Client
  BY DEF EInv, HeldPlace
<1>1. CASE Take(w)
  BY <1>0, <1>1 DEF Take
<1>2. CASE AcquireNothing(w) \/ Rearm(w) \/ HandBack(w) \/ Close(w)
  <2>1. wpc'[w] = "idle"
    BY <1>0, <1>2, <1>a DEF AcquireNothing, Rearm, HandBack, Close, Return
  <2>2. ToDo(w)' = 0
    BY <2>1 DEF ToDo
  <2>3. ToDo(w) \in Nat /\ ToDo(w) > 0
    BY <1>0, ToDoBounds
  <2> QED
    BY <2>2, <2>3
<1>3. CASE Acquire(w)
  <2>1. wpc[w] = "taken" /\ wpc'[w] = "touch"
    BY <1>0, <1>3, <1>a DEF Acquire, Goto
  <2> QED
    BY <2>1, <1>a DEF ToDo
<1>4. CASE Touch(w)
  <2>1. wpc[w] = "touch" /\ wpc'[w] = "read" /\ held'[w] = held[w] /\ readPos' = readPos
    BY <1>0, <1>4, <1>a DEF Touch, Goto
  <2>2. readPos[held[w]] \in 0..BufferSize
    BY <2>1, <1>0, <1>a, <1>b DEF Holding
  <2>3. ToDo(w)' = (BufferSize - readPos[held[w]]) + 4 /\ ToDo(w) = BufferSize + 5
    BY <2>1 DEF ToDo
  <2> QED
    BY <2>2, <2>3, <1>a
<1>5. CASE ReadBytes(w)
  <2>1. PICK k \in (readPos[held[w]] + 1)..BufferSize : readPos' = [readPos EXCEPT ![held[w]] = k]
    BY <1>5 DEF ReadBytes
  <2>2. wpc[w] = "read" /\ wpc'[w] = "read" /\ held'[w] = held[w]
    BY <1>5 DEF ReadBytes, workerVars
  <2>3. readPos[held[w]] \in 0..BufferSize /\ readPos'[held[w]] = k
    BY <2>1, <2>2, <1>0, <1>a, <1>b DEF Holding
  <2>4. ToDo(w)' = (BufferSize - k) + 4 /\ ToDo(w) = (BufferSize - readPos[held[w]]) + 4
    BY <2>2, <2>3 DEF ToDo
  <2> QED
    BY <2>1, <2>3, <2>4, <1>a
<1>6. CASE ReadDrained(w) \/ ReadEnds(w)
  <2>1. wpc[w] = "read" /\ wpc'[w] \in {"check", "closing"}
    BY <1>0, <1>6, <1>a DEF ReadDrained, ReadEnds, Goto
  <2>2. readPos[held[w]] \in 0..BufferSize
    BY <2>1, <1>0, <1>a, <1>b DEF Holding
  <2>3. ToDo(w)' <= 3 /\ ToDo(w)' \in Nat /\ ToDo(w) = (BufferSize - readPos[held[w]]) + 4
    BY <2>1 DEF ToDo
  <2> QED
    BY <2>2, <2>3, <1>a
<1>7. CASE Incomplete(w) \/ Complete(w)
  <2>1. wpc[w] = "check" /\ wpc'[w] \in {"rearm", "serve"}
    BY <1>0, <1>7, <1>a DEF Incomplete, Complete, Goto
  <2> QED
    BY <2>1 DEF ToDo
<1>8. CASE Serve(w) \/ ServeFails(w)
  <2>1. wpc[w] = "serve" /\ wpc'[w] \in {"finish", "closing"}
    BY <1>0, <1>8, <1>a DEF Serve, ServeFails, Goto
  <2> QED
    BY <2>1 DEF ToDo
<1> QED
  BY <1>1, <1>2, <1>3, <1>4, <1>5, <1>6, <1>7, <1>8 DEF WorkerStep

(* Two workers hold two connections. *)
LEMMA HeldDiffer ==
    ASSUME EInv, overtaken = 0, NEW v \in Holding, NEW w \in Holding, v # w
    PROVE  held[v] # held[w]
<1>1. EachOnce /\ AllMarked
  BY DEF EInv, OneOwner, HeldIsProtected
<1>2. v \in Busy /\ w \in Busy
  BY DEF Holding, Busy
<1>3. wfd[v] # wfd[w]
  BY <1>1, <1>2 DEF EachOnce
<1>4. /\ held[v] = connections[wfd[v]] /\ held[w] = connections[wfd[w]]
      /\ held[v] \in Client /\ held[w] \in Client
  BY <1>1 DEF AllMarked, EInv, HeldPlace
<1>5. wfd[v] \in Occupied /\ wfd[w] \in Occupied
  BY <1>2, <1>4, NullAssumption DEF EInv, TypeOK, Occupied
<1> QED
  BY <1>3, <1>4, <1>5 DEF EInv, ResourcesMatch

(* What is not closed keeps what has been read of it. *)
LEMMA CloseKeeps ==
    ASSUME NEW F, CloseSlots(F), NEW c \in Client, c \in heap'
    PROVE  readPos'[c] = readPos[c]
BY DEF CloseSlots

(* Until the timeout overtakes a task nobody else adds to what is left of it. *)
LEMMA OthersStep ==
    ASSUME EInv, EInv', overtaken' = 0, NEW w \in Busy, [Next]_vars, ~WorkerStep(w)
    PROVE  wpc'[w] = wpc[w] /\ ToDo(w)' = ToDo(w)
<1> USE DEF kernelVars, connVars, mainVars, workerVars
<1>0. w \in Worker /\ overtaken = 0
  BY OvertakenStays DEF Busy, EInv
<1>a. wpc \in [Worker -> WorkerStates] /\ held \in [Worker -> Client \cup {NULL}]
      /\ readPos \in [Client -> 0..BufferSize]
  BY DEF EInv, TypeOK
<1>1. wpc'[w] = wpc[w] /\ held'[w] = held[w]
  <2>1. ASSUME NEW v \in Worker, v # w, WorkerStep(v)
        PROVE  wpc'[w] = wpc[w] /\ held'[w] = held[w]
    BY <2>1, <1>0, <1>a
       DEF WorkerStep, Take, AcquireNothing, Acquire, Touch, ReadBytes, ReadDrained, ReadEnds,
           Incomplete, Rearm, Complete, Serve, ServeFails, HandBack, Close, Goto, Return
  <2>2. CASE World
    BY <2>2 DEF World, Tick, Signal, Connect, Send, HangUp
  <2>3. CASE MainStep
    BY <2>3 DEF MainStep, EpollWait, LeaveLoop, ListenEvent, Dispatch, DispatchFails,
                CheckTimeout, SkipCheck, Accept, AcceptDrops, Register, RegisterFails,
                AcceptStops, Cleanup
  <2>4. CASE UNCHANGED vars
    BY <2>4 DEF vars
  <2> QED
    BY <2>1, <2>2, <2>3, <2>4 DEF Next, Halted
<1>2. ASSUME wpc[w] = "read"
      PROVE  readPos'[held[w]] = readPos[held[w]]
  <2>1. w \in Holding /\ w \in Holding' /\ held[w] \in Client
    BY <1>0, <1>1, <1>2 DEF Holding, EInv, HeldPlace
  <2>2. held[w] \in heap'
    BY <1>1, <2>1 DEF EInv, HeldIsProtected, AllMarked, Marks
  <2>3. ASSUME NEW F, CloseSlots(F) PROVE readPos'[held[w]] = readPos[held[w]]
    BY <2>1, <2>2, <2>3, CloseKeeps
  <2>4. ASSUME NEW v \in Worker, v # w, WorkerStep(v)
        PROVE  readPos'[held[w]] = readPos[held[w]]
    <3>1. CASE ReadBytes(v) \/ HandBack(v)
      <4>1. v \in Holding
        BY <3>1 DEF ReadBytes, HandBack, Holding
      <4>2. held[v] # held[w]
        BY <4>1, <2>1, <2>4, <1>0, HeldDiffer
      <4> QED
        BY <3>1, <4>2, <2>1, <1>a DEF ReadBytes, HandBack
    <3>2. CASE Close(v)
      BY <3>2, <2>3 DEF Close
    <3>3. CASE ~ReadBytes(v) /\ ~HandBack(v) /\ ~Close(v)
      BY <3>3, <2>4
         DEF WorkerStep, Take, AcquireNothing, Acquire, Touch, ReadDrained, ReadEnds,
             Incomplete, Rearm, Complete, Serve, ServeFails
    <3> QED
      BY <3>1, <3>2, <3>3
  <2>5. CASE World
    BY <2>5 DEF World, Tick, Signal, Connect, Send, HangUp
  <2>6. CASE MainStep
    <3>1. CASE CheckTimeout \/ RegisterFails \/ Cleanup \/ \E f \in Fd : DispatchFails(f)
      BY <3>1, <2>3 DEF CheckTimeout, RegisterFails, Cleanup, DispatchFails
    <3>2. CASE ~(CheckTimeout \/ RegisterFails \/ Cleanup \/ \E f \in Fd : DispatchFails(f))
      BY <2>6, <3>2
         DEF MainStep, EpollWait, LeaveLoop, ListenEvent, Dispatch, SkipCheck, Accept,
             AcceptDrops, Register, AcceptStops
    <3> QED
      BY <3>1, <3>2
  <2>7. CASE UNCHANGED vars
    BY <2>7 DEF vars
  <2> QED
    BY <2>4, <2>5, <2>6, <2>7 DEF Next, Halted
<1> QED
  BY <1>1, <1>2 DEF ToDo

(* A task is a bounded number of its worker's steps: none of them loops, and
   until the timeout overtakes a task no other thread, client or failure gives
   it more to do (epoll_handler.c:296). *)
TasksBounded ==
    /\ [](\A w \in Worker : ToDo(w) <= BufferSize + 6)
    /\ [][\A w \in Busy :
            /\ WorkerStep(w) => ToDo(w)' < ToDo(w)
            /\ overtaken' = 0 => ToDo(w)' <= ToDo(w)]_vars

LEMMA TaskStep ==
    ASSUME EInv, EInv', NEW w \in Busy, [Next]_vars
    PROVE  /\ WorkerStep(w) => ToDo(w)' < ToDo(w)
           /\ overtaken' = 0 => ToDo(w)' < ToDo(w) \/ (wpc'[w] = wpc[w] /\ ToDo(w)' = ToDo(w))
BY OwnStep, OthersStep

(* worker_process_request ends after a bounded number of steps of its worker
   (TasksBounded), for any number of clients and workers and any failures. *)
THEOREM TasksEnd == Spec => TasksBounded
<1>0. EInv => ToDoTypes
  BY ToDoBounds DEF ToDoTypes
<1>1. EInv => \A w \in Worker : ToDo(w) <= BufferSize + 6
  BY ToDoBounds
<1>2. EInv /\ EInv' /\ [Next]_vars =>
        [\A w \in Busy :
            /\ WorkerStep(w) => ToDo(w)' < ToDo(w)
            /\ overtaken' = 0 => ToDo(w)' <= ToDo(w)]_vars
  <2> SUFFICES ASSUME EInv, EInv', [Next]_vars, NEW w \in Busy
               PROVE  /\ WorkerStep(w) => ToDo(w)' < ToDo(w)
                      /\ overtaken' = 0 => ToDo(w)' <= ToDo(w)
    OBVIOUS
  <2>1. ToDoTypes'
    BY <1>0, PTL
  <2>2. w \in Worker /\ ToDo(w) \in Nat /\ ToDo(w)' \in Nat
    BY <1>0, <2>1 DEF ToDoTypes, Busy
  <2> QED
    BY <2>2, TaskStep
<1> QED
  BY <1>1, <1>2, Invariance, PTL DEF Spec, TasksBounded

(* A worker with a task always has a step to take; ENABLED is beyond the
   provers here, the guards show it. *)
CanGo(w) == Defined /\ w \in Busy => ENABLED <<WorkerStep(w)>>_vars
Everyone == \A w \in Worker : CanGo(w)

AtStep(w, n)  == w \in Busy /\ ToDo(w) = n /\ overtaken = 0
Nearer(w, n)  == ToDo(w) < n
Overtaken     == overtaken = 1

(* What is left of a task gets less, or the timeout overtakes one. *)
TaskAdvances(w, n) == AtStep(w, n) ~> Nearer(w, n) \/ Overtaken

(* If the workers are scheduled no task stays where it is for ever, whatever
   the other workers, the clients and the main thread do. *)
THEOREM TasksAdvance ==
    ASSUME NEW CONSTANT v \in Worker, NEW CONSTANT n \in Nat
    PROVE  FairSpec /\ []Everyone => TaskAdvances(v, n)
<1>1. EInv /\ EInv' /\ AtStep(v, n) /\ [Next]_vars => AtStep(v, n)' \/ Nearer(v, n)' \/ Overtaken'
  <2> SUFFICES ASSUME EInv, EInv', AtStep(v, n), [Next]_vars, overtaken' = 0
               PROVE  AtStep(v, n)' \/ Nearer(v, n)'
    BY DEF EInv, TypeOK, Overtaken
  <2>1. ToDo(v)' < ToDo(v) \/ (wpc'[v] = wpc[v] /\ ToDo(v)' = ToDo(v))
    BY TaskStep DEF AtStep
  <2> QED
    BY <2>1 DEF AtStep, Nearer, Busy
<1>2. EInv /\ EInv' /\ AtStep(v, n) /\ <<WorkerStep(v)>>_vars => Nearer(v, n)'
  BY OwnStep DEF AtStep, Nearer
<1>3. NoUseAfterFree /\ AtStep(v, n) /\ CanGo(v) => ENABLED <<WorkerStep(v)>>_vars
  BY DEF NoUseAfterFree, AtStep, CanGo
<1>4. Everyone => CanGo(v)
  BY DEF Everyone
<1>5. (\A w \in Worker : Fair(w)) => Fair(v)
  OBVIOUS
<1>6. FairSpec => Spec /\ Fair(v)
  BY <1>5, PTL DEF FairSpec
<1> QED
  BY <1>1, <1>2, <1>3, <1>4, <1>6, Invariance, MemorySafe, PTL DEF Fair, Spec, TaskAdvances

===============================================================================
