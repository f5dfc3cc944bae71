----------------------- MODULE EpollServerRefinement -----------------------
(***************************************************************************)
(* EpollServer implements Connections, for any number of clients, workers  *)
(* and descriptors, any timeout and any choice of failures.                *)
(***************************************************************************)
EXTENDS EpollServerProofs, FiniteSetTheorems

-----------------------------------------------------------------------------
(* The mapping *)

LEMMA PhaseIs ==
    ASSUME TypeOK
    PROVE  /\ PhaseMap = "up" <=> mpc \notin {"drain", "done"}
           /\ PhaseMap = "draining" <=> mpc = "drain"
           /\ PhaseMap = "stopped" <=> mpc = "done"
BY DEF PhaseMap

LEMMA ServingIs ==
    ASSUME HeldPlace
    PROVE  \A w \in Worker :
             /\ ServingMap[w] = IF w \in Holding THEN held[w] ELSE NULL
             /\ ServingMap[w] # NULL <=> w \in Holding
BY NullAssumption DEF ServingMap, HeldPlace

(* A step of one worker changes nothing of the others. *)
LEMMA OneServing ==
    ASSUME NEW w \in Worker,
           \A v \in Worker \ {w} :
             /\ v \in Holding' <=> v \in Holding
             /\ held'[v] = held[v]
    PROVE  ServingMap' = [ServingMap EXCEPT ![w] = IF w \in Holding' THEN held'[w] ELSE NULL]
BY DEF ServingMap

(* A step that changes neither who serves what nor the main thread's phase. *)
LEMMA SameServing ==
    ASSUME Holding' = Holding, \A w \in Holding : held'[w] = held[w]
    PROVE  ServingMap' = ServingMap
BY DEF ServingMap

LEMMA Stutters ==
    ASSUME ServingMap' = ServingMap, PhaseMap' = PhaseMap,
           UNCHANGED <<client, age, overtaken>>
    PROVE  UNCHANGED Abstract!vars
BY DEF Abstract!vars

(* Nobody serves the connection of a slot that no worker is at work on. *)
LEMMA SlotIsFree ==
    ASSUME EInv, overtaken = 0, NEW f \in Occupied, \A w \in Holding : wfd[w] # f
    PROVE  Abstract!Free(connections[f])
<1> SUFFICES ASSUME NEW w \in Worker, ServingMap[w] = connections[f]
             PROVE  FALSE
  BY DEF Abstract!Free
<1>1. connections[f] # NULL
  BY DEF Occupied
<1>2. w \in Holding /\ held[w] = connections[f]
  BY <1>1, ServingIs DEF EInv
<1>3. held[w] = connections[wfd[w]]
  BY <1>2 DEF EInv, HeldIsProtected, AllMarked
<1>4. wfd[w] \in Slot
  BY <1>2 DEF EInv, TypeOK, Busy, Holding
<1>5. wfd[w] = f
  BY <1>1, <1>2, <1>3, <1>4 DEF EInv, ResourcesMatch, Occupied
<1>6. QED
  BY <1>2, <1>5

(* The connections that are open are those in the table. *)
LEMMA TableIsOpen ==
    ASSUME TypeOK, ResourcesMatch
    PROVE  /\ \A f \in Slot : connections[f] # NULL =>
                /\ connections[f] \in Client /\ client[connections[f]] = "open"
                /\ connections[f] \in heap
           /\ \A c \in Client : client[c] = "open" => \E f \in Slot : connections[f] = c
<1>1. \A f \in Slot : connections[f] # NULL => connections[f] \in Client
  BY DEF TypeOK
<1>2. QED
  BY <1>1 DEF ResourcesMatch

(* Closing slots is closing connections. *)
LEMMA CloseShuts ==
    ASSUME TypeOK, ResourcesMatch, NEW F \in SUBSET Slot, CloseSlots(F),
           NEW C \in SUBSET Client,
           \A c \in Client : c \in C <=> \E f \in F : connections[f] = c
    PROVE  Abstract!Shut(C)
<1>1. \A c \in Client : c \in UNION {At(f) : f \in F} <=> c \in C
  BY NullAssumption DEF At, TypeOK
<1>2. QED
  BY <1>1 DEF CloseSlots, Abstract!Shut

(* ... and closing an empty slot nothing at all. *)
LEMMA CloseNothing ==
    ASSUME TypeOK, NEW f \in Slot, connections[f] = NULL, CloseSlots({f})
    PROVE  UNCHANGED <<client, age>>
<1>1. UNION {At(g) : g \in {f}} = {}
  BY DEF At
<1>2. client' = [c \in Client |-> client[c]] /\ age' = [c \in Client |-> age[c]]
  BY <1>1 DEF CloseSlots
<1>3. QED
  BY <1>2 DEF TypeOK

-----------------------------------------------------------------------------
(* The steps of the world and of the main thread *)

LEMMA InitRefines == Init => Abstract!Init
BY DEF Init, Abstract!Init, ServingMap, PhaseMap, Holding

(* No more connections are open than the table has slots. *)
LEMMA OpenFits ==
    ASSUME TypeOK, ResourcesMatch
    PROVE  IsFiniteSet(Abstract!Open) /\ Cardinality(Abstract!Open) <= MaxEvents
<1> DEFINE at == [c \in Abstract!Open |-> CHOOSE f \in Slot : connections[f] = c]
<1>1. \A c \in Abstract!Open : at[c] \in Slot /\ connections[at[c]] = c
  BY TableIsOpen DEF Abstract!Open
<1>2. at \in Injection(Abstract!Open, Slot)
  BY <1>1 DEF Injection, IsInjective
<1>3. IsFiniteSet(Slot) /\ Cardinality(Slot) = MaxEvents
  BY FS_Interval, SizesAssumption DEF Slot
<1>4. QED
  BY <1>2, <1>3, FS_Injection

(* Connections has its own instance of FiniteSets. *)
LEMMA SameCardinality == \A S : Abstract!Cardinality(S) = Cardinality(S)
BY DEF Cardinality, Abstract!Cardinality, IsFiniteSet, Abstract!IsFiniteSet

LEMMA AcceptRefines ==
    ASSUME EInv, EInv', NEW c \in Client, NEW f \in Fd, Accept(c, f)
    PROVE  Abstract!Admit(c)
<1>1. PhaseMap = "up" /\ PhaseMap' = PhaseMap
  BY DEF Accept, PhaseMap
<1>2. ServingMap' = ServingMap
  BY SameServing DEF Accept, workerVars, Holding
<1>3. client[c] = "backlog" /\ client' = [client EXCEPT ![c] = "open"]
  BY DEF Accept, Backlog
<1>4. Cardinality(Abstract!Open) < MaxEvents
  <2>1. Abstract!Open' = Abstract!Open \cup {c} /\ c \notin Abstract!Open
    BY <1>3 DEF Abstract!Open, EInv, TypeOK
  <2>2. IsFiniteSet(Abstract!Open) /\ Cardinality(Abstract!Open) \in Nat
    BY OpenFits, FS_CardinalityType DEF EInv
  <2>3. Cardinality(Abstract!Open \cup {c}) = Cardinality(Abstract!Open) + 1
    BY <2>1, <2>2, FS_AddElement
  <2>4. (Cardinality(Abstract!Open) <= MaxEvents)'
    BY OpenFits, PTL DEF EInv
  <2>5. QED
    BY <2>1, <2>2, <2>3, <2>4, SizesAssumption
<1>5. UNCHANGED <<age, overtaken>>
  BY DEF Accept
<1>6. QED
  BY <1>1, <1>2, <1>3, <1>4, <1>5, SameCardinality DEF Abstract!Admit

LEMMA DropRefines ==
    ASSUME NEW c \in Client, NEW f \in Fd, AcceptDrops(c, f)
    PROVE  Abstract!Refuse(c)
<1>1. PhaseMap = "up" /\ PhaseMap' = PhaseMap
  BY DEF AcceptDrops, PhaseMap, mainVars
<1>2. ServingMap' = ServingMap
  BY SameServing DEF AcceptDrops, workerVars, Holding
<1>3. QED
  BY <1>1, <1>2 DEF AcceptDrops, Backlog, connVars, Abstract!Refuse

(* A failure closes a connection that is on its way between two threads. *)
LEMMA FailureRefines ==
    ASSUME EInv, EInv', NEW f \in Slot, CloseSlots({f}), PhaseMap = "up",
           PhaseMap' = "up",
           UNCHANGED <<workerVars, overtaken>>, Faults \cap {"dispatch", "epoll_add"} # {},
           overtaken = 0 => \A w \in Holding : wfd[w] # f
    PROVE  (\E c \in Client : Abstract!Fail(c)) \/ UNCHANGED Abstract!vars
<1>1. ServingMap' = ServingMap
  BY SameServing DEF workerVars, Holding
<1>2. CASE connections[f] = NULL
  BY <1>1, <1>2, CloseNothing, Stutters DEF EInv
<1>3. CASE connections[f] # NULL
  <2> DEFINE c == connections[f]
  <2>1. c \in Client /\ client[c] = "open"
    BY <1>3, TableIsOpen DEF EInv
  <2>2. Abstract!Shut({c})
    BY <2>1, CloseShuts DEF EInv
  <2>3. overtaken = 0 => Abstract!Free(c)
    BY <1>3, SlotIsFree DEF Occupied
  <2>4. Abstract!Fail(c)
    BY <1>1, <2>1, <2>2, <2>3 DEF Abstract!Fail
  <2>5. QED
    BY <2>1, <2>4
<1>4. QED
  BY <1>2, <1>3

LEMMA DispatchFailsRefines ==
    ASSUME EInv, EInv', NEW f \in Fd, DispatchFails(f)
    PROVE  (\E c \in Client : Abstract!Fail(c)) \/ UNCHANGED Abstract!vars
<1>1. f \in Slot /\ f # ListenFd
  BY SizesAssumption DEF DispatchFails, EInv, TypeOK, ListenFd, Fd
<1>2. PhaseMap = "up" /\ PhaseMap' = "up"
  BY DEF DispatchFails, PhaseMap
<1>3. overtaken = 0 => \A w \in Holding : wfd[w] # f
  <2>1. f \in Fired
    BY <1>1 DEF DispatchFails, Fired
  <2>2. \A w \in Holding : wfd[w] \in Working
    BY DEF Working, Busy, Holding
  <2>3. QED
    BY <2>1, <2>2 DEF EInv, OneOwner, EachOnce
<1>4. QED
  BY <1>1, <1>2, <1>3, FailureRefines DEF DispatchFails

LEMMA RegisterFailsRefines ==
    ASSUME EInv, EInv', RegisterFails
    PROVE  (\E c \in Client : Abstract!Fail(c)) \/ UNCHANGED Abstract!vars
<1>1. newFd \in Slot
  BY DEF RegisterFails, EInv, TypeOK
<1>2. PhaseMap = "up" /\ PhaseMap' = "up"
  BY DEF RegisterFails, PhaseMap
<1>3. overtaken = 0 => \A w \in Holding : wfd[w] # newFd
  <2>1. newFd \in Registering
    BY DEF RegisterFails, Registering
  <2>2. \A w \in Holding : wfd[w] \in Working
    BY DEF Working, Busy, Holding
  <2>3. QED
    BY <2>1, <2>2 DEF EInv, OneOwner, EachOnce
<1>4. QED
  BY <1>1, <1>2, <1>3, FailureRefines DEF RegisterFails

(* The timeout closes what nobody serves, and of that all that is overdue. *)
LEMMA TimeoutRefines ==
    ASSUME EInv, EInv', CheckTimeout
    PROVE  \E C \in SUBSET Client : Abstract!Expire(C)
<1> DEFINE C == {c \in heap : c \notin inUse /\ age[c] > Timeout}
<1>1. C \in SUBSET Client
  BY DEF EInv, TypeOK
<1>2. \A c \in Client : c \in C <=> \E f \in Expired : connections[f] = c
  <2>1. \A f \in Slot, c \in Client : c \in At(f) <=> connections[f] = c
    BY NullAssumption DEF At
  <2>2. \A c \in Client : c \in heap <=> \E f \in Slot : connections[f] = c
    BY DEF EInv, ResourcesMatch
  <2>3. \A f \in Slot : At(f) \subseteq Client
    BY DEF At, EInv, TypeOK
  <2>4. ASSUME NEW c \in C PROVE \E f \in Expired : connections[f] = c
    BY <1>1, <2>1, <2>2 DEF Expired
  <2>5. ASSUME NEW c \in Client, NEW f \in Expired, connections[f] = c PROVE c \in C
    <3>1. PICK d \in At(f) : d \notin inUse /\ age[d] > Timeout
      BY DEF Expired
    <3>2. f \in Slot /\ d = c
      BY <2>1, <2>3, <2>5, <3>1 DEF Expired
    <3>3. QED
      BY <2>2, <2>5, <3>1, <3>2
  <2>6. QED
    BY <1>1, <2>4, <2>5
<1>3. Abstract!Shut(C)
  BY <1>1, <1>2, CloseShuts DEF CheckTimeout, Expired, EInv
<1>4. PhaseMap = "up" /\ PhaseMap' = PhaseMap
  BY DEF CheckTimeout, PhaseMap
<1>5. ServingMap' = ServingMap
  BY SameServing DEF CheckTimeout, workerVars, Holding
<1>6. \A c \in Client : client[c] = "open" <=> c \in heap
  BY DEF EInv, ResourcesMatch
<1>7. C \subseteq Abstract!Overdue
  BY <1>1, <1>6 DEF Abstract!Overdue, Abstract!Open
<1>8. \A c \in Abstract!Overdue : Abstract!Free(c) => c \in C
  <2> SUFFICES ASSUME NEW c \in Abstract!Overdue, Abstract!Free(c)
               PROVE  c \notin inUse
    BY <1>6 DEF Abstract!Overdue, Abstract!Open
  <2>1. \A w \in Holding : held[w] # c
    BY ServingIs DEF Abstract!Free, Holding, EInv
  <2>2. QED
    BY <2>1 DEF EInv, Marks, InUseIsHeld
<1>9. overtaken = 0 => \A c \in C : Abstract!Free(c)
  <2> SUFFICES ASSUME overtaken = 0, NEW c \in C, NEW w \in Worker, ServingMap[w] = c
               PROVE  FALSE
    BY DEF Abstract!Free
  <2>1. w \in Holding /\ held[w] = c
    BY <1>1, ServingIs, NullAssumption DEF EInv
  <2>2. c \in inUse
    BY <2>1 DEF EInv, HeldIsProtected, AllMarked
  <2>3. QED
    BY <2>2
<1>10. overtaken' \in IF C = {} THEN {overtaken} ELSE {overtaken, 1}
  <2>1. Expired # {} => C # {}
    <3> SUFFICES ASSUME NEW f \in Expired
                 PROVE  C # {}
      OBVIOUS
    <3>1. f \in Slot /\ At(f) # {}
      BY DEF Expired
    <3>2. connections[f] \in Client
      BY <3>1 DEF At, EInv, TypeOK
    <3>3. QED
      BY <1>2, <3>2
  <2>2. QED
    BY <2>1 DEF CheckTimeout
<1>11. QED
  BY <1>1, <1>3, <1>4, <1>5, <1>7, <1>8, <1>9, <1>10 DEF Abstract!Expire

LEMMA CleanupRefines ==
    ASSUME EInv, EInv', Cleanup
    PROVE  Abstract!Stop
<1>1. PhaseMap = "draining" /\ PhaseMap' = "stopped"
  BY DEF Cleanup, PhaseMap
<1>2. Holding = {} /\ Holding' = {}
  BY DEF Cleanup, Drained, Busy, Holding, workerVars
<1>3. ServingMap' = ServingMap /\ \A w \in Worker : ServingMap[w] = NULL
  BY <1>2 DEF ServingMap
<1>4. Abstract!Shut(Abstract!Open)
  <2>1. \A c \in Client : c \in Abstract!Open <=> \E f \in Slot : connections[f] = c
    BY TableIsOpen, NullAssumption DEF Abstract!Open, EInv
  <2>2. QED
    BY <2>1, CloseShuts DEF Cleanup, Abstract!Open, EInv
<1>5. QED
  BY <1>1, <1>3, <1>4 DEF Cleanup, Abstract!Stop

-----------------------------------------------------------------------------
(* The steps of a worker *)

LEMMA StillUp ==
    ASSUME EInv, NEW w \in Busy
    PROVE  PhaseMap # "stopped"
BY PhaseIs DEF EInv, LeavesNothing

LEMMA AcquireRefines ==
    ASSUME EInv, EInv', NEW w \in Worker, Acquire(w)
    PROVE  \E c \in Client : Abstract!Begin(w, c)
<1> DEFINE f == wfd[w]
           c == connections[f]
<1>1. w \in Busy /\ w \notin Holding /\ f \in Slot
  BY DEF Acquire, Busy, Holding, EInv, TypeOK
<1>2. c \in Client /\ client[c] = "open"
  BY <1>1, TableIsOpen DEF Acquire, EInv
<1>3. overtaken = 0 => Abstract!Free(c)
  <2>1. f \in Occupied
    BY <1>1 DEF Acquire, Occupied
  <2>2. overtaken = 0 => \A v \in Holding : wfd[v] # f
    BY <1>1 DEF EInv, OneOwner, EachOnce, Busy, Holding
  <2>3. QED
    BY <2>1, <2>2, SlotIsFree
<1>4. w \in Holding' /\ held'[w] = c
  BY <1>1 DEF Acquire, Goto, Holding, EInv, TypeOK
<1>5. ServingMap' = [ServingMap EXCEPT ![w] = c]
  <2>1. \A v \in Worker \ {w} : (v \in Holding' <=> v \in Holding) /\ held'[v] = held[v]
    BY DEF Acquire, Goto, Holding, EInv, TypeOK
  <2>2. QED
    BY <1>4, <2>1, OneServing
<1>6. ServingMap[w] = NULL
  BY <1>1 DEF ServingMap
<1>7. PhaseMap # "stopped" /\ PhaseMap' = PhaseMap
  BY <1>1, StillUp DEF Acquire, PhaseMap, mainVars
<1>8. Abstract!Begin(w, c)
  BY <1>2, <1>3, <1>5, <1>6, <1>7 DEF Acquire, kernelVars, Abstract!Begin
<1>9. QED
  BY <1>2, <1>8

LEMMA TouchRefines ==
    ASSUME EInv, NEW w \in Worker, Touch(w)
    PROVE  Abstract!Touch(w)
<1>1. w \in Holding /\ ServingMap[w] = held[w] /\ ServingMap[w] # NULL
  BY ServingIs DEF Touch, Holding, EInv
<1>2. ServingMap' = ServingMap
  BY SameServing DEF Touch, Goto, Holding, EInv, TypeOK
<1>3. PhaseMap' = PhaseMap
  BY DEF Touch, PhaseMap, mainVars
<1>4. QED
  BY <1>1, <1>2, <1>3 DEF Touch, kernelVars, Abstract!Touch

LEMMA LeaveRefines ==
    ASSUME EInv, NEW w \in Holding, w \notin Holding',
           \A v \in Worker \ {w} : (v \in Holding' <=> v \in Holding) /\ held'[v] = held[v],
           UNCHANGED <<client, age, mpc, overtaken>>
    PROVE  Abstract!Leave(w)
<1>1. w \in Worker /\ ServingMap[w] # NULL
  BY ServingIs DEF Holding, EInv
<1>2. ServingMap' = [ServingMap EXCEPT ![w] = NULL]
  BY <1>1, OneServing
<1>3. PhaseMap' = PhaseMap
  BY DEF PhaseMap
<1>4. QED
  BY <1>1, <1>2, <1>3 DEF Abstract!Leave

LEMMA CloseRefines ==
    ASSUME EInv, EInv', NEW w \in Worker, Close(w)
    PROVE  Abstract!Leave(w) \/ \E c \in Client : Abstract!Close(w, c)
<1> DEFINE f == wfd[w]
           c == connections[f]
<1>1. w \in Holding /\ w \notin Holding' /\ f \in Slot
  BY DEF Close, Return, Busy, Holding, EInv, TypeOK
<1>2. \A v \in Worker \ {w} : (v \in Holding' <=> v \in Holding) /\ held'[v] = held[v]
  BY DEF Close, Return, Holding, EInv, TypeOK
<1>3. CloseSlots({f}) /\ UNCHANGED <<mpc, overtaken>>
  BY DEF Close, mainVars
<1>4. CASE c = NULL
  <2>1. UNCHANGED <<client, age>>
    BY <1>1, <1>3, <1>4, CloseNothing DEF EInv
  <2>2. QED
    BY <1>1, <1>2, <1>3, <2>1, LeaveRefines
<1>5. CASE c # NULL
  <2>1. c \in Client /\ client[c] = "open"
    BY <1>1, <1>5, TableIsOpen DEF EInv
  <2>2. Abstract!Shut({c})
    BY <1>1, <1>3, <2>1, CloseShuts DEF EInv
  <2>3. ServingMap[w] = held[w] /\ ServingMap[w] # NULL
    BY <1>1, ServingIs DEF EInv
  <2>4. overtaken = 0 => held[w] = c
    BY <1>1 DEF EInv, HeldIsProtected, AllMarked
  <2>5. ServingMap' = [ServingMap EXCEPT ![w] = NULL]
    BY <1>1, <1>2, OneServing
  <2>6. PhaseMap' = PhaseMap
    BY <1>3 DEF PhaseMap
  <2>7. Abstract!Close(w, c)
    BY <1>3, <2>1, <2>2, <2>3, <2>4, <2>5, <2>6 DEF Abstract!Close
  <2>8. QED
    BY <2>1, <2>7
<1>6. QED
  BY <1>4, <1>5

-----------------------------------------------------------------------------
(* Every step *)

LEMMA NextRefines ==
    ASSUME EInv, EInv', [Next]_vars
    PROVE  [Abstract!Next]_(Abstract!vars)
<1> USE DEF kernelVars, connVars, mainVars, workerVars
<1>1. CASE Tick
  <2>1. PhaseMap # "stopped" /\ PhaseMap' = PhaseMap
    BY <1>1, PhaseIs DEF Tick, PhaseMap, EInv
  <2>2. ServingMap' = ServingMap
    BY <1>1, SameServing DEF Tick, Holding
  <2>3. \A c \in Client : c \in Abstract!Open <=> c \in heap
    BY DEF Abstract!Open, EInv, ResourcesMatch
  <2>4. Abstract!Tick
    BY <1>1, <2>1, <2>2, <2>3 DEF Tick, Abstract!Tick
  <2>5. QED
    BY <2>4 DEF Abstract!Next
<1>2. CASE \/ Signal \/ EpollWait \/ ListenEvent \/ SkipCheck \/ AcceptStops
           \/ Register \/ UNCHANGED vars
  <2>1. PhaseMap' = PhaseMap /\ UNCHANGED <<client, age, overtaken, wpc, held>>
    BY <1>2 DEF Signal, EpollWait, ListenEvent, SkipCheck, AcceptStops, Register, vars,
                PhaseMap
  <2>2. QED
    BY <2>1, SameServing, Stutters DEF Holding
<1>3. ASSUME NEW c \in Client, Send(c) \/ HangUp(c)
      PROVE  [Abstract!Next]_(Abstract!vars)
  <2>1. PhaseMap' = PhaseMap /\ UNCHANGED <<client, age, overtaken, wpc, held>>
    BY <1>3 DEF Send, HangUp, PhaseMap
  <2>2. QED
    BY <2>1, SameServing, Stutters DEF Holding
<1>4. ASSUME NEW f \in Fd, Dispatch(f) PROVE [Abstract!Next]_(Abstract!vars)
  <2>1. PhaseMap' = PhaseMap /\ UNCHANGED <<client, age, overtaken, wpc, held>>
    BY <1>4 DEF Dispatch, PhaseMap
  <2>2. QED
    BY <2>1, SameServing, Stutters DEF Holding
<1>5. ASSUME NEW c \in Client, Connect(c) PROVE [Abstract!Next]_(Abstract!vars)
  <2>1. PhaseMap # "stopped" /\ PhaseMap' = PhaseMap /\ UNCHANGED <<wpc, held>>
    BY <1>5, PhaseIs DEF Connect, PhaseMap, EInv
  <2>2. ServingMap' = ServingMap
    BY <2>1, SameServing DEF Holding
  <2>3. Abstract!Arrive(c)
    BY <1>5, <2>1, <2>2 DEF Connect, Abstract!Arrive
  <2>4. QED
    BY <2>3 DEF Abstract!Next
<1>6. CASE LeaveLoop
  <2>1. PhaseMap = "up" /\ PhaseMap' = "draining" /\ UNCHANGED <<wpc, held>>
    BY <1>6 DEF LeaveLoop, PhaseMap
  <2>2. ServingMap' = ServingMap
    BY <2>1, SameServing DEF Holding
  <2>3. Abstract!Drain
    BY <1>6, <2>1, <2>2 DEF LeaveLoop, Abstract!Drain
  <2>4. QED
    BY <2>3 DEF Abstract!Next
<1>7. CASE CheckTimeout
  BY <1>7, TimeoutRefines DEF Abstract!Next
<1>8. ASSUME NEW f \in Fd, DispatchFails(f) PROVE [Abstract!Next]_(Abstract!vars)
  BY <1>8, DispatchFailsRefines DEF Abstract!Next
<1>9. ASSUME NEW c \in Client, NEW f \in Fd, Accept(c, f) \/ AcceptDrops(c, f)
      PROVE  [Abstract!Next]_(Abstract!vars)
  BY <1>9, AcceptRefines, DropRefines DEF Abstract!Next
<1>10. CASE RegisterFails
  BY <1>10, RegisterFailsRefines DEF Abstract!Next
<1>11. CASE Cleanup
  BY <1>11, CleanupRefines DEF Abstract!Next
<1>12. ASSUME NEW w \in Worker,
              \/ Take(w) \/ AcquireNothing(w) \/ ReadBytes(w) \/ ReadDrained(w)
              \/ ReadEnds(w) \/ Rearm(w) \/ Complete(w) \/ Serve(w) \/ ServeFails(w)
       PROVE  [Abstract!Next]_(Abstract!vars)
  <2>1. PhaseMap' = PhaseMap /\ UNCHANGED <<client, age, overtaken>>
    BY <1>12 DEF Take, AcquireNothing, ReadBytes, ReadDrained, ReadEnds, Rearm, Complete,
                 Serve, ServeFails, PhaseMap
  <2>2. Holding' = Holding /\ \A v \in Holding : held'[v] = held[v]
    BY <1>12 DEF Take, AcquireNothing, ReadBytes, ReadDrained, ReadEnds, Rearm, Complete,
                 Serve, ServeFails, Goto, Return, Holding, EInv, TypeOK
  <2>3. QED
    BY <2>1, <2>2, SameServing, Stutters
<1>13. ASSUME NEW w \in Worker, Acquire(w) PROVE [Abstract!Next]_(Abstract!vars)
  BY <1>13, AcquireRefines DEF Abstract!Next
<1>14. ASSUME NEW w \in Worker, Touch(w) PROVE [Abstract!Next]_(Abstract!vars)
  BY <1>14, TouchRefines DEF Abstract!Next
<1>15. ASSUME NEW w \in Worker, Incomplete(w) \/ HandBack(w)
       PROVE  [Abstract!Next]_(Abstract!vars)
  <2>1. w \in Holding /\ w \notin Holding'
    BY <1>15 DEF Incomplete, HandBack, Goto, Return, Holding, EInv, TypeOK
  <2>2. \A v \in Worker \ {w} : (v \in Holding' <=> v \in Holding) /\ held'[v] = held[v]
    BY <1>15 DEF Incomplete, HandBack, Goto, Return, Holding, EInv, TypeOK
  <2>3. UNCHANGED <<client, age, mpc, overtaken>>
    BY <1>15 DEF Incomplete, HandBack
  <2>4. QED
    BY <2>1, <2>2, <2>3, LeaveRefines DEF Abstract!Next
<1>16. ASSUME NEW w \in Worker, Close(w) PROVE [Abstract!Next]_(Abstract!vars)
  BY <1>16, CloseRefines DEF Abstract!Next
<1>17. QED
  BY <1>1, <1>2, <1>3, <1>4, <1>5, <1>6, <1>7, <1>8, <1>9, <1>10, <1>11, <1>12, <1>13,
     <1>14, <1>15, <1>16, NextCases

(* Every step of the main thread, the workers and the world is one that
   Connections allows, or changes nothing there: a connection is served by one
   worker at a time and closed from there or while it is idle, no more of them
   are open than the table has slots, and the server stops with nobody served. *)
THEOREM ConnectionsImplemented == Spec => ImplementsConnections
<1>1. EInv /\ EInv' /\ [Next]_vars => [Abstract!Next]_(Abstract!vars)
  BY NextRefines
<1>2. QED
  BY <1>1, InitRefines, Invariance, PTL DEF Spec, ImplementsConnections, Abstract!Spec

=============================================================================
