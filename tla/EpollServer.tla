----------------------------- MODULE EpollServer -----------------------------
(***************************************************************************)
(* The connections of the server: src/src/server.c (the event loop of the  *)
(* main thread) and src/src/epoll_handler.c (accept, dispatch, the task    *)
(* the pool's workers run, the idle timeout, cleanup), with the kernel's   *)
(* side of them: descriptors, the epoll interest list, the accept queue.   *)
(*                                                                         *)
(* A connection and its client_connection_t are named by the client.  The  *)
(* critical sections of connections_mutex do not nest and wait for nothing *)
(* inside, so each is part of one step and the mutex itself is not a       *)
(* variable; what the code does outside it is a step of its own.  What is  *)
(* in a request is not modelled: that it is complete, what it says of      *)
(* keep-alive, and the failures named in Faults are choices.  The queue is *)
(* the pool of ThreadPool as TaskPool specifies it.                        *)
(***************************************************************************)
EXTENDS Naturals, Sequences, FiniteSets

CONSTANTS Client,          \* each connects at most once
          Worker,          \* the threads of the pool
          NULL,            \* no connection
          NumFd,           \* descriptors client sockets can get
          MaxEvents,       \* MAX_EVENTS, the size of connections[]
          BufferSize,      \* the capacity of read_buf, in units of a read
          Timeout,         \* CONNECTION_TIMEOUT, in seconds
          Faults           \* the failures that may happen, see FaultNames

FaultNames == {"accept", "nonblock", "malloc", "epoll_add", "dispatch",
               "epoll_wait", "read", "write"}

ASSUME NullAssumption   == NULL \notin Client
ASSUME SizesAssumption  == /\ NumFd \in Nat /\ MaxEvents \in Nat /\ Timeout \in Nat
                           /\ BufferSize \in Nat \ {0}
ASSUME FaultsAssumption == Faults \subseteq FaultNames

Fd       == 0..(NumFd - 1)          \* numbered after the listening socket etc.
Slot     == 0..(MaxEvents - 1)      \* the indices of connections[]
ListenFd == NumFd                   \* a descriptor no client gets
NoFd     == NumFd

VARIABLES
    \* the kernel
    client,       \* each client's connection: away, backlog, open, closed
    readable,     \* connections with bytes the server has not read
    hungup,       \* connections whose client has closed its side
    sock,         \* the connection each descriptor refers to
    watch,        \* each descriptor in the epoll instance: out, armed, off
    edge,         \* a new connection since the listening socket last fired
    \* shared memory
    connections,  \* connections[]
    heap,         \* connections whose structure is malloced
    inUse,        \* those with in_use = 1
    keepAlive,    \* those with keep_alive = 1
    readPos,      \* read_pos of each, in units of the buffer
    age,          \* seconds since last_active, up to Timeout + 1
    queue,        \* client_fd of the tasks in the pool's queue
    running,      \* running, cleared by the signal handler
    \* the main thread
    mpc,          \* where it is in server_run
    events,       \* what epoll_wait returned and the loop has not handled
    newFd,        \* client_fd in epoll_handler_accept
    sinceCheck,   \* has a second passed since last_timeout_check
    \* the workers
    wpc,          \* where each is in worker_process_request
    wfd,          \* its client_fd
    held,         \* its conn
    \* history
    overtaken     \* has the timeout closed a connection with a task pending

kernelVars == <<client, readable, hungup, sock, watch>>
connVars   == <<connections, heap, inUse, keepAlive, readPos, age>>
mainVars   == <<mpc, events, newFd, sinceCheck>>
workerVars == <<wpc, wfd, held>>
vars == <<kernelVars, edge, connVars, queue, running, mainVars, workerVars,
          overtaken>>

ClientStates == {"away", "backlog", "open", "closed"}
MainStates   == {"poll", "events", "accept", "register", "drain", "done"}
WorkerStates == {"idle", "taken", "touch", "read", "check", "rearm", "serve",
                 "finish", "closing"}

Init ==
    /\ client = [c \in Client |-> "away"]
    /\ readable = {} /\ hungup = {}
    /\ sock = [f \in Fd |-> NULL]
    /\ watch = [f \in Fd |-> "out"]
    /\ edge = 0
    /\ connections = [f \in Slot |-> NULL]
    /\ heap = {} /\ inUse = {} /\ keepAlive = {}
    /\ readPos = [c \in Client |-> 0]
    /\ age = [c \in Client |-> 0]
    /\ queue = <<>>
    /\ running = 1
    /\ mpc = "poll" /\ events = {} /\ newFd = NoFd /\ sinceCheck = 0
    /\ wpc = [w \in Worker |-> "idle"]
    /\ wfd = [w \in Worker |-> NoFd]
    /\ held = [w \in Worker |-> NULL]
    /\ overtaken = 0

-----------------------------------------------------------------------------
(* Operations on connections *)

(* The descriptors in the pool's queue; the workers with a task; those of them
   that have marked a connection in_use and keep a pointer to it. *)
Queued  == {queue[i] : i \in DOMAIN queue}
Busy    == {w \in Worker : wpc[w] # "idle"}
Holding == {w \in Worker : wpc[w] \in {"touch", "read", "check", "serve",
                                       "finish", "closing"}}

(* Descriptors with a task that holds no mark on their connection: it has not
   reached its in_use = 1, or has passed its in_use = 0. *)
Pending == Queued \cup {wfd[w] : w \in Busy \ Holding}

(* The connection that slot f of connections[] holds, as a set. *)
At(f) == IF f \in Slot THEN {connections[f]} \ {NULL} ELSE {}

(* Mutant of Cleared: connections[f] = NULL is missing. *)
ClearedNot(F) == connections
Cleared(F)    == [f \in Slot |-> IF f \in F THEN NULL ELSE connections[f]]

(* epoll_handler_close for every descriptor in F: out of the epoll instance,
   closed, freed, and the slot cleared, if there is a connection at all.  The
   fields of a freed structure are put at their initial values. *)
CloseSlots(F) ==
    LET gone == UNION {At(f) : f \in F} IN
    /\ client' = [c \in Client |-> IF c \in gone THEN "closed" ELSE client[c]]
    /\ readable' = readable \ gone
    /\ hungup' = hungup \ gone
    /\ sock' = [f \in Fd |-> IF f \in F /\ At(f) # {} THEN NULL ELSE sock[f]]
    /\ watch' = [f \in Fd |-> IF f \in F /\ At(f) # {} THEN "out" ELSE watch[f]]
    /\ heap' = heap \ gone
    /\ inUse' = inUse \ gone
    /\ keepAlive' = keepAlive \ gone
    /\ readPos' = [c \in Client |-> IF c \in gone THEN 0 ELSE readPos[c]]
    /\ age' = [c \in Client |-> IF c \in gone THEN 0 ELSE age[c]]
    /\ connections' = Cleared(F)

(* Mutant of Arm: epoll_modify_fd is not called. *)
ArmNot(f) == UNCHANGED watch

(* EPOLL_CTL_MOD with EPOLLONESHOT: armed again, or an error that the caller
   ignores when the descriptor is not (or no longer) in the instance. *)
Arm(f) ==
    watch' = [g \in Fd |-> IF g = f /\ watch[g] # "out" THEN "armed" ELSE watch[g]]

(* An armed descriptor fires for unread bytes and for the end of the stream
   (EPOLLIN, EPOLLRDHUP), also for those that were there when it was armed. *)
Ready == {f \in Fd : watch[f] = "armed" /\ sock[f] \in readable \cup hungup}

(* The structures and descriptors that the code is about to touch are there.
   Where they are not its behaviour is undefined, and the model ends: a worker
   with a pointer to a freed structure, or an accept whose new connection
   somebody else has closed. *)
Defined ==
    /\ \A w \in Worker :
         wpc[w] \in {"touch", "read", "check", "serve", "finish"} => held[w] \in heap
    /\ mpc = "register" => connections[newFd] # NULL

-----------------------------------------------------------------------------
(* The world: clients, time, the signal *)

Connect(c) ==
    /\ client[c] = "away"
    /\ mpc # "done"
    /\ client' = [client EXCEPT ![c] = "backlog"]
    /\ edge' = 1
    /\ UNCHANGED <<readable, hungup, sock, watch, connVars, queue, running,
                   mainVars, workerVars, overtaken>>

Send(c) ==
    /\ client[c] \in {"backlog", "open"}
    /\ c \notin hungup \cup readable
    /\ readable' = readable \cup {c}
    /\ UNCHANGED <<client, hungup, sock, watch, edge, connVars, queue, running,
                   mainVars, workerVars, overtaken>>

HangUp(c) ==
    /\ client[c] \in {"backlog", "open"}
    /\ c \notin hungup
    /\ hungup' = hungup \cup {c}
    /\ UNCHANGED <<client, readable, sock, watch, edge, connVars, queue, running,
                   mainVars, workerVars, overtaken>>

(* A second passes.  Beyond Timeout + 1 an age makes no difference. *)
Tick ==
    /\ mpc # "done"
    /\ age' = [c \in Client |->
                 IF c \in heap /\ age[c] <= Timeout THEN age[c] + 1 ELSE age[c]]
    /\ sinceCheck' = 1
    /\ UNCHANGED <<kernelVars, edge, connections, heap, inUse, keepAlive, readPos,
                   queue, running, mpc, events, newFd, workerVars, overtaken>>

(* SIGINT or SIGTERM. *)
Signal ==
    /\ running = 1
    /\ running' = 0
    /\ UNCHANGED <<kernelVars, edge, connVars, queue, mainVars, workerVars,
                   overtaken>>

-----------------------------------------------------------------------------
(* The main thread: server_run *)

(* Mutant of Disarmed: clients are registered without EPOLLONESHOT. *)
DisarmedNot == watch
Disarmed    == [f \in Fd |-> IF f \in Ready THEN "off" ELSE watch[f]]

(* epoll_wait returns what is ready, or nothing after a second.  A client's
   descriptor is disarmed by firing, the listening socket by the edge. *)
EpollWait ==
    /\ mpc = "poll"
    /\ running = 1
    /\ events' = Ready \cup (IF edge = 1 THEN {ListenFd} ELSE {})
    /\ watch' = Disarmed
    /\ edge' = 0
    /\ mpc' = "events"
    /\ UNCHANGED <<client, readable, hungup, sock, connVars, queue, running,
                   newFd, sinceCheck, workerVars, overtaken>>

(* The loop ends: running was cleared, or epoll_wait failed. *)
LeaveLoop ==
    /\ mpc = "poll"
    /\ running = 0 \/ "epoll_wait" \in Faults
    /\ mpc' = "drain"
    /\ UNCHANGED <<kernelVars, edge, connVars, queue, running, events, newFd,
                   sinceCheck, workerVars, overtaken>>

ListenEvent ==
    /\ mpc = "events"
    /\ ListenFd \in events
    /\ events' = events \ {ListenFd}
    /\ mpc' = "accept"
    /\ UNCHANGED <<kernelVars, edge, connVars, queue, running, newFd, sinceCheck,
                   workerVars, overtaken>>

(* epoll_handler_dispatch hands the descriptor to the pool. *)
Dispatch(f) ==
    /\ mpc = "events"
    /\ f \in events
    /\ events' = events \ {f}
    /\ queue' = Append(queue, f)
    /\ UNCHANGED <<kernelVars, edge, connVars, running, mpc, newFd, sinceCheck,
                   workerVars, overtaken>>

(* No memory for the argument or the task: the connection is closed. *)
DispatchFails(f) ==
    /\ "dispatch" \in Faults
    /\ mpc = "events"
    /\ f \in events
    /\ events' = events \ {f}
    /\ CloseSlots({f})
    /\ UNCHANGED <<edge, queue, running, mpc, newFd, sinceCheck, workerVars,
                   overtaken>>

(* Mutant of Expired: the in_use test is missing. *)
ExpiredInUseToo ==
    {f \in Slot : \E c \in At(f) : age[c] > Timeout}

(* The slots epoll_handler_check_timeout closes. *)
Expired ==
    {f \in Slot : \E c \in At(f) : c \notin inUse /\ age[c] > Timeout}

(* All events handled, and a second has passed since the last check.  The
   scan holds the mutex, and what the workers do meanwhile without it touches
   one connection each: it is one step. *)
CheckTimeout ==
    /\ mpc = "events"
    /\ events = {}
    /\ sinceCheck = 1
    /\ CloseSlots(Expired)
    /\ overtaken' = IF Expired \cap Pending # {} THEN 1 ELSE overtaken
    /\ sinceCheck' = 0
    /\ mpc' = "poll"
    /\ UNCHANGED <<edge, queue, running, events, newFd, workerVars>>

SkipCheck ==
    /\ mpc = "events"
    /\ events = {}
    /\ sinceCheck = 0
    /\ mpc' = "poll"
    /\ UNCHANGED <<kernelVars, edge, connVars, queue, running, events, newFd,
                   sinceCheck, workerVars, overtaken>>

-----------------------------------------------------------------------------
(* The main thread: epoll_handler_accept *)

Backlog == {c \in Client : client[c] = "backlog"}
FreeFd  == {f \in Fd : sock[f] = NULL}

(* Mutant of InTable: client_fd is not compared with MAX_EVENTS. *)
InTableAlways(f) == TRUE
InTable(f)       == f \in Slot

(* accept, up to the new structure's being stored in connections[]: before
   that nobody else can see it. *)
Accept(c, f) ==
    /\ mpc = "accept"
    /\ c \in Backlog /\ f \in FreeFd
    /\ InTable(f)
    /\ client' = [client EXCEPT ![c] = "open"]
    /\ sock' = [sock EXCEPT ![f] = c]
    /\ heap' = heap \cup {c}
    /\ keepAlive' = keepAlive \cup {c}
    /\ connections' = [connections EXCEPT ![f] = c]
    /\ newFd' = f
    /\ mpc' = "register"
    /\ UNCHANGED <<readable, hungup, watch, edge, inUse, readPos, age, queue,
                   running, events, sinceCheck, workerVars, overtaken>>

(* accepted and closed at once: fcntl or malloc failed, or the descriptor
   is beyond the table. *)
AcceptDrops(c, f) ==
    /\ mpc = "accept"
    /\ c \in Backlog /\ f \in FreeFd
    /\ f \notin Slot \/ Faults \cap {"nonblock", "malloc"} # {}
    /\ client' = [client EXCEPT ![c] = "closed"]
    /\ readable' = readable \ {c}
    /\ hungup' = hungup \ {c}
    /\ UNCHANGED <<sock, watch, edge, connVars, queue, running, mainVars,
                   workerVars, overtaken>>

(* EPOLL_CTL_ADD succeeds. *)
Register ==
    /\ mpc = "register"
    /\ watch' = [watch EXCEPT ![newFd] = "armed"]
    /\ newFd' = NoFd
    /\ mpc' = "accept"
    /\ UNCHANGED <<client, readable, hungup, sock, edge, connVars, queue,
                   running, events, sinceCheck, workerVars, overtaken>>

(* It fails: close, free, and clear the slot. *)
RegisterFails ==
    /\ "epoll_add" \in Faults
    /\ mpc = "register"
    /\ CloseSlots({newFd})
    /\ newFd' = NoFd
    /\ mpc' = "accept"
    /\ UNCHANGED <<edge, queue, running, events, sinceCheck, workerVars,
                   overtaken>>

(* Mutant of AcceptFails: the loop around accept is missing. *)
AcceptFailsAlways == TRUE

(* EAGAIN when the backlog is empty, EMFILE when no descriptor is free, or
   another error.  All of them end the loop. *)
AcceptFails == Backlog = {} \/ FreeFd = {} \/ "accept" \in Faults

AcceptStops ==
    /\ mpc = "accept"
    /\ AcceptFails
    /\ mpc' = "events"
    /\ UNCHANGED <<kernelVars, edge, connVars, queue, running, events, newFd,
                   sinceCheck, workerVars, overtaken>>

-----------------------------------------------------------------------------
(* The main thread: shutdown *)

(* Mutant of Drained: the connections go before the pool is destroyed. *)
DrainedNotYet == TRUE

(* thread_pool_destroy has returned: every task is done. *)
Drained == queue = <<>> /\ Busy = {}

(* epoll_handler_cleanup closes what is left, then the epoll instance and the listening socket. *)
Cleanup ==
    /\ mpc = "drain"
    /\ Drained
    /\ CloseSlots(Slot)
    /\ mpc' = "done"
    /\ UNCHANGED <<edge, queue, running, events, newFd, sinceCheck, workerVars,
                   overtaken>>

-----------------------------------------------------------------------------
(* A worker: worker_process_request *)

Goto(w, pc) == wpc' = [wpc EXCEPT ![w] = pc]

(* The end of the task: its locals are gone. *)
Return(w) ==
    /\ wpc' = [wpc EXCEPT ![w] = "idle"]
    /\ wfd' = [wfd EXCEPT ![w] = NoFd]
    /\ held' = [held EXCEPT ![w] = NULL]

(* Mutant of TaskQueued: the workers stop as soon as the pool is told to. *)
TaskQueuedWhileOpen == queue # <<>> /\ mpc # "drain"
TaskQueued          == queue # <<>>

(* The pool runs the first task of its queue. *)
Take(w) ==
    /\ wpc[w] = "idle"
    /\ TaskQueued
    /\ queue' = Tail(queue)
    /\ wfd' = [wfd EXCEPT ![w] = Head(queue)]
    /\ Goto(w, "taken")
    /\ UNCHANGED <<kernelVars, edge, connVars, running, mainVars, held, overtaken>>

(* connections[client_fd] is NULL: nothing to do. *)
AcquireNothing(w) ==
    /\ wpc[w] = "taken"
    /\ connections[wfd[w]] = NULL
    /\ Return(w)
    /\ UNCHANGED <<kernelVars, edge, connVars, queue, running, mainVars, overtaken>>

(* Mutant of Marked: in_use is not set. *)
MarkedNot(w) == inUse
Marked(w)    == inUse \cup {connections[wfd[w]]}

(* conn = connections[client_fd], in_use = 1, under the mutex. *)
Acquire(w) ==
    /\ wpc[w] = "taken"
    /\ connections[wfd[w]] # NULL
    /\ held' = [held EXCEPT ![w] = connections[wfd[w]]]
    /\ inUse' = Marked(w)
    /\ Goto(w, "touch")
    /\ UNCHANGED <<kernelVars, edge, connections, heap, keepAlive, readPos, age,
                   queue, running, mainVars, wfd, overtaken>>

(* last_active = now, after the mutex has been released. *)
Touch(w) ==
    /\ wpc[w] = "touch"
    /\ age' = [age EXCEPT ![held[w]] = 0]
    /\ Goto(w, "read")
    /\ UNCHANGED <<kernelVars, edge, connections, heap, inUse, keepAlive, readPos,
                   queue, running, mainVars, wfd, held, overtaken>>

(* read returns what has arrived, or as much of it as there is room for. *)
ReadBytes(w) ==
    /\ wpc[w] = "read"
    /\ sock[wfd[w]] \in readable
    /\ \E n \in (readPos[held[w]] + 1)..BufferSize :
         /\ readPos' = [readPos EXCEPT ![held[w]] = n]
         /\ \/ readable' = readable \ {sock[wfd[w]]}
            \/ n = BufferSize /\ UNCHANGED readable
    /\ UNCHANGED <<client, hungup, sock, watch, edge, connections, heap, inUse,
                   keepAlive, age, queue, running, mainVars, workerVars, overtaken>>

(* read says EAGAIN: everything that had arrived is in read_buf. *)
ReadDrained(w) ==
    /\ wpc[w] = "read"
    /\ readPos[held[w]] < BufferSize
    /\ sock[wfd[w]] \notin readable \cup hungup
    /\ Goto(w, "check")
    /\ UNCHANGED <<kernelVars, edge, connVars, queue, running, mainVars, wfd, held,
                   overtaken>>

(* read returns 0 or fails, or read_buf is full. *)
ReadEnds(w) ==
    /\ wpc[w] = "read"
    /\ \/ sock[wfd[w]] \in hungup \ readable
       \/ readPos[held[w]] = BufferSize
       \/ "read" \in Faults
    /\ Goto(w, "closing")
    /\ UNCHANGED <<kernelVars, edge, connVars, queue, running, mainVars, wfd, held,
                   overtaken>>

(* Mutant of Unmarked: in_use stays set while the connection waits. *)
UnmarkedNot(w) == inUse
Unmarked(w)    == inUse \ {held[w]}

(* is_request_complete says no: in_use = 0, without the mutex. *)
Incomplete(w) ==
    /\ wpc[w] = "check"
    /\ inUse' = Unmarked(w)
    /\ Goto(w, "rearm")
    /\ UNCHANGED <<kernelVars, edge, connections, heap, keepAlive, readPos, age,
                   queue, running, mainVars, wfd, held, overtaken>>

(* ... and epoll_modify_fd, without the mutex either. *)
Rearm(w) ==
    /\ wpc[w] = "rearm"
    /\ Arm(wfd[w])
    /\ Return(w)
    /\ UNCHANGED <<client, readable, hungup, sock, edge, connVars, queue, running,
                   mainVars, overtaken>>

(* It says yes, which it never does of an empty buffer. *)
Complete(w) ==
    /\ wpc[w] = "check"
    /\ readPos[held[w]] > 0
    /\ Goto(w, "serve")
    /\ UNCHANGED <<kernelVars, edge, connVars, queue, running, mainVars, wfd, held,
                   overtaken>>

(* Parse, handle, write the whole response.  A request that is parsed sets
   keep_alive; one that is not leaves it as it was. *)
Serve(w) ==
    /\ wpc[w] = "serve"
    /\ keepAlive' \in {keepAlive, keepAlive \cup {held[w]}, keepAlive \ {held[w]}}
    /\ Goto(w, "finish")
    /\ UNCHANGED <<kernelVars, edge, connections, heap, inUse, readPos, age, queue,
                   running, mainVars, wfd, held, overtaken>>

(* write fails, or the peer takes nothing for a thousand retries: close_conn. *)
ServeFails(w) ==
    /\ "write" \in Faults
    /\ wpc[w] = "serve"
    /\ Goto(w, "closing")
    /\ UNCHANGED <<kernelVars, edge, connVars, queue, running, mainVars, wfd, held,
                   overtaken>>

(* keep_alive: empty the buffer, in_use = 0, arm again, all under the mutex. *)
HandBack(w) ==
    /\ wpc[w] = "finish"
    /\ held[w] \in keepAlive
    /\ readPos' = [readPos EXCEPT ![held[w]] = 0]
    /\ inUse' = Unmarked(w)
    /\ Arm(wfd[w])
    /\ Return(w)
    /\ UNCHANGED <<client, readable, hungup, sock, edge, connections, heap,
                   keepAlive, age, queue, running, mainVars, overtaken>>

(* The connection ends: epoll_handler_close of whatever is at client_fd. *)
Close(w) ==
    /\ \/ wpc[w] = "closing"
       \/ wpc[w] = "finish" /\ held[w] \notin keepAlive
    /\ CloseSlots({wfd[w]})
    /\ Return(w)
    /\ UNCHANGED <<edge, queue, running, mainVars, overtaken>>

-----------------------------------------------------------------------------
(* Every step is from a state where behaviour is defined; each action has its
   own disjunct. *)
World ==
    \/ Defined /\ Tick
    \/ Defined /\ Signal
    \/ \E c \in Client :
         \/ Defined /\ Connect(c)
         \/ Defined /\ Send(c)
         \/ Defined /\ HangUp(c)

MainStep ==
    \/ Defined /\ EpollWait
    \/ Defined /\ LeaveLoop
    \/ Defined /\ ListenEvent
    \/ \E f \in Fd :
         \/ Defined /\ Dispatch(f)
         \/ Defined /\ DispatchFails(f)
    \/ Defined /\ CheckTimeout
    \/ Defined /\ SkipCheck
    \/ \E c \in Client, f \in Fd :
         \/ Defined /\ Accept(c, f)
         \/ Defined /\ AcceptDrops(c, f)
    \/ Defined /\ Register
    \/ Defined /\ RegisterFails
    \/ Defined /\ AcceptStops
    \/ Defined /\ Cleanup

WorkerStep(w) ==
    \/ Defined /\ Take(w)
    \/ Defined /\ AcquireNothing(w)
    \/ Defined /\ Acquire(w)
    \/ Defined /\ Touch(w)
    \/ Defined /\ ReadBytes(w)
    \/ Defined /\ ReadDrained(w)
    \/ Defined /\ ReadEnds(w)
    \/ Defined /\ Incomplete(w)
    \/ Defined /\ Rearm(w)
    \/ Defined /\ Complete(w)
    \/ Defined /\ Serve(w)
    \/ Defined /\ ServeFails(w)
    \/ Defined /\ HandBack(w)
    \/ Defined /\ Close(w)

(* The server has stopped, or its behaviour is undefined. *)
Halted ==
    /\ mpc = "done" \/ ~Defined
    /\ UNCHANGED vars

Next == World \/ MainStep \/ (\E w \in Worker : WorkerStep(w)) \/ Halted

Spec == Init /\ [][Next]_vars

(* The main thread and the workers are scheduled.  A client need do nothing,
   and no failure need happen. *)
Fair(w) == WF_vars(WorkerStep(w))

FairSpec ==
    /\ Spec
    /\ WF_vars(MainStep)
    /\ \A w \in Worker : Fair(w)

-----------------------------------------------------------------------------
(* Properties *)

(* Every variable stays in its range; in particular no descriptor indexes
   connections[] out of bounds. *)
TypeOK ==
    /\ client \in [Client -> ClientStates]
    /\ readable \in SUBSET Client
    /\ hungup \in SUBSET Client
    /\ sock \in [Fd -> Client \cup {NULL}]
    /\ watch \in [Fd -> {"out", "armed", "off"}]
    /\ \A f \in Fd : watch[f] # "out" => f \in Slot
    /\ edge \in {0, 1}
    /\ connections \in [Slot -> Client \cup {NULL}]
    /\ heap \in SUBSET Client
    /\ inUse \in SUBSET Client
    /\ keepAlive \in SUBSET Client
    /\ readPos \in [Client -> 0..BufferSize]
    /\ age \in [Client -> 0..(Timeout + 1)]
    /\ queue \in Seq(Fd \cap Slot)
    /\ running \in {0, 1}
    /\ mpc \in MainStates
    /\ events \in SUBSET ((Fd \cap Slot) \cup {ListenFd})
    /\ newFd \in (Fd \cap Slot) \cup {NoFd}
    /\ mpc = "register" => newFd \in Fd \cap Slot
    /\ sinceCheck \in {0, 1}
    /\ wpc \in [Worker -> WorkerStates]
    /\ wfd \in [Worker -> (Fd \cap Slot) \cup {NoFd}]
    /\ \A w \in Busy : wfd[w] \in Fd \cap Slot
    /\ held \in [Worker -> Client \cup {NULL}]
    /\ overtaken \in {0, 1}

Occupied    == {f \in Slot : connections[f] # NULL}
Registering == IF mpc = "register" THEN {newFd} ELSE {}

(* The descriptor table, the epoll instance, connections[] and the heap agree
   whatever the threads do to each other's connections: a descriptor is open
   exactly when its slot holds a connection, it is in the epoll instance then
   and only then, and every structure is in exactly one slot.  Nothing leaks
   and nothing is closed or freed twice. *)
ResourcesMatch ==
    /\ \A f \in Fd : sock[f] = IF f \in Slot THEN connections[f] ELSE NULL
    /\ \A f \in Fd : watch[f] # "out" <=> f \in Occupied \ Registering
    /\ \A c \in Client : c \in heap <=> \E f \in Slot : connections[f] = c
    /\ \A f, g \in Occupied : connections[f] = connections[g] => f = g
    /\ \A c \in Client : c \in heap <=> client[c] = "open"

(* Where the descriptors of connections are on their way round. *)
Armed   == {f \in Fd : watch[f] = "armed"}
Fired   == events \ {ListenFd}
Working == {wfd[w] : w \in Busy}

(* Each connection is in exactly one place, and nothing else is anywhere. *)
EachOnce ==
    /\ \A i, j \in DOMAIN queue : queue[i] = queue[j] => i = j
    /\ \A v, w \in Busy : wfd[v] = wfd[w] => v = w
    /\ Occupied = Armed \cup Fired \cup Queued \cup Working \cup Registering
    /\ Armed \cap (Fired \cup Queued \cup Working \cup Registering) = {}
    /\ Fired \cap (Queued \cup Working \cup Registering) = {}
    /\ Queued \cap (Working \cup Registering) = {}
    /\ Working \cap Registering = {}

(* EPOLLONESHOT at work.  Until the timeout first closes a connection that has
   a task pending, each connection is in exactly one place: waiting in the
   epoll instance, fired, queued once, with one worker, or being registered;
   and nothing but a live connection is anywhere. *)
OneOwner == overtaken = 0 => EachOnce

(* The connection each worker holds is in its slot and marked in_use. *)
AllMarked ==
    \A w \in Holding : held[w] \in inUse /\ held[w] = connections[wfd[w]]

(* The pointer a worker keeps across its unlocked reads and writes stays good:
   until then the connection it took is still the one in the slot, marked
   in_use, so that the timeout passes over it. *)
HeldIsProtected == overtaken = 0 => AllMarked

(* in_use is never left set behind a worker's back: a connection marked so
   forever would never be timed out. *)
InUseIsHeld == inUse \subseteq {held[w] : w \in Holding}

(* Until the timeout overtakes a task, no freed structure is touched and no
   connection is closed under the accept that registers it. *)
NoUseAfterFree == overtaken = 0 => Defined

(* When server_run returns, no task and no worker is left, and every
   descriptor and structure has been released. *)
LeavesNothing ==
    mpc = "done" =>
        /\ queue = <<>> /\ Busy = {}
        /\ heap = {} /\ \A f \in Fd : sock[f] = NULL

(* Clients are interchangeable: what is shown of one of them holds of all. *)
AnyClient == CHOOSE c \in Client : TRUE

(* Bytes that arrive on an open connection are read, or the connection is
   closed, at whatever moment between two reads, before or after the worker's
   EAGAIN they arrive; the idle timeout is not needed for it. *)
BytesAreRead ==
    LET c == AnyClient IN
        client[c] = "open" /\ c \in readable ~> c \notin readable \/ ~Defined

(* A connection whose client has closed its side is closed. *)
HangupCloses ==
    LET c == AnyClient IN
        client[c] = "open" /\ c \in hungup ~> client[c] = "closed" \/ ~Defined

(* The edge-triggered listening socket leaves nobody in the backlog: the
   accept loop runs until there is no new connection. *)
BacklogServed ==
    LET c == AnyClient IN
        client[c] = "backlog" ~> client[c] # "backlog" \/ mpc = "done" \/ ~Defined

(* After the signal the server stops, every dispatched task done. *)
ShutdownCompletes == running = 0 ~> mpc = "done" \/ ~Defined

(* As long as time passes no connection stays open for ever without being
   served again: what the timeout check misses or skips at one look it closes
   at a later one. *)
ZombiesReaped ==
    LET c == AnyClient IN
        WF_vars(Defined /\ Tick) => []<>(client[c] # "open" \/ age[c] = 0 \/ ~Defined)

(* "EPOLLONESHOT ... guarantees that one fd is handled by one thread only". *)
OneThreadPerFd == \A v, w \in Holding : wfd[v] = wfd[w] => v = w

-----------------------------------------------------------------------------
(* What the clients and the workers see of all this. *)

ServingMap == [w \in Worker |-> IF w \in Holding THEN held[w] ELSE NULL]

PhaseMap ==
    CASE mpc = "drain" -> "draining"
      [] mpc = "done"  -> "stopped"
      [] OTHER         -> "up"

Abstract == INSTANCE Connections
    WITH serving <- ServingMap, idle <- age, phase <- PhaseMap,
         Capacity <- MaxEvents, Faulty <- Faults \cap {"dispatch", "epoll_add"} # {}

(* Descriptors, epoll, connections[], in_use, the queue and the mutex together
   give each connection to one worker at a time, close it from there or while
   it is idle, and release everything when no worker is left: the detailed
   server implements the abstract one. *)
ImplementsConnections == Abstract!Spec

=============================================================================
