--------------------------- MODULE ServerLifecycle --------------------------
(***************************************************************************)
(* The process from its command line to the return of main: main in        *)
(* src/src/main.c, server_init and the beginning and end of server_run in  *)
(* src/src/server.c, with the signal.                                      *)
(*                                                                         *)
(* CommandLine has the loop over the arguments.  What follows is a         *)
(* sequence of calls, each of which may fail and then has its own list of  *)
(* what to close.  What the event loop does is in EpollServer; here it may *)
(* leave connections behind.  The signal handler is one step.              *)
(***************************************************************************)
EXTENDS CommandLine

CONSTANT Client   \* the connections there may be

ASSUME ClientAssumption == {"listen_fd", "epoll_fd", "pool"} \cap Client = {}

(* The calls of the start-up, in order. *)
Calls == <<"open root", "socket", "setsockopt", "bind", "listen", "set_nonblocking",
           "setup_signals", "epoll_create1", "thread_pool_create", "epoll_add_fd">>

(* The part of them that belongs to server_init or comes before it. *)
InMain(call) == call \in {"open root", "socket", "setsockopt", "bind", "listen"}

VARIABLES
    next,      \* the call that comes next, beyond the last one in the loop
    phase,     \* starting, running, then the steps of the shutdown; or hung
    held,      \* what the process holds: listen_fd, epoll_fd, pool, and clients
    handlers,  \* has setup_signals installed signal_handler
    running,   \* running
    failed     \* the call of the start-up that failed, or none

lifeVars == <<next, phase, held, handlers, running, failed>>
vars     == <<argVars, lifeVars>>

Init ==
    /\ ArgInit
    /\ next = 1 /\ phase = "starting" /\ held = {} /\ handlers = FALSE
    /\ running = 1 /\ failed = "none"

(* main has returned, or the process was killed; or it never will. *)
Gone == exit \in {"0", "1", "killed"}
Hung == phase = "hung"

At(place) == exit = "server" /\ phase = place
GoesOn    == UNCHANGED argVars
Leaves(code) == exit' = code /\ UNCHANGED <<argv, i, config>>

-----------------------------------------------------------------------------
(* Start-up *)

ParseArguments == ArgStep /\ UNCHANGED lifeVars

(* What a call adds when it succeeds. *)
Gives(call) ==
    CASE call = "socket"             -> {"listen_fd"}
      [] call = "epoll_create1"      -> {"epoll_fd"}
      [] call = "thread_pool_create" -> {"pool"}
      [] OTHER                       -> {}

(* Mutant of ClosedAfter: a failing pool leaves the epoll instance open. *)
ClosedAfterShort(call) ==
    CASE call \in {"open root", "socket"} -> {}
      [] call = "epoll_add_fd"            -> {"epoll_fd", "listen_fd"}
      [] OTHER                            -> {"listen_fd"}

(* What the code closes when a call fails. *)
ClosedAfter(call) ==
    CASE call \in {"open root", "socket"} -> {}
      [] call \in {"thread_pool_create", "epoll_add_fd"} -> {"epoll_fd", "listen_fd"}
      [] OTHER                            -> {"listen_fd"}

(* Mutant of RunningThen: running is set when the loop is entered. *)
RunningSet  == IF next = Len(Calls) THEN 1 ELSE running
RunningThen == running

CallSucceeds ==
    /\ At("starting")
    /\ held' = held \cup Gives(Calls[next])
    /\ handlers' = (handlers \/ Calls[next] = "setup_signals")
    /\ next' = next + 1
    /\ phase' = IF next = Len(Calls) THEN "running" ELSE "starting"
    /\ running' = RunningThen
    /\ GoesOn /\ UNCHANGED failed

(* setup_signals returns nothing.  The others end main: with 1 when server_run
   was not reached, with 0 when it was. *)
CallFails ==
    /\ At("starting")
    /\ Calls[next] # "setup_signals"
    /\ held' = held \ ClosedAfter(Calls[next])
    /\ failed' = Calls[next]
    /\ Leaves(IF InMain(Calls[next]) THEN "1" ELSE "0")
    /\ UNCHANGED <<next, phase, handlers, running>>

(* The threads made before pthread_create failed may sleep for ever, and the
   join of the first of them with them (CreateFailureReturns of ThreadPool). *)
CreateHangs ==
    /\ At("starting")
    /\ Calls[next] = "thread_pool_create" /\ config.thread_count > 1
    /\ phase' = "hung"
    /\ GoesOn /\ UNCHANGED <<next, held, handlers, running, failed>>

-----------------------------------------------------------------------------
(* The loop, the signal, the shutdown *)

(* SIGINT or SIGTERM: the handler, or the death of the process. *)
Signal ==
    /\ ~Gone
    /\ IF handlers THEN running' = 0 /\ GoesOn /\ UNCHANGED held
       ELSE Leaves("killed") /\ held' = {} /\ UNCHANGED running
    /\ UNCHANGED <<next, phase, handlers, failed>>

(* Rounds of the loop open and close connections; while the pool is drained
   its last tasks close some. *)
Round ==
    /\ At("running") /\ running = 1
    /\ \E S \in SUBSET Client : held' = (held \ Client) \cup S
    /\ GoesOn /\ UNCHANGED <<next, phase, handlers, running, failed>>

LastTask(c) ==
    /\ At("destroy") /\ c \in held
    /\ held' = held \ {c}
    /\ GoesOn /\ UNCHANGED <<next, phase, handlers, running, failed>>

LeaveLoop ==
    /\ At("running") /\ running = 0
    /\ phase' = "destroy"
    /\ GoesOn /\ UNCHANGED <<next, held, handlers, running, failed>>

(* epoll_wait fails, for another reason than the signal. *)
WaitFails ==
    /\ At("running") /\ running = 1
    /\ phase' = "destroy"
    /\ GoesOn /\ UNCHANGED <<next, held, handlers, running, failed>>

(* What server_run destroys, frees and closes at the end, in order. *)
ShutdownOrder == <<{"pool"}, Client, {"epoll_fd"}, {"listen_fd"}>>
Phases        == <<"destroy", "cleanup", "close epoll", "close listen">>

Shutdown ==
    \E k \in 1..4 :
        /\ At(Phases[k])
        /\ held' = held \ ShutdownOrder[k]
        /\ IF k = 4 THEN Leaves("0") /\ UNCHANGED phase
                    ELSE GoesOn /\ phase' = Phases[k + 1]
        /\ UNCHANGED <<next, handlers, running, failed>>

Server == ParseArguments \/ CallSucceeds \/ CallFails \/ Round \/ LeaveLoop \/ Shutdown

Next == Server \/ CreateHangs \/ Signal \/ WaitFails \/ \E c \in Client : LastTask(c)

Spec == Init /\ [][Next]_vars

(* The main thread goes on, unless it hangs, and thread_pool_destroy returns
   (DestroyReturns of ThreadPool, ShutdownCompletes of EpollServer). *)
FairSpec == Spec /\ WF_vars(Server)

-----------------------------------------------------------------------------
(* Properties *)

(* Whatever failed, nothing the start-up made is left when main returns, except
   the threads of a pool that was made before epoll_add_fd failed. *)
NothingLeft ==
    Gone => held \subseteq (IF failed = "epoll_add_fd" THEN {"pool"} ELSE {})

(* A signal that comes any time after setup_signals ends the server, also one
   that comes before the loop, unless the creation of the pool fails and hangs:
   there is nothing then that looks at running. *)
SignalEndsServer == (handlers /\ running = 0) ~> Gone \/ Hung

=============================================================================
