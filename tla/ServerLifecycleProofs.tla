----------------------- MODULE ServerLifecycleProofs ------------------------
(***************************************************************************)
(* Proofs about ServerLifecycle, for command lines of any length, any      *)
(* numbers in them and any connections.                                    *)
(***************************************************************************)
EXTENDS ServerLifecycle, TLAPS

Own == {"listen_fd", "epoll_fd", "pool"}

LifeTypes ==
    /\ exit \in {"no", "server", "0", "1", "killed"}
    /\ phase \in {"starting", "running", "hung"} \cup {Phases[k] : k \in 1..4}
    /\ held \subseteq Own \cup Client /\ handlers \in BOOLEAN
    /\ next \in 1..11

(* What the calls that have succeeded have made. *)
MadeBefore(n) ==
    (IF n > 2 THEN {"listen_fd"} ELSE {}) \cup (IF n > 8 THEN {"epoll_fd"} ELSE {})
        \cup (IF n > 9 THEN {"pool"} ELSE {})

(* The start-up holds what it has made, and has got where it is. *)
Starting ==
    /\ phase = "starting" /\ ~Gone => next <= 10 /\ held = MadeBefore(next)
    /\ exit = "no" => phase = "starting" /\ held = {}
    /\ ~Gone => failed = "none"
    /\ phase # "starting" => handlers /\ failed = "none"
    /\ next > 7 => handlers

(* What the steps of the shutdown have left. *)
Ending ==
    /\ phase = "cleanup"      => held \subseteq {"epoll_fd", "listen_fd"} \cup Client
    /\ phase = "close epoll"  => held \subseteq {"epoll_fd", "listen_fd"}
    /\ phase = "close listen" => held \subseteq {"listen_fd"}

LInv == LifeTypes /\ Starting /\ Ending /\ NothingLeft

-----------------------------------------------------------------------------
(* A step that leaves the process alive and its phase after the start-up keeps
   all but what is held. *)
LEMMA LaterKeepsLInv ==
    ASSUME LInv, phase # "starting", phase' # "starting", exit = "server",
           exit' \in {"server", "0"}, phase' \in {"running"} \cup {Phases[k] : k \in 1..4},
           held' \subseteq Own \cup Client, UNCHANGED <<next, handlers, failed>>,
           exit' = "0" => held' = {}, Ending'
    PROVE  LInv'
<1>1. LifeTypes'
  BY DEF LInv, LifeTypes
<1>2. Starting' /\ NothingLeft'
  BY DEF LInv, Starting, NothingLeft, Gone
<1> QED
  BY <1>1, <1>2 DEF LInv

LEMMA TheCalls ==
    /\ Len(Calls) = 10
    /\ Calls[1] = "open root" /\ Calls[2] = "socket" /\ Calls[3] = "setsockopt"
    /\ Calls[4] = "bind" /\ Calls[5] = "listen" /\ Calls[6] = "set_nonblocking"
    /\ Calls[7] = "setup_signals" /\ Calls[8] = "epoll_create1"
    /\ Calls[9] = "thread_pool_create" /\ Calls[10] = "epoll_add_fd"
BY DEF Calls

LEMMA ThePhases ==
    /\ Phases[1] = "destroy" /\ Phases[2] = "cleanup"
    /\ Phases[3] = "close epoll" /\ Phases[4] = "close listen"
    /\ ShutdownOrder[1] = {"pool"} /\ ShutdownOrder[2] = Client
    /\ ShutdownOrder[3] = {"epoll_fd"} /\ ShutdownOrder[4] = {"listen_fd"}
BY DEF Phases, ShutdownOrder

LEMMA Made ==
    /\ MadeBefore(1) = {} /\ MadeBefore(2) = {}
    /\ \A n \in 3..8 : MadeBefore(n) = {"listen_fd"}
    /\ MadeBefore(9) = {"listen_fd", "epoll_fd"}
    /\ MadeBefore(10) = Own /\ MadeBefore(11) = Own
<1>1. MadeBefore(1) = {} /\ MadeBefore(2) = {}
  BY DEF MadeBefore
<1>2. \A n \in 3..8 : MadeBefore(n) = {"listen_fd"}
  BY DEF MadeBefore
<1>3. MadeBefore(9) = {"listen_fd", "epoll_fd"}
  BY DEF MadeBefore
<1>4. MadeBefore(10) = Own
  BY DEF MadeBefore, Own
<1>5. MadeBefore(11) = Own
  BY DEF MadeBefore, Own
<1> QED
  BY <1>1, <1>2, <1>3, <1>4, <1>5

(* What a call that succeeds adds, and what is left when one fails. *)
LEMMA CallEffects ==
    ASSUME NEW n \in 1..10
    PROVE  /\ MadeBefore(n) \cup Gives(Calls[n]) = MadeBefore(n + 1)
           /\ Calls[n] # "setup_signals" =>
                MadeBefore(n) \ ClosedAfter(Calls[n])
                  \subseteq IF Calls[n] = "epoll_add_fd" THEN {"pool"} ELSE {}
<1>1. CASE n = 1
  <2>1. Calls[n] = "open root"
    BY <1>1, TheCalls
  <2>3. n + 1 = 2
    BY <1>1
  <2> QED
    BY <1>1, <2>1, <2>3, Made DEF Gives, ClosedAfter
<1>2. CASE n = 2
  <2>1. Calls[n] = "socket"
    BY <1>2, TheCalls
  <2>3. n + 1 = 3
    BY <1>2
  <2>2. MadeBefore(n) = {} /\ MadeBefore(n + 1) = {"listen_fd"}
    BY <1>2, <2>3, Made
  <2> QED
    BY <2>1, <2>2 DEF Gives, ClosedAfter
<1>3. CASE n \in 3..7
  <2>1. MadeBefore(n) = {"listen_fd"} /\ MadeBefore(n + 1) = {"listen_fd"}
    BY <1>3, Made
  <2>2. n = 3 \/ n = 4 \/ n = 5 \/ n = 6 \/ n = 7
    BY <1>3
  <2>3. Calls[n] \in {"setsockopt", "bind", "listen", "set_nonblocking", "setup_signals"}
    BY <2>2, TheCalls
  <2> QED
    BY <2>1, <2>3 DEF Gives, ClosedAfter
<1>4. CASE n = 8
  <2>1. Calls[n] = "epoll_create1"
    BY <1>4, TheCalls
  <2>3. n + 1 = 9
    BY <1>4
  <2>2. MadeBefore(n) = {"listen_fd"} /\ MadeBefore(n + 1) = {"listen_fd", "epoll_fd"}
    BY <1>4, <2>3, Made
  <2> QED
    BY <2>1, <2>2 DEF Gives, ClosedAfter
<1>5. CASE n = 9
  <2>1. Calls[n] = "thread_pool_create"
    BY <1>5, TheCalls
  <2>3. n + 1 = 10
    BY <1>5
  <2>2. MadeBefore(n) = {"listen_fd", "epoll_fd"} /\ MadeBefore(n + 1) = Own
    BY <1>5, <2>3, Made
  <2> QED
    BY <2>1, <2>2 DEF Gives, ClosedAfter, Own
<1>6. CASE n = 10
  <2>1. Calls[n] = "epoll_add_fd"
    BY <1>6, TheCalls
  <2>3. n + 1 = 11
    BY <1>6
  <2>2. MadeBefore(n) = Own /\ MadeBefore(n + 1) = Own
    BY <1>6, <2>3, Made
  <2> QED
    BY <2>1, <2>2 DEF Gives, ClosedAfter, Own
<1>7. n = 1 \/ n = 2 \/ n \in 3..7 \/ n = 8 \/ n = 9 \/ n = 10
  OBVIOUS
<1> QED
  BY <1>1, <1>2, <1>3, <1>4, <1>5, <1>6, <1>7

LEMMA InitLInv == Init => LInv
<1> SUFFICES ASSUME Init
             PROVE  LInv
  OBVIOUS
<1>1. /\ exit = "no" /\ next = 1 /\ phase = "starting" /\ held = {} /\ handlers = FALSE
      /\ failed = "none"
  BY DEF Init, ArgInit
<1>2. LifeTypes
  <2>1. next \in 1..11
    BY <1>1
  <2> QED
    BY <1>1, <2>1 DEF LifeTypes
<1>4. Ending /\ NothingLeft
  BY <1>1 DEF Ending, NothingLeft, Gone
<1>3. Starting
  BY <1>1, Made DEF Starting
<1> QED
  BY <1>2, <1>3, <1>4 DEF LInv

(* The loop over the arguments ends in the start-up or in an exit. *)
LEMMA ArgumentsKeepLInv ==
    ASSUME LInv, ParseArguments
    PROVE  LInv'
<1>1. exit = "no" /\ exit' \in {"no", "server", "0", "1"} /\ UNCHANGED lifeVars
  BY DEF ParseArguments, ArgStep, ValueMissing, ValueRefused, ValueTaken, Help, Unknown,
         GoOn, Return, Looking
<1>2. phase = "starting" /\ held = {} /\ next <= 10
  BY <1>1 DEF LInv, Starting, Gone
<1> QED
  BY <1>1, <1>2 DEF LInv, LifeTypes, Starting, Ending, NothingLeft, Gone, lifeVars

LEMMA CallsKeepLInv ==
    ASSUME LInv, CallSucceeds \/ CallFails \/ CreateHangs
    PROVE  LInv'
<1>1. /\ phase = "starting" /\ exit = "server" /\ ~Gone /\ next \in 1..10
      /\ held = MadeBefore(next) /\ failed = "none"
  BY DEF CallSucceeds, CallFails, CreateHangs, At, LInv, LifeTypes, Starting, Gone
<1>2. CASE CallSucceeds
  <2>1. held' = MadeBefore(next + 1) /\ next' = next + 1 /\ exit' = exit /\ failed' = failed
    BY <1>1, <1>2, CallEffects DEF CallSucceeds, GoesOn, argVars
  <2>2. MadeBefore(next + 1) \subseteq Own
    BY DEF MadeBefore, Own
  <2>3. handlers' \in BOOLEAN /\ (next + 1 > 7 => handlers')
    <3>1. handlers' = (handlers \/ Calls[next] = "setup_signals")
      BY <1>2 DEF CallSucceeds
    <3>2. next > 7 => handlers
      BY DEF LInv, Starting
    <3>3. next = 7 => Calls[next] = "setup_signals"
      BY TheCalls
    <3>4. next + 1 > 7 => next = 7 \/ next > 7
      BY <1>1
    <3> QED
      BY <3>1, <3>2, <3>3, <3>4, Zenon
  <2>4. CASE next = 10
    <3>1. phase' = "running"
      BY <1>2, <2>4, TheCalls DEF CallSucceeds
    <3>2. LifeTypes'
      BY <1>1, <2>1, <2>2, <2>3, <2>4, <3>1 DEF LifeTypes
    <3>3. Starting'
      BY <1>1, <2>1, <2>3, <2>4, <3>1 DEF Starting, Gone
    <3>4. Ending' /\ NothingLeft'
      BY <1>1, <2>1, <3>1 DEF Ending, NothingLeft, Gone
    <3> QED
      BY <3>2, <3>3, <3>4 DEF LInv
  <2>5. CASE next # 10
    <3>1. phase' = "starting"
      BY <1>2, <2>5, TheCalls DEF CallSucceeds
    <3>2. LifeTypes'
      BY <1>1, <2>1, <2>2, <2>3, <2>5, <3>1 DEF LifeTypes
    <3>3. Starting'
      BY <1>1, <2>1, <2>3, <2>5, <3>1 DEF Starting, Gone
    <3>4. Ending' /\ NothingLeft'
      BY <1>1, <2>1, <3>1 DEF Ending, NothingLeft, Gone
    <3> QED
      BY <3>2, <3>3, <3>4 DEF LInv
  <2> QED
    BY <2>4, <2>5
<1>3. CASE CallFails
  <2>1. held' \subseteq IF Calls[next] = "epoll_add_fd" THEN {"pool"} ELSE {}
    BY <1>1, <1>3, CallEffects DEF CallFails
  <2>2. failed' = Calls[next] /\ exit' \in {"0", "1"} /\ UNCHANGED <<next, phase, handlers>>
    BY <1>3 DEF CallFails, Leaves
  <2> QED
    BY <1>1, <2>1, <2>2 DEF LInv, LifeTypes, Starting, Ending, NothingLeft, Gone, Own
<1>4. CASE CreateHangs
  <2>1. /\ Calls[next] = "thread_pool_create" /\ phase' = "hung" /\ exit' = exit
        /\ UNCHANGED <<next, held, handlers, failed>>
    BY <1>4 DEF CreateHangs, GoesOn, argVars
  <2>2. next = 9
    <3>1. next = 1 \/ next = 2 \/ next = 3 \/ next = 4 \/ next = 5 \/ next = 6 \/ next = 7
          \/ next = 8 \/ next = 9 \/ next = 10
      BY <1>1
    <3> QED
      BY <2>1, <3>1, TheCalls
  <2>3. handlers
    BY <2>2 DEF LInv, Starting
  <2> QED
    BY <1>1, <2>1, <2>3 DEF LInv, LifeTypes, Starting, Ending, NothingLeft, Gone
<1> QED
  BY <1>2, <1>3, <1>4

LEMMA LoopKeepsLInv ==
    ASSUME LInv, Signal \/ Round \/ LeaveLoop \/ WaitFails \/ \E c \in Client : LastTask(c)
    PROVE  LInv'
<1>1. CASE Signal
  <2>1. UNCHANGED <<next, phase, handlers, failed>> /\ ~Gone
    BY <1>1 DEF Signal
  <2>2. CASE handlers
    <3>1. UNCHANGED <<held, exit>>
      BY <1>1, <2>2 DEF Signal, GoesOn, argVars
    <3> QED
      BY <2>1, <3>1 DEF LInv, LifeTypes, Starting, Ending, NothingLeft, Gone
  <2>3. CASE ~handlers
    <3>1. exit' = "killed" /\ held' = {}
      BY <1>1, <2>3 DEF Signal, Leaves
    <3> QED
      BY <2>1, <2>3, <3>1 DEF LInv, LifeTypes, Starting, Ending, NothingLeft, Gone
  <2> QED
    BY <2>2, <2>3
<1>2. CASE Round
  <2>1. /\ exit = "server" /\ exit' = exit /\ phase = "running" /\ phase' = phase
        /\ held' \subseteq held \cup Client /\ UNCHANGED <<next, handlers, failed>>
    BY <1>2 DEF Round, At, GoesOn, argVars
  <2> QED
    BY <2>1, LaterKeepsLInv DEF LInv, LifeTypes, Ending
<1>3. CASE LeaveLoop \/ WaitFails
  <2>1. /\ exit = "server" /\ exit' = exit /\ phase = "running" /\ phase' = "destroy"
        /\ UNCHANGED <<next, held, handlers, failed>>
    BY <1>3 DEF LeaveLoop, WaitFails, At, GoesOn, argVars
  <2>2. phase' = Phases[1] /\ Ending'
    BY <2>1, ThePhases DEF Ending
  <2> QED
    BY <2>1, <2>2, LaterKeepsLInv DEF LInv, LifeTypes
<1>4. ASSUME NEW c \in Client, LastTask(c)
      PROVE  LInv'
  <2>1. /\ exit = "server" /\ exit' = exit /\ phase = "destroy" /\ phase' = phase
        /\ held' \subseteq held /\ UNCHANGED <<next, handlers, failed>>
    BY <1>4 DEF LastTask, At, GoesOn, argVars
  <2> QED
    BY <2>1, LaterKeepsLInv DEF LInv, LifeTypes, Ending
<1> QED
  BY <1>1, <1>2, <1>3, <1>4

LEMMA ShutdownKeepsLInv ==
    ASSUME LInv, Shutdown
    PROVE  LInv'
<1>1. PICK k \in 1..4 :
        /\ At(Phases[k]) /\ held' = held \ ShutdownOrder[k]
        /\ IF k = 4 THEN Leaves("0") /\ UNCHANGED phase
                    ELSE GoesOn /\ phase' = Phases[k + 1]
        /\ UNCHANGED <<next, handlers, running, failed>>
  BY DEF Shutdown
<1>2. /\ exit = "server" /\ phase = Phases[k] /\ held \subseteq Own \cup Client
      /\ held' \subseteq held /\ UNCHANGED <<next, handlers, failed>>
  BY <1>1 DEF At, LInv, LifeTypes
<1>3. CASE k = 4
  <2>1. phase = "close listen" /\ phase' = phase /\ exit' = "0" /\ held' = {}
    BY <1>1, <1>2, <1>3, ThePhases DEF Leaves, LInv, Ending
  <2>2. phase' = Phases[4] /\ Ending'
    BY <2>1, ThePhases DEF Ending
  <2> QED
    BY <1>2, <2>1, <2>2, LaterKeepsLInv
<1>4. CASE k \in 1..3
  <2>1. /\ phase' = Phases[k + 1] /\ exit' = exit /\ held' = held \ ShutdownOrder[k]
        /\ k + 1 \in 1..4 /\ (k = 1 \/ k = 2 \/ k = 3)
    BY <1>1, <1>4 DEF GoesOn, argVars
  <2>2. CASE k = 1
    <3>1. phase = "destroy" /\ phase' = "cleanup" /\ held' = held \ {"pool"}
      <4>1. k + 1 = 2
        BY <2>2
      <4> QED
        BY <1>2, <2>1, <2>2, <4>1, ThePhases
    <3>2. Ending'
      BY <1>2, <3>1 DEF Ending, Own
    <3> QED
      BY <1>2, <2>1, <3>1, <3>2, LaterKeepsLInv
  <2>3. CASE k = 2
    <3>1. phase = "cleanup" /\ phase' = "close epoll" /\ held' = held \ Client
      <4>1. k + 1 = 3
        BY <2>3
      <4> QED
        BY <1>2, <2>1, <2>3, <4>1, ThePhases
    <3>2. Ending'
      BY <3>1 DEF LInv, Ending
    <3> QED
      BY <1>2, <2>1, <3>1, <3>2, LaterKeepsLInv
  <2>4. CASE k = 3
    <3>1. phase = "close epoll" /\ phase' = "close listen" /\ held' = held \ {"epoll_fd"}
      <4>1. k + 1 = 4
        BY <2>4
      <4> QED
        BY <1>2, <2>1, <2>4, <4>1, ThePhases
    <3>2. Ending'
      BY <3>1 DEF LInv, Ending
    <3> QED
      BY <1>2, <2>1, <3>1, <3>2, LaterKeepsLInv
  <2> QED
    BY <2>1, <2>2, <2>3, <2>4
<1> QED
  BY <1>3, <1>4

(* The invariant holds from the command line to the return of main. *)
THEOREM Invariance == Spec => []LInv
<1>1. LInv /\ UNCHANGED vars => LInv'
  <2> SUFFICES ASSUME LInv, UNCHANGED vars
               PROVE  LInv'
    OBVIOUS
  <2> QED
    BY DEF vars, argVars, lifeVars, LInv, LifeTypes, Starting, Ending, NothingLeft, Gone
<1>2. LInv /\ Next => LInv'
  BY ArgumentsKeepLInv, CallsKeepLInv, LoopKeepsLInv, ShutdownKeepsLInv
  DEF Next, Server
<1> QED
  BY InitLInv, <1>1, <1>2, PTL DEF Spec

(* Whatever call of the start-up fails and whenever the signal comes, the
   process leaves nothing, but for the pool of a failed epoll_add_fd. *)
THEOREM NothingIsLeft == Spec => []NothingLeft
BY Invariance, PTL DEF LInv

-----------------------------------------------------------------------------
(* The signal ends the server *)

(* The handler is installed by the seventh call, in server_run. *)
Installed == handlers => exit # "no" /\ next > 7

LEMMA NextInstalled == LInv /\ Installed /\ [Next]_vars => Installed'
<1> SUFFICES ASSUME LInv, Installed, [Next]_vars
             PROVE  Installed'
  OBVIOUS
<1> USE DEF Installed, argVars
<1>1. next \in 1..11 /\ next' \in {next, next + 1}
  BY DEF Next, Server, ParseArguments, CallSucceeds, CallFails, CreateHangs, Round, LeaveLoop, Shutdown,
         Signal, WaitFails, LastTask, vars, lifeVars, LInv, LifeTypes
<1>2. CASE CallSucceeds
  <2>1. exit' = "server" /\ next' = next + 1 /\ next <= 10
    BY <1>2 DEF CallSucceeds, At, GoesOn, LInv, Starting, Gone
  <2>2. next \in 1..10
    BY <1>1, <2>1
  <2>3. handlers' = (handlers \/ Calls[next] = "setup_signals")
    BY <1>2 DEF CallSucceeds
  <2>4. Calls[next] = "setup_signals" => next = 7
    <3>1. next = 1 \/ next = 2 \/ next = 3 \/ next = 4 \/ next = 5 \/ next = 6 \/ next = 7
          \/ next = 8 \/ next = 9 \/ next = 10
      BY <2>2
    <3> QED
      BY <3>1, TheCalls
  <2>5. CASE handlers
    <3>1. next' > 7
      BY <1>1, <2>1, <2>5
    <3> QED
      BY <2>1, <3>1
  <2>6. CASE ~handlers
    <3>1. Calls[next] = "setup_signals" => next' > 7
      BY <2>1, <2>4
    <3> QED
      BY <2>1, <2>3, <2>6, <3>1
  <2> QED
    BY <2>5, <2>6
<1>3. CASE ~CallSucceeds
  <2>1. UNCHANGED <<handlers, next>>
    BY <1>3 DEF Next, Server, ParseArguments, CallFails, CreateHangs, Round, LeaveLoop, Shutdown, Signal,
                WaitFails, LastTask, vars, lifeVars
  <2>2. exit # "no" => exit' # "no"
    BY <1>3 DEF Next, Server, ParseArguments, CallFails, CreateHangs, Round, LeaveLoop, Shutdown, Signal,
                WaitFails, LastTask, vars, GoesOn, Leaves, ArgStep, ValueMissing,
                ValueRefused, ValueTaken, Help, Unknown, GoOn, Looking, Return
  <2> QED
    BY <2>1, <2>2
<1> QED
  BY <1>2, <1>3

(* The server has been told to stop, and is still there. *)
Told == handlers /\ running = 0 /\ ~Gone /\ ~Hung

(* It has stopped, or never will. *)
Out == Gone \/ Hung

(* Where the main thread is then on its way out. *)
Way(p, n) == Told /\ phase = p /\ (p = "starting" => next = n)

LEMMA ToldIsSomewhere ==
    ASSUME LInv, Installed, Told
    PROVE  \/ Way("starting", 8) \/ Way("starting", 9) \/ Way("starting", 10)
           \/ Way("running", 11) \/ Way("destroy", 11) \/ Way("cleanup", 11)
           \/ Way("close epoll", 11) \/ Way("close listen", 11)
<1>1. phase = "starting" => next = 8 \/ next = 9 \/ next = 10
  BY DEF LInv, LifeTypes, Starting, Installed, Told
<1>2. phase \in {"starting", "running", "destroy", "cleanup", "close epoll", "close listen"}
  <2>1. \A k \in 1..4 : Phases[k] \in {"destroy", "cleanup", "close epoll", "close listen"}
    <3> SUFFICES ASSUME NEW k \in 1..4
                 PROVE  Phases[k] \in {"destroy", "cleanup", "close epoll", "close listen"}
      OBVIOUS
    <3>1. k = 1 \/ k = 2 \/ k = 3 \/ k = 4
      OBVIOUS
    <3> QED
      BY <3>1, ThePhases
  <2> QED
    BY <2>1 DEF LInv, LifeTypes, Told, Hung
<1>3. phase = "starting" => Way("starting", 8) \/ Way("starting", 9) \/ Way("starting", 10)
  BY <1>1 DEF Way
<1> QED
  BY <1>2, <1>3 DEF Way

(* The main thread's steps lead on, or out. *)
LEMMA ServerLeadsOn ==
    ASSUME LInv, Installed, Told, Server
    PROVE  \/ Gone'
           \/ /\ Told'
              /\ \/ /\ phase = "starting" /\ next' = next + 1
                    /\ phase' = IF next = 10 THEN "running" ELSE "starting"
                 \/ phase = "running" /\ phase' = "destroy"
                 \/ phase = "destroy" /\ phase' = "cleanup"
                 \/ phase = "cleanup" /\ phase' = "close epoll"
                 \/ phase = "close epoll" /\ phase' = "close listen"
<1>1. exit = "server" /\ handlers /\ running = 0
  BY DEF LInv, LifeTypes, Installed, Told, Gone, Hung
<1>2. ~ParseArguments /\ ~Round
  BY <1>1 DEF ParseArguments, ArgStep, ValueMissing, ValueRefused, ValueTaken, Help,
              Unknown, GoOn, Looking, Round
<1>3. CASE CallSucceeds
  <2>1. phase = "starting" /\ exit' = "server" /\ next' = next + 1 /\ running' = running
    BY <1>3 DEF CallSucceeds, At, GoesOn, argVars, RunningThen
  <2>2. phase' = IF next = 10 THEN "running" ELSE "starting"
    BY <1>3, TheCalls DEF CallSucceeds
  <2>3. handlers'
    BY <1>1, <1>3 DEF CallSucceeds
  <2> QED
    BY <1>1, <2>1, <2>2, <2>3 DEF Told, Gone, Hung
<1>4. CASE CallFails
  BY <1>4 DEF CallFails, Leaves, Gone
<1>5. CASE LeaveLoop
  BY <1>1, <1>5 DEF LeaveLoop, At, GoesOn, argVars, Told, Gone, Hung
<1>6. CASE Shutdown
  <2>1. PICK k \in 1..4 :
          /\ At(Phases[k])
          /\ IF k = 4 THEN Leaves("0") /\ UNCHANGED phase
                      ELSE GoesOn /\ phase' = Phases[k + 1]
          /\ UNCHANGED <<next, handlers, running, failed>>
    BY <1>6 DEF Shutdown
  <2>2. CASE k = 4
    BY <2>1, <2>2 DEF Leaves, Gone
  <2>3. CASE k # 4
    <3>1. /\ phase = Phases[k] /\ phase' = Phases[k + 1] /\ exit' = exit
          /\ UNCHANGED <<handlers, running>>
      BY <2>1, <2>3 DEF At, GoesOn, argVars
    <3>2. \/ k = 1 /\ k + 1 = 2
          \/ k = 2 /\ k + 1 = 3
          \/ k = 3 /\ k + 1 = 4
      BY <2>3
    <3>3. \/ phase = "destroy" /\ phase' = "cleanup"
          \/ phase = "cleanup" /\ phase' = "close epoll"
          \/ phase = "close epoll" /\ phase' = "close listen"
      BY <3>1, <3>2, ThePhases
    <3>4. Told'
      BY <1>1, <3>1, <3>3 DEF Told, Gone, Hung
    <3> QED
      BY <3>3, <3>4
  <2> QED
    BY <2>2, <2>3
<1> QED
  BY <1>2, <1>3, <1>4, <1>5, <1>6 DEF Server

(* Nothing else that happens turns it back. *)
LEMMA OthersLeaveIt ==
    ASSUME LInv, Installed, Told, [Next]_vars, ~Server
    PROVE  Out' \/ (Told' /\ UNCHANGED <<phase, next>>)
<1>1. exit = "server" /\ handlers /\ running = 0
  BY DEF LInv, LifeTypes, Installed, Told, Gone, Hung
<1>2. CASE Signal
  BY <1>1, <1>2 DEF Signal, GoesOn, argVars, Told, Gone, Hung
<1>3. ~WaitFails
  BY <1>1 DEF WaitFails
<1>4. ASSUME NEW c \in Client, LastTask(c) PROVE Told' /\ UNCHANGED <<phase, next>>
  BY <1>1, <1>4 DEF LastTask, GoesOn, argVars, Told, Gone, Hung
<1>5. CASE UNCHANGED vars
  BY <1>5 DEF vars, lifeVars, argVars, Told, Gone, Hung
<1>6. CASE CreateHangs
  BY <1>6 DEF CreateHangs, Out, Hung
<1> QED
  BY <1>2, <1>3, <1>4, <1>5, <1>6 DEF Next

(* Told to stop, the main thread always has a step to take.  ENABLED is beyond
   the provers here; the guards show it. *)
MainCanGo == Told => ENABLED <<Server>>_vars

(* If the main thread is scheduled, a signal that comes any time after
   setup_signals ends the server, through every call, phase and connection
   that is left, unless thread_pool_create hangs (thread_pool.c:102): whatever
   else happens, no stage of the way out is kept for ever, and none is entered
   twice. *)
THEOREM SignalEnds == FairSpec /\ []MainCanGo => SignalEndsServer
<1> DEFINE
     S8 == Way("starting", 8)
     S9 == Way("starting", 9)
     S10 == Way("starting", 10)
     R == Way("running", 11)
     D == Way("destroy", 11)
     C == Way("cleanup", 11)
     E == Way("close epoll", 11)
     L == Way("close listen", 11)
<1>1. LInv /\ Installed /\ S8 /\ [Next]_vars => S8' \/ S9' \/ Out'
  BY ServerLeadsOn, OthersLeaveIt DEF Way, Out
<1>2. LInv /\ Installed /\ S8 /\ <<Server>>_vars => S9' \/ Out'
  BY ServerLeadsOn DEF Way, Next, Out
<1>3. LInv /\ Installed /\ S9 /\ [Next]_vars => S9' \/ S10' \/ Out'
  BY ServerLeadsOn, OthersLeaveIt DEF Way, Out
<1>4. LInv /\ Installed /\ S9 /\ <<Server>>_vars => S10' \/ Out'
  BY ServerLeadsOn DEF Way, Next, Out
<1>5. LInv /\ Installed /\ S10 /\ [Next]_vars => S10' \/ R' \/ Out'
  BY ServerLeadsOn, OthersLeaveIt DEF Way, Out
<1>6. LInv /\ Installed /\ S10 /\ <<Server>>_vars => R' \/ Out'
  BY ServerLeadsOn DEF Way, Next, Out
<1>7. LInv /\ Installed /\ R /\ [Next]_vars => R' \/ D' \/ Out'
  BY ServerLeadsOn, OthersLeaveIt DEF Way, Out
<1>8. LInv /\ Installed /\ R /\ <<Server>>_vars => D' \/ Out'
  BY ServerLeadsOn DEF Way, Next, Out
<1>9. LInv /\ Installed /\ D /\ [Next]_vars => D' \/ C' \/ Out'
  BY ServerLeadsOn, OthersLeaveIt DEF Way, Out
<1>10. LInv /\ Installed /\ D /\ <<Server>>_vars => C' \/ Out'
  BY ServerLeadsOn DEF Way, Next, Out
<1>11. LInv /\ Installed /\ C /\ [Next]_vars => C' \/ E' \/ Out'
  BY ServerLeadsOn, OthersLeaveIt DEF Way, Out
<1>12. LInv /\ Installed /\ C /\ <<Server>>_vars => E' \/ Out'
  BY ServerLeadsOn DEF Way, Next, Out
<1>13. LInv /\ Installed /\ E /\ [Next]_vars => E' \/ L' \/ Out'
  BY ServerLeadsOn, OthersLeaveIt DEF Way, Out
<1>14. LInv /\ Installed /\ E /\ <<Server>>_vars => L' \/ Out'
  BY ServerLeadsOn DEF Way, Next, Out
<1>15. LInv /\ Installed /\ L /\ [Next]_vars => L' \/ Out'
  BY ServerLeadsOn, OthersLeaveIt DEF Way, Out
<1>16. LInv /\ Installed /\ L /\ <<Server>>_vars => Out'
  BY ServerLeadsOn DEF Way, Next, Out
<1>17. LInv /\ Installed /\ Told => S8 \/ S9 \/ S10 \/ R \/ D \/ C \/ E \/ L
  BY ToldIsSomewhere
<1>18. S8 \/ S9 \/ S10 \/ R \/ D \/ C \/ E \/ L => Told
  BY DEF Way
<1>19. handlers /\ running = 0 => Told \/ Out
  BY DEF Told, Out
<1>20. Spec => []Installed
  <2>1. Init => Installed
    BY DEF Init, Installed
  <2> QED
    BY <2>1, NextInstalled, Invariance, PTL DEF Spec
<1> HIDE DEF S8, S9, S10, R, D, C, E, L
<1>21. FairSpec /\ []MainCanGo => (S8 ~> S9 \/ Out)
  BY <1>1, <1>2, <1>18, <1>20, Invariance, PTL DEF FairSpec, Spec, MainCanGo
<1>22. FairSpec /\ []MainCanGo => (S9 ~> S10 \/ Out)
  BY <1>3, <1>4, <1>18, <1>20, Invariance, PTL DEF FairSpec, Spec, MainCanGo
<1>23. FairSpec /\ []MainCanGo => (S10 ~> R \/ Out)
  BY <1>5, <1>6, <1>18, <1>20, Invariance, PTL DEF FairSpec, Spec, MainCanGo
<1>24. FairSpec /\ []MainCanGo => (R ~> D \/ Out)
  BY <1>7, <1>8, <1>18, <1>20, Invariance, PTL DEF FairSpec, Spec, MainCanGo
<1>25. FairSpec /\ []MainCanGo => (D ~> C \/ Out)
  BY <1>9, <1>10, <1>18, <1>20, Invariance, PTL DEF FairSpec, Spec, MainCanGo
<1>26. FairSpec /\ []MainCanGo => (C ~> E \/ Out)
  BY <1>11, <1>12, <1>18, <1>20, Invariance, PTL DEF FairSpec, Spec, MainCanGo
<1>27. FairSpec /\ []MainCanGo => (E ~> L \/ Out)
  BY <1>13, <1>14, <1>18, <1>20, Invariance, PTL DEF FairSpec, Spec, MainCanGo
<1>28. FairSpec /\ []MainCanGo => (L ~> Out)
  BY <1>15, <1>16, <1>18, <1>20, Invariance, PTL DEF FairSpec, Spec, MainCanGo
<1> QED
  BY <1>17, <1>19, <1>20, <1>21, <1>22, <1>23, <1>24, <1>25, <1>26, <1>27, <1>28,
     Invariance, PTL DEF FairSpec, SignalEndsServer, Out

-----------------------------------------------------------------------------
(* The command line *)

(* The options o that the loop over the arguments has passed. *)
Passed(o) == {j \in DOMAIN argv : Odd(j) /\ j < i /\ argv[j].opt = o}

IsLast(S, j) == j \in S /\ \A k \in S : k <= j

Configs == [port : Nat, web_root : [arg : Nat, whole : BOOLEAN], max_connections : Nat,
            thread_count : Nat]

ArgTypes ==
    /\ argv \in Seq(Arg) /\ i \in Nat \ {0} /\ i <= Len(argv) + 1
    /\ config \in Configs

InRange ==
    /\ config.port > 0 /\ config.port <= 65535
    /\ config.max_connections > 0 /\ config.max_connections <= 1024
    /\ config.thread_count > 0 /\ config.thread_count <= 64

(* The loop goes from pair to pair, and every one it has passed is an option
   and its value. *)
InPairs ==
    /\ Odd(i)
    /\ exit = "server" => i = Len(argv) + 1
    /\ \A j \in DOMAIN argv : Odd(j) /\ j < i => argv[j].opt \in Valued

(* Of each option the last one passed counts. *)
LastPassed ==
    /\ \A o \in Valued : Passed(o) # {} => \E j \in Passed(o) : IsLast(Passed(o), j)
    /\ Passed("p") = {} => config.port = 8080
    /\ Passed("r") = {} => config.web_root = Unset.web_root
    /\ Passed("m") = {} => config.max_connections = 1024
    /\ Passed("t") = {} => config.thread_count = 4
    /\ \A j \in Nat :
        /\ IsLast(Passed("p"), j) => config.port = Port(argv[j + 1].num)
        /\ IsLast(Passed("r"), j) => config.web_root = Root(j + 1)
        /\ IsLast(Passed("m"), j) => config.max_connections = argv[j + 1].num
        /\ IsLast(Passed("t"), j) => config.thread_count = argv[j + 1].num

AInv == ArgTypes /\ InRange /\ InPairs /\ LastPassed

LEMMA Parity ==
    ASSUME NEW n \in Nat, Odd(n)
    PROVE  ~Odd(n + 1) /\ Odd(n + 2)
BY DEF Odd

LEMMA PortIs ==
    ASSUME NEW n \in Int
    PROVE  Port(n) \in Int /\ (IsPort(n) => Port(n) = n)
<1>1. Port(n) \in Int
  BY DEF Port
<1>2. ASSUME IsPort(n) PROVE Port(n) = n
  <2>1. 0 <= n /\ n < 65536
    BY <1>2 DEF IsPort
  <2> QED
    BY <2>1 DEF Port
<1> QED
  BY <1>1, <1>2

LEMMA NumbersInt ==
    ASSUME NEW a \in Arg
    PROVE  a.num \in Int /\ a.fits \in BOOLEAN
<1>1. CASE a \in [opt : Valued \cup {"h"}, num : {0}, fits : {TRUE}]
  <2>1. a.num \in {0} /\ a.fits \in {TRUE}
    BY <1>1
  <2>2. a.num \in Int
    BY <2>1
  <2>3. a.fits \in BOOLEAN
    BY <2>1, Zenon
  <2> QED
    BY <2>2, <2>3
<1>2. ASSUME NEW w \in Words, a = [opt |-> "word", num |-> w.num, fits |-> w.fits]
      PROVE  a.num \in Int /\ a.fits \in BOOLEAN
  <2>1. w.num \in Int /\ w.fits \in BOOLEAN
    BY InputsAssumption
  <2> QED
    BY <1>2, <2>1
<1> QED
  BY <1>1, <1>2 DEF Arg

LEMMA InitAInv == Init => AInv
<1> SUFFICES ASSUME Init
             PROVE  AInv
  OBVIOUS
<1>1. argv \in Seq(Arg) /\ Len(argv) \in Nat
  <2>1. PICK n \in 0..MaxArgs : argv \in [1..n -> Arg]
    BY DEF Init, ArgInit
  <2>2. n \in Nat
    BY <2>1, InputsAssumption
  <2> QED
    BY <2>1, <2>2
<1>2. ArgTypes /\ InRange
  BY <1>1 DEF ArgTypes, Configs, InRange, Init, ArgInit, Unset
<1>3. InPairs
  <2>1. Odd(1)
    BY DEF Odd
  <2> QED
    BY <1>1, <2>1 DEF InPairs, Init, ArgInit
<1>4. \A o : Passed(o) = {}
  BY <1>1 DEF Passed, Init, ArgInit
<1>5. LastPassed
  BY <1>4 DEF LastPassed, IsLast, Root, Init, ArgInit, Unset
<1> QED
  BY <1>2, <1>3, <1>5 DEF AInv

(* The steps that read no argument. *)
LEMMA QuietKeepsAInv ==
    ASSUME AInv, UNCHANGED <<argv, i, config>>, exit' = "server" => i = Len(argv) + 1
    PROVE  AInv'
<1>1. \A o : Passed(o)' = Passed(o)
  BY DEF Passed
<1>2. LastPassed'
  BY <1>1 DEF AInv, LastPassed, IsLast, Root
<1> QED
  BY <1>2 DEF AInv, ArgTypes, InRange, InPairs

LEMMA PairPassed ==
    ASSUME AInv, i + 1 <= Len(argv), UNCHANGED argv, i' = i + 2
    PROVE  \A o : Passed(o)' = IF argv[i].opt = o THEN Passed(o) \cup {i} ELSE Passed(o)
<1>1. /\ i \in Nat /\ Len(argv) \in Nat /\ DOMAIN argv = 1..Len(argv) /\ i \in DOMAIN argv
      /\ Odd(i) /\ ~Odd(i + 1)
  BY Parity DEF AInv, ArgTypes, InPairs
<1>2. \A j \in DOMAIN argv : Odd(j) => (j < i' <=> j < i \/ j = i)
  BY <1>1
<1> QED
  BY <1>1, <1>2 DEF Passed

LEMMA TakenKeepsAInv ==
    ASSUME AInv, ValueTaken
    PROVE  AInv'
<1>1. /\ exit = "no" /\ exit' = exit /\ argv' = argv /\ i' = i + 2 /\ i + 1 <= Len(argv)
      /\ argv[i].opt \in Valued
  BY DEF ValueTaken, Looking, Value
<1>2. /\ i \in Nat /\ Len(argv) \in Nat /\ DOMAIN argv = 1..Len(argv)
      /\ i \in DOMAIN argv /\ i + 1 \in DOMAIN argv /\ argv[i + 1] \in Arg
      /\ Odd(i + 2) /\ Odd(i) /\ ~Odd(i + 1)
  <2>1. /\ i \in Nat /\ Len(argv) \in Nat /\ DOMAIN argv = 1..Len(argv)
        /\ i \in DOMAIN argv /\ i + 1 \in DOMAIN argv /\ argv \in Seq(Arg)
    BY <1>1 DEF AInv, ArgTypes
  <2>2. argv[i + 1] \in Arg
    BY <2>1
  <2>3. Odd(i)
    BY DEF AInv, InPairs
  <2> QED
    BY <2>1, <2>2, <2>3, Parity
<1>0. PICK o \in Valued : o = argv[i].opt
  BY <1>1
<1> DEFINE n == argv[i + 1].num
<1>3. n \in Int /\ argv[i + 1].fits \in BOOLEAN
  BY <1>2, NumbersInt
<1>4. \/ argv[i].opt = "p" /\ Port(n) \in Nat /\ Port(n) > 0 /\ Port(n) <= 65535
         /\ config' = [config EXCEPT !.port = Port(n)]
      \/ argv[i].opt = "r" /\ config' = [config EXCEPT !.web_root = Root(i + 1)]
      \/ /\ argv[i].opt = "m" /\ n \in Nat /\ n > 0 /\ n <= 1024
         /\ config' = [config EXCEPT !.max_connections = n]
      \/ argv[i].opt = "t" /\ n \in Nat /\ n > 0 /\ n <= 64
          /\ config' = [config EXCEPT !.thread_count = n]
  <2>1. Port(n) \in Int
    BY <1>3, PortIs
  <2> QED
    BY <1>3, <2>1 DEF ValueTaken, Value, PortRefused, MaxRefused, ThreadsRefused
<1>5. ArgTypes' /\ InRange'
  <2>1. config' \in Configs /\ InRange'
    <3>1. \/ /\ Port(n) \in Nat /\ Port(n) > 0 /\ Port(n) <= 65535
             /\ config' = [config EXCEPT !.port = Port(n)]
          \/ config' = [config EXCEPT !.web_root = Root(i + 1)]
          \/ /\ n \in Nat /\ n > 0 /\ n <= 1024
             /\ config' = [config EXCEPT !.max_connections = n]
          \/ /\ n \in Nat /\ n > 0 /\ n <= 64
             /\ config' = [config EXCEPT !.thread_count = n]
      BY <1>4
    <3>2. Root(i + 1) \in [arg : Nat, whole : BOOLEAN]
      BY <1>2, <1>3 DEF Root
    <3>3. config \in Configs /\ InRange
      BY DEF AInv, ArgTypes, Configs
    <3> QED
      BY <3>1, <3>2, <3>3 DEF InRange, Configs
  <2> QED
    BY <1>1, <1>2, <2>1 DEF AInv, ArgTypes
<1>6. InPairs'
  <2>1. ASSUME NEW j \in DOMAIN argv, Odd(j), j < i + 2
        PROVE  argv[j].opt \in Valued
    <3>1. j < i \/ j = i
      BY <1>2, <2>1
    <3> QED
      BY <1>1, <2>1, <3>1 DEF AInv, InPairs
  <2> QED
    BY <1>1, <1>2, <2>1 DEF InPairs
<1>7. \A q : Passed(q)' = IF argv[i].opt = q THEN Passed(q) \cup {i} ELSE Passed(q)
  BY <1>1, PairPassed
<1>8. \A q : \A j \in Passed(q) : j < i /\ j \in Nat
  BY <1>2 DEF Passed
<1>9. IsLast(Passed(o)', i) /\ \A j : IsLast(Passed(o)', j) => j = i
  <2>1. Passed(o)' = Passed(o) \cup {i}
    BY <1>0, <1>7
  <2>2. \A j \in Passed(o) : j <= i /\ ~(i <= j)
    BY <1>2, <1>8
  <2> QED
    BY <1>2, <2>1, <2>2 DEF IsLast
<1>10. \A q \in Valued : Passed(q)' # {} => \E j \in Passed(q)' : IsLast(Passed(q), j)'
  <2> SUFFICES ASSUME NEW q \in Valued, Passed(q)' # {}
               PROVE  \E j \in Passed(q)' : IsLast(Passed(q)', j)
    BY DEF IsLast
  <2>1. CASE q = o
    BY <1>9, <2>1 DEF IsLast
  <2>2. CASE q # o
    BY <1>0, <1>7, <2>2 DEF AInv, LastPassed
  <2> QED
    BY <2>1, <2>2
<1>11. /\ Passed("p")' = {} => config'.port = 8080
       /\ \A j \in Nat : IsLast(Passed("p")', j) => config'.port = Port(argv[j + 1].num)
  <2>1. CASE o = "p"
    <3>1. config' = [config EXCEPT !.port = Port(argv[i + 1].num)]
      BY <1>0, <1>4, <2>1
    <3>2. config'.port = Port(argv[i + 1].num)
      BY <3>1 DEF AInv, ArgTypes, Configs
    <3> QED
      BY <1>9, <2>1, <3>2 DEF IsLast
  <2>2. CASE o # "p"
    <3>1. config'.port = config.port
      BY <1>0, <1>4, <2>2 DEF AInv, ArgTypes, Configs
    <3> QED
      BY <1>0, <1>7, <2>2, <3>1 DEF AInv, LastPassed
  <2> QED
    BY <2>1, <2>2
<1>12. /\ Passed("r")' = {} => config'.web_root = Unset.web_root
       /\ \A j \in Nat : IsLast(Passed("r")', j) => config'.web_root = Root(j + 1)
  <2>1. CASE o = "r"
    <3>1. config' = [config EXCEPT !.web_root = Root(i + 1)]
      BY <1>0, <1>4, <2>1
    <3>2. config'.web_root = Root(i + 1)
      BY <3>1 DEF AInv, ArgTypes, Configs
    <3> QED
      BY <1>9, <2>1, <3>2 DEF IsLast
  <2>2. CASE o # "r"
    <3>1. config'.web_root = config.web_root
      BY <1>0, <1>4, <2>2 DEF AInv, ArgTypes, Configs
    <3> QED
      BY <1>0, <1>7, <2>2, <3>1 DEF AInv, LastPassed
  <2> QED
    BY <2>1, <2>2
<1>13. /\ Passed("m")' = {} => config'.max_connections = 1024
       /\ \A j \in Nat : IsLast(Passed("m")', j) => config'.max_connections = argv[j + 1].num
  <2>1. CASE o = "m"
    <3>1. config' = [config EXCEPT !.max_connections = argv[i + 1].num]
      BY <1>0, <1>4, <2>1
    <3>2. config'.max_connections = argv[i + 1].num
      BY <3>1 DEF AInv, ArgTypes, Configs
    <3> QED
      BY <1>9, <2>1, <3>2 DEF IsLast
  <2>2. CASE o # "m"
    <3>1. config'.max_connections = config.max_connections
      BY <1>0, <1>4, <2>2 DEF AInv, ArgTypes, Configs
    <3> QED
      BY <1>0, <1>7, <2>2, <3>1 DEF AInv, LastPassed
  <2> QED
    BY <2>1, <2>2
<1>14. /\ Passed("t")' = {} => config'.thread_count = 4
       /\ \A j \in Nat : IsLast(Passed("t")', j) => config'.thread_count = argv[j + 1].num
  <2>1. CASE o = "t"
    <3>1. config' = [config EXCEPT !.thread_count = argv[i + 1].num]
      BY <1>0, <1>4, <2>1
    <3>2. config'.thread_count = argv[i + 1].num
      BY <3>1 DEF AInv, ArgTypes, Configs
    <3> QED
      BY <1>9, <2>1, <3>2 DEF IsLast
  <2>2. CASE o # "t"
    <3>1. config'.thread_count = config.thread_count
      BY <1>0, <1>4, <2>2 DEF AInv, ArgTypes, Configs
    <3> QED
      BY <1>0, <1>7, <2>2, <3>1 DEF AInv, LastPassed
  <2> QED
    BY <2>1, <2>2
<1>15. LastPassed'
  BY <1>1, <1>10, <1>11, <1>12, <1>13, <1>14 DEF LastPassed, IsLast, Root
<1> QED
  BY <1>5, <1>6, <1>15 DEF AInv

LEMMA NextKeepsAInv ==
    ASSUME AInv, Next
    PROVE  AInv'
<1>1. CASE ValueTaken
  BY <1>1, TakenKeepsAInv
<1>2. CASE ValueMissing \/ ValueRefused \/ Help \/ Unknown \/ GoOn
  <2>1. UNCHANGED <<argv, i, config>>
    BY <1>2 DEF ValueMissing, ValueRefused, Help, Unknown, GoOn, Return
  <2>2. exit' = "server" => i > Len(argv)
    BY <1>2 DEF ValueMissing, ValueRefused, Help, Unknown, GoOn, Return
  <2>3. i \in Nat /\ Len(argv) \in Nat /\ i <= Len(argv) + 1
    BY DEF AInv, ArgTypes
  <2> QED
    BY <2>1, <2>2, <2>3, QuietKeepsAInv
<1>3. CASE CallSucceeds \/ CallFails \/ CreateHangs \/ Round \/ LeaveLoop \/ WaitFails \/ Shutdown
            \/ Signal \/ \E c \in Client : LastTask(c)
  <2>1. UNCHANGED <<argv, i, config>>
    BY <1>3 DEF CallSucceeds, CallFails, CreateHangs, Round, LeaveLoop, WaitFails, Shutdown, Signal,
                LastTask, GoesOn, Leaves, argVars
  <2>2. exit' = "server" => exit = "server"
    BY <1>3 DEF CallSucceeds, CallFails, CreateHangs, Round, LeaveLoop, WaitFails, Shutdown, Signal,
                LastTask, GoesOn, Leaves, argVars
  <2>3. exit' = "server" => i = Len(argv) + 1
    BY <2>2 DEF AInv, InPairs
  <2> QED
    BY <2>1, <2>3, QuietKeepsAInv
<1> QED
  BY <1>1, <1>2, <1>3 DEF Next, Server, ParseArguments, ArgStep

(* A server runs only with a configuration within the limits, and with the last
   value of each option (main.c:42), as far as that is a port or fits web_root. *)
THEOREM LastValue == Spec => []LastValueCounts
<1>1. AInv /\ UNCHANGED vars => AInv'
  <2> SUFFICES ASSUME AInv, UNCHANGED vars
               PROVE  AInv'
    OBVIOUS
  <2> QED
    BY QuietKeepsAInv DEF vars, argVars, AInv, InPairs
<1>2. AInv => LastValueCounts
  <2> SUFFICES ASSUME AInv, exit = "server"
               PROVE  LastValueCounts
    BY DEF LastValueCounts
  <2>1. i = Len(argv) + 1 /\ Len(argv) \in Nat /\ DOMAIN argv = 1..Len(argv) /\ Odd(i)
    BY DEF AInv, InPairs, ArgTypes
  <2>2. ~Odd(Len(argv))
    BY <2>1 DEF Odd
  <2>3. \A o : Given(o) = Passed(o)
    BY <2>1 DEF Given, Passed
  <2>4. \A j \in DOMAIN argv : Odd(j) => argv[j].opt \in Valued
    BY <2>1 DEF AInv, InPairs
  <2>5. ASSUME NEW o \in Valued, Given(o) # {}
        PROVE  IsLast(Passed(o), Last(Given(o))) /\ Last(Given(o)) \in Nat
    <3>1. \E j \in Given(o) : \A k \in Given(o) : k <= j
      BY <2>3, <2>5 DEF AInv, LastPassed, IsLast
    <3>2. Last(Given(o)) \in Given(o) /\ \A k \in Given(o) : k <= Last(Given(o))
      BY <3>1 DEF Last
    <3>3. Given(o) \subseteq Nat
      BY <2>1 DEF Given
    <3> QED
      BY <2>3, <3>2, <3>3 DEF IsLast
  <2>6. IsPort(Number("p", Unset.port)) => config.port = Number("p", Unset.port)
    <3>1. CASE Given("p") = {}
      BY <2>3, <3>1 DEF AInv, LastPassed, Number, Unset
    <3>2. CASE Given("p") # {}
      <4>1. config.port = Port(Number("p", Unset.port))
        BY <2>5, <3>2 DEF AInv, LastPassed, Number, Valued
      <4>2. Number("p", Unset.port) \in Int
        <5> DEFINE j == Last(Given("p"))
        <5>1. j \in Passed("p")
          BY <2>5, <3>2 DEF IsLast, Valued
        <5>2. j \in 1..Len(argv) /\ Odd(j)
          BY <2>1, <5>1 DEF Passed
        <5>3. j # Len(argv)
          BY <2>2, <5>2
        <5>4. j + 1 \in DOMAIN argv
          BY <2>1, <5>2, <5>3
        <5>5. argv[j + 1] \in Arg
          BY <5>4 DEF AInv, ArgTypes
        <5> QED
          BY <3>2, <5>5, NumbersInt DEF Number
      <4> QED
        BY <4>1, <4>2, PortIs
    <3> QED
      BY <3>1, <3>2
  <2>7. /\ config.web_root.arg = IF Given("r") = {} THEN 0 ELSE Last(Given("r")) + 1
        /\ (Given("r") = {} \/ argv[Last(Given("r")) + 1].fits) => config.web_root.whole
    <3>1. CASE Given("r") = {}
      BY <2>3, <3>1 DEF AInv, LastPassed, Unset
    <3>2. CASE Given("r") # {}
      <4>1. config.web_root = Root(Last(Given("r")) + 1)
        BY <2>5, <3>2 DEF AInv, LastPassed, Valued
      <4> QED
        BY <3>2, <4>1 DEF Root
    <3> QED
      BY <3>1, <3>2
  <2>8. config.max_connections = Number("m", Unset.max_connections)
    BY <2>3, <2>5 DEF AInv, LastPassed, Number, Unset, Valued
  <2>9. config.thread_count = Number("t", Unset.thread_count)
    BY <2>3, <2>5 DEF AInv, LastPassed, Number, Unset, Valued
  <2>10. InRange
    BY DEF AInv
  <2> QED
    BY <2>2, <2>4, <2>6, <2>7, <2>8, <2>9, <2>10 DEF LastValueCounts, InRange
<1> QED
  BY <1>1, <1>2, InitAInv, NextKeepsAInv, PTL DEF Spec
=============================================================================
