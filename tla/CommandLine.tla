---------------------------- MODULE CommandLine -----------------------------
(***************************************************************************)
(* The arguments of the server: the loop of main in src/src/main.c, one    *)
(* round a step, for every command line that the constants allow.  An      *)
(* argument is the option it is spelt as, or "word", the number atoi makes *)
(* of it, and whether it fits the field web_root; the numbers of the       *)
(* checks are those of the code.                                           *)
(* ServerLifecycle goes on where the loop ends.                            *)
(***************************************************************************)
EXTENDS Integers, Sequences

CONSTANTS Words,    \* the words that arrive: [num, fits]
          MaxArgs   \* bound on the number of arguments

ASSUME InputsAssumption ==
    Words \subseteq [num : Int, fits : BOOLEAN] /\ MaxArgs \in Nat

Valued == {"p", "r", "m", "t"}       \* -p, -r, -m, -t and their long forms
Arg    == [opt : Valued \cup {"h"}, num : {0}, fits : {TRUE}]
              \cup {[opt |-> "word", num |-> w.num, fits |-> w.fits] : w \in Words}
Unset  == [port |-> 8080, web_root |-> [arg |-> 0, whole |-> TRUE],
           max_connections |-> 1024, thread_count |-> 4]

VARIABLES
    argv,    \* the arguments after the program's name
    i,       \* the argument the loop looks at
    config,  \* server_config_t; the root is the number of its argument, and
             \* whether all of it is there
    exit     \* what main returned, "no" in the loop, "server" beyond it

argVars == <<argv, i, config, exit>>

ArgInit ==
    /\ argv \in UNION {[1..n -> Arg] : n \in 0..MaxArgs}
    /\ i = 1 /\ config = Unset /\ exit = "no"

-----------------------------------------------------------------------------
Return(code) == exit' = code /\ UNCHANGED <<argv, i, config>>

Looking(opts) == exit = "no" /\ i <= Len(argv) /\ argv[i].opt \in opts

(* A number outside the range the message gives. *)
ThreadsRefused(n)   == n <= 0 \/ n > 64
MaxRefused(n)       == n <= 0 \/ n > 1024

(* config.port is a uint16_t: the assignment cuts the number to 16 bits, and
   the test that follows sees what is left. *)
Port(n)        == n % 65536
PortRefused(n) == Port(n) <= 0 \/ Port(n) > 65535

(* What strncpy leaves of the argument at j: as much as web_root holds. *)
Root(j) == [arg |-> j, whole |-> argv[j].fits]

(* Mutant of Value: i is not moved before the value is read. *)
ValueUnmoved == i

(* Where the value of the option at i is. *)
Value == i + 1

(* An option whose value is missing. *)
ValueMissing == Looking(Valued) /\ Value > Len(argv) /\ Return("1")

(* The option at i takes the argument after it, whatever that looks like. *)
ValueRefused ==
    /\ Looking(Valued) /\ Value <= Len(argv)
    /\ LET n == argv[Value].num IN
         \/ argv[i].opt = "p" /\ PortRefused(n)
         \/ argv[i].opt = "m" /\ MaxRefused(n)
         \/ argv[i].opt = "t" /\ ThreadsRefused(n)
    /\ Return("1")

ValueTaken ==
    /\ Looking(Valued) /\ Value <= Len(argv)
    /\ LET n == argv[Value].num IN
         \/ /\ argv[i].opt = "p" /\ ~PortRefused(n)
            /\ config' = [config EXCEPT !.port = Port(n)]
         \/ /\ argv[i].opt = "r"
            /\ config' = [config EXCEPT !.web_root = Root(Value)]
         \/ /\ argv[i].opt = "m" /\ ~MaxRefused(n)
            /\ config' = [config EXCEPT !.max_connections = n]
         \/ /\ argv[i].opt = "t" /\ ~ThreadsRefused(n)
            /\ config' = [config EXCEPT !.thread_count = n]
    /\ i' = i + 2
    /\ UNCHANGED <<argv, exit>>

Help    == Looking({"h"}) /\ Return("0")
Unknown == Looking({"word"}) /\ Return("1")
GoOn    == exit = "no" /\ i > Len(argv) /\ Return("server")

ArgStep == ValueMissing \/ ValueRefused \/ ValueTaken \/ Help \/ Unknown \/ GoOn

-----------------------------------------------------------------------------
(* Properties *)

Odd(n) == n % 2 = 1

(* The options o of a line of pairs, which stand at its odd places. *)
Given(o) == {j \in DOMAIN argv : Odd(j) /\ argv[j].opt = o}
Last(S)  == CHOOSE j \in S : \A k \in S : k <= j

(* What the last option o of the line gives, or the default. *)
Number(o, default) == IF Given(o) = {} THEN default ELSE argv[Last(Given(o)) + 1].num

IsPort(n) == n > 0 /\ n <= 65535

(* If the server is started its arguments were pairs, an option and its value,
   whatever the values look like; the configuration is in range, and of several
   values for an option it has the last one.  For a port this is said of the
   numbers that are ports, for a root of those that fit its field.  Of others
   the code is less careful than its messages: 65537 is not refused as "invalid
   (1-65535)" (main.c:54) but starts a server on port 1, and the beginning of a
   root that is too long is taken for the root (main.c:69). *)
LastValueCounts ==
    exit = "server" =>
        /\ ~Odd(Len(argv))
        /\ \A j \in DOMAIN argv : Odd(j) => argv[j].opt \in Valued
        /\ config.port > 0 /\ config.port <= 65535
        /\ config.max_connections > 0 /\ config.max_connections <= 1024
        /\ config.thread_count > 0 /\ config.thread_count <= 64
        /\ IsPort(Number("p", Unset.port)) => config.port = Number("p", Unset.port)
        /\ config.web_root.arg = IF Given("r") = {} THEN 0 ELSE Last(Given("r")) + 1
        /\ (Given("r") = {} \/ argv[Last(Given("r")) + 1].fits) => config.web_root.whole
        /\ config.max_connections = Number("m", Unset.max_connections)
        /\ config.thread_count = Number("t", Unset.thread_count)

=============================================================================
