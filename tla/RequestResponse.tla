-------------------------- MODULE RequestResponse --------------------------
(***************************************************************************)
(* What a connection of the server promises any client (src/README.md:13,  *)
(* Keep-Alive): answers go out one by one, never more than the client has  *)
(* asked for, until the server closes the connection.  What asks for an    *)
(* answer is an empty line (epoll_handler.c:54), the end of a request      *)
(* unless a body holds one.                                                *)
(***************************************************************************)
EXTENDS Naturals

VARIABLES asked,     \* empty lines the client has sent
          answered,  \* answers the client has been sent whole
          open       \* has the server not closed the connection

vars == <<asked, answered, open>>

Init == asked = 0 /\ answered = 0 /\ open = TRUE

Ask ==
    /\ open
    /\ asked' = asked + 1
    /\ UNCHANGED <<answered, open>>

Answer ==
    /\ open /\ answered < asked
    /\ answered' = answered + 1
    /\ UNCHANGED <<asked, open>>

Close ==
    /\ open
    /\ open' = FALSE
    /\ UNCHANGED <<asked, answered>>

Next == Ask \/ Answer \/ Close

Spec == Init /\ [][Next]_vars

=============================================================================
