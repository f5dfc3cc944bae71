---------------------------- MODULE Connections ----------------------------
(***************************************************************************)
(* What the server of src/src/epoll_handler.c and src/src/server.c promises *)
(* about connections to whoever does not see its inside: a client that     *)
(* connects is admitted or refused; an open connection is served by one    *)
(* worker at a time, again and again; it is closed by the worker that      *)
(* serves it, or by the timeout while nobody does; when the server stops,  *)
(* nobody is being served and everything is closed.  Descriptors, the      *)
(* epoll instance, connections[], the heap, in_use, the events and the     *)
(* queue are all absent; module EpollServer has them and implements this.  *)
(*                                                                         *)
(* One thing is not promised.  The timeout may close a connection that is  *)
(* on its way to a worker: check_timeout (src/src/epoll_handler.c:467)     *)
(* goes by in_use, which the worker sets at 304, long after the dispatch   *)
(* at 258.  From then on the conjuncts guarded by overtaken = 0 no longer  *)
(* hold: two workers may serve one connection, and one may be closed under *)
(* another.                                                                *)
(***************************************************************************)
EXTENDS Naturals, FiniteSets

CONSTANTS Client, Worker,
          NULL,       \* no connection
          Capacity,   \* the most connections open at once
          Timeout,    \* seconds after which a connection is idle too long
          Faulty      \* may calls that concern one connection fail

VARIABLES client,     \* each client's connection: away, backlog, open, closed
          serving,    \* the connection each worker serves
          idle,       \* seconds since a worker last turned to each
          phase,      \* up, draining, stopped
          overtaken   \* has the timeout closed a connection on its way to a worker

vars == <<client, serving, idle, phase, overtaken>>

Open    == {c \in Client : client[c] = "open"}
Free(c) == \A w \in Worker : serving[w] # c
Overdue == {c \in Open : idle[c] > Timeout}

Init ==
    /\ client = [c \in Client |-> "away"]
    /\ serving = [w \in Worker |-> NULL]
    /\ idle = [c \in Client |-> 0]
    /\ phase = "up"
    /\ overtaken = 0

(* The connections in C are closed. *)
Shut(C) ==
    /\ client' = [c \in Client |-> IF c \in C THEN "closed" ELSE client[c]]
    /\ idle' = [c \in Client |-> IF c \in C THEN 0 ELSE idle[c]]

-----------------------------------------------------------------------------
Arrive(c) ==
    /\ phase # "stopped"
    /\ client[c] = "away"
    /\ client' = [client EXCEPT ![c] = "backlog"]
    /\ UNCHANGED <<serving, idle, phase, overtaken>>

Admit(c) ==
    /\ phase = "up"
    /\ client[c] = "backlog"
    /\ Cardinality(Open) < Capacity
    /\ client' = [client EXCEPT ![c] = "open"]
    /\ UNCHANGED <<serving, idle, phase, overtaken>>

Refuse(c) ==
    /\ phase = "up"
    /\ client[c] = "backlog"
    /\ client' = [client EXCEPT ![c] = "closed"]
    /\ UNCHANGED <<serving, idle, phase, overtaken>>

(* A second passes. *)
Tick ==
    /\ phase # "stopped"
    /\ idle' = [c \in Client |->
                  IF c \in Open /\ idle[c] <= Timeout THEN idle[c] + 1 ELSE idle[c]]
    /\ UNCHANGED <<client, serving, phase, overtaken>>

-----------------------------------------------------------------------------
(* A worker begins to serve a connection that nobody serves. *)
Begin(w, c) ==
    /\ phase # "stopped"
    /\ serving[w] = NULL
    /\ client[c] = "open"
    /\ overtaken = 0 => Free(c)
    /\ serving' = [serving EXCEPT ![w] = c]
    /\ UNCHANGED <<client, idle, phase, overtaken>>

(* ... and the time counts anew. *)
Touch(w) ==
    /\ serving[w] # NULL
    /\ idle' = [idle EXCEPT ![serving[w]] = 0]
    /\ UNCHANGED <<client, serving, phase, overtaken>>

(* It leaves it open, for more to come. *)
Leave(w) ==
    /\ serving[w] # NULL
    /\ serving' = [serving EXCEPT ![w] = NULL]
    /\ UNCHANGED <<client, idle, phase, overtaken>>

(* It closes it. *)
Close(w, c) ==
    /\ serving[w] # NULL
    /\ client[c] = "open"
    /\ overtaken = 0 => serving[w] = c
    /\ Shut({c})
    /\ serving' = [serving EXCEPT ![w] = NULL]
    /\ UNCHANGED <<phase, overtaken>>

-----------------------------------------------------------------------------
(* The timeout closes whatever is idle too long, except what is being served. *)
Expire(C) ==
    /\ phase = "up"
    /\ C \subseteq Overdue
    /\ \A c \in Overdue : Free(c) => c \in C
    /\ overtaken = 0 => \A c \in C : Free(c)
    /\ Shut(C)
    /\ overtaken' \in IF C = {} THEN {overtaken} ELSE {overtaken, 1}
    /\ UNCHANGED <<serving, phase>>

(* A call fails that would have passed a connection on: it is closed. *)
Fail(c) ==
    /\ Faulty
    /\ phase = "up"
    /\ client[c] = "open"
    /\ overtaken = 0 => Free(c)
    /\ Shut({c})
    /\ UNCHANGED <<serving, phase, overtaken>>

(* Nobody is admitted any more, and nothing times out. *)
Drain ==
    /\ phase = "up"
    /\ phase' = "draining"
    /\ UNCHANGED <<client, serving, idle, overtaken>>

Stop ==
    /\ phase = "draining"
    /\ \A w \in Worker : serving[w] = NULL
    /\ Shut(Open)
    /\ phase' = "stopped"
    /\ UNCHANGED <<serving, overtaken>>

-----------------------------------------------------------------------------
Next ==
    \/ \E c \in Client : Arrive(c) \/ Admit(c) \/ Refuse(c) \/ Fail(c)
    \/ \E w \in Worker : Touch(w) \/ Leave(w)
    \/ \E w \in Worker, c \in Client : Begin(w, c) \/ Close(w, c)
    \/ \E C \in SUBSET Client : Expire(C)
    \/ Tick
    \/ Drain
    \/ Stop

Spec == Init /\ [][Next]_vars

=============================================================================
