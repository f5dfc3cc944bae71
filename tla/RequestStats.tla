---------------------------- MODULE RequestStats ----------------------------
(***************************************************************************)
(* The numbers the server keeps about itself and gives out at /status:     *)
(* http_handle_request of src/src/http_request.c, run by several workers   *)
(* at once, with server_start_time, total_requests and the count over      *)
(* connections[] of epoll_handler_get_connection_count.                    *)
(*                                                                         *)
(* The count of requests is changed by atomic operations, the table is     *)
(* scanned under connections_mutex: a step each.  server_start_time is a   *)
(* plain variable; its test, the call of time and the store are steps of   *)
(* their own, and in line 222 the clock is read before the variable, the   *)
(* order of the unoptimised build the Makefile asks for.                   *)
(***************************************************************************)
EXTENDS Integers, Sequences, FiniteSets

CONSTANTS Worker,       \* the threads of the pool
          MaxEvents,    \* MAX_EVENTS, the size of connections[]
          MaxRequests,  \* bound on the requests of one behaviour
          MaxTime       \* bound on the clock, which starts at 1

ASSUME SizesAssumption ==
    IsFiniteSet(Worker) /\ MaxEvents \in Nat /\ MaxRequests \in Nat /\ MaxTime \in Nat \ {0}

Slot == 0..(MaxEvents - 1)

VARIABLES
    now,       \* time(NULL)
    start,     \* server_start_time, 0 when not set
    total,     \* total_requests
    table,     \* the slots of connections[] that are not NULL
    pc,        \* where each worker is in http_handle_request
    local,     \* its local values
    began,     \* history: what each request found when it began
    finished,  \* history: requests that have been answered
    answers    \* history: the answers of /status, in order

vars == <<now, start, total, table, pc, local, began, finished, answers>>

(* No worker is between having found start = 0 and storing its own time. *)
Settled == start # 0 /\ \A w \in Worker : pc[w] \notin {"stamp", "store"}

Busy == {w \in Worker : pc[w] # "idle"}

NoLocals == [slot |-> 0, status |-> FALSE, time |-> 0, conns |-> 0, uptime |-> 0]
NoBegin  == [finished |-> 0, answers |-> 0, settled |-> FALSE, stayed |-> {}, seen |-> {}]

Init ==
    /\ now = 1 /\ start = 0 /\ total = 0 /\ table = {}
    /\ pc = [w \in Worker |-> "idle"]
    /\ local = [w \in Worker |-> NoLocals]
    /\ began = [w \in Worker |-> NoBegin]
    /\ finished = 0 /\ answers = <<>>

-----------------------------------------------------------------------------
(* The world *)

Tick ==
    /\ now < MaxTime
    /\ now' = now + 1
    /\ UNCHANGED <<start, total, table, pc, local, began, finished, answers>>

(* A connection is put in the table, or one that nobody serves taken out. *)
Connect(s) ==
    /\ s \notin table
    /\ table' = table \cup {s}
    /\ began' = [w \in Worker |-> IF w \in Busy THEN [began[w] EXCEPT !.seen = @ \cup {s}]
                                             ELSE began[w]]
    /\ UNCHANGED <<now, start, total, pc, local, finished, answers>>

Disconnect(s) ==
    /\ s \in table
    /\ \A w \in Busy : local[w].slot # s
    /\ table' = table \ {s}
    /\ began' = [w \in Worker |-> [began[w] EXCEPT !.stayed = @ \ {s}]]
    /\ UNCHANGED <<now, start, total, pc, local, finished, answers>>

-----------------------------------------------------------------------------
(* http_handle_request *)

Begin(w, s, status) ==
    /\ pc[w] = "idle"
    /\ s \in table /\ \A v \in Busy : local[v].slot # s
    /\ finished + Cardinality(Busy) < MaxRequests
    /\ pc' = [pc EXCEPT ![w] = "test"]
    /\ local' = [local EXCEPT ![w] = [NoLocals EXCEPT !.slot = s, !.status = status]]
    /\ began' = [began EXCEPT ![w] =
                   [finished |-> finished, answers |-> Len(answers),
                    settled |-> Settled, stayed |-> table, seen |-> table]]
    /\ UNCHANGED <<now, start, total, table, finished, answers>>

(* Mutant of StartUnset: the test is missing. *)
StartUnsetAlways == TRUE
StartUnset       == start = 0

TestStart(w) ==
    /\ pc[w] = "test"
    /\ pc' = [pc EXCEPT ![w] = IF StartUnset THEN "stamp" ELSE "count"]
    /\ UNCHANGED <<now, start, total, table, local, began, finished, answers>>

CallTime(w) ==
    /\ pc[w] = "stamp"
    /\ local' = [local EXCEPT ![w].time = now]
    /\ pc' = [pc EXCEPT ![w] = "store"]
    /\ UNCHANGED <<now, start, total, table, began, finished, answers>>

SetStart(w) ==
    /\ pc[w] = "store"
    /\ start' = local[w].time
    /\ pc' = [pc EXCEPT ![w] = "count"]
    /\ UNCHANGED <<now, total, table, local, began, finished, answers>>

(* Mutant of Increment: /status does not count itself. *)
IncrementOthers(w) == IF local[w].status THEN 0 ELSE 1
Increment(w)       == 1

(* __atomic_fetch_add, and the choice of the handler. *)
Count(w) ==
    /\ pc[w] = "count"
    /\ total' = total + Increment(w)
    /\ pc' = [pc EXCEPT ![w] = IF local[w].status THEN "conns" ELSE "reply"]
    /\ UNCHANGED <<now, start, table, local, began, finished, answers>>

(* Mutant of ConnectionCount: the loop reads one slot past the end. *)
ConnectionCountPastEnd == Cardinality({i \in 0..MaxEvents : i \in table \/ i = MaxEvents})

(* epoll_handler_get_connection_count. *)
ConnectionCount == Cardinality({i \in Slot : i \in table})

ReadConns(w) ==
    /\ pc[w] = "conns"
    /\ local' = [local EXCEPT ![w].conns = ConnectionCount]
    /\ pc' = [pc EXCEPT ![w] = "clock"]
    /\ UNCHANGED <<now, start, total, table, began, finished, answers>>

ReadClock(w) ==
    /\ pc[w] = "clock"
    /\ local' = [local EXCEPT ![w].time = now]
    /\ pc' = [pc EXCEPT ![w] = "uptime"]
    /\ UNCHANGED <<now, start, total, table, began, finished, answers>>

ReadStart(w) ==
    /\ pc[w] = "uptime"
    /\ local' = [local EXCEPT ![w].uptime = local[w].time - start]
    /\ pc' = [pc EXCEPT ![w] = "total"]
    /\ UNCHANGED <<now, start, total, table, began, finished, answers>>

(* The request is over. *)
Finish(w) ==
    /\ finished' = finished + 1
    /\ pc' = [pc EXCEPT ![w] = "idle"]
    /\ local' = [local EXCEPT ![w] = NoLocals]
    /\ began' = [began EXCEPT ![w] = NoBegin]
    /\ UNCHANGED <<now, start, total, table>>

(* __atomic_load_n, and the answer is what it is. *)
AnswerStatus(w) ==
    /\ pc[w] = "total"
    /\ answers' = Append(answers,
           [total |-> total, conns |-> local[w].conns, uptime |-> local[w].uptime,
            began |-> began[w]])
    /\ Finish(w)

(* Any other request is answered by its handler. *)
Reply(w) ==
    /\ pc[w] = "reply"
    /\ Finish(w)
    /\ UNCHANGED answers

-----------------------------------------------------------------------------
HandleRequest(w) ==
    \/ TestStart(w) \/ CallTime(w) \/ SetStart(w) \/ Count(w)
    \/ ReadConns(w) \/ ReadClock(w) \/ ReadStart(w) \/ AnswerStatus(w) \/ Reply(w)

Next ==
    \/ Tick
    \/ \E s \in Slot : Connect(s) \/ Disconnect(s)
    \/ \E w \in Worker :
         \/ \E s \in Slot, status \in BOOLEAN : Begin(w, s, status)
         \/ HandleRequest(w)

Spec == Init /\ [][Next]_vars

-----------------------------------------------------------------------------
(* Properties *)

(* An answer counts itself and everything answered before it was asked, so a
   client that asks twice sees the total grow. *)
TotalsGrow ==
    \A j \in DOMAIN answers :
        /\ answers[j].total > answers[j].began.finished
        /\ \A k \in 1..answers[j].began.answers : answers[k].total < answers[j].total

(* The connections counted include all that were open from the request's
   beginning to its answer, and no others than those open at some time of it:
   the count may miss what closes before the answer is complete. *)
ConnsPlausible ==
    \A j \in DOMAIN answers :
        answers[j].conns \in Cardinality(answers[j].began.stayed)..
                             Cardinality(answers[j].began.seen)

(* Once no worker is about to store a start of its own, the uptimes that are
   given out are never negative and never go back. *)
UptimeGrows ==
    \A j \in DOMAIN answers :
        answers[j].began.settled =>
            /\ answers[j].uptime >= 0
            /\ \A k \in 1..answers[j].began.answers :
                 answers[k].began.settled => answers[k].uptime <= answers[j].uptime

=============================================================================
