---------------------------- MODULE HttpExchange ----------------------------
(***************************************************************************)
(* The exchange of requests and responses over one connection:             *)
(* worker_process_request and is_request_complete of                       *)
(* src/src/epoll_handler.c, as the client of that connection sees them.    *)
(*                                                                         *)
(* A request is a run of pieces in the stream of bytes from the client:    *)
(* its head, whose last piece holds the empty line, then its body, which   *)
(* may hold empty lines of its own.  The read buffer is the run of pieces  *)
(* after base up to got, so that every way of cutting the stream into      *)
(* reads is a behaviour.  What the server does with a request depends on   *)
(* its fate: "page" (there is a 200), or "error" (it parses and gets a 4xx *)
(* or 5xx), or "malformed".                                                *)
(*                                                                         *)
(* A client is plain as long as it waits for each answer and sends no      *)
(* body; it need not be.                                                   *)
(*                                                                         *)
(* EpollServer has the descriptors, the event loop and the other           *)
(* connections; here the event that follows unread bytes wakes the worker, *)
(* and the idle timeout may close a connection nobody is serving.          *)
(***************************************************************************)
EXTENDS Integers, Sequences, FiniteSets

CONSTANTS Kinds,       \* what clients ask: [fate, keep, head, body, blanks]
          MaxRequests, \* bound on the requests of one behaviour
          BufferSize,  \* BUFFER_SIZE, in pieces
          AnswerSize,  \* the length of a response, in pieces
          SendRoom,    \* the socket's send buffer, in pieces
          MaxRetry     \* writes that may find it full in a row, 1000 in the code

Fates == {"page", "error", "malformed"}

ASSUME KindsAssumption ==
    /\ Kinds \subseteq [fate : Fates, keep : BOOLEAN, head : Nat \ {0}, body : Nat,
                         blanks : SUBSET Nat]   \* the empty lines of the body
    /\ \A k \in Kinds : k.blanks \subseteq 1..k.body
ASSUME SizesAssumption ==
    /\ MaxRequests \in Nat /\ BufferSize \in Nat \ {0, 1}
    /\ AnswerSize \in Nat \ {0} /\ SendRoom \in Nat \ {0} /\ MaxRetry \in Nat

VARIABLES
    requests,   \* the client's requests and where they lie in its stream
    sent,       \* pieces that have reached the server's socket
    fin,        \* has the client closed its side
    base,       \* pieces consumed: the read buffer begins after them
    got,        \* pieces read: the read buffer ends with them
    keepAlive,  \* conn->keep_alive
    pc,         \* where the connection's worker is, or armed, or closed
    left,       \* pieces of the response that write has not taken
    retry,      \* retry in the write loop
    room,       \* free space in the socket's send buffer
    answers     \* history: the responses, with the pieces each one consumed

vars == <<requests, sent, fin, base, got, keepAlive, pc, left, retry, room,
          answers>>
clientVars == <<requests, sent, fin>>

Init ==
    /\ requests = <<>> /\ sent = 0 /\ fin = FALSE
    /\ base = 0 /\ got = 0 /\ keepAlive = TRUE
    /\ pc = "armed"
    /\ left = 0 /\ retry = 0 /\ room = SendRoom
    /\ answers = <<>>

(* The length of the client's stream, the empty lines in it and those of them
   that have come in. *)
Total      == IF requests = <<>> THEN 0 ELSE requests[Len(requests)].last
EmptyLines == UNION {requests[i].lines : i \in DOMAIN requests}
Arrived    == EmptyLines \cap 1..sent

(* The requests whose head was sent. *)
Asked == {i \in DOMAIN requests : requests[i].head <= sent}

(* The responses the client has been sent whole. *)
Delivered == Len(answers) - (IF left > 0 THEN 1 ELSE 0)

-----------------------------------------------------------------------------
(* The client *)

(* It decides on its next request: at once, or when it has been answered. *)
Ask(k) ==
    /\ pc # "closed" /\ ~fin
    /\ Len(requests) < MaxRequests
    /\ requests' = Append(requests,
           [fate |-> k.fate, keep |-> k.keep, first |-> Total + 1,
            head |-> Total + k.head, last |-> Total + k.head + k.body,
            lines |-> {Total + k.head + b : b \in {0} \cup k.blanks},
            waited |-> (Delivered = Len(requests))])
    /\ UNCHANGED <<sent, fin, base, got, keepAlive, pc, left, retry, room, answers>>

Send ==
    /\ pc # "closed"
    /\ sent < Total
    /\ sent' = sent + 1
    /\ UNCHANGED <<requests, fin, base, got, keepAlive, pc, left, retry, room, answers>>

HangUp ==
    /\ pc # "closed" /\ ~fin
    /\ sent = Total
    /\ fin' = TRUE
    /\ UNCHANGED <<requests, sent, base, got, keepAlive, pc, left, retry, room, answers>>

(* It takes a piece of a response off the network. *)
Receive ==
    /\ pc # "closed"
    /\ room < SendRoom
    /\ room' = room + 1
    /\ UNCHANGED <<clientVars, base, got, keepAlive, pc, left, retry, answers>>

-----------------------------------------------------------------------------
(* The server: reading *)

(* epoll_handler_close, by the worker or by the timeout. *)
Close ==
    /\ pc' = "closed"
    /\ UNCHANGED <<clientVars, base, got, keepAlive, left, retry, room, answers>>

(* The armed descriptor has something to read, or the end of the stream. *)
Wake ==
    /\ pc = "armed"
    /\ sent > got \/ fin
    /\ pc' = "read"
    /\ UNCHANGED <<clientVars, base, got, keepAlive, left, retry, room, answers>>

Expire == pc = "armed" /\ Close

(* Mutant of SpaceLeft: no room is kept for the final zero. *)
SpaceLeftAll == BufferSize - (got - base)

(* BUFFER_SIZE - conn->read_pos - 1. *)
SpaceLeft == BufferSize - (got - base) - 1

ReadSome ==
    /\ pc = "read"
    /\ SpaceLeft > 0 /\ sent > got
    /\ got' = IF sent - got < SpaceLeft THEN sent ELSE got + SpaceLeft
    /\ UNCHANGED <<clientVars, base, keepAlive, pc, left, retry, room, answers>>

(* Mutant of BufferFull: the loop tries to read into no space instead. *)
BufferFullIgnored == pc = "read" /\ SpaceLeft < 0 /\ Close

(* The buffer is full, also when what fills it is a complete request. *)
BufferFull == pc = "read" /\ SpaceLeft <= 0 /\ Close

(* read fails, or returns 0 because the client has closed its side. *)
ReadFails == pc = "read" /\ SpaceLeft > 0 /\ Close
PeerGone  == pc = "read" /\ SpaceLeft > 0 /\ sent = got /\ fin /\ Close

WouldBlock ==
    /\ pc = "read"
    /\ SpaceLeft > 0 /\ sent = got /\ ~fin
    /\ pc' = "check"
    /\ UNCHANGED <<clientVars, base, got, keepAlive, left, retry, room, answers>>

-----------------------------------------------------------------------------
(* The server: answering *)

(* Mutant of Complete: any bytes will do. *)
CompleteOnAnything == got > base

(* is_request_complete: the buffer has an empty line, the end of a head or one
   of a body that comes late.  The length of the body does not count: the name
   looked for in line 66 is written with a U+2011 hyphen, no client sends it,
   and content_length stays 0. *)
Complete == EmptyLines \cap (base + 1)..got # {}

(* The requests that begin where the buffer begins. *)
AtFront == {i \in DOMAIN requests : requests[i].first = base + 1}

(* The rest of a request may hide the empty line from strstr: it begins in the
   middle of that line, or has a zero byte before it. *)
Incomplete ==
    /\ pc = "check"
    /\ ~Complete \/ AtFront = {}
    /\ pc' = "armed"
    /\ UNCHANGED <<clientVars, base, got, keepAlive, left, retry, room, answers>>

(* The response is built and goes to the write loop.  A page says of the
   connection what keep_alive is, an error response always says close. *)
Respond(fate, keep) ==
    /\ pc' = "write"
    /\ keepAlive' = keep
    /\ answers' = Append(answers, [from |-> base + 1, to |-> got, fate |-> fate,
                                   says |-> (fate = "page" /\ keep)])
    /\ left' = AnswerSize /\ retry' = 0
    /\ UNCHANGED <<clientVars, base, got, room>>

(* The buffer begins with request i; a malformed one leaves keep_alive alone. *)
Handle ==
    /\ pc = "check"
    /\ Complete
    /\ \E i \in AtFront :
         Respond(requests[i].fate,
                 IF requests[i].fate = "malformed" THEN keepAlive
                                                   ELSE requests[i].keep)

(* The buffer begins inside a request, and what the parser makes of it is
   anybody's guess: it may look like a request for a page, or like one with a
   strange method (405), with the keep-alive of some Connection line or the
   default. *)
HandleRemains ==
    /\ pc = "check"
    /\ Complete
    /\ AtFront = {}
    /\ \/ Respond("malformed", keepAlive)
       \/ \E fate \in {"page", "error"}, keep \in BOOLEAN : Respond(fate, keep)

WriteSome ==
    /\ pc = "write"
    /\ left > 0 /\ room > 0
    /\ LET n == IF left < room THEN left ELSE room IN
         left' = left - n /\ room' = room - n
    /\ retry' = 0
    /\ UNCHANGED <<clientVars, base, got, keepAlive, pc, answers>>

(* Mutant of Retried: the retries are not counted. *)
RetriedUncounted == retry
Retried          == retry + 1

(* EAGAIN: wait a millisecond and try again, MaxRetry times in a row. *)
WriteBlocked ==
    /\ pc = "write"
    /\ left > 0 /\ room = 0 /\ retry < MaxRetry
    /\ retry' = Retried
    /\ UNCHANGED <<clientVars, base, got, keepAlive, pc, left, room, answers>>

GiveUp     == pc = "write" /\ left > 0 /\ room = 0 /\ retry = MaxRetry /\ Close
WriteFails == pc = "write" /\ left > 0 /\ Close

(* Mutants: close_conn alone decides; read_pos is not put back to 0. *)
KeptAlways  == TRUE
Kept        == keepAlive
BaseNotReset == base
BaseReset    == got

(* The response is out: the buffer is emptied, whatever else it holds. *)
KeepOpen ==
    /\ pc = "write" /\ left = 0
    /\ Kept
    /\ base' = BaseReset
    /\ pc' = "armed"
    /\ UNCHANGED <<clientVars, got, keepAlive, left, retry, room, answers>>

CloseAnswered == pc = "write" /\ left = 0 /\ ~Kept /\ Close

-----------------------------------------------------------------------------
Worker ==
    \/ ReadSome \/ BufferFull \/ PeerGone \/ WouldBlock
    \/ Incomplete \/ Handle \/ HandleRemains
    \/ WriteSome \/ WriteBlocked \/ GiveUp
    \/ KeepOpen \/ CloseAnswered

Server == Wake \/ Worker \/ Expire \/ ReadFails \/ WriteFails
Client == (\E k \in Kinds : Ask(k)) \/ Send \/ HangUp \/ Receive
Next   == Server \/ Client

Spec == Init /\ [][Next]_vars

(* A descriptor that is ready is served and a worker goes on; the client is
   free to stop.  Neither the timeout nor a failure is counted on. *)
FairSpec == Spec /\ WF_vars(Wake) /\ WF_vars(Worker)

-----------------------------------------------------------------------------
(* Properties *)

Answer == [from : Nat, to : Nat, fate : Fates, says : BOOLEAN]

Request == [fate : Fates, keep : BOOLEAN, first : Nat, head : Nat, last : Nat,
            lines : SUBSET Nat, waited : BOOLEAN]

(* The types, and the bound of read_buf: read never fills its last byte, which
   is_request_complete and the parser need for the zero (BUFFER_SIZE). *)
TypeOK ==
    /\ requests \in Seq(Request) /\ sent \in 0..Total /\ fin \in BOOLEAN
    /\ base \in Nat /\ got \in base..sent /\ got - base <= BufferSize - 1
    /\ keepAlive \in BOOLEAN
    /\ pc \in {"armed", "read", "check", "write", "closed"}
    /\ left \in 0..AnswerSize /\ retry \in 0..MaxRetry /\ room \in 0..SendRoom
    /\ answers \in Seq(Answer)

(* The client has waited for each answer, and sent no body. *)
Plain == \A i \in DOMAIN requests : requests[i].waited /\ requests[i].head = requests[i].last

(* No answer out of nothing: each consumes bytes of its own, those that follow
   the bytes of the one before it, and an empty line is among them.  Holds for
   any client, pipelining or not, with bodies or without.  The line need not
   end a head (EmptyLines): what comes late of a body is answered like a
   request when it holds one. *)
EveryAnswerEarned ==
    \A j \in DOMAIN answers :
        /\ EmptyLines \cap answers[j].from..answers[j].to # {}
        /\ j > 1 => answers[j].from = answers[j - 1].to + 1

(* To a plain client each response is for its next request, all of it and
   nothing else, however the stream was cut and whatever the requests before
   it left behind. *)
AnswersMatch ==
    Plain => \A j \in DOMAIN answers :
                 /\ j \in DOMAIN requests
                 /\ answers[j].from = requests[j].first
                 /\ answers[j].to = requests[j].last

(* A request is answered when the server has all of it, its body included
   (epoll_handler.c:83). *)
Of(p) == CHOOSE i \in DOMAIN requests : p \in requests[i].first..requests[i].last
AnsweredWhole ==
    \A j \in DOMAIN answers : requests[Of(answers[j].from)].last <= answers[j].to

(* After a whole page the connection is what the page said of it. *)
PagesHonoured ==
    [][pc = "write" /\ left = 0 /\ pc' # pc /\ answers[Len(answers)].fate = "page"
         => (pc' = "armed") = answers[Len(answers)].says]_vars

(* What is turned away for lack of space is a request that would leave no byte
   of the buffer free: a smaller one is served, after however many others on
   the same connection. *)
FittingServed ==
    [][Plain /\ BufferFull =>
         \E i \in AtFront : requests[i].head - base >= BufferSize - 1]_vars

(* A worker is always released, whatever the client does: reading ends when the
   buffer is full, and writing when the retries are used up. *)
WorkerReleased == (pc \in {"read", "check", "write"}) ~> (pc \in {"armed", "closed"})

(* What any client may count on: no answer more than it has sent empty lines,
   which is one to each request as long as no body holds one. *)
Abstract == INSTANCE RequestResponse
                WITH asked <- Cardinality(Arrived), answered <- Delivered,
                     open <- (pc # "closed")
ImplementsRequestResponse == Abstract!Spec

(* A plain client gets its answer, or the connection is closed; it does not
   have to read what it is sent. *)
EveryRequestAnswered ==
    Cardinality(Asked) > Delivered
        ~> Cardinality(Asked) = Delivered \/ pc = "closed" \/ ~Plain

=============================================================================
