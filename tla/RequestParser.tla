--------------------------- MODULE RequestParser ----------------------------
(***************************************************************************)
(* http_parse_request of src/src/http_parser.c, with parse_request_line    *)
(* and parse_header_line, and http_request_cleanup: a loop over the lines  *)
(* of the buffer, one line a step, for every request that the constants    *)
(* allow.                                                                  *)
(*                                                                         *)
(* A request is a request line, given by the number of its blanks and the  *)
(* length of its URI; the header lines up to the empty one; and what       *)
(* follows.  A header line is the name the code compares it with, or NONE  *)
(* if it has no colon, and its value: for Connection 1 (keep-alive), 0     *)
(* (close) or another token, for Content-Length what atoi makes of it.     *)
(***************************************************************************)
EXTENDS Integers, Sequences, FiniteSets

CONSTANTS Blanks, UriLengths,  \* of the request lines that arrive
          Lines,               \* the header lines that arrive: [name, value]
          MaxLines,            \* bound on their number
          Rests,               \* the bytes that follow the header
          NONE,                \* the name of a line without a colon
          MaxHeaders,          \* MAX_HEADERS, the size of headers[]
          LineSize,            \* the size of request_line[]
          UriSize              \* MAX_URI_LENGTH

ASSUME InputsAssumption ==
    /\ Blanks \subseteq Nat /\ UriLengths \subseteq Nat \ {0} /\ Rests \subseteq Nat
    /\ \A l \in Lines : l = [name |-> l.name, value |-> l.value] /\ l.value \in Int
ASSUME SizesAssumption ==
    /\ MaxLines \in Nat /\ MaxHeaders \in Nat
    /\ LineSize \in Nat \ {0} /\ UriSize \in Nat \ {0} /\ LineSize <= UriSize

VARIABLES
    blanks, uriLength, lines, rest,  \* the request in the buffer
    pc,              \* the next step of the parser
    p,               \* the line it looks at
    header_count,    \* headers stored in headers[]
    uri,             \* the length of request->uri
    host, keep_alive, content_length,
    body             \* malloced for the body: [from, length], or nothing

vars  == <<blanks, uriLength, lines, rest, pc, p, header_count, uri, host,
           keep_alive, content_length, body>>
input == <<blanks, uriLength, lines, rest>>

NoBody == [from |-> 0, length |-> 0]

(* http_request_init. *)
Init ==
    /\ blanks \in Blanks /\ uriLength \in UriLengths /\ rest \in Rests
    /\ lines \in UNION {[1..n -> Lines] : n \in 0..MaxLines}
    /\ pc = "line" /\ p = 1
    /\ header_count = 0 /\ uri = 0 /\ host = 0 /\ keep_alive = 1
    /\ content_length = 0 /\ body = NoBody

-----------------------------------------------------------------------------
(* The second blank of the line, after a method of one byte, the first blank
   and the URI, is among the bytes that request_line[] takes. *)
LineKept == blanks >= 2 /\ uriLength + 3 <= LineSize - 1

(* parse_request_line, which wants two blanks. *)
ParseRequestLine ==
    /\ pc = "line"
    /\ LineKept
    /\ uri' = IF uriLength < UriSize THEN uriLength ELSE UriSize - 1
    /\ pc' = "headers"
    /\ UNCHANGED <<input, p, header_count, host, keep_alive, content_length, body>>

RequestLineFails ==
    /\ pc = "line"
    /\ ~LineKept
    /\ pc' = "failed"
    /\ UNCHANGED <<input, p, header_count, uri, host, keep_alive, content_length, body>>

(* What the header l does to the fields that are kept apart. *)
Remember(l) ==
    /\ host' = IF l.name = "Host" THEN l.value ELSE host
    /\ keep_alive' = IF l.name = "Connection" /\ l.value \in {0, 1} THEN l.value
                     ELSE keep_alive
    /\ content_length' = IF l.name = "Content-Length" THEN l.value ELSE content_length

(* Mutant of Stored: the table takes one header more. *)
StoredOneMore(l) == header_count <= MaxHeaders /\ l.name # NONE

(* The line goes to headers[]: there is room, and it has a colon. *)
Stored(l) == header_count < MaxHeaders /\ l.name # NONE

HeaderLine ==
    /\ pc = "headers" /\ p <= Len(lines)
    /\ Stored(lines[p])
    /\ Remember(lines[p])
    /\ header_count' = header_count + 1
    /\ p' = p + 1
    /\ UNCHANGED <<input, pc, uri, body>>

(* Mutant of AfterSkip: a line without a colon ends the loop. *)
SkippedEndsLoop == "body"
AfterSkip       == "headers"

LineSkipped ==
    /\ pc = "headers" /\ p <= Len(lines)
    /\ ~Stored(lines[p])
    /\ pc' = AfterSkip
    /\ p' = p + 1
    /\ UNCHANGED <<input, header_count, uri, host, keep_alive, content_length, body>>

EmptyLine ==
    /\ pc = "headers" /\ p = Len(lines) + 1
    /\ pc' = "body"
    /\ UNCHANGED <<input, p, header_count, uri, host, keep_alive, content_length, body>>

(* The bytes from p on, a line that was not read counting as one. *)
Following == rest + (Len(lines) + 1 - p)

BodyLength == IF Following > content_length THEN content_length ELSE Following

ParseBody ==
    /\ pc = "body"
    /\ content_length > 0 /\ Following > 0
    /\ body' = [from |-> p, length |-> BodyLength]
    /\ pc' = "parsed"
    /\ UNCHANGED <<input, p, header_count, uri, host, keep_alive, content_length>>

(* Nothing was announced or nothing follows, or malloc fails. *)
ParseNoBody ==
    /\ pc = "body"
    /\ pc' = "parsed"
    /\ UNCHANGED <<input, p, header_count, uri, host, keep_alive, content_length, body>>

(* http_request_cleanup, called for what could not be parsed, too. *)
Cleanup ==
    /\ pc \in {"parsed", "failed"}
    /\ body' = NoBody
    /\ pc' = "done"
    /\ UNCHANGED <<input, p, header_count, uri, host, keep_alive, content_length>>

Next ==
    \/ ParseRequestLine \/ RequestLineFails
    \/ HeaderLine \/ LineSkipped \/ EmptyLine
    \/ ParseBody \/ ParseNoBody \/ Cleanup

Spec == Init /\ [][Next]_vars

-----------------------------------------------------------------------------
(* Properties *)

(* The lines of the request that count: the first MaxHeaders with a colon. *)
Counted ==
    {j \in DOMAIN lines :
        /\ lines[j].name # NONE
        /\ Cardinality({k \in 1..j : lines[k].name # NONE}) <= MaxHeaders}

LastOf(S, default) ==
    IF S = {} THEN default
    ELSE lines[CHOOSE j \in S : \A k \in S : k <= j].value

(* headers[] holds the lines that count and none beyond its end; the value of a
   field is that of the last of them that has a value for it, or its default,
   HTTP's keep-alive; and the URI is taken whole, never a prefix of it. *)
FieldsAsSent ==
    /\ header_count = Cardinality({j \in Counted : j < p})
    /\ pc \in {"headers", "body", "parsed"} => uri = uriLength
    /\ pc = "parsed" =>
         /\ keep_alive = LastOf({j \in Counted : /\ lines[j].name = "Connection"
                                                 /\ lines[j].value \in {0, 1}}, 1)
         /\ content_length = LastOf({j \in Counted : lines[j].name = "Content-Length"}, 0)
         /\ host = LastOf({j \in Counted : lines[j].name = "Host"}, 0)

(* The body begins after the empty line, whatever lines came before it, and
   ends with the announced length or the buffer, whichever comes first. *)
BodyIsTheRest ==
    body # NoBody =>
        /\ body.from = Len(lines) + 1
        /\ body.length <= rest /\ body.length <= content_length
        /\ body.length \in {rest, content_length}

=============================================================================
