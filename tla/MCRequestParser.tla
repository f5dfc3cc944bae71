-------------------------- MODULE MCRequestParser ---------------------------
(***************************************************************************)
(* Instances of RequestParser for TLC: a table of two headers, header      *)
(* lines up to four, so that lines without a colon and lines beyond the    *)
(* table come before, between and after those that count.                  *)
(***************************************************************************)
EXTENDS RequestParser

MCLines ==
    {[name |-> "Connection", value |-> v] : v \in 0..2}
    \cup {[name |-> "Content-Length", value |-> v] : v \in {-1, 1, 3}}
    \cup {[name |-> "Host", value |-> 1], [name |-> NONE, value |-> 0]}

=============================================================================
