--------------------------- MODULE MCHttpExchange ---------------------------
(***************************************************************************)
(* Instances of HttpExchange for TLC.                                      *)
(***************************************************************************)
EXTENDS HttpExchange

Kind(fate, keep, head, body, blanks) ==
    [fate |-> fate, keep |-> keep, head |-> head, body |-> body, blanks |-> blanks]

(* Pages for heads that leave the buffer of four empty, half full, and full
   but for its last byte; ends of the connection, errors, and a body with an
   empty line. *)
MCKinds ==
    {Kind("page", TRUE, h, 0, {}) : h \in 1..3}
    \cup {Kind("page", FALSE, 2, 0, {}), Kind("error", FALSE, 1, 0, {}),
          Kind("malformed", TRUE, 1, 0, {}), Kind("page", TRUE, 1, 1, {1})}

(* A request whose body may arrive after its head. *)
BodyKinds == {Kind("page", TRUE, 2, 1, {})}

=============================================================================
