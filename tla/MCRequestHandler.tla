-------------------------- MODULE MCRequestHandler --------------------------
(***************************************************************************)
(* Instances of RequestHandler for TLC: a buffer of six units, two of them *)
(* kept for the header, and files up to beyond the buffer.                 *)
(***************************************************************************)
EXTENDS RequestHandler

(* Of a directory lseek may fail, or give any number. *)
DirSizesAny == {-1, 1, 9}

=============================================================================
