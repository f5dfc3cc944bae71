-------------------------- MODULE MCServerLifecycle -------------------------
(***************************************************************************)
(* The instance of ServerLifecycle for TLC: numbers on both sides of each  *)
(* limit, and of the width of the port, and a word too long for a root.    *)
(***************************************************************************)
EXTENDS ServerLifecycle

MCWords == [num : {-1, 0, 1, 64, 65, 1024, 1025, 65535, 65536, 65537}, fits : {TRUE}]
              \cup [num : {0}, fits : {FALSE}]

=============================================================================
