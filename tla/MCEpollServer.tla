---------------------------- MODULE MCEpollServer ----------------------------
(* Small instances of EpollServer for TLC. *)
EXTENDS EpollServer, TLC

(* Neither the clients nor the workers are told apart by anything but their
   names.  Used for safety only. *)
Symmetry == Permutations(Client) \cup Permutations(Worker)

=============================================================================
