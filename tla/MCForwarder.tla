----------------------------- MODULE MCForwarder -----------------------------
(***************************************************************************)
(* Forwarder for TLC: symmetry of clients, uninitialised bytes and         *)
(* descriptors, which no action tells apart.                               *)
(***************************************************************************)
EXTENDS Forwarder, TLC

Symmetry == Permutations(Clients) \cup Permutations(Junk) \cup Permutations(Fds)

==============================================================================
