-------------------------------- MODULE MCChat --------------------------------
(* Instances of Chat for TLC. *)
EXTENDS Chat, TLC

(* Handlers and files are only compared for equality. *)
Sym == Permutations(Requests) \cup Permutations(Files)
=============================================================================
