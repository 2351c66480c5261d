------------------------------ MODULE MCLabBook ------------------------------
(* Instances of LabBook for TLC. *)
EXTENDS LabBook, TLC

Funds == "ann" :> [cash |-> 12, inventory |-> 2]
      @@ "bob" :> [cash |-> 7, inventory |-> 2]
      @@ "cid" :> [cash |-> 20, inventory |-> 1]

(* Identifiers are only compared for equality. *)
IdSymmetry == Permutations(Ids)
=============================================================================
