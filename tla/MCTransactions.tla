--------------------------- MODULE MCTransactions ---------------------------
EXTENDS Transactions, TLC

(* Clients and keys are told apart by nothing. *)
Symmetry == Permutations(Client) \cup Permutations(Key)
=============================================================================
