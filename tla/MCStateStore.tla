----------------------------- MODULE MCStateStore -----------------------------
(* Small instances of the state arena for TLC.  *)
EXTENDS StateStoreInv, TLC

(* Processes of one kind are interchangeable.  *)
Interchangeable == Permutations(Proc \ Replaying) \cup Permutations(Replaying)

===============================================================================
