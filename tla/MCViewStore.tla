------------------------------ MODULE MCViewStore ------------------------------
(* Small instances of the storage of views for TLC.                          *)
EXTENDS ViewStore

CONSTANTS b1, b2

(* Nothing; and a project that has grown and shrunk again, with a view of it *)
(* that was run in and changed nothing.                                      *)
NothingBefore == [log |-> <<>>, view |-> NoView]
ViewedBefore ==
    [log |-> <<Manifest({b1, b2}), Manifest({b1})>>,
     view |-> [base |-> {Manifest({b1})}, result |-> {Delta({b1}, {b1})}, run |-> 1]]

(* The names of larger projects come first, and those of deltas last: a sort *)
(* of the roots moves the oldest state to the front.                         *)
LargeFirst == [m \in Manifests |-> 3 * Cardinality(m.base) + 2 - Cardinality(m.of)]

Interchangeable == Permutations(Proc)
================================================================================
