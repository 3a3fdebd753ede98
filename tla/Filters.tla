------------------------------- MODULE Filters -------------------------------
(***************************************************************************)
(* Lists from which elements are unlinked: the elements of a sequence that  *)
(* are in a set, in their order.  SelectSeq, in a form that can be proved   *)
(* about.                                                                   *)
(***************************************************************************)
EXTENDS Integers, Sequences

(* The elements of each prefix of s that are in S.                          *)
Kept(s, S) ==
    LET F[i \in 0 .. Len(s)] ==
          IF i = 0 THEN <<>>
          ELSE IF s[i] \in S THEN Append(F[i - 1], s[i]) ELSE F[i - 1]
    IN F

Filter(s, S) == Kept(s, S)[Len(s)]
==============================================================================
