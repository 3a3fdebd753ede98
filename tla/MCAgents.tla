------------------------------ MODULE MCAgents ------------------------------
(***************************************************************************)
(* The instance of Agents that TLC checks: the root starts a, and a starts *)
(* b.  A message goes from the root to b through a, from a to b, which may  *)
(* not be admitted yet, or from b to a.                                    *)
(***************************************************************************)
EXTENDS Agents

CONSTANTS a, b

Tree == (a :> Root) @@ (b :> a)
Writes == {<<Root, b>>, <<a, b>>, <<b, a>>}

=============================================================================
