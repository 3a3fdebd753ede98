------------------------------ MODULE BranchTable ------------------------------
(***************************************************************************)
(* What the state arena promises the commands that share it: each command  *)
(* takes effect at one instant, on the branch as it is at that instant,    *)
(* and on no other branch.                                                 *)
(***************************************************************************)
EXTENDS BranchData

VARIABLES
    tip,     \* what each name holds: a conversation and a store, or nothing
    known    \* every conversation and store a name has held

vars == <<tip, known>>

Absent == [live |-> FALSE, chain |-> <<>>, store |-> EmptyEntry.store]
Empty == [live |-> TRUE, chain |-> <<>>, store |-> EmptyEntry.store]

Init ==
    /\ tip = [b \in Branch |-> IF b = Main THEN Empty ELSE Absent]
    /\ known = {Empty}

(* Branch b, made by its first command if it is absent, now holds t.  *)
Becomes(b, t) ==
    /\ tip' = [tip EXCEPT ![b] = [t EXCEPT !.live = TRUE]]
    /\ known' = known \cup {tip'[b]}

AddTurn(b) ==
    \E t \in Turn \ {Sys} :
        /\ \A k \in known : t \notin TurnsOf(k.chain)
        /\ Becomes(b, [tip[b] EXCEPT !.chain = Append(Seeded(@), t)])

SetMember(b) ==
    \E m \in Member, v \in Stored : Becomes(b, [tip[b] EXCEPT !.store[m] = v])

Clear(b) == Becomes(b, [tip[b] EXCEPT !.chain = <<>>])

Reset(b) == \E k \in known : Becomes(b, [tip[b] EXCEPT !.chain = k.chain])

(* A checkout writes the branch as it is.  *)
Touch(b) == Becomes(b, tip[b])

Create(b) == ~tip[b].live /\ \E k \in known : Becomes(b, k)

Delete(b) ==
    /\ tip[b].live
    /\ tip' = [tip EXCEPT ![b] = Absent]
    /\ UNCHANGED known

Rename(from, to) ==
    /\ tip[from].live /\ ~tip[to].live
    /\ tip' = [tip EXCEPT ![from] = Absent, ![to] = tip[from]]
    /\ UNCHANGED known

Next ==
    \/ \E b \in Branch : \/ AddTurn(b) \/ SetMember(b) \/ Clear(b) \/ Reset(b)
                         \/ Touch(b) \/ Create(b) \/ Delete(b)
    \/ \E from, to \in Branch : Rename(from, to)

Spec == Init /\ [][Next]_vars
===============================================================================
