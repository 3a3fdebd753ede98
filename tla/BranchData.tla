------------------------------ MODULE BranchData ------------------------------
(***************************************************************************)
(* The immutable values of the state arena and the pure functions over     *)
(* them: conversations (chains of turns), branch stores, branch entries,   *)
(* and the two merges a lost publish needs.                                *)
(*                                                                         *)
(* A turn holds a link to the turn before it, and the arena stores equal   *)
(* values one time, so two heads are one value exactly when their chains   *)
(* are equal.  A chain is therefore a sequence of turns, and a turn two    *)
(* chains share is a prefix they share.                                    *)
(***************************************************************************)
EXTENDS Integers, Sequences, FiniteSets

CONSTANTS
    Branch,       \* branch names
    Main,         \* the branch HEAD names in a new arena
    CtxMember,    \* store members the context holds (config, catalog, ...)
    ListMember,   \* members only the store holds (todos, settings log, ...)
    Value,        \* values a member may have
    NoValue,      \* an absent member
    MaxCommands   \* bound: commands issued in one behaviour

ASSUME BranchAssumption == Main \in Branch
ASSUME MemberAssumption == CtxMember \cap ListMember = {}
ASSUME ValueAssumption == NoValue \notin Value
ASSUME BoundAssumption == MaxCommands \in Nat

Member == CtxMember \cup ListMember
Stored == Value \cup {NoValue}

Sys == 0                          \* the system prompt turn
Turn == 0 .. MaxCommands
Chain == Seq(Turn)
TurnsOf(chain) == {chain[i] : i \in DOMAIN chain}

(* Entry identifiers stand for the arena addresses of branch entries.  *)
NoEntry == 0
Table == [Branch -> Nat]
NoTable == [b \in Branch |-> NoEntry]

Store == [Member -> Stored]
Entry == [chain : Chain, store : Store, prev : Nat]
EmptyEntry == [chain |-> <<>>, store |-> [m \in Member |-> NoValue],
               prev |-> NoEntry]

(* Mutant: the system prompt is not seeded.  *)
Unseeded(chain) == chain

(* A request on an empty conversation starts with the system prompt.  *)
Seeded(chain) == IF chain = <<>> THEN <<Sys>> ELSE chain

(* Mutant: no turn is found to be shared.  *)
NoMergeBase(a, b) == 0

(* How many turns two chains share: the position of their merge base.  *)
MergeBase(a, b) ==
    Cardinality({n \in 1 .. Len(a) :
                    n <= Len(b) /\ \A i \in 1 .. n : a[i] = b[i]})

(* Only the first turn of a chain is a system turn.  *)
WithoutSystem(chain) ==
    IF chain # <<>> /\ Head(chain) = Sys THEN Tail(chain) ELSE chain

(* Mutant: our turns are replayed onto the merge base.  *)
JoinOntoBase(theirs, ours) ==
    SubSeq(theirs, 1, MergeBase(ours, theirs))
        \o WithoutSystem(
               SubSeq(ours, MergeBase(ours, theirs) + 1, Len(ours)))

(* Our turns, less the ones they have, replayed after theirs.  *)
JoinOntoHead(theirs, ours) ==
    theirs \o WithoutSystem(
                  SubSeq(ours, MergeBase(ours, theirs) + 1, Len(ours)))

(* Mutant: a merge of two values, with no base.  *)
KeepOurs(base, ours, theirs) == ours

(* The store merge, member by member; ours is kept on a conflict.  *)
MergeValue(base, ours, theirs) ==
    IF ours = theirs \/ base = theirs THEN ours
    ELSE IF base = ours THEN theirs ELSE ours

MergeStores(base, ours, theirs) ==
    [m \in Member |-> MergeValue(base[m], ours[m], theirs[m])]

StoresConflict(base, ours, theirs) ==
    \E m \in Member : ours[m] # theirs[m] /\ base[m] # theirs[m]
                                          /\ base[m] # ours[m]

(* The names a table edit changes, and the edit made again on a newer  *)
(* table, which must still hold what the edit started from.            *)
Edited(base, desired) == {b \in Branch : base[b] # desired[b]}

(* Mutants: no concurrent change is noticed; the whole table is reapplied.  *)
DeltaNeverConflicts(base, desired, latest) == FALSE
DeltaWhole(base, desired, latest) == desired

DeltaConflicts(base, desired, latest) ==
    \E b \in Edited(base, desired) : latest[b] # base[b]

DeltaApply(base, desired, latest) ==
    [b \in Branch |-> IF b \in Edited(base, desired) THEN desired[b]
                      ELSE latest[b]]
===============================================================================
