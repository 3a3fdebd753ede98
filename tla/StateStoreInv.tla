----------------------------- MODULE StateStoreInv -----------------------------
(***************************************************************************)
(* The inductive invariant of the state arena.                             *)
(***************************************************************************)
EXTENDS StateStore

(* Identifiers of a table name entries that are written.  *)
Within(table, n) == \A b \in Branch : table[b] <= n

ArenaOK ==
    /\ roots \in Seq(Root)
    /\ entries \in Seq(Entry)
    /\ refs \in Nat \ {0}
    /\ refs = Len(roots)
    /\ \A i \in 1 .. Len(roots) :
          roots[i].prev = i - 1 /\ Within(roots[i].table, Len(entries))
    /\ \A e \in 1 .. Len(entries) : entries[e].prev < e

TriesOK(c) ==
    /\ c.pc \in {"closed", "idle", "turn"} => c.tries = 0
    /\ c.pc \in {"try", "lost"} => c.tries < StateTries
    /\ c.pc \in {"ttry", "tlost"} => c.tries < TableTries

(* A context names roots and entries of an arena with r roots, e entries.  *)
ContextOK(c, r, e) ==
    /\ c \in Context
    /\ c.refsHead <= r
    /\ c.pc # "closed" => c.refsHead # 0
    /\ c.branchPrev <= e
    /\ Within(c.table, e) /\ Within(c.want, e)

AskedOK(a, e) == a \in Asked /\ Within(a.base, e) /\ Within(a.desired, e)

(* A lost race has been lost to a newer root, and each one counted by a    *)
(* root adopted since the command began.                                   *)
RaceOK(c, a, r) ==
    c.pc \in PublishPC =>
        /\ c.tries <= c.refsHead - a.since
        /\ c.pc \in {"lost", "tlost"} => c.refsHead < r

ProcOK(c, a, r, e) ==
    ContextOK(c, r, e) /\ TriesOK(c) /\ AskedOK(a, e) /\ RaceOK(c, a, r)

WellFormed ==
    /\ ArenaOK
    /\ ctx \in [Proc -> Context]
    /\ asked \in [Proc -> Asked]
    /\ issued \in 0 .. MaxCommands
    /\ \A p \in Proc : ProcOK(ctx[p], asked[p], Len(roots), Len(entries))

(* What a plain process publishes differs from the entry it started from   *)
(* by its command alone.                                                   *)
InStepAt(p) ==
    /\ ctx[p].table = roots[ctx[p].refsHead].table
    /\ ctx[p].branchPrev = ctx[p].table[ctx[p].branch]

TurnsDerived(p) ==
    TurnsOf(Base(p).chain) \subseteq TurnsOf(ctx[p].chain) \cup Dropped(p)

StoreDerived(p) ==
    \A m \in Member \ asked[p].edits : OurStore(p)[m] = Base(p).store[m]

(* The edit of a branch table, on the table of the root it will replace.   *)
EditDerived(p) ==
    \A b \in Branch :
        IF asked[p].base[b] = asked[p].desired[b]
        THEN ctx[p].want[b] = roots[ctx[p].refsHead].table[b]
        ELSE /\ roots[ctx[p].refsHead].table[b] = asked[p].base[b]
             /\ ctx[p].want[b] = asked[p].desired[b]

PlainOK(p) ==
    /\ ~asked[p].inTurn
    /\ ctx[p].pc \in {"closed", "idle", "turn"} =>
          /\ asked[p].edits = {}
          /\ ~ctx[p].staged
          /\ asked[p].cmd \notin {"clear", "reset"}
    /\ ctx[p].pc = "turn" =>
          TurnsOf(ctx[p].chain) \subseteq TurnsOf(asked[p].view)
    /\ ctx[p].pc \in {"idle", "turn", "try", "lost"} =>
          InStepAt(p) /\ TurnsDerived(p) /\ StoreDerived(p)
    /\ ctx[p].pc = "ttry" => EditDerived(p)

IInv ==
    /\ WellFormed
    /\ \A p \in Plain : PlainOK(p)

-------------------------------------------------------------------------------
(* Turns.  A turn is numbered by the counter of commands, and until its run *)
(* has published it no entry and no other process has it.                   *)
NumberedTo(chain, n) == \A t \in TurnsOf(chain) : t <= n
Numbered ==
    /\ \A e \in 1 .. Len(entries) : NumberedTo(entries[e].chain, issued)
    /\ \A p \in Proc : /\ NumberedTo(ctx[p].chain, issued)
                       /\ NumberedTo(asked[p].view, issued)

AtTurn(p) == asked[p].cmd = "turn" /\ ctx[p].pc \in {"try", "lost"}
OwnIsNew(p) ==
    AtTurn(p) =>
        /\ ctx[p].chain # <<>> /\ OwnTurn(p) # Sys
        /\ \A e \in 1 .. Len(entries) : OwnTurn(p) \notin TurnsOf(entries[e].chain)
        /\ \A q \in Proc \ {p} : /\ OwnTurn(p) \notin TurnsOf(ctx[q].chain)
                                 /\ OwnTurn(p) \notin TurnsOf(asked[q].view)

Fresh == Numbered /\ \A p \in Plain : OwnIsNew(p)

(* The system prompt opens what is published and held, and a turn is on it. *)
Opening(chain) == chain # <<>> => Head(chain) = Sys
InTurn(p) == ctx[p].pc = "turn" \/ asked[p].inTurn
Prompted ==
    /\ \A e \in 1 .. Len(entries) : Opening(entries[e].chain)
    /\ \A p \in Proc : /\ Opening(ctx[p].chain) /\ Opening(asked[p].view)
                       /\ InTurn(p) => asked[p].view # <<>>

-------------------------------------------------------------------------------
(* The abstract branch table: what the root in force holds.  The processes  *)
(* that run one command and refuse conflicts implement it.                  *)

(* The conversation and store a table entry names.  *)
TipOf(e) ==
    [live |-> e # NoEntry, chain |-> EntryOf(e).chain, store |-> EntryOf(e).store]
TipNow == [b \in Branch |-> TipOf(roots[refs].table[b])]
TipsKnown == {TipOf(roots[r].table[b]) : r \in DOMAIN roots, b \in Branch}
                 \ {TipOf(NoEntry)}

Promise == INSTANCE BranchTable WITH tip <- TipNow, known <- TipsKnown

(* Under abort, every publish of one-command processes is one command of   *)
(* the abstract branch table, applied to the state it replaces.            *)
ImplementsBranchTable == Promise!Spec

(* Entries name as predecessors what a root has held.  *)
WasHeld(e) == \E r \in 1 .. Len(roots), b \in Branch : roots[r].table[b] = e
HeldChain(chain) == \E k \in TipsKnown : k.chain = chain
Linked ==
    \A e \in 1 .. Len(entries) :
        entries[e].prev # NoEntry => WasHeld(entries[e].prev)

(* What a process that refuses conflicts is to publish on its branch: its   *)
(* turn, a change of one member, or another conversation.                   *)
RunOK(p) ==
    /\ ctx[p].pc = "idle" => ctx[p].chain = Base(p).chain
    /\ ctx[p].pc = "turn" =>
          asked[p].cmd = "turn" /\ asked[p].view = Seeded(Base(p).chain)
    /\ ctx[p].pc \in {"try", "lost"} =>
          \/ Continues(p) /\ asked[p].edits = {}
          \/ /\ ctx[p].chain = Base(p).chain
             /\ \E m \in Member : asked[p].edits \subseteq {m}
          \/ /\ ctx[p].chain = <<>> \/ HeldChain(ctx[p].chain)
             /\ asked[p].cmd # "turn" /\ asked[p].edits = {}

(* An edit of the table changes one name, or moves an entry to another.     *)
Rewritten(e, old) ==
    /\ e # NoEntry /\ old # NoEntry /\ EntryOf(e).chain = EntryOf(old).chain
    /\ \E m \in CtxMember, v \in Value :
          EntryOf(e).store = [EntryOf(old).store EXCEPT ![m] = v]
OneName(base, desired) ==
    \E b \in Branch, e \in 0 .. Len(entries) :
        /\ desired = [base EXCEPT ![b] = e] /\ e # base[b]
        /\ \/ e = NoEntry
           \/ base[b] = NoEntry /\ TipOf(e) \in TipsKnown
           \/ Rewritten(e, base[b])
Moved(base, desired) ==
    \E from, to \in Branch, e \in 0 .. Len(entries) :
        /\ desired = [base EXCEPT ![from] = NoEntry, ![to] = e]
        /\ base[from] # NoEntry /\ base[to] = NoEntry
        /\ TipOf(e) = TipOf(base[from])
EditOK(p) ==
    ctx[p].pc \in {"ttry", "tlost"} =>
        \/ OneName(asked[p].base, asked[p].desired)
        \/ Moved(asked[p].base, asked[p].desired)

Refusing == Plain \ Replaying
RefInv ==
    IInv /\ Fresh /\ Linked /\ \A p \in Refusing : RunOK(p) /\ EditOK(p)
===============================================================================
