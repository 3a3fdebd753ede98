------------------------------ MODULE StateStore ------------------------------
(***************************************************************************)
(* The state arena shared by fyai processes (fyai_storage.c, fyai_branch.c *)
(* and fyai_merge.c): roots and entries are immutable, and one word, refs, *)
(* is advanced by compare-and-set.  Each process holds a context read from *)
(* some root; a command changes the context, then publishes it, and a lost *)
(* compare-and-set is reconciled with the root that won.                   *)
(***************************************************************************)
EXTENDS BranchData

CONSTANTS
    Proc,         \* fyai processes
    Session,      \* processes that go on after a command (interactive)
    Tooled,       \* processes whose turns run tools of the parent process
    Commands,     \* bound: the commands issued in a behaviour
    Replaying,    \* processes with branch/on_conflict rebase or merge
    StateTries,   \* FYAI_STATE_PUBLISH_TRIES
    TableTries    \* the tries of a branch table edit

ASSUME ProcAssumption == Session \subseteq Proc /\ Tooled \subseteq Proc
ASSUME PolicyAssumption == Replaying \subseteq Proc
ASSUME TriesAssumption == StateTries \in Nat \ {0} /\ TableTries \in Nat \ {0}

(* The processes that run one command on the state they read.  *)
Plain == Proc \ (Session \cup Tooled)

VARIABLES
    refs,     \* the refs word of the arena: the root in force
    roots,    \* every root written
    entries,  \* every branch entry written
    ctx,      \* the context of each process
    asked,    \* the command each process runs
    issued    \* bound: commands issued so far

vars == <<refs, roots, entries, ctx, asked, issued>>

NoAsk == [cmd |-> "none", view |-> <<>>, edits |-> {}, since |-> 0,
          inTurn |-> FALSE, base |-> NoTable, desired |-> NoTable,
          movesHead |-> FALSE]

Closed == [pc |-> "closed", refsHead |-> 0, table |-> NoTable,
           headBranch |-> Main, branch |-> Main, branchPrev |-> NoEntry,
           chain |-> <<>>, members |-> [m \in CtxMember |-> NoValue],
           staged |-> FALSE, lists |-> [m \in ListMember |-> NoValue],
           want |-> NoTable, tries |-> 0]

EntryOf(e) == IF e = NoEntry THEN EmptyEntry ELSE entries[e]
Base(p) == EntryOf(ctx[p].branchPrev)          \* what this run started from
Theirs(p) == roots[refs].table[ctx[p].branch]  \* the branch in the root now

(* The store this process would publish: the members the context holds    *)
(* over the staged store, or over the store of the predecessor.           *)
OurStore(p) ==
    [m \in Member |->
        IF m \in CtxMember THEN ctx[p].members[m]
        ELSE IF ctx[p].staged THEN ctx[p].lists[m] ELSE Base(p).store[m]]

-------------------------------------------------------------------------------
(* Init: an arena that fyai init has published, with one empty branch.  *)

Init ==
    /\ refs = 1
    /\ entries = <<EmptyEntry>>
    /\ roots = <<[HEAD |-> Main, table |-> [NoTable EXCEPT ![Main] = 1],
                  prev |-> 0]>>
    /\ ctx = [p \in Proc |-> Closed]
    /\ asked = [p \in Proc |-> NoAsk]
    /\ issued = 0

(* Mutant: the predecessor of the branch left is kept.  *)
AdoptedOldPrev(c, b) ==
    [c EXCEPT !.branch = b,
              !.chain = EntryOf(c.table[b]).chain,
              !.members = [m \in CtxMember |-> EntryOf(c.table[b]).store[m]]]

(* The context on branch b of its table.  *)
Adopted(c, b) ==
    [c EXCEPT !.branch = b,
              !.branchPrev = c.table[b],
              !.chain = EntryOf(c.table[b]).chain,
              !.members = [m \in CtxMember |-> EntryOf(c.table[b]).store[m]]]

(* Open the arena on HEAD, or on a branch named for this invocation.  *)
Open(p, b) ==
    LET r == roots[refs] IN
    /\ ctx[p].pc = "closed"
    /\ b = r.HEAD \/ r.table[b] # NoEntry
    /\ ctx' = [ctx EXCEPT ![p] =
                  Adopted([Closed EXCEPT !.pc = "idle", !.refsHead = refs,
                                         !.table = r.table,
                                         !.headBranch = r.HEAD], b)]
    /\ UNCHANGED <<refs, roots, entries, asked, issued>>

(* The process ends, by its own choice or by a crash.  *)
Exit(p) ==
    /\ ctx[p].pc # "closed"
    /\ ctx' = [ctx EXCEPT ![p] = Closed]
    /\ asked' = [asked EXCEPT ![p] = NoAsk]
    /\ UNCHANGED <<refs, roots, entries, issued>>

(* The command has been published, or given up: a publish of a tool goes   *)
(* back to its turn, a session goes on unless its turn failed, and any     *)
(* other process ends.                                                     *)
Settle(p, c, ok) ==
    LET goesOn == p \in Session /\ (ok \/ asked[p].cmd # "turn")
        next == [c EXCEPT !.staged = FALSE, !.tries = 0, !.want = NoTable,
                          !.lists = Closed.lists]
    IN IF asked[p].inTurn
       THEN /\ ctx' = [ctx EXCEPT ![p] = [next EXCEPT !.pc = "turn"]]
            /\ asked' = [asked EXCEPT ![p] =
                            [@ EXCEPT !.cmd = "turn", !.edits = {},
                                      !.inTurn = FALSE]]
       ELSE /\ ctx' = [ctx EXCEPT ![p] =
                          IF goesOn THEN [next EXCEPT !.pc = "idle"]
                          ELSE Closed]
            /\ asked' = [asked EXCEPT ![p] = NoAsk]
-------------------------------------------------------------------------------
(* Commands: each changes the context and asks for a publish.  *)

Issue(p, cmd) ==
    /\ cmd \in Commands
    /\ issued < MaxCommands
    /\ issued' = issued + 1

Ask(p, cmd, edits) ==
    asked' = [asked EXCEPT ![p] =
                 [NoAsk EXCEPT !.cmd = cmd, !.view = ctx[p].chain,
                               !.edits = edits, !.since = ctx[p].refsHead]]

StartTurn(p) ==
    /\ ctx[p].pc = "idle"
    /\ "turn" \in Commands
    /\ ctx' = [ctx EXCEPT ![p] = [@ EXCEPT !.pc = "turn",
                                           !.chain = Seeded(ctx[p].chain)]]
    /\ asked' = [asked EXCEPT ![p] =
                    [NoAsk EXCEPT !.cmd = "turn",
                                  !.view = Seeded(ctx[p].chain)]]
    /\ UNCHANGED <<refs, roots, entries, issued>>

(* A turn that produced nothing keeps the prior state.  *)
FailTurn(p) ==
    /\ ctx[p].pc = "turn"
    /\ ctx' = [ctx EXCEPT ![p] = IF p \in Session
                                 THEN [@ EXCEPT !.pc = "idle"] ELSE Closed]
    /\ asked' = [asked EXCEPT ![p] = NoAsk]
    /\ UNCHANGED <<refs, roots, entries, issued>>

(* The new turn is chained to the head the turn was started on.  *)
FinishTurn(p) ==
    /\ ctx[p].pc = "turn"
    /\ Issue(p, "turn")
    /\ ctx' = [ctx EXCEPT ![p] =
                  [@ EXCEPT !.pc = "try",
                            !.chain = Append(asked[p].view, issued + 1)]]
    /\ asked' = [asked EXCEPT ![p] = [@ EXCEPT !.since = ctx[p].refsHead]]
    /\ UNCHANGED <<refs, roots, entries>>

SetMember(p, m, v) ==
    /\ ctx[p].pc = "idle"
    /\ Issue(p, "set")
    /\ ctx[p].members[m] # v
    /\ ctx' = [ctx EXCEPT ![p] = [@ EXCEPT !.pc = "try", !.members[m] = v]]
    /\ Ask(p, "set", {m})
    /\ UNCHANGED <<refs, roots, entries>>

(* todo_write, a tool of the parent, replaces its list in mid-turn.  *)
WriteList(p, m, v) ==
    /\ ctx[p].pc = "turn" /\ p \in Tooled
    /\ Issue(p, "list")
    /\ Base(p).store[m] # v
    /\ ctx' = [ctx EXCEPT ![p] =
                  [@ EXCEPT !.pc = "try", !.staged = TRUE,
                            !.lists = [n \in ListMember |->
                                          IF n = m THEN v
                                          ELSE Base(p).store[n]]]]
    /\ asked' = [asked EXCEPT ![p] =
                    [@ EXCEPT !.cmd = "list", !.edits = {m}, !.inTurn = TRUE,
                              !.since = ctx[p].refsHead]]
    /\ UNCHANGED <<refs, roots, entries>>

(* Clear drops the conversation; a live session seeds the next one.  *)
Clear(p) ==
    /\ ctx[p].pc = "idle"
    /\ Issue(p, "clear")
    /\ ctx' = [ctx EXCEPT ![p] =
                  [@ EXCEPT !.pc = "try",
                            !.chain = IF p \in Session THEN <<Sys>>
                                      ELSE <<>>]]
    /\ Ask(p, "clear", {})
    /\ UNCHANGED <<refs, roots, entries>>

(* Reset the branch to the head before its last entry: branch@{1}.  *)
Before(p) == EntryOf(EntryOf(ctx[p].table[ctx[p].branch]).prev)

Reset(p) ==
    /\ ctx[p].pc = "idle"
    /\ Issue(p, "reset")
    /\ EntryOf(ctx[p].table[ctx[p].branch]).prev # NoEntry
    /\ ctx' = [ctx EXCEPT ![p] =
                  [@ EXCEPT !.pc = "try", !.chain = Before(p).chain]]
    /\ Ask(p, "reset", {})
    /\ UNCHANGED <<refs, roots, entries>>

Checkout(p, b) ==
    /\ ctx[p].pc = "idle"
    /\ Issue(p, "checkout")
    /\ ctx[p].table[b] # NoEntry
    /\ ctx' = [ctx EXCEPT ![p] = [Adopted(@, b) EXCEPT !.pc = "try",
                                                       !.headBranch = b]]
    /\ Ask(p, "checkout", {})
    /\ UNCHANGED <<refs, roots, entries>>
-------------------------------------------------------------------------------
(* Edits of the branch table: the desired table is built from the table of *)
(* the context, its new entry written to the arena, and then published.    *)

AskTable(p, cmd, desired, head) ==
    asked' = [asked EXCEPT ![p] =
                 [NoAsk EXCEPT !.cmd = cmd, !.base = ctx[p].table,
                               !.desired = desired, !.since = ctx[p].refsHead,
                               !.movesHead =
                                   roots[ctx[p].refsHead].HEAD # head]]

(* A current branch that gets a new name keeps its entry as predecessor.  *)
EditTable(p, cmd, desired, branch, head) ==
    /\ ctx[p].pc = "idle"
    /\ Issue(p, cmd)
    /\ ctx' = [ctx EXCEPT ![p] =
                  [@ EXCEPT !.pc = "ttry", !.want = desired,
                            !.branch = branch, !.headBranch = head,
                            !.branchPrev =
                                IF branch = ctx[p].branch
                                THEN ctx[p].branchPrev
                                ELSE ctx[p].table[ctx[p].branch]]]
    /\ AskTable(p, cmd, desired, head)
    /\ UNCHANGED <<refs, roots>>

(* A new branch takes the conversation and the store of the current one.  *)
CreateBranch(p, b) ==
    LET c == ctx[p]
        cur == c.table[c.branch]
        e == Len(entries) + 1
    IN /\ c.table[b] = NoEntry
       /\ cur # NoEntry
       /\ EditTable(p, "create", [c.table EXCEPT ![b] = e],
                    c.branch, c.headBranch)
       /\ entries' = Append(entries, [entries[cur] EXCEPT !.prev = NoEntry])

DeleteBranch(p, b) ==
    LET c == ctx[p] IN
    /\ b # c.branch
    /\ c.table[b] # NoEntry
    /\ \E o \in Branch \ {b} : c.table[o] # NoEntry
    /\ EditTable(p, "delete", [c.table EXCEPT ![b] = NoEntry],
                 c.branch, c.headBranch)
    /\ UNCHANGED entries

(* The current branch keeps its entry under the new name; another branch   *)
(* gets an entry that records the rename.                                  *)
RenameBranch(p, from, to) ==
    LET c == ctx[p]
        mine == from = c.branch
        e == Len(entries) + 1
    IN /\ c.table[from] # NoEntry
       /\ c.table[to] = NoEntry
       /\ EditTable(p, "rename",
                    [c.table EXCEPT ![from] = NoEntry,
                                    ![to] = IF mine THEN c.table[from] ELSE e],
                    IF mine THEN to ELSE c.branch,
                    IF from = c.headBranch THEN to ELSE c.headBranch)
       /\ entries' = IF mine THEN entries
                     ELSE Append(entries, [entries[c.table[from]]
                                               EXCEPT !.prev = c.table[from]])

(* Describe a branch other than the current one.  *)
DescribeBranch(p, b, m, v) ==
    LET c == ctx[p]
        e == Len(entries) + 1
    IN /\ b # c.branch
       /\ c.table[b] # NoEntry
       /\ EditTable(p, "describe", [c.table EXCEPT ![b] = e],
                    c.branch, c.headBranch)
       /\ entries' = Append(entries,
                            [entries[c.table[b]] EXCEPT !.store[m] = v,
                                                        !.prev = c.table[b]])
-------------------------------------------------------------------------------
(* fyai_publish_state: try, and reconcile each lost compare-and-set.  *)

HasNoState(c) ==
    /\ c.chain = <<>>
    /\ \A m \in CtxMember : c.members[m] = NoValue
    /\ c.branchPrev = NoEntry

PublishNothing(p) ==
    /\ ctx[p].pc = "try" /\ ctx[p].tries = 0
    /\ HasNoState(ctx[p])
    /\ Settle(p, ctx[p], TRUE)
    /\ UNCHANGED <<refs, roots, entries, issued>>

MayTry(p) ==
    /\ ctx[p].pc = "try"
    /\ ctx[p].tries > 0 \/ ~HasNoState(ctx[p])

(* Mutant: the root is written whatever root is in force.  *)
AdvanceUnchecked(p, table, head) ==
    /\ refs' = Len(roots) + 1
    /\ roots' = Append(roots, [HEAD |-> head, table |-> table,
                               prev |-> ctx[p].refsHead])

(* Write root r with the given table and HEAD over the root p holds.  *)
Advance(p, table, head) ==
    /\ refs = ctx[p].refsHead
    /\ refs' = Len(roots) + 1
    /\ roots' = Append(roots, [HEAD |-> head, table |-> table,
                               prev |-> ctx[p].refsHead])

(* The entry fyai_branches_commit builds.  *)
OurEntry(p) == [chain |-> ctx[p].chain, store |-> OurStore(p),
                prev |-> ctx[p].branchPrev]

PublishWon(p) ==
    LET c == ctx[p]
        e == Len(entries) + 1
        table == [c.table EXCEPT ![c.branch] = e]
    IN /\ MayTry(p)
       /\ Advance(p, table, c.headBranch)
       /\ entries' = Append(entries, OurEntry(p))
       /\ Settle(p, [c EXCEPT !.refsHead = Len(roots) + 1, !.table = table,
                              !.branchPrev = e], TRUE)
       /\ UNCHANGED issued

(* Mutant: the compare-and-set fails for no reason.  *)
PublishLostAlone(p) ==
    /\ MayTry(p)
    /\ ctx' = [ctx EXCEPT ![p] = [@ EXCEPT !.pc = "lost"]]
    /\ UNCHANGED <<refs, roots, entries, asked, issued>>

PublishLost(p) ==
    /\ MayTry(p)
    /\ refs # ctx[p].refsHead
    /\ ctx' = [ctx EXCEPT ![p] = [@ EXCEPT !.pc = "lost"]]
    /\ UNCHANGED <<refs, roots, entries, asked, issued>>

(* Mutant: the table of the root that won is not adopted.  *)
RereadRefsOnly(c) == [c EXCEPT !.refsHead = refs, !.tries = @ + 1]

(* The root that won becomes the root of the context before anything is   *)
(* decided about the branch.                                              *)
Reread(c) == [c EXCEPT !.refsHead = refs, !.table = roots[refs].table,
                       !.tries = @ + 1]

(* Mutant: nothing bounds the tries.  *)
RetryUnbounded(p, c) ==
    /\ ctx' = [ctx EXCEPT ![p] = [c EXCEPT !.pc = "try"]]
    /\ UNCHANGED asked

(* Try again, or give up after StateTries lost races.  *)
Retry(p, c) ==
    IF c.tries < StateTries
    THEN /\ ctx' = [ctx EXCEPT ![p] = [c EXCEPT !.pc = "try"]]
         /\ UNCHANGED asked
    ELSE Settle(p, c, FALSE)

(* Mutant: the merged entry stays linked to the entry it was built over.  *)
MergedUnlinked(p, c, chain) ==
    LET store == MergeStores(Base(p).store, OurStore(p),
                             EntryOf(Theirs(p)).store)
    IN [c EXCEPT !.members = [m \in CtxMember |-> store[m]],
                 !.lists = [m \in ListMember |-> store[m]],
                 !.staged = TRUE,
                 !.chain = chain]

(* The context with its store merged with theirs, on top of their entry.  *)
Merged(p, c, chain) ==
    LET store == MergeStores(Base(p).store, OurStore(p),
                             EntryOf(Theirs(p)).store)
    IN [c EXCEPT !.members = [m \in CtxMember |-> store[m]],
                 !.lists = [m \in ListMember |-> store[m]],
                 !.staged = TRUE,
                 !.chain = chain,
                 !.branchPrev = Theirs(p)]

(* Mutant: an entry another process wrote on the branch is not noticed.  *)
BranchMovedMissed(p) == FALSE

BranchMoved(p) == Theirs(p) # ctx[p].branchPrev
OurHeadMoved(p) == ctx[p].chain # Base(p).chain
TheirHeadMoved(p) == EntryOf(Theirs(p)).chain # Base(p).chain
StoreRefused(p) ==
    /\ p \notin Replaying
    /\ StoresConflict(Base(p).store, OurStore(p), EntryOf(Theirs(p)).store)

ReconcileUnmoved(p) ==
    /\ ctx[p].pc = "lost"
    /\ ~BranchMoved(p)
    /\ Retry(p, Reread(ctx[p]))
    /\ UNCHANGED <<refs, roots, entries, issued>>

(* Only one side moved the conversation: take that head.  *)
MovedHead(p) == IF OurHeadMoved(p) THEN ctx[p].chain
                ELSE EntryOf(Theirs(p)).chain

ReconcileOneSided(p) ==
    /\ ctx[p].pc = "lost"
    /\ BranchMoved(p)
    /\ ~(OurHeadMoved(p) /\ TheirHeadMoved(p))
    /\ ~StoreRefused(p)
    /\ Retry(p, Merged(p, Reread(ctx[p]), MovedHead(p)))
    /\ UNCHANGED <<refs, roots, entries, issued>>

ReconcileReplay(p) ==
    /\ ctx[p].pc = "lost"
    /\ BranchMoved(p)
    /\ OurHeadMoved(p) /\ TheirHeadMoved(p)
    /\ p \in Replaying
    /\ Retry(p, Merged(p, Reread(ctx[p]),
                       JoinOntoHead(EntryOf(Theirs(p)).chain, ctx[p].chain)))
    /\ UNCHANGED <<refs, roots, entries, issued>>

(* A conflict under abort: the context keeps its branch and conversation.  *)
ReconcileRefuse(p) ==
    /\ ctx[p].pc = "lost"
    /\ BranchMoved(p)
    /\ IF OurHeadMoved(p) /\ TheirHeadMoved(p) THEN p \notin Replaying
       ELSE StoreRefused(p)
    /\ Settle(p, Reread(ctx[p]), FALSE)
    /\ UNCHANGED <<refs, roots, entries, issued>>
-------------------------------------------------------------------------------
(* fyai_publish_branches: the same for an edit of the branch table.  *)

TableWon(p) ==
    LET c == ctx[p] IN
    /\ c.pc = "ttry"
    /\ Advance(p, c.want, c.headBranch)
    /\ Settle(p, [c EXCEPT !.refsHead = Len(roots) + 1, !.table = c.want], TRUE)
    /\ UNCHANGED <<entries, issued>>

TableLost(p) ==
    /\ ctx[p].pc = "ttry"
    /\ refs # ctx[p].refsHead
    /\ ctx' = [ctx EXCEPT ![p] = [@ EXCEPT !.pc = "tlost"]]
    /\ UNCHANGED <<refs, roots, entries, asked, issued>>

TableConflicts(p) ==
    DeltaConflicts(asked[p].base, asked[p].desired, roots[refs].table)

(* Make the edit again on the table that won; HEAD is theirs unless this   *)
(* edit moved it.                                                          *)
TableReapply(p) ==
    LET c == [ctx[p] EXCEPT
                 !.refsHead = refs, !.tries = @ + 1,
                 !.want = DeltaApply(asked[p].base, asked[p].desired,
                                     roots[refs].table),
                 !.headBranch = IF asked[p].movesHead THEN @
                                ELSE roots[refs].HEAD]
    IN /\ ctx[p].pc = "tlost"
       /\ ~TableConflicts(p)
       /\ IF c.tries < TableTries
          THEN /\ ctx' = [ctx EXCEPT ![p] = [c EXCEPT !.pc = "ttry"]]
               /\ UNCHANGED asked
          ELSE Settle(p, c, FALSE)
       /\ UNCHANGED <<refs, roots, entries, issued>>

(* The refs of the context have advanced; its table has not.  *)
TableRefuse(p) ==
    /\ ctx[p].pc = "tlost"
    /\ TableConflicts(p)
    /\ Settle(p, [ctx[p] EXCEPT !.refsHead = refs], FALSE)
    /\ UNCHANGED <<refs, roots, entries, issued>>

(* fyai_branches_refresh: adopt the root in force, and the predecessor of *)
(* the branch in it, but not its conversation nor its members.            *)
Refresh(p) ==
    /\ "refresh" \in Commands
    /\ \/ p \in Tooled /\ ctx[p].pc = "turn"
       \/ p \in Session /\ ctx[p].pc \in {"idle", "turn"}
    /\ refs # ctx[p].refsHead
    /\ ctx' = [ctx EXCEPT ![p] =
                  [@ EXCEPT !.refsHead = refs, !.table = roots[refs].table,
                            !.branchPrev = Theirs(p)]]
    /\ UNCHANGED <<refs, roots, entries, asked, issued>>
-------------------------------------------------------------------------------
PublishStep(p) ==
    \/ PublishNothing(p) \/ PublishWon(p) \/ PublishLost(p)
    \/ ReconcileUnmoved(p) \/ ReconcileOneSided(p)
    \/ ReconcileReplay(p) \/ ReconcileRefuse(p)
    \/ TableWon(p) \/ TableLost(p) \/ TableReapply(p) \/ TableRefuse(p)

TurnStep(p) == StartTurn(p) \/ FailTurn(p) \/ FinishTurn(p) \/ Refresh(p)

CommandStep(p) ==
    \/ \E m \in CtxMember, v \in Stored : SetMember(p, m, v)
    \/ \E m \in ListMember, v \in Stored : WriteList(p, m, v)
    \/ Clear(p) \/ Reset(p)
    \/ \E b \in Branch : Checkout(p, b)

TableStep(p) ==
    \/ \E b \in Branch : CreateBranch(p, b) \/ DeleteBranch(p, b)
    \/ \E from, to \in Branch : RenameBranch(p, from, to)
    \/ \E b \in Branch, m \in CtxMember, v \in Value :
          DescribeBranch(p, b, m, v)

ProcStep(p) ==
    \/ Exit(p)
    \/ \E b \in Branch : Open(p, b)
    \/ TurnStep(p) \/ CommandStep(p) \/ TableStep(p) \/ PublishStep(p)

Next == \E p \in Proc : ProcStep(p)

Spec == Init /\ [][Next]_vars
-------------------------------------------------------------------------------
(* Properties.  *)

Root == [HEAD : Branch, table : Table, prev : Nat]

PublishPC == {"try", "lost", "ttry", "tlost"}

Context == [pc : {"closed", "idle", "turn"} \cup PublishPC,
            refsHead : Nat, table : Table, headBranch : Branch,
            branch : Branch, branchPrev : Nat, chain : Chain,
            members : [CtxMember -> Stored], staged : BOOLEAN,
            lists : [ListMember -> Stored], want : Table, tries : Nat]

Asked == [cmd : {"none", "turn", "set", "list", "clear", "reset", "checkout",
                 "create", "delete", "rename", "describe"},
          view : Chain, edits : SUBSET Member, since : Nat, inTurn : BOOLEAN,
          base : Table, desired : Table, movesHead : BOOLEAN]

TypeOK ==
    /\ refs \in Nat
    /\ roots \in Seq(Root)
    /\ entries \in Seq(Entry)
    /\ ctx \in [Proc -> Context]
    /\ asked \in [Proc -> Asked]
    /\ issued \in 0 .. MaxCommands
    /\ \A p \in Proc :
          /\ ctx[p].pc \in {"try", "lost"} => ctx[p].tries < StateTries
          /\ ctx[p].pc \in {"ttry", "tlost"} => ctx[p].tries < TableTries

(* Every root update is a link of one ref log: the compare-and-set lets no *)
(* publisher write over a root it has not read (fyai_root_publish_try and  *)
(* fyai_publish_branches chain each root to the one it replaced).          *)
RootLog ==
    /\ refs = Len(roots)
    /\ \A i \in DOMAIN roots : roots[i].prev = i - 1

(* No turn is in a conversation two times.  A replay puts all turns after  *)
(* the ones both sides share again, the published ones too, so two replays *)
(* onto a conversation that was cleared meanwhile violate it.              *)
NoTurnTwice ==
    \A e \in DOMAIN entries :
        LET c == entries[e].chain IN
        \A i, j \in DOMAIN c : c[i] = c[j] => i = j

(* A conversation opens with the system prompt.  *)
SystemPrompt ==
    \A e \in DOMAIN entries :
        entries[e].chain # <<>> => Head(entries[e].chain) = Sys

(* A publisher loses a race only to a publish that won since its command   *)
(* began, so StateTries losses mean StateTries other publishes.            *)
LossesAreWins ==
    \A p \in Proc :
        ctx[p].pc \in PublishPC =>
            ctx[p].tries <= Len(roots) - asked[p].since

(* The context of a plain process is one root: its table is the table of   *)
(* the root it will compare with, and its predecessor the entry there.     *)
InStep ==
    \A p \in Plain :
        ctx[p].pc \in {"idle", "turn", "try", "lost"} =>
            /\ ctx[p].table = roots[ctx[p].refsHead].table
            /\ ctx[p].branchPrev = ctx[p].table[ctx[p].branch]

(* Steps in which process p writes the root of its branch or of its table. *)
Writes(p, pc) ==
    ctx[p].pc = pc /\ roots' # roots /\ ctx'[p] # ctx[p]
Written(p) == entries'[roots'[refs'].table[ctx[p].branch]]

(* The turns a command takes out of the conversation its user saw.  *)
Dropped(p) == IF asked[p].cmd \in {"clear", "reset"}
              THEN TurnsOf(asked[p].view) ELSE {}

WriteKeepsTurns(p) ==
    Writes(p, "try") =>
        TurnsOf(EntryOf(Theirs(p)).chain)
            \subseteq TurnsOf(Written(p).chain) \cup Dropped(p)

WriteKeepsStore(p) ==
    Writes(p, "try") =>
        \A m \in Member \ asked[p].edits :
            Written(p).store[m] = EntryOf(Theirs(p)).store[m]

WriteKeepsReflog(p) == Writes(p, "try") => Written(p).prev = Theirs(p)

WriteKeepsBranches(p) ==
    Writes(p, "try") =>
        \A b \in Branch \ {ctx[p].branch} :
            roots'[refs'].table[b] = roots[refs].table[b]

(* The turn of this run, after the conversation that the run started from. *)
OwnTurn(p) == ctx[p].chain[Len(ctx[p].chain)]
Continues(p) ==
    /\ asked[p].cmd = "turn"
    /\ ctx[p].chain = Append(Seeded(Base(p).chain), OwnTurn(p))
Extends(chain, start) ==
    Len(start) <= Len(chain) /\ SubSeq(chain, 1, Len(start)) = start

(* "Put our turns after theirs": as long as the branch only grows, what is *)
(* published after a lost race is what the others wrote, and after it the  *)
(* turn of this run, which is not among theirs (fyai_join_onto_head).      *)
ReplayIsExact ==
    [][\A p \in Plain :
          LET theirs == EntryOf(Theirs(p)).chain IN
          /\ ctx[p].pc = "lost" /\ ctx'[p].pc = "try"
          /\ Continues(p) /\ Extends(theirs, Base(p).chain)
          => /\ ctx'[p].chain = Append(Seeded(theirs), OwnTurn(p))
             /\ OwnTurn(p) \notin TurnsOf(theirs)]_vars

(* A publish of a plain process drops no turn another process published:  *)
(* what leaves the branch is what the user saw and cleared or reset.      *)
PlainKeepsTurns == [][\A p \in Plain : WriteKeepsTurns(p)]_vars

(* A publish of a plain process changes no store member that its command *)
(* did not set (publish_store_merge).                                     *)
PlainKeepsStore == [][\A p \in Plain : WriteKeepsStore(p)]_vars

(* A publish of a plain process links its entry to the entry it replaces, *)
(* whoever wrote that (branch_prev in publish_reconcile).                 *)
PlainKeepsReflog == [][\A p \in Plain : WriteKeepsReflog(p)]_vars

(* A publish of a plain process leaves every other branch as it is in the *)
(* root it replaces (arena_branches in publish_reconcile).                *)
PlainKeepsBranches == [][\A p \in Plain : WriteKeepsBranches(p)]_vars

(* The same of every process, the interactive ones included.  *)
EveryWriteKeepsTurns == [][\A p \in Proc : WriteKeepsTurns(p)]_vars
EveryWriteKeepsReflog == [][\A p \in Proc : WriteKeepsReflog(p)]_vars
EveryWriteKeepsBranches == [][\A p \in Proc : WriteKeepsBranches(p)]_vars

(* A table edit that is published changes the names it was asked to change *)
(* and no other, and none that another process changed meanwhile.          *)
TableEditIsExact ==
    [][\A p \in Plain :
          Writes(p, "ttry") =>
              LET a == asked[p] IN
              \A b \in Branch :
                  IF a.base[b] = a.desired[b]
                  THEN roots'[refs'].table[b] = roots[refs].table[b]
                  ELSE /\ roots[refs].table[b] = a.base[b]
                       /\ roots'[refs'].table[b] = a.desired[b]]_vars

(* HEAD, the branch the next invocation starts on, is moved by a checkout, *)
(* or follows a rename.                                                    *)
HeadOnlyByCheckout ==
    [][\A p \in Proc :
          /\ ctx'[p] # ctx[p]
          /\ roots'[refs'].HEAD # roots[refs].HEAD
          => asked[p].cmd \in {"checkout", "rename"}]_vars
===============================================================================
