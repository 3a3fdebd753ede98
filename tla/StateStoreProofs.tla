--------------------------- MODULE StateStoreProofs ---------------------------
(***************************************************************************)
(* Proofs about the state arena, for any processes, branches, members,     *)
(* values and numbers of tries.                                            *)
(*                                                                         *)
(* First, the arena and every context stay well formed.  Then, that a      *)
(* process which runs one command on the state it read publishes that      *)
(* command and nothing else, whatever the other processes, interactive or  *)
(* not, publish meanwhile; that a turn is put after what others wrote as   *)
(* it is; and that processes which refuse conflicts implement the abstract *)
(* branch table.                                                           *)
(***************************************************************************)
EXTENDS StateStoreInv, FiniteSetTheorems, SequenceTheorems, TLAPS

-------------------------------------------------------------------------------
(* The pure functions.  *)

(* The system prompt is a turn. *)
LEMMA SysIsTurn == Sys \in Turn
BY BoundAssumption DEF Sys, Turn

(* Seeding a conversation gives a conversation. *)
LEMMA SeededType == \A c \in Chain : Seeded(c) \in Chain
BY SysIsTurn DEF Seeded, Chain

(* A merge base is a position. *)
LEMMA MergeBaseType == \A a, b \in Chain : MergeBase(a, b) \in Nat
<1> SUFFICES ASSUME NEW a \in Chain, NEW b \in Chain
             PROVE  MergeBase(a, b) \in Nat
  OBVIOUS
<1> DEFINE shared == {n \in 1 .. Len(a) :
                         n <= Len(b) /\ \A i \in 1 .. n : a[i] = b[i]}
<1>1. Len(a) \in Nat
  BY DEF Chain
<1>2. IsFiniteSet(1 .. Len(a))
  BY <1>1, FS_Interval
<1>3. IsFiniteSet(shared)
  BY <1>2, FS_Subset
<1>4. Cardinality(shared) \in Nat
  BY <1>3, FS_CardinalityType
<1> QED
  BY <1>4 DEF MergeBase

(* Joining keeps every turn of theirs.  *)
LEMMA JoinOntoHeadKeepsTheirs ==
    \A theirs, ours \in Chain :
        /\ JoinOntoHead(theirs, ours) \in Chain
        /\ TurnsOf(theirs) \subseteq TurnsOf(JoinOntoHead(theirs, ours))
<1> SUFFICES ASSUME NEW theirs \in Chain, NEW ours \in Chain
             PROVE  /\ JoinOntoHead(theirs, ours) \in Chain
                    /\ TurnsOf(theirs)
                         \subseteq TurnsOf(JoinOntoHead(theirs, ours))
  OBVIOUS
<1> DEFINE m == MergeBase(ours, theirs) + 1
           rest == SubSeq(ours, m, Len(ours))
           replayed == WithoutSystem(rest)
<1>1. m \in Nat \ {0} /\ Len(ours) \in Nat
  BY MergeBaseType DEF Chain
<1>2. \A i \in m .. Len(ours) : ours[i] \in Turn
  BY <1>1 DEF Chain
<1>3. rest \in Chain
  <2> HIDE DEF m
  <2> QED BY <1>1, <1>2, SubSeqProperties DEF Chain
<1>4. replayed \in Chain
  <2> HIDE DEF rest
  <2> QED BY <1>3, HeadTailProperties DEF WithoutSystem, Chain
<1>5. JoinOntoHead(theirs, ours) = theirs \o replayed
  BY DEF JoinOntoHead
<1> HIDE DEF replayed
<1>6. /\ theirs \o replayed \in Chain
      /\ \A i \in 1 .. Len(theirs) : (theirs \o replayed)[i] = theirs[i]
      /\ DOMAIN theirs \subseteq DOMAIN (theirs \o replayed)
  BY <1>4, ConcatProperties DEF Chain
<1> QED
  BY <1>5, <1>6 DEF TurnsOf, Chain
-------------------------------------------------------------------------------
(* Well-formedness: one process moves, the arena only grows.  *)

(* An absent entry reads as an entry. *)
LEMMA EmptyEntryType == EmptyEntry \in Entry
BY DEF EmptyEntry, Entry, Chain, Store, Stored, NoEntry

(* The empty table is a table, and names no entry. *)
LEMMA NoTableType == NoTable \in Table /\ \A n \in Nat : Within(NoTable, n)
BY DEF NoTable, Table, Within, NoEntry

(* A table stays within an arena that grows. *)
LEMMA WithinGrows ==
    ASSUME NEW table \in Table, NEW m \in Nat, NEW n \in Nat, m <= n,
           Within(table, m)
    PROVE  Within(table, n)
BY DEF Within, Table

(* Every identifier within the arena reads as an entry. *)
LEMMA EntryOfType ==
    ASSUME ArenaOK, NEW e \in Nat, e <= Len(entries)
    PROVE  EntryOf(e) \in Entry /\ EntryOf(e).prev <= Len(entries)
<1>1. CASE e = NoEntry
  BY <1>1, EmptyEntryType DEF EntryOf, EmptyEntry, ArenaOK, NoEntry
<1>2. CASE e # NoEntry
  <2>1. e \in 1 .. Len(entries) /\ entries[e] \in Entry
    BY <1>2 DEF ArenaOK, NoEntry
  <2>2. entries[e].prev < e /\ entries[e].prev \in Nat
    BY <2>1 DEF ArenaOK, Entry
  <2> QED
    BY <1>2, <2>1, <2>2 DEF EntryOf
<1> QED
  BY <1>1, <1>2

(* The root of an open context is a root. *)
LEMMA RootOfType ==
    ASSUME ArenaOK, NEW i \in 1 .. Len(roots)
    PROVE  /\ roots[i] \in Root
           /\ roots[i].table \in Table /\ roots[i].HEAD \in Branch
           /\ Within(roots[i].table, Len(entries))
<1>1. roots[i] \in Root
  BY DEF ArenaOK
<1>2. Within(roots[i].table, Len(entries))
  BY DEF ArenaOK
<1> QED
  BY <1>1, <1>2 DEF Root

(* A closed process is well formed in every arena. *)
LEMMA ClosedOK ==
    \A r, e \in Nat : ContextOK(Closed, r, e) /\ TriesOK(Closed)
<1>1. Closed \in Context
  BY BranchAssumption, NoTableType
  DEF Closed, Context, Chain, Stored, NoEntry, PublishPC
<1> QED
  BY <1>1, NoTableType DEF Closed, ContextOK, TriesOK, NoEntry

(* An idle command is well formed in every arena. *)
LEMMA NoAskOK == \A e \in Nat : AskedOK(NoAsk, e)
BY NoTableType DEF NoAsk, AskedOK, Asked, Chain, Member

(* What an action owes: the new context and command of the process that    *)
(* moves, and an arena that keeps what it held.                            *)
ArenaGrows ==
    /\ Len(roots) <= Len(roots')
    /\ Len(entries) <= Len(entries')
    /\ \A i \in 1 .. Len(roots) : roots'[i] = roots[i]
    /\ \A e \in 1 .. Len(entries) : entries'[e] = entries[e]

Moves(p, c, a) ==
    /\ ctx' = [ctx EXCEPT ![p] = c]
    /\ asked' = [asked EXCEPT ![p] = a]

(* A step of one process on an arena that grows need only be
   checked for that process. *)
LEMMA WellFormedStep ==
    ASSUME WellFormed, ArenaOK', ArenaGrows, issued' \in 0 .. MaxCommands,
           NEW p \in Proc, NEW c, NEW a, Moves(p, c, a),
           ProcOK(c, a, Len(roots'), Len(entries'))
    PROVE  WellFormed'
<1>1. c \in Context /\ a \in Asked
  BY DEF ProcOK, ContextOK, AskedOK
<1>2. ctx' \in [Proc -> Context] /\ asked' \in [Proc -> Asked]
  BY <1>1 DEF WellFormed, Moves
<1>3. ASSUME NEW q \in Proc
      PROVE  ProcOK(ctx'[q], asked'[q], Len(roots'), Len(entries'))
  <2>1. CASE q = p
    BY <2>1 DEF WellFormed, Moves
  <2>2. CASE q # p
    <3>1. ctx'[q] = ctx[q] /\ asked'[q] = asked[q]
      BY <2>2 DEF WellFormed, Moves
    <3>2. ProcOK(ctx[q], asked[q], Len(roots), Len(entries))
      BY DEF WellFormed
    <3>3. /\ Len(roots) \in Nat /\ Len(roots') \in Nat
          /\ Len(entries) \in Nat /\ Len(entries') \in Nat
          /\ Len(roots) <= Len(roots') /\ Len(entries) <= Len(entries')
      BY DEF WellFormed, ArenaOK, ArenaGrows
    <3>4. /\ ctx[q].refsHead \in Nat /\ ctx[q].branchPrev \in Nat
          /\ ctx[q].table \in Table /\ ctx[q].want \in Table
          /\ asked[q].base \in Table /\ asked[q].desired \in Table
      BY DEF WellFormed, Context, Asked
    <3>5. ContextOK(ctx[q], Len(roots'), Len(entries'))
      <4>1. /\ Within(ctx[q].table, Len(entries'))
            /\ Within(ctx[q].want, Len(entries'))
        BY <3>2, <3>3, <3>4, WithinGrows DEF ProcOK, ContextOK
      <4>2. ctx[q].refsHead <= Len(roots')
        BY <3>2, <3>3, <3>4 DEF ProcOK, ContextOK
      <4>3. ctx[q].branchPrev <= Len(entries')
        BY <3>2, <3>3, <3>4 DEF ProcOK, ContextOK
      <4> QED
        BY <3>2, <4>1, <4>2, <4>3 DEF ProcOK, ContextOK
    <3>6. AskedOK(asked[q], Len(entries'))
      <4>1. /\ Within(asked[q].base, Len(entries'))
            /\ Within(asked[q].desired, Len(entries'))
        BY <3>2, <3>3, <3>4, WithinGrows DEF ProcOK, AskedOK
      <4> QED
        BY <3>2, <4>1 DEF ProcOK, AskedOK
    <3>7. RaceOK(ctx[q], asked[q], Len(roots'))
      BY <3>2, <3>3, <3>4 DEF ProcOK, RaceOK
    <3> QED
      BY <3>1, <3>2, <3>5, <3>6, <3>7 DEF ProcOK
  <2> QED
    BY <2>1, <2>2
<1> QED
  BY <1>2, <1>3 DEF WellFormed

(* A step that writes nothing need only be checked for its process. *)
LEMMA LocalStep ==
    ASSUME WellFormed, UNCHANGED <<refs, roots, entries>>,
           issued' \in 0 .. MaxCommands,
           NEW p \in Proc, NEW c, NEW a, Moves(p, c, a),
           ProcOK(c, a, Len(roots), Len(entries))
    PROVE  WellFormed'
<1>1. ArenaOK'
  BY DEF WellFormed, ArenaOK
<1>2. ArenaGrows
  BY DEF ArenaGrows, WellFormed, ArenaOK
<1>3. ProcOK(c, a, Len(roots'), Len(entries'))
  OBVIOUS
<1> QED
  BY <1>1, <1>2, <1>3, WellFormedStep

(* An entry whose predecessor is written may be appended. *)
LEMMA EntryAdded ==
    ASSUME ArenaOK, NEW x \in Entry, x.prev <= Len(entries),
           entries' = Append(entries, x), UNCHANGED <<refs, roots>>
    PROVE  /\ ArenaOK' /\ ArenaGrows
           /\ Len(entries') = Len(entries) + 1
<1>1. /\ entries' \in Seq(Entry)
      /\ Len(entries') = Len(entries) + 1
      /\ \A e \in 1 .. Len(entries) : entries'[e] = entries[e]
      /\ entries'[Len(entries) + 1] = x
  BY DEF ArenaOK
<1>2. \A e \in 1 .. Len(entries') : entries'[e].prev < e
  BY <1>1 DEF ArenaOK, Entry
<1>3. \A i \in 1 .. Len(roots) : Within(roots[i].table, Len(entries'))
  <2> SUFFICES ASSUME NEW i \in 1 .. Len(roots)
               PROVE  Within(roots[i].table, Len(entries'))
    OBVIOUS
  <2>1. roots[i].table \in Table /\ Within(roots[i].table, Len(entries))
    BY RootOfType
  <2>2. Len(entries) \in Nat
    BY DEF ArenaOK
  <2> QED
    BY <1>1, <2>1, <2>2, WithinGrows
<1>4. ArenaOK'
  BY <1>1, <1>2, <1>3 DEF ArenaOK
<1>5. Len(roots) \in Nat /\ Len(entries) \in Nat
  BY DEF ArenaOK
<1>6. ArenaGrows
  BY <1>1, <1>5 DEF ArenaGrows
<1> QED
  BY <1>1, <1>4, <1>6

(* A root is written over a root, and entries are only added.  *)
LEMMA RootAdded ==
    ASSUME ArenaOK, entries' \in Seq(Entry), Len(entries) <= Len(entries'),
           \A e \in 1 .. Len(entries) : entries'[e] = entries[e],
           \A e \in 1 .. Len(entries') : entries'[e].prev < e,
           NEW p \in Proc, NEW table \in Table, NEW head \in Branch,
           Within(table, Len(entries')), Advance(p, table, head)
    PROVE  /\ ArenaOK' /\ ArenaGrows
           /\ refs' = Len(roots) + 1 /\ Len(roots') = Len(roots) + 1
           /\ roots'[Len(roots) + 1].table = table
           /\ roots'[Len(roots) + 1].HEAD = head
<1> DEFINE r == [HEAD |-> head, table |-> table, prev |-> ctx[p].refsHead]
<1>1. /\ r \in Root /\ r.prev = Len(roots)
      /\ refs' = Len(roots) + 1 /\ roots' = Append(roots, r)
  BY DEF Advance, ArenaOK, Root
<1>2. /\ roots' \in Seq(Root)
      /\ Len(roots') = Len(roots) + 1
      /\ \A i \in 1 .. Len(roots) : roots'[i] = roots[i]
      /\ roots'[Len(roots) + 1] = r
  <2> HIDE DEF r
  <2> QED BY <1>1 DEF ArenaOK
<1>3. \A i \in 1 .. Len(roots) : Within(roots[i].table, Len(entries'))
  <2> SUFFICES ASSUME NEW i \in 1 .. Len(roots)
               PROVE  Within(roots[i].table, Len(entries'))
    OBVIOUS
  <2>1. roots[i].table \in Table /\ Within(roots[i].table, Len(entries))
    BY RootOfType
  <2>2. Len(entries) \in Nat /\ Len(entries') \in Nat
    BY DEF ArenaOK
  <2> QED
    BY <2>1, <2>2, WithinGrows
<1>4. \A i \in 1 .. Len(roots') :
         roots'[i].prev = i - 1 /\ Within(roots'[i].table, Len(entries'))
  <2> SUFFICES ASSUME NEW i \in 1 .. Len(roots')
               PROVE  /\ roots'[i].prev = i - 1
                      /\ Within(roots'[i].table, Len(entries'))
    OBVIOUS
  <2>1. Len(roots) \in Nat
    BY DEF ArenaOK
  <2>2. CASE i = Len(roots) + 1
    BY <1>1, <1>2, <2>1, <2>2
  <2>3. CASE i # Len(roots) + 1
    <3>1. i \in 1 .. Len(roots) /\ roots'[i] = roots[i]
      BY <1>2, <2>1, <2>3
    <3> QED BY <1>3, <3>1 DEF ArenaOK
  <2> QED
    BY <2>2, <2>3
<1>5. Len(roots) \in Nat /\ refs' \in Nat \ {0} /\ refs' = Len(roots')
  BY <1>1, <1>2 DEF ArenaOK
<1>6. ArenaOK'
  BY <1>2, <1>4, <1>5 DEF ArenaOK
<1>7. ArenaGrows
  BY <1>2, <1>5 DEF ArenaGrows
<1> QED
  BY <1>1, <1>2, <1>6, <1>7

(* The command is over: the process goes back to its turn, goes on, or     *)
(* closes, and owes no publish.                                            *)
LEMMA SettleOK ==
    ASSUME WellFormed, NEW p \in Proc, NEW c, NEW ok, NEW r \in Nat,
           NEW e \in Nat, ContextOK(c, r, e), c.refsHead # 0,
           AskedOK(asked[p], e), Settle(p, c, ok)
    PROVE  \E d, a : Moves(p, d, a) /\ ProcOK(d, a, r, e)
<1> DEFINE next == [c EXCEPT !.staged = FALSE, !.tries = 0, !.want = NoTable,
                             !.lists = Closed.lists]
<1>1. /\ c \in Context /\ Within(c.table, e)
      /\ c.refsHead <= r /\ c.branchPrev <= e
  BY DEF ContextOK
<1>2. Closed.lists \in [ListMember -> Stored]
  BY DEF Closed, Stored
<1>3. NoTable \in Table /\ Within(NoTable, e)
  BY NoTableType
<1>4. CASE asked[p].inTurn
  <2> DEFINE d == [next EXCEPT !.pc = "turn"]
             a == [asked[p] EXCEPT !.cmd = "turn", !.edits = {},
                                   !.inTurn = FALSE]
  <2>1. asked[p] \in Asked
    BY DEF AskedOK
  <2>2. AskedOK(a, e)
    BY <2>1 DEF AskedOK, Asked
  <2>3. d \in Context
    BY <1>1, <1>2, <1>3 DEF Context
  <2>4. ContextOK(d, r, e) /\ TriesOK(d) /\ RaceOK(d, a, r)
    BY <1>1, <1>3, <2>3 DEF ContextOK, TriesOK, RaceOK, PublishPC, Context
  <2>5. Moves(p, d, a)
    BY <1>4 DEF Settle, Moves
  <2> HIDE DEF d, a
  <2> QED
    BY <2>2, <2>4, <2>5 DEF ProcOK
<1>5. CASE ~asked[p].inTurn /\ p \in Session
                            /\ (ok \/ asked[p].cmd # "turn")
  <2> DEFINE d == [next EXCEPT !.pc = "idle"]
  <2>1. d \in Context
    BY <1>1, <1>2, <1>3 DEF Context
  <2>2. ContextOK(d, r, e) /\ TriesOK(d) /\ RaceOK(d, NoAsk, r)
    BY <1>1, <1>3, <2>1 DEF ContextOK, TriesOK, RaceOK, PublishPC, Context
  <2>3. Moves(p, d, NoAsk)
    BY <1>5 DEF Settle, Moves
  <2> HIDE DEF d
  <2> QED
    BY <2>2, <2>3, NoAskOK DEF ProcOK
<1>6. CASE ~asked[p].inTurn
           /\ ~(p \in Session /\ (ok \/ asked[p].cmd # "turn"))
  <2>1. Moves(p, Closed, NoAsk)
    BY <1>6 DEF Settle, Moves
  <2>2. RaceOK(Closed, NoAsk, r)
    BY DEF RaceOK, Closed, PublishPC
  <2> QED
    BY <2>1, <2>2, ClosedOK, NoAskOK DEF ProcOK
<1> QED
  BY <1>4, <1>5, <1>6

(* The end of a publish leaves a well formed process. *)
LEMMA SettleStep ==
    ASSUME WellFormed, UNCHANGED <<refs, roots, entries, issued>>,
           NEW p \in Proc, NEW c, NEW ok, c.refsHead # 0,
           ContextOK(c, Len(roots), Len(entries)), Settle(p, c, ok)
    PROVE  WellFormed'
<1>1. Len(roots) \in Nat /\ Len(entries) \in Nat
  BY DEF WellFormed, ArenaOK
<1>2. AskedOK(asked[p], Len(entries)) /\ issued' \in 0 .. MaxCommands
  BY DEF WellFormed, ProcOK
<1>3. PICK d, a : /\ Moves(p, d, a)
                  /\ ProcOK(d, a, Len(roots), Len(entries))
  BY <1>1, <1>2, SettleOK
<1> QED
  BY <1>2, <1>3, LocalStep

-------------------------------------------------------------------------------
(* Every action keeps the arena and the contexts well formed.  *)

(* What well-formedness says of one process.  *)
LEMMA OfProc ==
    ASSUME WellFormed, NEW p \in Proc
    PROVE  /\ ctx[p] \in Context /\ asked[p] \in Asked
           /\ ContextOK(ctx[p], Len(roots), Len(entries))
           /\ TriesOK(ctx[p]) /\ AskedOK(asked[p], Len(entries))
           /\ RaceOK(ctx[p], asked[p], Len(roots))
           /\ Len(roots) \in Nat \ {0} /\ Len(entries) \in Nat
           /\ refs \in 1 .. Len(roots) /\ refs = Len(roots)
           /\ issued \in 0 .. MaxCommands
BY DEF WellFormed, ProcOK, ArenaOK

(* A step of the context alone keeps the command. *)
LEMMA UnaskedMoves ==
    ASSUME WellFormed, NEW p \in Proc, NEW c,
           ctx' = [ctx EXCEPT ![p] = c], UNCHANGED asked
    PROVE  Moves(p, c, asked[p])
BY DEF WellFormed, Moves

(* The conversation and members of a branch of the context.  *)
LEMMA AdoptedOK ==
    ASSUME WellFormed, NEW c, NEW b \in Branch, NEW r \in Nat,
           ContextOK(c, r, Len(entries))
    PROVE  /\ ContextOK(Adopted(c, b), r, Len(entries))
           /\ Adopted(c, b).pc = c.pc /\ Adopted(c, b).tries = c.tries
           /\ Adopted(c, b).refsHead = c.refsHead
<1>1. /\ c.table \in Table /\ c.table[b] \in Nat
      /\ c.table[b] <= Len(entries) /\ c \in Context
  BY DEF ContextOK, Context, Within, Table
<1>2. EntryOf(c.table[b]) \in Entry
  BY <1>1, EntryOfType DEF WellFormed
<1>3. /\ EntryOf(c.table[b]).chain \in Chain
      /\ [m \in CtxMember |-> EntryOf(c.table[b]).store[m]]
            \in [CtxMember -> Stored]
  BY <1>2 DEF Entry, Store, Member
<1> DEFINE d == Adopted(c, b)
<1>4. /\ d \in Context /\ d.branchPrev = c.table[b]
      /\ d.pc = c.pc /\ d.tries = c.tries /\ d.refsHead = c.refsHead
      /\ d.table = c.table /\ d.want = c.want
  BY <1>1, <1>3 DEF Adopted, Context
<1> HIDE DEF d
<1>5. ContextOK(d, r, Len(entries))
  BY <1>1, <1>4 DEF ContextOK
<1> QED
  BY <1>4, <1>5 DEF d

(* fyai_setup_storage: opening the arena. *)
LEMMA OpenOK ==
    ASSUME WellFormed, NEW p \in Proc, NEW b \in Branch, Open(p, b)
    PROVE  WellFormed'
<1> DEFINE o == [Closed EXCEPT !.pc = "idle", !.refsHead = refs,
                               !.table = roots[refs].table,
                               !.headBranch = roots[refs].HEAD]
<1>1. /\ Within(roots[refs].table, Len(entries))
      /\ roots[refs].table \in Table /\ roots[refs].HEAD \in Branch
  BY OfProc, RootOfType DEF WellFormed
<1>2. ContextOK(Closed, Len(roots), Len(entries))
  BY OfProc, ClosedOK
<1>3. ContextOK(o, Len(roots), Len(entries)) /\ o.pc = "idle" /\ o.tries = 0
  <2>1. Closed \in Context
    BY <1>2 DEF ContextOK
  <2>2. o \in Context
    BY <1>1, <2>1, OfProc DEF Context
  <2>3. /\ o.refsHead = refs /\ o.branchPrev = NoEntry
        /\ o.table = roots[refs].table /\ o.want = NoTable
        /\ o.pc = "idle" /\ o.tries = 0
    BY DEF Closed
  <2> HIDE DEF o
  <2> QED
    BY <1>1, <2>2, <2>3, NoTableType, OfProc DEF ContextOK, NoEntry
<1> DEFINE c == Adopted(o, b)
<1>4. ctx' = [ctx EXCEPT ![p] = c]
  BY DEF Open
<1> HIDE DEF o
<1>5. ContextOK(c, Len(roots), Len(entries)) /\ c.pc = "idle" /\ c.tries = 0
  BY <1>3, OfProc, AdoptedOK
<1> HIDE DEF c
<1>6. ProcOK(c, asked[p], Len(roots), Len(entries))
  BY <1>5, OfProc DEF ProcOK, TriesOK, RaceOK, PublishPC
<1>7. UNCHANGED <<refs, roots, entries, asked, issued>>
  BY DEF Open
<1> QED
  BY <1>4, <1>6, <1>7, UnaskedMoves, OfProc, LocalStep

(* The end of a process, or its crash. *)
LEMMA ExitOK ==
    ASSUME WellFormed, NEW p \in Proc, Exit(p)
    PROVE  WellFormed'
<1>1. Moves(p, Closed, NoAsk) /\ UNCHANGED <<refs, roots, entries, issued>>
  BY DEF Exit, Moves
<1>2. RaceOK(Closed, NoAsk, Len(roots))
  BY DEF RaceOK, Closed, PublishPC
<1>3. ProcOK(Closed, NoAsk, Len(roots), Len(entries))
  BY <1>2, ClosedOK, NoAskOK, OfProc DEF ProcOK
<1> QED
  BY <1>1, <1>3, OfProc, LocalStep

(* A command that changes the context of an idle process and asks for a    *)
(* publish leaves no race lost.                                            *)
LEMMA AskStep ==
    ASSUME WellFormed, UNCHANGED <<refs, roots, entries>>,
           issued' \in 0 .. MaxCommands, NEW p \in Proc, NEW c, NEW a,
           Moves(p, c, a), ContextOK(c, Len(roots), Len(entries)),
           AskedOK(a, Len(entries)), a.since = c.refsHead,
           c.pc = "try", c.tries = 0
    PROVE  WellFormed'
<1>1. c \in Context /\ TriesOK(c)
  BY TriesAssumption DEF ContextOK, TriesOK
<1>2. RaceOK(c, a, Len(roots))
  BY <1>1 DEF RaceOK, Context
<1>3. ProcOK(c, a, Len(roots), Len(entries))
  BY <1>1, <1>2 DEF ProcOK
<1> QED
  BY <1>3, LocalStep

(* The count of commands keeps its bound. *)
LEMMA IssueType ==
    ASSUME issued \in 0 .. MaxCommands, NEW p, NEW cmd, Issue(p, cmd)
    PROVE  /\ issued' \in 0 .. MaxCommands /\ issued' = issued + 1
           /\ issued + 1 \in Turn
BY BoundAssumption DEF Issue, Turn

AskCmd == {"set", "clear", "reset", "checkout"}

(* A command asked of a well formed context is well formed. *)
LEMMA AskOK ==
    ASSUME WellFormed, NEW p \in Proc, NEW cmd \in AskCmd,
           NEW edits \in SUBSET Member
    PROVE  AskedOK([NoAsk EXCEPT !.cmd = cmd, !.view = ctx[p].chain,
                                 !.edits = edits, !.since = ctx[p].refsHead],
                   Len(entries))
<1> DEFINE a == [NoAsk EXCEPT !.cmd = cmd, !.view = ctx[p].chain,
                              !.edits = edits, !.since = ctx[p].refsHead]
<1>1. NoAsk \in Asked
  BY OfProc, NoAskOK DEF AskedOK
<1>2. ctx[p].chain \in Chain /\ ctx[p].refsHead \in Nat
  BY OfProc DEF Context
<1>3. a \in Asked
  BY <1>1, <1>2 DEF Asked, AskCmd
<1>4. a.base = NoTable /\ a.desired = NoTable
  BY DEF NoAsk
<1> HIDE DEF a
<1>5. AskedOK(a, Len(entries))
  BY <1>3, <1>4, NoTableType, OfProc DEF AskedOK
<1> QED
  BY <1>5 DEF a

(* A turn begins. *)
LEMMA StartTurnOK ==
    ASSUME WellFormed, NEW p \in Proc, StartTurn(p)
    PROVE  WellFormed'
<1> DEFINE c == [ctx[p] EXCEPT !.pc = "turn", !.chain = Seeded(@)]
           a == [NoAsk EXCEPT !.cmd = "turn", !.view = Seeded(ctx[p].chain)]
<1>1. Seeded(ctx[p].chain) \in Chain
  BY OfProc, SeededType DEF Context
<1>2. /\ Moves(p, c, a) /\ ctx[p].pc = "idle"
      /\ UNCHANGED <<refs, roots, entries, issued>>
  BY DEF StartTurn, Moves
<1>3. c \in Context
  BY <1>1, OfProc DEF Context
<1>4. ContextOK(c, Len(roots), Len(entries)) /\ TriesOK(c) /\ c.pc = "turn"
  BY <1>2, <1>3, OfProc DEF ContextOK, TriesOK, Context
<1>5. AskedOK(a, Len(entries))
  <2>1. NoAsk \in Asked
    BY OfProc, NoAskOK DEF AskedOK
  <2>2. a \in Asked /\ a.base = NoTable /\ a.desired = NoTable
    BY <1>1, <2>1 DEF Asked, NoAsk
  <2> QED
    BY <2>2, NoTableType, OfProc DEF AskedOK
<1>6. ProcOK(c, a, Len(roots), Len(entries))
  <2> HIDE DEF c, a
  <2> QED BY <1>4, <1>5 DEF ProcOK, RaceOK, PublishPC
<1> HIDE DEF c, a
<1> QED
  BY <1>2, <1>6, OfProc, LocalStep

(* A turn fails. *)
LEMMA FailTurnOK ==
    ASSUME WellFormed, NEW p \in Proc, FailTurn(p)
    PROVE  WellFormed'
<1> DEFINE i == [ctx[p] EXCEPT !.pc = "idle"]
<1>1. /\ Moves(p, IF p \in Session THEN i ELSE Closed, NoAsk)
      /\ UNCHANGED <<refs, roots, entries, issued>> /\ ctx[p].pc = "turn"
  BY DEF FailTurn, Moves
<1>2. i \in Context
  <2>1. ctx[p] \in Context
    BY OfProc
  <2> QED
    BY <2>1, Zenon DEF Context
<1>3. ContextOK(i, Len(roots), Len(entries)) /\ TriesOK(i) /\ i.pc = "idle"
  BY <1>1, <1>2, OfProc DEF ContextOK, TriesOK, Context
<1>4. ProcOK(i, NoAsk, Len(roots), Len(entries))
  <2> HIDE DEF i
  <2> QED BY <1>3, NoAskOK, OfProc DEF ProcOK, RaceOK, PublishPC
<1>5. ProcOK(Closed, NoAsk, Len(roots), Len(entries))
  <2>1. RaceOK(Closed, NoAsk, Len(roots))
    BY DEF RaceOK, Closed, PublishPC
  <2> QED BY <2>1, ClosedOK, NoAskOK, OfProc DEF ProcOK
<1> HIDE DEF i
<1> QED
  BY <1>1, <1>4, <1>5, OfProc, LocalStep

(* A turn ends and publishes. *)
LEMMA FinishTurnOK ==
    ASSUME WellFormed, NEW p \in Proc, FinishTurn(p)
    PROVE  WellFormed'
<1> DEFINE c == [ctx[p] EXCEPT !.pc = "try",
                               !.chain = Append(asked[p].view, issued + 1)]
           a == [asked[p] EXCEPT !.since = ctx[p].refsHead]
<1>1. /\ Moves(p, c, a) /\ UNCHANGED <<refs, roots, entries>>
      /\ Issue(p, "turn") /\ ctx[p].pc = "turn"
  BY DEF FinishTurn, Moves
<1>2. issued' \in 0 .. MaxCommands /\ issued + 1 \in Turn
  BY <1>1, OfProc, IssueType
<1>3. Append(asked[p].view, issued + 1) \in Chain
  BY <1>2, OfProc DEF Chain, Asked
<1>4. c \in Context /\ a \in Asked
  <2>1. /\ ctx[p] \in Context /\ asked[p] \in Asked
        /\ ctx[p].refsHead \in Nat
    BY OfProc DEF Context
  <2>2. c \in Context
    BY <1>3, <2>1, Zenon DEF Context, PublishPC
  <2>3. a \in Asked
    BY <2>1, Zenon DEF Asked
  <2> QED
    BY <2>2, <2>3
<1>5. ContextOK(c, Len(roots), Len(entries)) /\ c.pc = "try" /\ c.tries = 0
  BY <1>1, <1>4, OfProc DEF ContextOK, TriesOK, Context
<1>6. AskedOK(a, Len(entries)) /\ a.since = c.refsHead
  BY <1>4, OfProc DEF AskedOK, Asked, Context
<1> HIDE DEF c, a
<1> QED
  BY <1>1, <1>2, <1>5, <1>6, AskStep

(* A member of the store is set. *)
LEMMA SetMemberOK ==
    ASSUME WellFormed, NEW p \in Proc, NEW m \in CtxMember, NEW v \in Stored,
           SetMember(p, m, v)
    PROVE  WellFormed'
<1> DEFINE c == [ctx[p] EXCEPT !.pc = "try", !.members[m] = v]
           a == [NoAsk EXCEPT !.cmd = "set", !.view = ctx[p].chain,
                              !.edits = {m}, !.since = ctx[p].refsHead]
<1>1. /\ Moves(p, c, a) /\ UNCHANGED <<refs, roots, entries>>
      /\ Issue(p, "set") /\ ctx[p].pc = "idle"
  BY DEF SetMember, Ask, Moves
<1>2. issued' \in 0 .. MaxCommands
  BY <1>1, OfProc, IssueType
<1>3. c \in Context
  <2>1. ctx[p] \in Context
    BY OfProc
  <2> QED
    BY <2>1, Zenon DEF Context, PublishPC
<1>4. ContextOK(c, Len(roots), Len(entries)) /\ c.pc = "try" /\ c.tries = 0
  BY <1>1, <1>3, OfProc DEF ContextOK, TriesOK, Context
<1>5. AskedOK(a, Len(entries))
  BY AskOK DEF AskCmd, Member
<1>6. a.since = c.refsHead
  BY OfProc DEF NoAsk, Context
<1> HIDE DEF c, a
<1> QED
  BY <1>1, <1>2, <1>4, <1>5, <1>6, AskStep

(* todo_write replaces its list. *)
LEMMA WriteListOK ==
    ASSUME WellFormed, NEW p \in Proc, NEW m \in ListMember, NEW v \in Stored,
           WriteList(p, m, v)
    PROVE  WellFormed'
<1> DEFINE l == [n \in ListMember |-> IF n = m THEN v ELSE Base(p).store[n]]
           c == [ctx[p] EXCEPT !.pc = "try", !.staged = TRUE, !.lists = l]
           a == [asked[p] EXCEPT !.cmd = "list", !.edits = {m},
                                 !.inTurn = TRUE, !.since = ctx[p].refsHead]
<1>1. /\ Moves(p, c, a) /\ UNCHANGED <<refs, roots, entries>>
      /\ Issue(p, "list") /\ ctx[p].pc = "turn"
  BY DEF WriteList, Moves
<1>2. issued' \in 0 .. MaxCommands
  BY <1>1, OfProc, IssueType
<1>3. Base(p) \in Entry
  BY OfProc, EntryOfType DEF WellFormed, Base, ContextOK, Context
<1>4. l \in [ListMember -> Stored]
  BY <1>3 DEF Entry, Store, Member
<1> HIDE DEF l
<1>5. c \in Context /\ a \in Asked
  <2>1. /\ ctx[p] \in Context /\ asked[p] \in Asked
        /\ ctx[p].refsHead \in Nat
    BY OfProc DEF Context
  <2>2. c \in Context
    BY <1>4, <2>1, Zenon DEF Context, PublishPC
  <2>3. a \in Asked
    BY <2>1, Zenon DEF Asked, Member
  <2> QED
    BY <2>2, <2>3
<1>6. ContextOK(c, Len(roots), Len(entries)) /\ c.pc = "try" /\ c.tries = 0
  BY <1>1, <1>5, OfProc DEF ContextOK, TriesOK, Context
<1>7. AskedOK(a, Len(entries)) /\ a.since = c.refsHead
  BY <1>5, OfProc DEF AskedOK, Asked, Context
<1> HIDE DEF c, a
<1> QED
  BY <1>1, <1>2, <1>6, <1>7, AskStep

(* Clear and Reset ask for a publish of another conversation.  *)
LEMMA NewChainOK ==
    ASSUME WellFormed, NEW p \in Proc, NEW chain \in Chain,
           NEW cmd \in {"clear", "reset"}, Issue(p, cmd), ctx[p].pc = "idle",
           ctx' = [ctx EXCEPT ![p] = [@ EXCEPT !.pc = "try",
                                               !.chain = chain]],
           Ask(p, cmd, {}), UNCHANGED <<refs, roots, entries>>
    PROVE  WellFormed'
<1> DEFINE c == [ctx[p] EXCEPT !.pc = "try", !.chain = chain]
           a == [NoAsk EXCEPT !.cmd = cmd, !.view = ctx[p].chain,
                              !.edits = {}, !.since = ctx[p].refsHead]
<1>1. Moves(p, c, a)
  BY DEF Ask, Moves
<1>2. issued' \in 0 .. MaxCommands
  BY OfProc, IssueType
<1>3. c \in Context
  <2>1. ctx[p] \in Context
    BY OfProc
  <2> QED
    BY <2>1, Zenon DEF Context, PublishPC
<1>4. ContextOK(c, Len(roots), Len(entries)) /\ c.pc = "try" /\ c.tries = 0
  BY <1>3, OfProc DEF ContextOK, TriesOK, Context
<1>5. AskedOK(a, Len(entries))
  BY AskOK DEF AskCmd
<1>6. a.since = c.refsHead
  BY OfProc DEF NoAsk, Context
<1> HIDE DEF c, a
<1> QED
  BY <1>1, <1>2, <1>4, <1>5, <1>6, AskStep

(* The conversation is cleared. *)
LEMMA ClearOK ==
    ASSUME WellFormed, NEW p \in Proc, Clear(p)
    PROVE  WellFormed'
<1> DEFINE chain == IF p \in Session THEN <<Sys>> ELSE <<>>
<1>1. chain \in Chain
  BY SysIsTurn DEF Chain
<1> QED
  BY <1>1, NewChainOK DEF Clear

(* The entry a reset returns to is an entry. *)
LEMMA BeforeType ==
    ASSUME WellFormed, NEW p \in Proc
    PROVE  /\ ctx[p].table[ctx[p].branch] \in Nat
           /\ ctx[p].table[ctx[p].branch] <= Len(entries)
           /\ Before(p) \in Entry
<1>1. /\ ctx[p].table[ctx[p].branch] \in Nat
      /\ ctx[p].table[ctx[p].branch] <= Len(entries)
  BY OfProc DEF ContextOK, Context, Within, Table
<1> DEFINE last == EntryOf(ctx[p].table[ctx[p].branch])
<1>2. last \in Entry /\ last.prev <= Len(entries)
  BY <1>1, EntryOfType DEF WellFormed
<1>3. last.prev \in Nat
  BY <1>2 DEF Entry
<1>4. EntryOf(last.prev) \in Entry
  BY <1>2, <1>3, EntryOfType DEF WellFormed
<1> QED
  BY <1>1, <1>4 DEF Before

(* The branch is reset. *)
LEMMA ResetOK ==
    ASSUME WellFormed, NEW p \in Proc, Reset(p)
    PROVE  WellFormed'
<1>1. Before(p).chain \in Chain
  BY BeforeType DEF Entry
<1> QED
  BY <1>1, NewChainOK DEF Reset

(* A branch is checked out. *)
LEMMA CheckoutOK ==
    ASSUME WellFormed, NEW p \in Proc, NEW b \in Branch, Checkout(p, b)
    PROVE  WellFormed'
<1> DEFINE d == Adopted(ctx[p], b)
           c == [d EXCEPT !.pc = "try", !.headBranch = b]
           a == [NoAsk EXCEPT !.cmd = "checkout", !.view = ctx[p].chain,
                              !.edits = {}, !.since = ctx[p].refsHead]
<1>1. /\ Moves(p, c, a) /\ UNCHANGED <<refs, roots, entries>>
      /\ Issue(p, "checkout") /\ ctx[p].pc = "idle"
  BY DEF Checkout, Ask, Moves
<1>2. issued' \in 0 .. MaxCommands
  BY <1>1, OfProc, IssueType
<1>3. /\ ContextOK(d, Len(roots), Len(entries))
      /\ d.tries = 0 /\ d.refsHead = ctx[p].refsHead /\ d.pc = "idle"
  BY <1>1, OfProc, AdoptedOK DEF TriesOK
<1> HIDE DEF d
<1>4. c \in Context
  BY <1>3 DEF ContextOK, Context, PublishPC
<1>5. /\ ContextOK(c, Len(roots), Len(entries)) /\ c.pc = "try"
      /\ c.tries = 0 /\ c.refsHead = ctx[p].refsHead
  BY <1>3, <1>4 DEF ContextOK, Context
<1>6. AskedOK(a, Len(entries))
  BY AskOK DEF AskCmd
<1>7. a.since = c.refsHead
  BY <1>5 DEF NoAsk
<1> HIDE DEF c, a
<1> QED
  BY <1>1, <1>2, <1>5, <1>6, <1>7, AskStep

TableCmd == {"create", "delete", "rename", "describe"}

(* An edit of the branch table is asked. *)
LEMMA EditTableOK ==
    ASSUME WellFormed, NEW p \in Proc, NEW cmd \in TableCmd,
           NEW desired \in Table, NEW branch \in Branch, NEW head \in Branch,
           EditTable(p, cmd, desired, branch, head),
           ArenaOK', ArenaGrows, Within(desired, Len(entries'))
    PROVE  WellFormed'
<1> DEFINE c == [ctx[p] EXCEPT !.pc = "ttry", !.want = desired,
                               !.branch = branch, !.headBranch = head,
                               !.branchPrev =
                                   IF branch = ctx[p].branch
                                   THEN ctx[p].branchPrev
                                   ELSE ctx[p].table[ctx[p].branch]]
           a == [NoAsk EXCEPT !.cmd = cmd, !.base = ctx[p].table,
                              !.desired = desired, !.since = ctx[p].refsHead,
                              !.movesHead = roots[ctx[p].refsHead].HEAD # head]
<1>1. /\ Moves(p, c, a) /\ UNCHANGED <<refs, roots>>
      /\ Issue(p, cmd) /\ ctx[p].pc = "idle"
  BY DEF EditTable, AskTable, Moves
<1>2. issued' \in 0 .. MaxCommands
  BY <1>1, OfProc, IssueType
<1>3. Len(entries') \in Nat /\ Len(entries) <= Len(entries')
  BY DEF ArenaGrows, ArenaOK
<1>4. c \in Context /\ ctx[p].table[ctx[p].branch] \in Nat
  <2>1. ctx[p] \in Context
    BY OfProc
  <2>2. ctx[p].table[ctx[p].branch] \in Nat
    BY <2>1 DEF Context, Table
  <2> QED
    BY <2>1, <2>2, Zenon DEF Context, PublishPC
<1>5. Within(ctx[p].table, Len(entries'))
  BY <1>3, OfProc, WithinGrows DEF ContextOK, Context
<1>6. /\ ContextOK(c, Len(roots'), Len(entries')) /\ c.pc = "ttry"
      /\ c.tries = 0 /\ c.refsHead = ctx[p].refsHead
  <2>1. c.branchPrev <= Len(entries')
    <3>1. ctx[p].branchPrev <= Len(entries) /\ ctx[p].branchPrev \in Nat
      BY OfProc DEF ContextOK, Context
    <3>2. ctx[p].table[ctx[p].branch] <= Len(entries')
      BY <1>5, OfProc DEF Within, Context
    <3>3. ctx[p] \in Context
      BY OfProc
    <3>4. c.branchPrev = IF branch = ctx[p].branch THEN ctx[p].branchPrev
                         ELSE ctx[p].table[ctx[p].branch]
      BY <3>3, Zenon DEF Context
    <3>5. ctx[p].branchPrev <= Len(entries') /\ Len(entries) \in Nat
      BY <1>3, <3>1, OfProc
    <3> HIDE DEF c
    <3> QED
      BY <3>2, <3>4, <3>5
  <2>2. /\ c.pc = "ttry" /\ c.tries = 0 /\ c.refsHead = ctx[p].refsHead
        /\ c.table = ctx[p].table /\ c.want = desired
    BY <1>1, OfProc DEF TriesOK, Context
  <2>3. UNCHANGED roots /\ ctx[p].refsHead <= Len(roots) /\ ctx[p].refsHead # 0
    BY <1>1, OfProc DEF ContextOK
  <2> HIDE DEF c
  <2> QED
    BY <1>4, <1>5, <2>1, <2>2, <2>3 DEF ContextOK
<1>7. AskedOK(a, Len(entries'))
  <2>1. NoAsk \in Asked
    BY OfProc, NoAskOK DEF AskedOK
  <2>2. a \in Asked /\ a.base = ctx[p].table /\ a.desired = desired
    BY <2>1, OfProc DEF Asked, TableCmd, Context
  <2> HIDE DEF a
  <2> QED
    BY <2>2, <1>5 DEF AskedOK
<1>8. a.since = ctx[p].refsHead
  BY DEF NoAsk
<1> HIDE DEF c, a
<1>9. ctx[p].refsHead \in Nat
  BY OfProc DEF Context
<1>10. RaceOK(c, a, Len(roots')) /\ TriesOK(c)
  BY <1>6, <1>8, <1>9, TriesAssumption DEF RaceOK, TriesOK
<1>11. ProcOK(c, a, Len(roots'), Len(entries'))
  BY <1>6, <1>7, <1>10 DEF ProcOK
<1> QED
  BY <1>1, <1>2, <1>11, WellFormedStep

(* An entry a table edit writes, one that differs in its predecessor or in *)
(* its store from an entry of the context.                                 *)
LEMMA EditEntryOK ==
    ASSUME WellFormed, NEW x \in Entry, x.prev <= Len(entries),
           entries' = Append(entries, x), UNCHANGED <<refs, roots>>,
           NEW table \in Table, Within(table, Len(entries)),
           NEW b \in Branch
    PROVE  /\ ArenaOK' /\ ArenaGrows
           /\ [table EXCEPT ![b] = Len(entries) + 1] \in Table
           /\ Within([table EXCEPT ![b] = Len(entries) + 1], Len(entries'))
<1>1. ArenaOK' /\ ArenaGrows /\ Len(entries') = Len(entries) + 1
  BY EntryAdded DEF WellFormed
<1>2. Len(entries) \in Nat
  BY DEF WellFormed, ArenaOK
<1>3. [table EXCEPT ![b] = Len(entries) + 1] \in Table
  BY <1>2 DEF Table
<1>4. Within([table EXCEPT ![b] = Len(entries) + 1], Len(entries'))
  BY <1>1, <1>2 DEF Within, Table
<1> QED
  BY <1>1, <1>3, <1>4

(* A table edit may append an entry chained to a written one. *)
LEMMA TableEntryOK ==
    ASSUME WellFormed, NEW p \in Proc, NEW b \in Branch,
           ctx[p].table[b] # NoEntry
    PROVE  /\ entries[ctx[p].table[b]] \in Entry
           /\ ctx[p].table[b] \in 1 .. Len(entries)
<1>1. ctx[p].table[b] \in Nat /\ ctx[p].table[b] <= Len(entries)
  BY OfProc DEF ContextOK, Context, Within, Table
<1> QED
  BY <1>1 DEF NoEntry, WellFormed, ArenaOK

(* An entry with another predecessor is an entry. *)
LEMMA EntryRelinked ==
    ASSUME NEW x \in Entry, NEW n \in Nat
    PROVE  /\ [x EXCEPT !.prev = n] \in Entry
           /\ [x EXCEPT !.prev = n].prev = n
BY Zenon DEF Entry

(* A step that writes nothing keeps the arena. *)
LEMMA ArenaKept ==
    ASSUME WellFormed, UNCHANGED <<refs, roots, entries>>
    PROVE  ArenaOK' /\ ArenaGrows
BY DEF WellFormed, ArenaOK, ArenaGrows

(* A branch is created. *)
LEMMA CreateBranchOK ==
    ASSUME WellFormed, NEW p \in Proc, NEW b \in Branch, CreateBranch(p, b)
    PROVE  WellFormed'
<1> DEFINE x == [entries[ctx[p].table[ctx[p].branch]] EXCEPT !.prev = NoEntry]
           desired == [ctx[p].table EXCEPT ![b] = Len(entries) + 1]
<1>1. /\ ctx[p].branch \in Branch /\ ctx[p].headBranch \in Branch
      /\ ctx[p].table \in Table /\ Within(ctx[p].table, Len(entries))
  BY OfProc DEF Context, ContextOK
<1>2. /\ entries' = Append(entries, x) /\ UNCHANGED <<refs, roots>>
      /\ EditTable(p, "create", desired, ctx[p].branch, ctx[p].headBranch)
      /\ ctx[p].table[ctx[p].branch] # NoEntry
  BY DEF CreateBranch, EditTable
<1>3. x \in Entry /\ x.prev <= Len(entries)
  <2>1. entries[ctx[p].table[ctx[p].branch]] \in Entry
    BY <1>1, <1>2, TableEntryOK
  <2>2. NoEntry \in Nat /\ NoEntry <= Len(entries)
    BY OfProc DEF NoEntry
  <2> QED
    BY <2>1, <2>2, EntryRelinked
<1> HIDE DEF x
<1>4. /\ ArenaOK' /\ ArenaGrows
      /\ desired \in Table /\ Within(desired, Len(entries'))
  BY <1>1, <1>2, <1>3, EditEntryOK
<1> HIDE DEF desired
<1> QED
  BY <1>1, <1>2, <1>4, EditTableOK DEF TableCmd

(* A branch is deleted. *)
LEMMA DeleteBranchOK ==
    ASSUME WellFormed, NEW p \in Proc, NEW b \in Branch, DeleteBranch(p, b)
    PROVE  WellFormed'
<1> DEFINE desired == [ctx[p].table EXCEPT ![b] = NoEntry]
<1>1. /\ ctx[p].branch \in Branch /\ ctx[p].headBranch \in Branch
      /\ ctx[p].table \in Table /\ Within(ctx[p].table, Len(entries))
  BY OfProc DEF Context, ContextOK
<1>2. /\ UNCHANGED <<refs, roots, entries>>
      /\ EditTable(p, "delete", desired, ctx[p].branch, ctx[p].headBranch)
  BY DEF DeleteBranch, EditTable
<1>3. desired \in Table /\ Within(desired, Len(entries'))
  BY <1>1, <1>2, OfProc DEF Table, Within, NoEntry
<1> HIDE DEF desired
<1> QED
  BY <1>1, <1>2, <1>3, ArenaKept, EditTableOK DEF TableCmd

(* A branch is renamed. *)
LEMMA RenameBranchOK ==
    ASSUME WellFormed, NEW p \in Proc, NEW from \in Branch, NEW to \in Branch,
           RenameBranch(p, from, to)
    PROVE  WellFormed'
<1> DEFINE x == [entries[ctx[p].table[from]] EXCEPT !.prev = ctx[p].table[from]]
           gone == [ctx[p].table EXCEPT ![from] = NoEntry]
           head == IF from = ctx[p].headBranch THEN to ELSE ctx[p].headBranch
<1>1. /\ ctx[p].branch \in Branch /\ head \in Branch
      /\ ctx[p].table \in Table /\ Within(ctx[p].table, Len(entries))
  BY OfProc DEF Context, ContextOK
<1>2. UNCHANGED <<refs, roots>> /\ ctx[p].table[from] # NoEntry
  BY DEF RenameBranch, EditTable
<1>3. gone \in Table /\ Within(gone, Len(entries))
  BY <1>1, OfProc DEF Table, Within, NoEntry
<1>4. /\ entries[ctx[p].table[from]] \in Entry
      /\ ctx[p].table[from] \in 1 .. Len(entries)
  BY <1>2, TableEntryOK
<1>5. CASE from = ctx[p].branch
  <2> DEFINE desired == [gone EXCEPT ![to] = ctx[p].table[from]]
  <2>1. EditTable(p, "rename", desired, to, head) /\ UNCHANGED entries
    BY <1>5 DEF RenameBranch
  <2>2. desired \in Table /\ Within(desired, Len(entries'))
    BY <1>3, <1>4, <2>1, OfProc DEF Table, Within
  <2> HIDE DEF desired, head
  <2> QED
    BY <1>1, <1>2, <2>1, <2>2, ArenaKept, EditTableOK DEF TableCmd
<1>6. CASE from # ctx[p].branch
  <2> DEFINE desired == [gone EXCEPT ![to] = Len(entries) + 1]
  <2>1. /\ EditTable(p, "rename", desired, ctx[p].branch, head)
        /\ entries' = Append(entries, x)
    BY <1>6 DEF RenameBranch
  <2>2. x \in Entry /\ x.prev <= Len(entries)
    <3>1. /\ ctx[p].table[from] \in Nat
          /\ ctx[p].table[from] <= Len(entries)
      BY <1>4, OfProc
    <3> QED
      BY <1>4, <3>1, EntryRelinked
  <2> HIDE DEF x, gone
  <2>3. /\ ArenaOK' /\ ArenaGrows
        /\ desired \in Table /\ Within(desired, Len(entries'))
    BY <1>2, <1>3, <2>1, <2>2, EditEntryOK
  <2> HIDE DEF desired, head
  <2> QED
    BY <1>1, <2>1, <2>3, EditTableOK DEF TableCmd
<1> QED
  BY <1>5, <1>6

(* Another branch is described. *)
LEMMA DescribeBranchOK ==
    ASSUME WellFormed, NEW p \in Proc, NEW b \in Branch, NEW m \in CtxMember,
           NEW v \in Value, DescribeBranch(p, b, m, v)
    PROVE  WellFormed'
<1> DEFINE x == [entries[ctx[p].table[b]] EXCEPT !.store[m] = v,
                                                 !.prev = ctx[p].table[b]]
           desired == [ctx[p].table EXCEPT ![b] = Len(entries) + 1]
<1>1. /\ ctx[p].branch \in Branch /\ ctx[p].headBranch \in Branch
      /\ ctx[p].table \in Table /\ Within(ctx[p].table, Len(entries))
  BY OfProc DEF Context, ContextOK
<1>2. /\ entries' = Append(entries, x) /\ UNCHANGED <<refs, roots>>
      /\ EditTable(p, "describe", desired, ctx[p].branch, ctx[p].headBranch)
      /\ ctx[p].table[b] # NoEntry
  BY DEF DescribeBranch, EditTable
<1>3. /\ entries[ctx[p].table[b]] \in Entry
      /\ ctx[p].table[b] \in 1 .. Len(entries)
  BY <1>2, TableEntryOK
<1>4. x \in Entry /\ x.prev <= Len(entries)
  <2> DEFINE y == entries[ctx[p].table[b]]
             s == [y.store EXCEPT ![m] = v]
  <2>1. s \in Store
    BY <1>3 DEF Entry, Store, Stored, Member
  <2>2. x = [y EXCEPT !.store = s, !.prev = ctx[p].table[b]]
    BY <1>3 DEF Entry
  <2>3. ctx[p].table[b] \in Nat /\ ctx[p].table[b] <= Len(entries)
    BY <1>3, OfProc
  <2> HIDE DEF x, s
  <2> QED
    BY <1>3, <2>1, <2>2, <2>3 DEF Entry
<1> HIDE DEF x
<1>5. /\ ArenaOK' /\ ArenaGrows
      /\ desired \in Table /\ Within(desired, Len(entries'))
  BY <1>1, <1>2, <1>4, EditEntryOK
<1> HIDE DEF desired
<1> QED
  BY <1>1, <1>2, <1>5, EditTableOK DEF TableCmd

-------------------------------------------------------------------------------
(* The publish of a branch, and the reconciliation of a lost one.  *)

(* The root in force, and the entries it names, are written. *)
LEMMA EntriesNamed ==
    ASSUME WellFormed, NEW p \in Proc
    PROVE  /\ Base(p) \in Entry
           /\ OurStore(p) \in Store
           /\ Theirs(p) \in Nat /\ Theirs(p) <= Len(entries)
           /\ EntryOf(Theirs(p)) \in Entry
<1>1. Base(p) \in Entry
  BY OfProc, EntryOfType DEF WellFormed, Base, ContextOK, Context
<1>2. OurStore(p) \in Store
  <2>1. /\ ctx[p].members \in [CtxMember -> Stored]
        /\ ctx[p].lists \in [ListMember -> Stored]
        /\ Base(p).store \in [Member -> Stored]
    BY <1>1, OfProc DEF Context, Entry, Store
  <2> QED
    BY <2>1 DEF OurStore, Store, Member
<1>3. Theirs(p) \in Nat /\ Theirs(p) <= Len(entries)
  <2>1. ctx[p].branch \in Branch
    BY OfProc DEF Context
  <2>2. /\ roots[refs].table \in Table
        /\ Within(roots[refs].table, Len(entries))
    BY OfProc, RootOfType DEF WellFormed
  <2> QED
    BY <2>1, <2>2 DEF Theirs, Table, Within
<1> QED
  BY <1>1, <1>2, <1>3, EntryOfType DEF WellFormed

(* The merge of three stores is a store. *)
LEMMA MergeStoresType ==
    ASSUME NEW x \in Store, NEW y \in Store, NEW z \in Store
    PROVE  MergeStores(x, y, z) \in Store
BY DEF MergeStores, MergeValue, Store

(* The context that has adopted the root that won. *)
LEMMA RereadOK ==
    ASSUME WellFormed, NEW p \in Proc
    PROVE  /\ Reread(ctx[p]) \in Context
           /\ ContextOK(Reread(ctx[p]), Len(roots), Len(entries))
           /\ Reread(ctx[p]).refsHead = refs
           /\ Reread(ctx[p]).tries = ctx[p].tries + 1
           /\ Reread(ctx[p]).pc = ctx[p].pc
<1> DEFINE c == Reread(ctx[p])
<1>1. /\ roots[refs].table \in Table
      /\ Within(roots[refs].table, Len(entries))
  BY OfProc, RootOfType DEF WellFormed
<1>2. /\ c \in Context /\ c.refsHead = refs /\ c.tries = ctx[p].tries + 1
      /\ c.table = roots[refs].table /\ c.want = ctx[p].want
      /\ c.branchPrev = ctx[p].branchPrev /\ c.pc = ctx[p].pc
  <2>1. ctx[p] \in Context /\ refs \in Nat
    BY OfProc
  <2>2. ctx[p].tries \in Nat /\ ctx[p].tries + 1 \in Nat
    BY <2>1 DEF Context
  <2>3. c = [ctx[p] EXCEPT !.refsHead = refs, !.table = roots[refs].table,
                           !.tries = ctx[p].tries + 1]
    BY DEF Reread
  <2> HIDE DEF c
  <2>4. c \in Context
    BY <1>1, <2>1, <2>2, <2>3 DEF Context
  <2> QED
    BY <2>1, <2>3, <2>4 DEF Context
<1> HIDE DEF c
<1>3. ContextOK(c, Len(roots), Len(entries))
  BY <1>1, <1>2, OfProc DEF ContextOK
<1> QED
  BY <1>2, <1>3 DEF c

(* The context merged with the entry that won. *)
LEMMA MergedOK ==
    ASSUME WellFormed, NEW p \in Proc, NEW chain \in Chain, NEW c,
           ContextOK(c, Len(roots), Len(entries))
    PROVE  /\ ContextOK(Merged(p, c, chain), Len(roots), Len(entries))
           /\ Merged(p, c, chain).refsHead = c.refsHead
           /\ Merged(p, c, chain).tries = c.tries
           /\ Merged(p, c, chain).pc = c.pc
<1> DEFINE store == MergeStores(Base(p).store, OurStore(p),
                                EntryOf(Theirs(p)).store)
           d == [c EXCEPT !.members = [m \in CtxMember |-> store[m]],
                          !.lists = [m \in ListMember |-> store[m]],
                          !.staged = TRUE, !.chain = chain,
                          !.branchPrev = Theirs(p)]
<1>1. store \in Store
  BY EntriesNamed, MergeStoresType DEF Entry
<1> HIDE DEF store
<1>2. /\ [m \in CtxMember |-> store[m]] \in [CtxMember -> Stored]
      /\ [m \in ListMember |-> store[m]] \in [ListMember -> Stored]
  BY <1>1 DEF Store, Member
<1>3. c \in Context
  BY DEF ContextOK
<1>4. d \in Context
  BY <1>2, <1>3, EntriesNamed DEF Context
<1>5. ContextOK(d, Len(roots), Len(entries))
  BY <1>3, <1>4, EntriesNamed DEF ContextOK, Context
<1>6. d.refsHead = c.refsHead /\ d.tries = c.tries /\ d.pc = c.pc
  BY <1>3 DEF Context
<1> QED
  BY <1>5, <1>6 DEF Merged, store

(* One more lost race, to a root newer than the one held, is one more root. *)
LEMMA OneMoreLoss ==
    ASSUME NEW t \in Nat, NEW h \in Nat, NEW s \in Nat, NEW r \in Nat,
           t <= h - s, h < r
    PROVE  t + 1 <= r - s
OBVIOUS

(* A reconciled publish is tried again, or given up.  *)
LEMMA RetryStep ==
    ASSUME WellFormed, UNCHANGED <<refs, roots, entries, issued>>,
           NEW p \in Proc, NEW c, ctx[p].pc = "lost",
           ContextOK(c, Len(roots), Len(entries)), c.refsHead = refs,
           c.tries = ctx[p].tries + 1, Retry(p, c)
    PROVE  WellFormed'
<1>1. CASE c.tries < StateTries
  <2> DEFINE d == [c EXCEPT !.pc = "try"]
  <2>1. Moves(p, d, asked[p])
    BY <1>1, UnaskedMoves DEF Retry
  <2>2. c \in Context
    BY DEF ContextOK
  <2>3. /\ d \in Context /\ d.pc = "try" /\ d.tries = ctx[p].tries + 1
        /\ d.refsHead = refs
    BY <2>2 DEF Context, PublishPC
  <2>4. ContextOK(d, Len(roots), Len(entries))
    BY <2>2, <2>3, OfProc DEF ContextOK, Context
  <2> HIDE DEF d
  <2>5. RaceOK(d, asked[p], Len(roots))
    <3>1. /\ ctx[p].tries <= ctx[p].refsHead - asked[p].since
          /\ ctx[p].refsHead < Len(roots)
      BY OfProc DEF RaceOK, PublishPC
    <3>2. /\ ctx[p].tries \in Nat /\ ctx[p].refsHead \in Nat
          /\ asked[p].since \in Nat
      BY OfProc DEF Context, Asked
    <3>3. refs = Len(roots) /\ Len(roots) \in Nat
      BY OfProc
    <3>4. ctx[p].tries + 1 <= Len(roots) - asked[p].since
      BY <3>1, <3>2, <3>3, OneMoreLoss
    <3>5. d.tries <= d.refsHead - asked[p].since
      BY <2>3, <3>3, <3>4, Zenon
    <3> QED
      BY <2>3, <3>5 DEF RaceOK
  <2>6. ProcOK(d, asked[p], Len(roots), Len(entries))
    BY <1>1, <2>3, <2>4, <2>5, OfProc DEF ProcOK, TriesOK
  <2> QED
    BY <2>1, <2>6, OfProc, LocalStep
<1>2. CASE ~(c.tries < StateTries)
  BY <1>2, OfProc, SettleStep DEF Retry
<1> QED
  BY <1>1, <1>2

(* publish_reconcile: the branch is where it was left. *)
LEMMA ReconcileUnmovedOK ==
    ASSUME WellFormed, NEW p \in Proc, ReconcileUnmoved(p)
    PROVE  WellFormed'
BY RereadOK, RetryStep DEF ReconcileUnmoved

(* publish_reconcile: one side moved the conversation. *)
LEMMA ReconcileOneSidedOK ==
    ASSUME WellFormed, NEW p \in Proc, ReconcileOneSided(p)
    PROVE  WellFormed'
<1>1. MovedHead(p) \in Chain
  BY OfProc, EntriesNamed DEF MovedHead, Context, Entry
<1> QED
  BY <1>1, RereadOK, MergedOK, RetryStep DEF ReconcileOneSided

(* publish_reconcile: both sides moved it, and ours is replayed. *)
LEMMA ReconcileReplayOK ==
    ASSUME WellFormed, NEW p \in Proc, ReconcileReplay(p)
    PROVE  WellFormed'
<1>1. JoinOntoHead(EntryOf(Theirs(p)).chain, ctx[p].chain) \in Chain
  BY OfProc, EntriesNamed, JoinOntoHeadKeepsTheirs DEF Context, Entry
<1> QED
  BY <1>1, RereadOK, MergedOK, RetryStep DEF ReconcileReplay

(* publish_reconcile: a conflict is refused. *)
LEMMA ReconcileRefuseOK ==
    ASSUME WellFormed, NEW p \in Proc, ReconcileRefuse(p)
    PROVE  WellFormed'
BY RereadOK, OfProc, SettleStep DEF ReconcileRefuse

(* fyai_publish_state: a branch that has no state is skipped. *)
LEMMA PublishNothingOK ==
    ASSUME WellFormed, NEW p \in Proc, PublishNothing(p)
    PROVE  WellFormed'
<1>1. ctx[p].refsHead # 0
  BY OfProc DEF PublishNothing, ContextOK
<1> QED
  BY <1>1, OfProc, SettleStep DEF PublishNothing

(* fyai_root_publish_try: the compare-and-set won. *)
LEMMA PublishWonOK ==
    ASSUME WellFormed, NEW p \in Proc, PublishWon(p)
    PROVE  WellFormed'
<1> DEFINE e == Len(entries) + 1
           table == [ctx[p].table EXCEPT ![ctx[p].branch] = e]
           c == [ctx[p] EXCEPT !.refsHead = Len(roots) + 1, !.table = table,
                               !.branchPrev = e]
<1>1. /\ Advance(p, table, ctx[p].headBranch) /\ Settle(p, c, TRUE)
      /\ entries' = Append(entries, OurEntry(p)) /\ UNCHANGED issued
  BY DEF PublishWon
<1>2. /\ ctx[p].table \in Table /\ Within(ctx[p].table, Len(entries))
      /\ ctx[p].branch \in Branch /\ ctx[p].headBranch \in Branch
      /\ ctx[p] \in Context /\ Within(ctx[p].want, Len(entries))
      /\ ctx[p].want \in Table
  BY OfProc DEF Context, ContextOK
<1>3. OurEntry(p) \in Entry /\ OurEntry(p).prev <= Len(entries)
  BY OfProc, EntriesNamed DEF OurEntry, Entry, ContextOK, Context
<1>4. /\ entries' \in Seq(Entry) /\ Len(entries') = e
      /\ \A i \in 1 .. Len(entries) : entries'[i] = entries[i]
      /\ entries'[e] = OurEntry(p)
  <2> HIDE DEF c, table
  <2> QED BY <1>1, <1>3 DEF WellFormed, ArenaOK
<1>5. Len(entries) \in Nat /\ e \in Nat /\ Len(entries) <= e
  BY OfProc
<1>6. \A i \in 1 .. Len(entries') : entries'[i].prev < i
  <2> SUFFICES ASSUME NEW i \in 1 .. Len(entries')
               PROVE  entries'[i].prev < i
    OBVIOUS
  <2>1. CASE i = e
    BY <2>1, <1>3, <1>4, <1>5 DEF Entry
  <2>2. CASE i # e
    <3>1. i \in 1 .. Len(entries) /\ entries'[i] = entries[i]
      BY <2>2, <1>4, <1>5
    <3> QED BY <3>1 DEF WellFormed, ArenaOK
  <2> QED
    BY <2>1, <2>2
<1>7. table \in Table
  BY <1>2, <1>5 DEF Table
<1>8. Within(table, e)
  BY <1>2, <1>5 DEF Table, Within
<1>9. Within(ctx[p].want, e)
  BY <1>2, <1>5, WithinGrows
<1> HIDE DEF table, e
<1>10. /\ ArenaOK' /\ ArenaGrows /\ Len(roots') = Len(roots) + 1
  BY <1>1, <1>2, <1>4, <1>5, <1>6, <1>7, <1>8, RootAdded DEF WellFormed
<1>11. c \in Context
  <2>1. Len(roots) + 1 \in Nat
    BY OfProc
  <2> QED
    BY <1>2, <1>5, <1>7, <2>1 DEF Context
<1>12. /\ c.refsHead = Len(roots) + 1 /\ c.branchPrev = e
       /\ c.table = table /\ c.want = ctx[p].want
  BY <1>2 DEF Context
<1> HIDE DEF c
<1>13. ContextOK(c, Len(roots'), Len(entries')) /\ c.refsHead # 0
  BY <1>4, <1>5, <1>8, <1>9, <1>10, <1>11, <1>12, OfProc DEF ContextOK
<1>14. AskedOK(asked[p], Len(entries'))
  BY <1>4, <1>5, OfProc, WithinGrows DEF AskedOK, Asked
<1>15. Len(roots') \in Nat /\ Len(entries') \in Nat
  BY <1>4, <1>5, <1>10, OfProc
<1>16. PICK d, a : /\ Moves(p, d, a)
                   /\ ProcOK(d, a, Len(roots'), Len(entries'))
  BY <1>1, <1>13, <1>14, <1>15, SettleOK
<1>17. issued' \in 0 .. MaxCommands
  BY <1>1, OfProc
<1> QED
  BY <1>10, <1>16, <1>17, WellFormedStep

(* A race is lost to a root that is newer than the one read.  *)
LEMMA LostOK ==
    ASSUME WellFormed, NEW p \in Proc, NEW pc \in {"lost", "tlost"},
           ctx[p].pc = (IF pc = "lost" THEN "try" ELSE "ttry"),
           refs # ctx[p].refsHead,
           ctx' = [ctx EXCEPT ![p] = [@ EXCEPT !.pc = pc]],
           UNCHANGED <<refs, roots, entries, asked, issued>>
    PROVE  WellFormed'
<1> DEFINE c == [ctx[p] EXCEPT !.pc = pc]
<1>1. Moves(p, c, asked[p])
  BY UnaskedMoves
<1>2. /\ ctx[p] \in Context /\ ctx[p].refsHead \in Nat
      /\ ctx[p].refsHead <= Len(roots) /\ ctx[p].refsHead # 0
      /\ refs = Len(roots) /\ refs \in Nat
  BY OfProc DEF Context, ContextOK
<1>3. /\ c \in Context /\ c.pc = pc /\ c.refsHead = ctx[p].refsHead
      /\ c.tries = ctx[p].tries
  BY <1>2 DEF Context, PublishPC
<1>4. ContextOK(c, Len(roots), Len(entries))
  BY <1>2, <1>3, OfProc DEF ContextOK, Context
<1>5. TriesOK(c)
  BY <1>3, OfProc DEF TriesOK
<1> HIDE DEF c
<1>6. c.tries <= c.refsHead - asked[p].since
  BY <1>3, OfProc DEF RaceOK, PublishPC
<1>7. RaceOK(c, asked[p], Len(roots))
  BY <1>2, <1>3, <1>6 DEF RaceOK
<1>8. ProcOK(c, asked[p], Len(roots), Len(entries))
  BY <1>4, <1>5, <1>7, OfProc DEF ProcOK
<1> QED
  BY <1>1, <1>8, OfProc, LocalStep

(* fyai_root_publish_try: the compare-and-set lost. *)
LEMMA PublishLostOK ==
    ASSUME WellFormed, NEW p \in Proc, PublishLost(p)
    PROVE  WellFormed'
BY LostOK DEF PublishLost, MayTry

(* fyai_publish_branches: the compare-and-set lost. *)
LEMMA TableLostOK ==
    ASSUME WellFormed, NEW p \in Proc, TableLost(p)
    PROVE  WellFormed'
BY LostOK DEF TableLost

(* fyai_publish_branches: the compare-and-set won. *)
LEMMA TableWonOK ==
    ASSUME WellFormed, NEW p \in Proc, TableWon(p)
    PROVE  WellFormed'
<1> DEFINE c == [ctx[p] EXCEPT !.refsHead = Len(roots) + 1,
                               !.table = ctx[p].want]
<1>1. /\ Advance(p, ctx[p].want, ctx[p].headBranch) /\ Settle(p, c, TRUE)
      /\ UNCHANGED <<entries, issued>>
  BY DEF TableWon
<1>2. /\ ctx[p] \in Context /\ ctx[p].want \in Table
      /\ ctx[p].headBranch \in Branch /\ Within(ctx[p].want, Len(entries))
      /\ ctx[p].branchPrev <= Len(entries)
  BY OfProc DEF Context, ContextOK
<1>3. Len(roots) \in Nat /\ Len(roots) + 1 \in Nat /\ Len(roots) + 1 # 0
  BY OfProc
<1>4. /\ entries' \in Seq(Entry) /\ entries' = entries
      /\ \A e \in 1 .. Len(entries) : entries[e].prev < e
      /\ Len(entries) \in Nat
  BY <1>1 DEF WellFormed, ArenaOK
<1>5. ArenaOK' /\ ArenaGrows /\ Len(roots') = Len(roots) + 1
  <2> HIDE DEF c
  <2> QED BY <1>1, <1>2, <1>4, RootAdded DEF WellFormed
<1>6. c \in Context
  BY <1>2, <1>3 DEF Context
<1>7. /\ c.refsHead = Len(roots) + 1 /\ c.branchPrev = ctx[p].branchPrev
      /\ c.table = ctx[p].want /\ c.want = ctx[p].want
  BY <1>2 DEF Context
<1> HIDE DEF c
<1>8. ContextOK(c, Len(roots'), Len(entries')) /\ c.refsHead # 0
  BY <1>2, <1>3, <1>4, <1>5, <1>6, <1>7 DEF ContextOK
<1>9. AskedOK(asked[p], Len(entries')) /\ issued' \in 0 .. MaxCommands
  BY <1>1, OfProc
<1>10. PICK d, a : /\ Moves(p, d, a)
                   /\ ProcOK(d, a, Len(roots'), Len(entries'))
  BY <1>1, <1>3, <1>4, <1>5, <1>8, <1>9, SettleOK
<1> QED
  BY <1>5, <1>9, <1>10, WellFormedStep

(* A table edit made again gives a table within the arena. *)
LEMMA DeltaApplyType ==
    ASSUME NEW base \in Table, NEW desired \in Table, NEW latest \in Table,
           NEW n \in Nat, Within(desired, n), Within(latest, n)
    PROVE  /\ DeltaApply(base, desired, latest) \in Table
           /\ Within(DeltaApply(base, desired, latest), n)
BY DEF DeltaApply, Table, Within

(* fyai_publish_branches: the edit is made again. *)
LEMMA TableReapplyOK ==
    ASSUME WellFormed, NEW p \in Proc, TableReapply(p)
    PROVE  WellFormed'
<1> DEFINE want == DeltaApply(asked[p].base, asked[p].desired,
                              roots[refs].table)
           head == IF asked[p].movesHead THEN ctx[p].headBranch
                   ELSE roots[refs].HEAD
           c == [ctx[p] EXCEPT !.refsHead = refs, !.tries = @ + 1,
                               !.want = want, !.headBranch = head]
<1>1. /\ ctx[p].pc = "tlost"
      /\ IF c.tries < TableTries
         THEN /\ ctx' = [ctx EXCEPT ![p] = [c EXCEPT !.pc = "ttry"]]
              /\ UNCHANGED asked
         ELSE Settle(p, c, FALSE)
      /\ UNCHANGED <<refs, roots, entries, issued>>
  BY DEF TableReapply
<1>2. /\ ctx[p] \in Context /\ ctx[p].tries \in Nat
      /\ ctx[p].refsHead \in Nat /\ ctx[p].headBranch \in Branch
      /\ ctx[p].branchPrev <= Len(entries) /\ asked[p].since \in Nat
      /\ Within(ctx[p].table, Len(entries))
  BY OfProc DEF Context, ContextOK, Asked
<1>3. /\ refs \in Nat /\ refs # 0 /\ refs = Len(roots)
      /\ Len(entries) \in Nat /\ issued' \in 0 .. MaxCommands
  BY <1>1, OfProc
<1>4. /\ roots[refs].table \in Table /\ roots[refs].HEAD \in Branch
      /\ Within(roots[refs].table, Len(entries))
  BY OfProc, RootOfType DEF WellFormed
<1>5. /\ asked[p].base \in Table /\ asked[p].desired \in Table
      /\ Within(asked[p].desired, Len(entries))
  BY OfProc DEF AskedOK, Asked
<1>6. want \in Table /\ Within(want, Len(entries)) /\ head \in Branch
  BY <1>2, <1>3, <1>4, <1>5, DeltaApplyType
<1> HIDE DEF want, head
<1>7. c \in Context
  <2>1. ctx[p].tries + 1 \in Nat
    BY <1>2
  <2> QED
    BY <1>2, <1>3, <1>6, <2>1 DEF Context
<1>8. /\ c.refsHead = refs /\ c.tries = ctx[p].tries + 1
      /\ c.want = want /\ c.table = ctx[p].table
      /\ c.branchPrev = ctx[p].branchPrev
  BY <1>2 DEF Context
<1> HIDE DEF c
<1>9. ContextOK(c, Len(roots), Len(entries))
  BY <1>2, <1>3, <1>6, <1>7, <1>8 DEF ContextOK
<1>10. CASE c.tries < TableTries
  <2> DEFINE d == [c EXCEPT !.pc = "ttry"]
  <2>1. Moves(p, d, asked[p])
    BY <1>1, <1>10, UnaskedMoves
  <2>2. /\ d \in Context /\ d.pc = "ttry" /\ d.tries = c.tries
        /\ d.refsHead = refs /\ d.table = c.table /\ d.want = c.want
        /\ d.branchPrev = c.branchPrev
    BY <1>7, <1>8 DEF Context, PublishPC
  <2> HIDE DEF d
  <2>3. ContextOK(d, Len(roots), Len(entries)) /\ TriesOK(d)
    BY <1>3, <1>9, <1>10, <2>2 DEF ContextOK, TriesOK
  <2>4. /\ ctx[p].tries <= ctx[p].refsHead - asked[p].since
        /\ ctx[p].refsHead < Len(roots)
    BY <1>1, OfProc DEF RaceOK, PublishPC
  <2>5. d.tries <= d.refsHead - asked[p].since
    <3>1. /\ ctx[p].tries \in Nat /\ ctx[p].refsHead \in Nat
          /\ asked[p].since \in Nat /\ Len(roots) \in Nat
      BY OfProc DEF Context, Asked
    <3>2. ctx[p].tries + 1 <= Len(roots) - asked[p].since
      BY <2>4, <3>1, OneMoreLoss
    <3> QED
      BY <1>3, <1>8, <2>2, <3>2, Zenon
  <2>6. RaceOK(d, asked[p], Len(roots))
    BY <2>2, <2>5 DEF RaceOK
  <2>7. ProcOK(d, asked[p], Len(roots), Len(entries))
    BY <2>3, <2>6, OfProc DEF ProcOK
  <2> QED
    BY <1>1, <1>3, <2>1, <2>7, LocalStep
<1>11. CASE ~(c.tries < TableTries)
  BY <1>1, <1>3, <1>8, <1>9, <1>11, SettleStep
<1> QED
  BY <1>10, <1>11

(* A context that only its root is replaced in.  *)
LEMMA NewRefsOK ==
    ASSUME WellFormed, NEW p \in Proc
    PROVE  /\ ContextOK([ctx[p] EXCEPT !.refsHead = refs],
                        Len(roots), Len(entries))
           /\ [ctx[p] EXCEPT !.refsHead = refs].refsHead = refs
<1> DEFINE c == [ctx[p] EXCEPT !.refsHead = refs]
<1>1. /\ ctx[p] \in Context /\ ContextOK(ctx[p], Len(roots), Len(entries))
      /\ refs \in Nat /\ refs # 0 /\ refs = Len(roots)
  BY OfProc
<1>2. /\ c \in Context /\ c.refsHead = refs
      /\ c.table = ctx[p].table /\ c.want = ctx[p].want
      /\ c.branchPrev = ctx[p].branchPrev
  BY <1>1 DEF Context
<1> HIDE DEF c
<1>3. ContextOK(c, Len(roots), Len(entries))
  BY <1>1, <1>2 DEF ContextOK
<1> QED
  BY <1>2, <1>3 DEF c

(* fyai_publish_branches: the edit is refused. *)
LEMMA TableRefuseOK ==
    ASSUME WellFormed, NEW p \in Proc, TableRefuse(p)
    PROVE  WellFormed'
<1>1. refs # 0
  BY OfProc
<1> QED
  BY <1>1, NewRefsOK, SettleStep DEF TableRefuse

(* fyai_branches_refresh: the root in force is adopted. *)
LEMMA RefreshOK ==
    ASSUME WellFormed, NEW p \in Proc, Refresh(p)
    PROVE  WellFormed'
<1> DEFINE c == [ctx[p] EXCEPT !.refsHead = refs, !.table = roots[refs].table,
                               !.branchPrev = Theirs(p)]
<1>1. /\ ctx' = [ctx EXCEPT ![p] = c] /\ ctx[p].pc \in {"idle", "turn"}
      /\ UNCHANGED <<refs, roots, entries, asked, issued>>
  BY DEF Refresh
<1>2. /\ ctx[p] \in Context /\ TriesOK(ctx[p]) /\ refs = Len(roots)
      /\ refs \in Nat /\ refs # 0 /\ Len(entries) \in Nat
      /\ Within(ctx[p].want, Len(entries)) /\ AskedOK(asked[p], Len(entries))
  BY OfProc DEF ContextOK
<1>3. /\ roots[refs].table \in Table
      /\ Within(roots[refs].table, Len(entries))
  BY OfProc, RootOfType DEF WellFormed
<1>4. Theirs(p) \in Nat /\ Theirs(p) <= Len(entries)
  BY EntriesNamed
<1>5. c \in Context
  BY <1>2, <1>3, <1>4 DEF Context
<1>6. /\ c.refsHead = refs /\ c.table = roots[refs].table
      /\ c.branchPrev = Theirs(p) /\ c.pc = ctx[p].pc
      /\ c.tries = ctx[p].tries /\ c.want = ctx[p].want
  BY <1>2 DEF Context
<1> HIDE DEF c
<1>7. ContextOK(c, Len(roots), Len(entries)) /\ TriesOK(c)
  BY <1>1, <1>2, <1>3, <1>4, <1>5, <1>6 DEF ContextOK, TriesOK
<1>8. RaceOK(c, asked[p], Len(roots))
  BY <1>1, <1>6 DEF RaceOK, PublishPC
<1>9. ProcOK(c, asked[p], Len(roots), Len(entries))
  BY <1>2, <1>7, <1>8 DEF ProcOK
<1>10. issued' \in 0 .. MaxCommands
  BY <1>1, OfProc
<1> QED
  BY <1>1, <1>9, <1>10, UnaskedMoves, LocalStep

-------------------------------------------------------------------------------
(* The invariant, and what it gives for every reachable state.  *)

(* A new arena is well formed. *)
LEMMA InitWellFormed ==
    ASSUME Init
    PROVE  WellFormed
<1>1. [NoTable EXCEPT ![Main] = 1] \in Table
  BY NoTableType, BranchAssumption DEF Table
<1>2. Within([NoTable EXCEPT ![Main] = 1], 1)
  BY BranchAssumption DEF Within, NoTable, NoEntry
<1> DEFINE r == [HEAD |-> Main, table |-> [NoTable EXCEPT ![Main] = 1],
                 prev |-> 0]
<1>3. /\ r \in Root /\ r.prev = 0 /\ Within(r.table, 1)
      /\ roots = <<r>> /\ refs = 1 /\ entries = <<EmptyEntry>>
  BY <1>1, <1>2, BranchAssumption DEF Root, Init
<1> HIDE DEF r
<1>4. ArenaOK
  BY <1>3, EmptyEntryType DEF ArenaOK, EmptyEntry, NoEntry
<1>5. /\ ctx = [p \in Proc |-> Closed] /\ asked = [p \in Proc |-> NoAsk]
      /\ Len(roots) = 1 /\ Len(entries) = 1 /\ issued = 0
  BY <1>3 DEF Init
<1>6. RaceOK(Closed, NoAsk, 1)
  BY DEF RaceOK, Closed, PublishPC
<1>7. ProcOK(Closed, NoAsk, 1, 1) /\ Closed \in Context /\ NoAsk \in Asked
  BY <1>6, ClosedOK, NoAskOK DEF ProcOK, ContextOK, AskedOK
<1> QED
  BY <1>4, <1>5, <1>7, BoundAssumption DEF WellFormed

(* Every step of every process keeps the arena well formed. *)
LEMMA ProcStepWellFormed ==
    ASSUME WellFormed, NEW p \in Proc, ProcStep(p)
    PROVE  WellFormed'
<1>1. CASE Exit(p)
  BY <1>1, ExitOK
<1>2. CASE \E b \in Branch : Open(p, b)
  BY <1>2, OpenOK
<1>3. CASE TurnStep(p)
  BY <1>3, StartTurnOK, FailTurnOK, FinishTurnOK, RefreshOK DEF TurnStep
<1>4. CASE CommandStep(p)
  BY <1>4, SetMemberOK, WriteListOK, ClearOK, ResetOK, CheckoutOK
  DEF CommandStep
<1>5. CASE TableStep(p)
  BY <1>5, CreateBranchOK, DeleteBranchOK, RenameBranchOK, DescribeBranchOK
  DEF TableStep
<1>6. CASE PublishStep(p)
  <2>1. CASE PublishNothing(p) \/ PublishWon(p) \/ PublishLost(p)
    BY <2>1, PublishNothingOK, PublishWonOK, PublishLostOK
  <2>2. CASE \/ ReconcileUnmoved(p) \/ ReconcileOneSided(p)
             \/ ReconcileReplay(p) \/ ReconcileRefuse(p)
    BY <2>2, ReconcileUnmovedOK, ReconcileOneSidedOK, ReconcileReplayOK,
       ReconcileRefuseOK
  <2>3. CASE \/ TableWon(p) \/ TableLost(p)
             \/ TableReapply(p) \/ TableRefuse(p)
    BY <2>3, TableWonOK, TableLostOK, TableReapplyOK, TableRefuseOK
  <2> QED
    BY <1>6, <2>1, <2>2, <2>3 DEF PublishStep
<1> QED
  BY <1>1, <1>2, <1>3, <1>4, <1>5, <1>6 DEF ProcStep

(* The arena and every context stay well formed.  *)
THEOREM AlwaysWellFormed == Spec => []WellFormed
<1>1. Init => WellFormed
  BY InitWellFormed
<1>2. WellFormed /\ [Next]_vars => WellFormed'
  <2> SUFFICES ASSUME WellFormed, [Next]_vars
               PROVE  WellFormed'
    OBVIOUS
  <2>1. CASE Next
    BY <2>1, ProcStepWellFormed DEF Next
  <2>2. CASE UNCHANGED vars
    BY <2>2 DEF vars, WellFormed, ArenaOK
  <2> QED
    BY <2>1, <2>2
<1> QED
  BY <1>1, <1>2, PTL DEF Spec

(* Every state is of its type, and a publish makes at most StateTries      *)
(* (TableTries) tries: the loops of fyai_publish_state and                 *)
(* fyai_publish_branches end.                                              *)
THEOREM AlwaysTyped == Spec => []TypeOK
<1>1. WellFormed => TypeOK
  <2> SUFFICES ASSUME WellFormed PROVE TypeOK
    OBVIOUS
  <2>1. /\ refs \in Nat /\ roots \in Seq(Root) /\ entries \in Seq(Entry)
        /\ ctx \in [Proc -> Context] /\ asked \in [Proc -> Asked]
        /\ issued \in 0 .. MaxCommands
    BY DEF WellFormed, ArenaOK
  <2>2. \A p \in Proc : TriesOK(ctx[p])
    BY OfProc
  <2> QED
    BY <2>1, <2>2 DEF TypeOK, TriesOK
<1> QED
  BY <1>1, AlwaysWellFormed, PTL

(* The roots form one ref log, each written over the one before it,        *)
(* however many processes publish.                                         *)
THEOREM AlwaysRootLog == Spec => []RootLog
<1>1. WellFormed => RootLog
  BY DEF WellFormed, ArenaOK, RootLog
<1> QED
  BY <1>1, AlwaysWellFormed, PTL

(* A publisher that gives up has lost to as many publishes of others as it *)
(* made tries.                                                             *)
THEOREM AlwaysLossesAreWins == Spec => []LossesAreWins
<1>1. WellFormed => LossesAreWins
  <2> SUFFICES ASSUME WellFormed, NEW p \in Proc, ctx[p].pc \in PublishPC
               PROVE  ctx[p].tries <= Len(roots) - asked[p].since
    BY DEF LossesAreWins
  <2>1. /\ ctx[p].tries <= ctx[p].refsHead - asked[p].since
        /\ ctx[p].refsHead <= Len(roots)
    BY OfProc DEF RaceOK, ContextOK
  <2>2. /\ ctx[p].tries \in Nat /\ ctx[p].refsHead \in Nat
        /\ asked[p].since \in Nat /\ Len(roots) \in Nat
    BY OfProc DEF Context, Asked
  <2> QED
    BY <2>1, <2>2
<1> QED
  BY <1>1, AlwaysWellFormed, PTL

-------------------------------------------------------------------------------
(* A step moves one process and adds to the arena.  *)

OthersKept(p) ==
    \A q \in Proc \ {p} : ctx'[q] = ctx[q] /\ asked'[q] = asked[q]

(* The end of a publish is a step of its process alone. *)
LEMMA SettleKeeps ==
    ASSUME WellFormed, NEW p \in Proc, NEW c, NEW ok, Settle(p, c, ok)
    PROVE  OthersKept(p)
BY DEF Settle, OthersKept, WellFormed

(* An edit that is asked is a step of its process alone. *)
LEMMA EditTableKeeps ==
    ASSUME WellFormed, NEW p \in Proc, NEW cmd, NEW desired, NEW branch,
           NEW head, EditTable(p, cmd, desired, branch, head)
    PROVE  OthersKept(p) /\ UNCHANGED <<refs, roots>>
BY DEF EditTable, AskTable, OthersKept, WellFormed

(* Appending keeps what was written. *)
LEMMA AppendGrows ==
    ASSUME WellFormed, NEW x, entries' = Append(entries, x)
    PROVE  /\ Len(entries) <= Len(entries')
           /\ \A e \in 1 .. Len(entries) : entries'[e] = entries[e]
<1>1. Len(entries) \in Nat /\ entries \in Seq(Entry)
  BY DEF WellFormed, ArenaOK
<1> QED
  BY <1>1

(* A compare-and-set that wins keeps the roots written before. *)
LEMMA AdvanceGrows ==
    ASSUME WellFormed, NEW p, NEW table, NEW head, Advance(p, table, head)
    PROVE  /\ Len(roots) <= Len(roots')
           /\ \A i \in 1 .. Len(roots) : roots'[i] = roots[i]
           /\ refs = ctx[p].refsHead /\ refs' = Len(roots) + 1
           /\ roots'[refs'].table = table /\ roots' # roots
<1>1. Len(roots) \in Nat /\ roots \in Seq(Root)
  BY DEF WellFormed, ArenaOK
<1> QED
  BY <1>1 DEF Advance

(* A step that writes nothing keeps what was written. *)
LEMMA KeptGrows ==
    ASSUME WellFormed
    PROVE  /\ UNCHANGED roots =>
                /\ Len(roots) <= Len(roots')
                /\ \A i \in 1 .. Len(roots) : roots'[i] = roots[i]
           /\ UNCHANGED entries =>
                /\ Len(entries) <= Len(entries')
                /\ \A e \in 1 .. Len(entries) : entries'[e] = entries[e]
BY DEF WellFormed, ArenaOK

(* Only the two publishes write a root.  *)
LEMMA StepShape ==
    ASSUME WellFormed, NEW p \in Proc, ProcStep(p)
    PROVE  /\ OthersKept(p) /\ ArenaGrows
           /\ roots' # roots => PublishWon(p) \/ TableWon(p)
<1>1. CASE Exit(p) \/ \E b \in Branch : Open(p, b)
  BY <1>1, KeptGrows DEF Exit, Open, OthersKept, ArenaGrows, WellFormed
<1>2. CASE TurnStep(p)
  BY <1>2, KeptGrows
  DEF TurnStep, StartTurn, FailTurn, FinishTurn, Refresh, OthersKept,
      ArenaGrows, WellFormed
<1>3. CASE CommandStep(p)
  BY <1>3, KeptGrows
  DEF CommandStep, SetMember, WriteList, Clear, Reset, Checkout, Ask,
      OthersKept, ArenaGrows, WellFormed
<1>4. CASE \E b \in Branch : CreateBranch(p, b)
  BY <1>4, EditTableKeeps, AppendGrows, KeptGrows DEF CreateBranch, ArenaGrows
<1>5. CASE \E b \in Branch : DeleteBranch(p, b)
  BY <1>5, EditTableKeeps, KeptGrows DEF DeleteBranch, ArenaGrows
<1>6. CASE \E from, to \in Branch : RenameBranch(p, from, to)
  BY <1>6, EditTableKeeps, AppendGrows, KeptGrows DEF RenameBranch, ArenaGrows
<1>7. CASE \E b \in Branch, m \in CtxMember, v \in Value :
              DescribeBranch(p, b, m, v)
  BY <1>7, EditTableKeeps, AppendGrows, KeptGrows
  DEF DescribeBranch, ArenaGrows
<1>8. CASE PublishNothing(p)
  BY <1>8, SettleKeeps, KeptGrows DEF PublishNothing, ArenaGrows
<1>9. CASE PublishWon(p)
  BY <1>9, SettleKeeps, AppendGrows, AdvanceGrows DEF PublishWon, ArenaGrows
<1>10. CASE PublishLost(p) \/ TableLost(p)
  BY <1>10, KeptGrows
  DEF PublishLost, TableLost, OthersKept, ArenaGrows, WellFormed
<1>11. CASE \/ ReconcileUnmoved(p) \/ ReconcileOneSided(p)
            \/ ReconcileReplay(p)
  <2>1. PICK c : Retry(p, c) /\ UNCHANGED <<refs, roots, entries, issued>>
    BY <1>11 DEF ReconcileUnmoved, ReconcileOneSided, ReconcileReplay
  <2>2. OthersKept(p)
    BY <2>1, SettleKeeps DEF Retry, OthersKept, WellFormed
  <2> QED
    BY <2>1, <2>2, KeptGrows DEF ArenaGrows
<1>12. CASE ReconcileRefuse(p) \/ TableRefuse(p)
  BY <1>12, SettleKeeps, KeptGrows
  DEF ReconcileRefuse, TableRefuse, ArenaGrows
<1>13. CASE TableWon(p)
  BY <1>13, SettleKeeps, KeptGrows, AdvanceGrows DEF TableWon, ArenaGrows
<1>14. CASE TableReapply(p)
  <2>1. OthersKept(p) /\ UNCHANGED <<roots, entries>>
    BY <1>14, SettleKeeps DEF TableReapply, OthersKept, WellFormed
  <2> QED
    BY <2>1, KeptGrows DEF ArenaGrows
<1> QED
  BY <1>1, <1>2, <1>3, <1>4, <1>5, <1>6, <1>7, <1>8, <1>9, <1>10, <1>11,
     <1>12, <1>13, <1>14
  DEF ProcStep, TableStep, PublishStep

-------------------------------------------------------------------------------
(* The other processes: what they hold of the arena stays as it was.  *)

(* A written entry never changes. *)
LEMMA EntryKept ==
    ASSUME WellFormed, ArenaGrows, NEW e \in Nat, e <= Len(entries)
    PROVE  (IF e = NoEntry THEN EmptyEntry ELSE entries'[e]) = EntryOf(e)
BY DEF ArenaGrows, EntryOf, NoEntry

(* What the root and the predecessor of a process are is not changed by    *)
(* what others write.                                                      *)
LEMMA HeldKept ==
    ASSUME WellFormed, ArenaGrows, NEW q \in Proc,
           ctx'[q] = ctx[q], asked'[q] = asked[q]
    PROVE  /\ Base(q)' = Base(q) /\ OurStore(q)' = OurStore(q)
           /\ ctx[q].pc # "closed" =>
                 roots'[ctx[q].refsHead] = roots[ctx[q].refsHead]
           /\ Dropped(q)' = Dropped(q)
<1>1. ctx[q].branchPrev \in Nat /\ ctx[q].branchPrev <= Len(entries)
  BY OfProc DEF ContextOK, Context
<1>2. Base(q)' = Base(q)
  BY <1>1, EntryKept DEF Base, EntryOf
<1>3. OurStore(q)' = OurStore(q)
  BY <1>2 DEF OurStore
<1>4. ctx[q].pc # "closed" => ctx[q].refsHead \in 1 .. Len(roots)
  BY OfProc DEF ContextOK, Context
<1> QED
  BY <1>2, <1>3, <1>4 DEF ArenaGrows, Dropped

(* The steps of one process do not disturb a plain other one: it holds
   immutable values. *)
LEMMA OtherPlainOK ==
    ASSUME WellFormed, ArenaGrows, NEW q \in Plain, PlainOK(q),
           ctx'[q] = ctx[q], asked'[q] = asked[q]
    PROVE  PlainOK(q)'
<1> q \in Proc
  BY DEF Plain
<1>1. ctx[q].pc \in {"idle", "turn", "try", "lost"} =>
         (InStepAt(q) /\ TurnsDerived(q) /\ StoreDerived(q))'
  BY HeldKept DEF PlainOK, InStepAt, TurnsDerived, StoreDerived
<1>2. ctx[q].pc = "ttry" => EditDerived(q)'
  BY HeldKept DEF PlainOK, EditDerived
<1> QED
  BY <1>1, <1>2 DEF PlainOK

-------------------------------------------------------------------------------
(* The process that moves.  *)

(* A closed process is plain. *)
LEMMA ClosedPlainOK ==
    ASSUME NEW p \in Plain, ctx'[p] = Closed, asked'[p] = NoAsk
    PROVE  PlainOK(p)'
BY DEF PlainOK, Closed, NoAsk

(* A plain process closes when its publish ends. *)
LEMMA SettlePlainOK ==
    ASSUME WellFormed, NEW p \in Plain, PlainOK(p), NEW c, NEW ok,
           Settle(p, c, ok)
    PROVE  PlainOK(p)' /\ ctx'[p] = Closed
<1>1. p \in Proc /\ p \notin Session /\ ~asked[p].inTurn
  BY DEF Plain, PlainOK
<1>2. ctx'[p] = Closed /\ asked'[p] = NoAsk
  BY <1>1 DEF Settle, WellFormed
<1> QED
  BY <1>2, ClosedPlainOK

(* The steps that end a plain process. *)
LEMMA FinalStepPlainOK ==
    ASSUME WellFormed, NEW p \in Plain, PlainOK(p),
           \/ Exit(p) \/ FailTurn(p) \/ PublishNothing(p) \/ PublishWon(p)
           \/ ReconcileRefuse(p) \/ TableWon(p) \/ TableRefuse(p)
    PROVE  PlainOK(p)'
<1>1. CASE Exit(p) \/ FailTurn(p)
  <2>1. ctx'[p] = Closed /\ asked'[p] = NoAsk
    BY <1>1 DEF Exit, FailTurn, Plain, WellFormed
  <2> QED
    BY <2>1, ClosedPlainOK
<1>2. CASE \/ PublishNothing(p) \/ PublishWon(p) \/ ReconcileRefuse(p)
           \/ TableWon(p) \/ TableRefuse(p)
  BY <1>2, SettlePlainOK
  DEF PublishNothing, PublishWon, ReconcileRefuse, TableWon, TableRefuse
<1> QED
  BY <1>1, <1>2

(* A context on a branch of its table, with the conversation and the       *)
(* members of the entry there, derives from that entry.                    *)
LEMMA AdoptedDerived ==
    ASSUME WellFormed, NEW p \in Proc, NEW c, NEW b \in Branch,
           c \in Context, ~c.staged, UNCHANGED <<roots, entries>>,
           c.table = roots[c.refsHead].table,
           LET d == Adopted(c, b) IN
              /\ ctx'[p].refsHead = d.refsHead /\ ctx'[p].table = d.table
              /\ ctx'[p].branch = d.branch /\ ctx'[p].staged = d.staged
              /\ ctx'[p].branchPrev = d.branchPrev
              /\ ctx'[p].chain = d.chain /\ ctx'[p].members = d.members
    PROVE  (InStepAt(p) /\ TurnsDerived(p) /\ StoreDerived(p))'
<1> DEFINE d == Adopted(c, b)
           e == EntryOf(c.table[b])
<1>1. /\ d.refsHead = c.refsHead /\ d.table = c.table /\ d.branch = b
      /\ d.staged = c.staged /\ d.branchPrev = c.table[b]
      /\ d.chain = e.chain /\ d.members = [m \in CtxMember |-> e.store[m]]
  BY DEF Adopted, Context
<1> HIDE DEF d, e
<1>2. InStepAt(p)'
  BY <1>1 DEF InStepAt, d
<1>3. Base(p)' = e
  BY <1>1 DEF Base, EntryOf, d, e
<1>4. ctx'[p].chain = e.chain
  BY <1>1 DEF d
<1>5. TurnsDerived(p)'
  BY <1>3, <1>4 DEF TurnsDerived
<1>6. /\ ctx'[p].members = [m \in CtxMember |-> e.store[m]]
      /\ ~ctx'[p].staged
  BY <1>1 DEF d
<1>7. StoreDerived(p)'
  BY <1>3, <1>6 DEF StoreDerived, OurStore
<1> QED
  BY <1>2, <1>5, <1>7

(* A context just opened differs from its root in nothing. *)
LEMMA OpenPlainOK ==
    ASSUME WellFormed, NEW p \in Plain, PlainOK(p), NEW b \in Branch,
           Open(p, b)
    PROVE  PlainOK(p)'
<1> DEFINE o == [Closed EXCEPT !.pc = "idle", !.refsHead = refs,
                               !.table = roots[refs].table,
                               !.headBranch = roots[refs].HEAD]
<1>1. p \in Proc
  BY DEF Plain
<1>2. /\ ctx'[p] = Adopted(o, b) /\ ctx[p].pc = "closed"
      /\ UNCHANGED <<refs, roots, entries, asked>>
  BY <1>1 DEF Open, WellFormed
<1>3. o \in Context
  <2>1. Closed \in Context
    BY OfProc, <1>1, ClosedOK DEF ContextOK
  <2>2. /\ roots[refs].table \in Table /\ roots[refs].HEAD \in Branch
        /\ refs \in Nat
    BY <1>1, OfProc, RootOfType DEF WellFormed
  <2> QED
    BY <2>1, <2>2 DEF Context
<1>4. /\ ~o.staged /\ o.refsHead = refs /\ o.table = roots[refs].table
      /\ o.pc = "idle"
  BY DEF Closed
<1> HIDE DEF o
<1>5. ctx'[p].pc = "idle" /\ ~ctx'[p].staged
  BY <1>2, <1>3, <1>4 DEF Adopted, Context
<1>6. (InStepAt(p) /\ TurnsDerived(p) /\ StoreDerived(p))'
  BY <1>1, <1>2, <1>3, <1>4, AdoptedDerived
<1> QED
  BY <1>2, <1>5, <1>6 DEF PlainOK

(* A checkout adopts a branch of the root it holds. *)
LEMMA CheckoutPlainOK ==
    ASSUME WellFormed, NEW p \in Plain, PlainOK(p), NEW b \in Branch,
           Checkout(p, b)
    PROVE  PlainOK(p)'
<1> DEFINE c == Adopted(ctx[p], b)
<1>1. p \in Proc /\ ctx[p] \in Context
  BY OfProc DEF Plain
<1>2. /\ ctx'[p] = [c EXCEPT !.pc = "try", !.headBranch = b]
      /\ ctx[p].pc = "idle" /\ ~asked'[p].inTurn
      /\ UNCHANGED <<refs, roots, entries>>
  BY <1>1 DEF Checkout, Ask, NoAsk, WellFormed
<1>3. c \in Context
  BY <1>1, OfProc, AdoptedOK DEF ContextOK
<1>4. ctx[p].table = roots[ctx[p].refsHead].table /\ ~ctx[p].staged
  BY <1>2 DEF PlainOK, InStepAt
<1> HIDE DEF c
<1>5. /\ ctx'[p].pc = "try"
      /\ ctx'[p].refsHead = c.refsHead /\ ctx'[p].table = c.table
      /\ ctx'[p].branch = c.branch /\ ctx'[p].staged = c.staged
      /\ ctx'[p].branchPrev = c.branchPrev
      /\ ctx'[p].chain = c.chain /\ ctx'[p].members = c.members
  BY <1>2, <1>3 DEF Context
<1>6. (InStepAt(p) /\ TurnsDerived(p) /\ StoreDerived(p))'
  BY <1>1, <1>2, <1>4, <1>5, AdoptedDerived DEF c
<1> QED
  BY <1>2, <1>5, <1>6 DEF PlainOK

(* An idle process, or one in a turn, that keeps its root and predecessor. *)
LEMMA HeldStill ==
    ASSUME WellFormed, NEW p \in Plain, PlainOK(p),
           ctx[p].pc \in {"idle", "turn", "try", "lost"},
           UNCHANGED <<roots, entries>>,
           ctx'[p].refsHead = ctx[p].refsHead, ctx'[p].table = ctx[p].table,
           ctx'[p].branch = ctx[p].branch,
           ctx'[p].branchPrev = ctx[p].branchPrev
    PROVE  InStepAt(p)' /\ Base(p)' = Base(p)
BY DEF PlainOK, InStepAt, Base, EntryOf

(* Seeding drops no turn. *)
LEMMA SeededKeeps ==
    ASSUME NEW c \in Chain
    PROVE  TurnsOf(c) \subseteq TurnsOf(Seeded(c))
BY DEF Seeded, TurnsOf

(* A turn begins on all the turns of the entry. *)
LEMMA StartTurnPlainOK ==
    ASSUME WellFormed, NEW p \in Plain, PlainOK(p), StartTurn(p)
    PROVE  PlainOK(p)'
<1> DEFINE s == Seeded(ctx[p].chain)
<1>1. p \in Proc /\ ctx[p] \in Context /\ ctx[p].chain \in Chain
  BY OfProc DEF Plain, Context
<1>2. /\ ctx'[p] = [ctx[p] EXCEPT !.pc = "turn", !.chain = s]
      /\ asked'[p] = [NoAsk EXCEPT !.cmd = "turn", !.view = s]
      /\ ctx[p].pc = "idle" /\ UNCHANGED <<refs, roots, entries>>
  BY <1>1 DEF StartTurn, WellFormed
<1> HIDE DEF s
<1>3. /\ ctx'[p].pc = "turn" /\ ctx'[p].chain = s
      /\ ctx'[p].refsHead = ctx[p].refsHead /\ ctx'[p].table = ctx[p].table
      /\ ctx'[p].branch = ctx[p].branch
      /\ ctx'[p].branchPrev = ctx[p].branchPrev
      /\ ctx'[p].members = ctx[p].members /\ ctx'[p].lists = ctx[p].lists
      /\ ctx'[p].staged = ctx[p].staged
  BY <1>1, <1>2 DEF Context
<1>4. /\ asked'[p].cmd = "turn" /\ asked'[p].edits = {}
      /\ asked'[p].view = s /\ ~asked'[p].inTurn
  BY <1>2 DEF NoAsk
<1>5. InStepAt(p)' /\ Base(p)' = Base(p)
  BY <1>2, <1>3, HeldStill
<1>6. /\ TurnsOf(Base(p).chain) \subseteq TurnsOf(ctx[p].chain)
      /\ ~ctx[p].staged /\ asked[p].edits = {} /\ StoreDerived(p)
  BY <1>2 DEF PlainOK, TurnsDerived, Dropped
<1>7. TurnsDerived(p)'
  BY <1>1, <1>3, <1>5, <1>6, SeededKeeps DEF TurnsDerived, s
<1>8. StoreDerived(p)'
  BY <1>3, <1>4, <1>5, <1>6 DEF StoreDerived, OurStore
<1> QED
  BY <1>3, <1>4, <1>5, <1>6, <1>7, <1>8 DEF PlainOK

(* Appending a turn drops none. *)
LEMMA AppendKeeps ==
    ASSUME NEW c \in Chain, NEW t
    PROVE  TurnsOf(c) \subseteq TurnsOf(Append(c, t))
BY DEF TurnsOf, Chain

(* A turn ends with all the turns it began on. *)
LEMMA FinishTurnPlainOK ==
    ASSUME WellFormed, NEW p \in Plain, PlainOK(p), FinishTurn(p)
    PROVE  PlainOK(p)'
<1> DEFINE s == Append(asked[p].view, issued + 1)
<1>1. p \in Proc /\ ctx[p] \in Context /\ asked[p] \in Asked
  BY OfProc DEF Plain
<1>2. /\ ctx'[p] = [ctx[p] EXCEPT !.pc = "try", !.chain = s]
      /\ asked'[p] = [asked[p] EXCEPT !.since = ctx[p].refsHead]
      /\ ctx[p].pc = "turn" /\ UNCHANGED <<refs, roots, entries>>
  BY <1>1 DEF FinishTurn, WellFormed
<1> HIDE DEF s
<1>3. /\ ctx'[p].pc = "try" /\ ctx'[p].chain = s
      /\ ctx'[p].refsHead = ctx[p].refsHead /\ ctx'[p].table = ctx[p].table
      /\ ctx'[p].branch = ctx[p].branch
      /\ ctx'[p].branchPrev = ctx[p].branchPrev
      /\ ctx'[p].members = ctx[p].members /\ ctx'[p].lists = ctx[p].lists
      /\ ctx'[p].staged = ctx[p].staged
  BY <1>1, <1>2 DEF Context
<1>4. asked'[p].edits = asked[p].edits /\ asked'[p].inTurn = asked[p].inTurn
  BY <1>1, <1>2 DEF Asked
<1>5. InStepAt(p)' /\ Base(p)' = Base(p)
  BY <1>2, <1>3, HeldStill
<1>6. /\ TurnsOf(Base(p).chain) \subseteq TurnsOf(ctx[p].chain)
      /\ TurnsOf(ctx[p].chain) \subseteq TurnsOf(asked[p].view)
      /\ StoreDerived(p) /\ ~asked[p].inTurn
  BY <1>2 DEF PlainOK, TurnsDerived, Dropped
<1>7. TurnsOf(asked[p].view) \subseteq TurnsOf(s)
  BY <1>1, AppendKeeps DEF Asked, s
<1>8. TurnsDerived(p)'
  BY <1>3, <1>5, <1>6, <1>7 DEF TurnsDerived
<1>9. StoreDerived(p)'
  BY <1>3, <1>4, <1>5, <1>6 DEF StoreDerived, OurStore
<1> QED
  BY <1>3, <1>4, <1>5, <1>6, <1>8, <1>9 DEF PlainOK

(* Setting a member changes that member alone. *)
LEMMA SetMemberPlainOK ==
    ASSUME WellFormed, NEW p \in Plain, PlainOK(p), NEW m \in CtxMember,
           NEW v \in Stored, SetMember(p, m, v)
    PROVE  PlainOK(p)'
<1>1. p \in Proc /\ ctx[p] \in Context
  BY OfProc DEF Plain
<1>2. /\ ctx'[p] = [ctx[p] EXCEPT !.pc = "try", !.members[m] = v]
      /\ asked'[p].cmd = "set" /\ asked'[p].edits = {m}
      /\ ~asked'[p].inTurn
      /\ ctx[p].pc = "idle" /\ UNCHANGED <<refs, roots, entries>>
  BY <1>1 DEF SetMember, Ask, NoAsk, WellFormed
<1>3. /\ ctx'[p].pc = "try" /\ ctx'[p].chain = ctx[p].chain
      /\ ctx'[p].refsHead = ctx[p].refsHead /\ ctx'[p].table = ctx[p].table
      /\ ctx'[p].branch = ctx[p].branch
      /\ ctx'[p].branchPrev = ctx[p].branchPrev
      /\ ctx'[p].members = [ctx[p].members EXCEPT ![m] = v]
      /\ ctx'[p].lists = ctx[p].lists /\ ctx'[p].staged = ctx[p].staged
  BY <1>1, <1>2 DEF Context
<1>4. InStepAt(p)' /\ Base(p)' = Base(p)
  BY <1>2, <1>3, HeldStill
<1>5. /\ TurnsOf(Base(p).chain) \subseteq TurnsOf(ctx[p].chain)
      /\ ~ctx[p].staged /\ asked[p].edits = {} /\ StoreDerived(p)
  BY <1>2 DEF PlainOK, TurnsDerived, Dropped
<1>6. TurnsDerived(p)'
  BY <1>3, <1>4, <1>5 DEF TurnsDerived
<1>7. \A n \in CtxMember \ {m} : ctx'[p].members[n] = ctx[p].members[n]
  BY <1>1, <1>3 DEF Context
<1>8. StoreDerived(p)'
  BY <1>2, <1>3, <1>4, <1>5, <1>7 DEF StoreDerived, OurStore, Member
<1> QED
  BY <1>2, <1>3, <1>4, <1>6, <1>8 DEF PlainOK

(* A clear or a reset drops only what its user saw. *)
LEMMA ClearResetPlainOK ==
    ASSUME WellFormed, NEW p \in Plain, PlainOK(p), Clear(p) \/ Reset(p)
    PROVE  PlainOK(p)'
<1>1. p \in Proc /\ ctx[p] \in Context
  BY OfProc DEF Plain
<1>2. PICK s : ctx'[p] = [ctx[p] EXCEPT !.pc = "try", !.chain = s]
  BY <1>1 DEF Clear, Reset, WellFormed
<1>3. /\ asked'[p].cmd \in {"clear", "reset"} /\ asked'[p].edits = {}
      /\ ~asked'[p].inTurn /\ asked'[p].view = ctx[p].chain
      /\ ctx[p].pc = "idle" /\ UNCHANGED <<refs, roots, entries>>
  <2>1. PICK cmd \in {"clear", "reset"} : Ask(p, cmd, {})
    BY DEF Clear, Reset
  <2>2. asked'[p] = [NoAsk EXCEPT !.cmd = cmd, !.view = ctx[p].chain,
                                  !.edits = {}, !.since = ctx[p].refsHead]
    BY <1>1, <2>1 DEF Ask, WellFormed
  <2>3. ctx[p].pc = "idle" /\ UNCHANGED <<refs, roots, entries>>
    BY DEF Clear, Reset
  <2> QED
    BY <2>2, <2>3 DEF NoAsk
<1>4. /\ ctx'[p].pc = "try"
      /\ ctx'[p].refsHead = ctx[p].refsHead /\ ctx'[p].table = ctx[p].table
      /\ ctx'[p].branch = ctx[p].branch
      /\ ctx'[p].branchPrev = ctx[p].branchPrev
      /\ ctx'[p].members = ctx[p].members /\ ctx'[p].lists = ctx[p].lists
      /\ ctx'[p].staged = ctx[p].staged
  BY <1>1, <1>2 DEF Context
<1>5. InStepAt(p)' /\ Base(p)' = Base(p)
  BY <1>3, <1>4, HeldStill
<1>6. /\ TurnsOf(Base(p).chain) \subseteq TurnsOf(ctx[p].chain)
      /\ ~ctx[p].staged /\ asked[p].edits = {} /\ StoreDerived(p)
  BY <1>3 DEF PlainOK, TurnsDerived, Dropped
<1>7. TurnsDerived(p)'
  BY <1>3, <1>5, <1>6 DEF TurnsDerived, Dropped
<1>8. StoreDerived(p)'
  BY <1>3, <1>4, <1>5, <1>6 DEF StoreDerived, OurStore
<1> QED
  BY <1>3, <1>4, <1>5, <1>7, <1>8 DEF PlainOK

(* An edit starts from the table of the root it holds. *)
LEMMA EditTablePlainOK ==
    ASSUME WellFormed, NEW p \in Plain, PlainOK(p), NEW cmd,
           NEW desired \in Table, NEW branch, NEW head,
           EditTable(p, cmd, desired, branch, head)
    PROVE  PlainOK(p)'
<1>1. p \in Proc /\ ctx[p] \in Context
  BY OfProc DEF Plain
<1>2. /\ ctx'[p] = [ctx[p] EXCEPT !.pc = "ttry", !.want = desired,
                                  !.branch = branch, !.headBranch = head,
                                  !.branchPrev =
                                      IF branch = ctx[p].branch
                                      THEN ctx[p].branchPrev
                                      ELSE ctx[p].table[ctx[p].branch]]
      /\ asked'[p].base = ctx[p].table /\ asked'[p].desired = desired
      /\ ~asked'[p].inTurn
      /\ ctx[p].pc = "idle" /\ UNCHANGED <<refs, roots>>
  BY <1>1 DEF EditTable, AskTable, NoAsk, WellFormed
<1>3. /\ ctx'[p].pc = "ttry" /\ ctx'[p].want = desired
      /\ ctx'[p].refsHead = ctx[p].refsHead
  BY <1>1, <1>2 DEF Context
<1>4. ctx[p].table = roots[ctx[p].refsHead].table
  BY <1>2 DEF PlainOK, InStepAt
<1>5. EditDerived(p)'
  BY <1>2, <1>3, <1>4 DEF EditDerived
<1> QED
  BY <1>2, <1>3, <1>5 DEF PlainOK

(* The commands that edit the table. *)
LEMMA TableStepPlainOK ==
    ASSUME WellFormed, NEW p \in Plain, PlainOK(p), TableStep(p)
    PROVE  PlainOK(p)'
<1>1. /\ ctx[p].table \in Table /\ Len(entries) + 1 \in Nat
      /\ NoEntry \in Nat
  BY OfProc DEF Plain, Context, NoEntry
<1>2. \A b \in Branch, e \in Nat : [ctx[p].table EXCEPT ![b] = e] \in Table
  BY <1>1 DEF Table
<1>3. \A from, to \in Branch, e \in Nat :
         [ctx[p].table EXCEPT ![from] = NoEntry, ![to] = e] \in Table
  BY <1>1 DEF Table
<1>4. \A b \in Branch : ctx[p].table[b] \in Nat
  BY <1>1 DEF Table
<1>5. CASE \E b \in Branch : CreateBranch(p, b) \/ DeleteBranch(p, b)
  BY <1>1, <1>2, <1>5, EditTablePlainOK DEF CreateBranch, DeleteBranch
<1>6. CASE \E from, to \in Branch : RenameBranch(p, from, to)
  BY <1>1, <1>3, <1>4, <1>6, EditTablePlainOK DEF RenameBranch
<1>7. CASE \E b \in Branch, m \in CtxMember, v \in Value :
              DescribeBranch(p, b, m, v)
  BY <1>1, <1>2, <1>7, EditTablePlainOK DEF DescribeBranch
<1> QED
  BY <1>5, <1>6, <1>7 DEF TableStep

(* A lost compare-and-set changes nothing. *)
LEMMA LostPlainOK ==
    ASSUME WellFormed, NEW p \in Plain, PlainOK(p),
           PublishLost(p) \/ TableLost(p)
    PROVE  PlainOK(p)'
<1>1. p \in Proc /\ ctx[p] \in Context
  BY OfProc DEF Plain
<1>2. UNCHANGED <<refs, roots, entries, asked>>
  BY DEF PublishLost, TableLost
<1>3. CASE PublishLost(p)
  <2>1. ctx'[p] = [ctx[p] EXCEPT !.pc = "lost"] /\ ctx[p].pc = "try"
    BY <1>1, <1>3 DEF PublishLost, MayTry, WellFormed
  <2>2. /\ ctx'[p].pc = "lost" /\ ctx'[p].chain = ctx[p].chain
        /\ ctx'[p].refsHead = ctx[p].refsHead
        /\ ctx'[p].table = ctx[p].table /\ ctx'[p].branch = ctx[p].branch
        /\ ctx'[p].branchPrev = ctx[p].branchPrev
        /\ ctx'[p].members = ctx[p].members /\ ctx'[p].lists = ctx[p].lists
        /\ ctx'[p].staged = ctx[p].staged
    BY <1>1, <2>1 DEF Context
  <2>3. InStepAt(p)' /\ Base(p)' = Base(p)
    BY <1>2, <2>1, <2>2, HeldStill
  <2>4. TurnsDerived(p) /\ StoreDerived(p) /\ ~asked[p].inTurn
    BY <2>1 DEF PlainOK
  <2>5. (TurnsDerived(p) /\ StoreDerived(p))'
    BY <1>2, <2>2, <2>3, <2>4
    DEF TurnsDerived, StoreDerived, OurStore, Dropped
  <2> QED
    BY <1>2, <2>2, <2>3, <2>4, <2>5 DEF PlainOK
<1>4. CASE TableLost(p)
  <2>1. ctx'[p] = [ctx[p] EXCEPT !.pc = "tlost"]
    BY <1>1, <1>4 DEF TableLost, WellFormed
  <2>2. ctx'[p].pc = "tlost" /\ ~asked'[p].inTurn
    BY <1>1, <1>2, <2>1 DEF Context, PlainOK
  <2> QED
    BY <2>2 DEF PlainOK
<1> QED
  BY <1>3, <1>4

(* A retry of context c, which derives from the entry it names.  *)
LEMMA RetryPlainOK ==
    ASSUME WellFormed, NEW p \in Plain, PlainOK(p), NEW c \in Context,
           Retry(p, c), UNCHANGED <<refs, roots, entries>>,
           c.table = roots[c.refsHead].table,
           c.branchPrev = c.table[c.branch],
           TurnsOf(EntryOf(c.branchPrev).chain)
               \subseteq TurnsOf(c.chain) \cup Dropped(p),
           \A m \in Member \ asked[p].edits :
               (IF m \in CtxMember THEN c.members[m]
                ELSE IF c.staged THEN c.lists[m]
                     ELSE EntryOf(c.branchPrev).store[m])
                   = EntryOf(c.branchPrev).store[m]
    PROVE  PlainOK(p)'
<1>1. p \in Proc
  BY DEF Plain
<1>2. CASE c.tries < StateTries
  <2>1. ctx'[p] = [c EXCEPT !.pc = "try"] /\ UNCHANGED asked
    BY <1>1, <1>2 DEF Retry, WellFormed
  <2>2. /\ ctx'[p].pc = "try" /\ ctx'[p].chain = c.chain
        /\ ctx'[p].refsHead = c.refsHead /\ ctx'[p].table = c.table
        /\ ctx'[p].branch = c.branch /\ ctx'[p].branchPrev = c.branchPrev
        /\ ctx'[p].members = c.members /\ ctx'[p].lists = c.lists
        /\ ctx'[p].staged = c.staged
    BY <2>1 DEF Context
  <2>3. Base(p)' = EntryOf(c.branchPrev)
    BY <2>2 DEF Base, EntryOf
  <2>4. InStepAt(p)'
    BY <2>2 DEF InStepAt
  <2>5. TurnsDerived(p)'
    BY <2>1, <2>2, <2>3 DEF TurnsDerived, Dropped
  <2>6. StoreDerived(p)'
    <3>1. ASSUME NEW m \in Member \ asked[p].edits
          PROVE  OurStore(p)'[m] = Base(p)'.store[m]
      <4>1. m \in Member
        OBVIOUS
      <4>2. OurStore(p)'[m] =
                IF m \in CtxMember THEN c.members[m]
                ELSE IF c.staged THEN c.lists[m]
                     ELSE EntryOf(c.branchPrev).store[m]
        BY <2>2, <2>3, <4>1 DEF OurStore
      <4> QED
        BY <2>3, <4>2
    <3> QED
      BY <2>1, <3>1 DEF StoreDerived
  <2>7. ~asked'[p].inTurn
    BY <2>1 DEF PlainOK
  <2>8. ctx'[p].pc = "try"
    BY <2>2
  <2> QED
    BY <2>4, <2>5, <2>6, <2>7, <2>8 DEF PlainOK
<1>3. CASE ~(c.tries < StateTries)
  BY <1>3, SettlePlainOK DEF Retry
<1> QED
  BY <1>2, <1>3

(* The root that won holds the entry this run started from. *)
LEMMA ReconcileUnmovedPlainOK ==
    ASSUME WellFormed, NEW p \in Plain, PlainOK(p), ReconcileUnmoved(p)
    PROVE  PlainOK(p)'
<1> DEFINE c == Reread(ctx[p])
<1>1. /\ p \in Proc /\ ctx[p] \in Context /\ c \in Context
      /\ ctx[p].pc = "lost" /\ Theirs(p) = ctx[p].branchPrev
      /\ Retry(p, c) /\ UNCHANGED <<refs, roots, entries>>
  BY OfProc, RereadOK DEF Plain, ReconcileUnmoved, BranchMoved
<1>2. /\ c.refsHead = refs /\ c.table = roots[refs].table
      /\ c.branch = ctx[p].branch /\ c.branchPrev = ctx[p].branchPrev
      /\ c.chain = ctx[p].chain /\ c.members = ctx[p].members
      /\ c.lists = ctx[p].lists /\ c.staged = ctx[p].staged
  BY <1>1 DEF Reread, Context
<1> HIDE DEF c
<1>3. /\ TurnsOf(Base(p).chain) \subseteq TurnsOf(ctx[p].chain) \cup Dropped(p)
      /\ \A m \in Member \ asked[p].edits : OurStore(p)[m] = Base(p).store[m]
  BY <1>1 DEF PlainOK, TurnsDerived, StoreDerived
<1>4. \A m \in Member \ asked[p].edits :
         (IF m \in CtxMember THEN c.members[m]
          ELSE IF c.staged THEN c.lists[m]
               ELSE EntryOf(c.branchPrev).store[m])
             = EntryOf(c.branchPrev).store[m]
  BY <1>2, <1>3 DEF OurStore, Base
<1>5. TurnsOf(EntryOf(c.branchPrev).chain)
          \subseteq TurnsOf(c.chain) \cup Dropped(p)
  BY <1>2, <1>3 DEF Base
<1>6. /\ c.table = roots[c.refsHead].table
      /\ c.branchPrev = c.table[c.branch]
  BY <1>1, <1>2 DEF Theirs
<1> QED
  BY <1>1, <1>4, <1>5, <1>6, RetryPlainOK

(* A member our command did not set takes their value in a merge.  *)
LEMMA MergeTakesTheirs ==
    ASSUME NEW base, NEW theirs
    PROVE  MergeValue(base, base, theirs) = theirs
BY DEF MergeValue

(* A merge carries over all of their turns and members. *)
LEMMA MergedPlainOK ==
    ASSUME WellFormed, NEW p \in Plain, PlainOK(p), ctx[p].pc = "lost",
           NEW chain \in Chain, Retry(p, Merged(p, Reread(ctx[p]), chain)),
           TurnsOf(EntryOf(Theirs(p)).chain)
               \subseteq TurnsOf(chain) \cup Dropped(p),
           UNCHANGED <<refs, roots, entries>>
    PROVE  PlainOK(p)'
<1> DEFINE store == MergeStores(Base(p).store, OurStore(p),
                                EntryOf(Theirs(p)).store)
           d == Reread(ctx[p])
           c == Merged(p, d, chain)
<1>1. p \in Proc /\ ctx[p] \in Context /\ d \in Context /\ c \in Context
  BY OfProc, RereadOK, MergedOK DEF Plain, ContextOK
<1>2. /\ d.refsHead = refs /\ d.table = roots[refs].table
      /\ d.branch = ctx[p].branch
  BY <1>1 DEF Reread, Context
<1>3. /\ c.members = [m \in CtxMember |-> store[m]]
      /\ c.lists = [m \in ListMember |-> store[m]] /\ c.staged
      /\ c.chain = chain /\ c.branchPrev = Theirs(p)
      /\ c.refsHead = d.refsHead /\ c.table = d.table /\ c.branch = d.branch
  <2> HIDE DEF d
  <2> QED BY <1>1 DEF Merged, Context
<1>4. \A m \in Member \ asked[p].edits : OurStore(p)[m] = Base(p).store[m]
  BY <1>1 DEF PlainOK, StoreDerived
<1>5. \A m \in Member \ asked[p].edits : store[m] = EntryOf(Theirs(p)).store[m]
  BY <1>4, MergeTakesTheirs DEF MergeStores
<1> HIDE DEF c, d, store
<1>6. \A m \in Member \ asked[p].edits :
         (IF m \in CtxMember THEN c.members[m]
          ELSE IF c.staged THEN c.lists[m]
               ELSE EntryOf(c.branchPrev).store[m])
             = EntryOf(c.branchPrev).store[m]
  BY <1>3, <1>5 DEF Member
<1>7. /\ c.table = roots[c.refsHead].table
      /\ c.branchPrev = c.table[c.branch]
  BY <1>2, <1>3 DEF Theirs
<1> QED
  BY <1>1, <1>3, <1>6, <1>7, RetryPlainOK DEF c, d

(* Reconciling keeps the context derived from the new predecessor. *)
LEMMA ReconcilePlainOK ==
    ASSUME WellFormed, NEW p \in Plain, PlainOK(p),
           ReconcileOneSided(p) \/ ReconcileReplay(p)
    PROVE  PlainOK(p)'
<1>1. /\ p \in Proc /\ ctx[p].chain \in Chain
      /\ EntryOf(Theirs(p)).chain \in Chain
  BY OfProc, EntriesNamed DEF Plain, Context, Entry
<1>2. CASE ReconcileOneSided(p)
  <2>1. /\ ctx[p].pc = "lost" /\ ~(OurHeadMoved(p) /\ TheirHeadMoved(p))
        /\ Retry(p, Merged(p, Reread(ctx[p]), MovedHead(p)))
        /\ UNCHANGED <<refs, roots, entries>>
    BY <1>2 DEF ReconcileOneSided
  <2>2. MovedHead(p) \in Chain
    BY <1>1 DEF MovedHead
  <2>3. TurnsOf(Base(p).chain) \subseteq TurnsOf(ctx[p].chain) \cup Dropped(p)
    BY <2>1 DEF PlainOK, TurnsDerived
  <2>4. TurnsOf(EntryOf(Theirs(p)).chain)
            \subseteq TurnsOf(MovedHead(p)) \cup Dropped(p)
    <3>1. CASE OurHeadMoved(p)
      BY <2>1, <2>3, <3>1 DEF MovedHead, TheirHeadMoved
    <3>2. CASE ~OurHeadMoved(p)
      BY <3>2 DEF MovedHead
    <3> QED
      BY <3>1, <3>2
  <2> QED
    BY <2>1, <2>2, <2>4, MergedPlainOK
<1>3. CASE ReconcileReplay(p)
  <2> DEFINE j == JoinOntoHead(EntryOf(Theirs(p)).chain, ctx[p].chain)
  <2>1. /\ ctx[p].pc = "lost" /\ Retry(p, Merged(p, Reread(ctx[p]), j))
        /\ UNCHANGED <<refs, roots, entries>>
    BY <1>3 DEF ReconcileReplay
  <2>2. j \in Chain /\ TurnsOf(EntryOf(Theirs(p)).chain) \subseteq TurnsOf(j)
    BY <1>1, JoinOntoHeadKeepsTheirs
  <2> HIDE DEF j
  <2> QED
    BY <2>1, <2>2, MergedPlainOK
<1> QED
  BY <1>2, <1>3

(* The edit made again still differs from its root by itself alone. *)
LEMMA TableReapplyPlainOK ==
    ASSUME WellFormed, NEW p \in Plain, PlainOK(p), TableReapply(p)
    PROVE  PlainOK(p)'
<1> DEFINE want == DeltaApply(asked[p].base, asked[p].desired,
                              roots[refs].table)
           head == IF asked[p].movesHead THEN ctx[p].headBranch
                   ELSE roots[refs].HEAD
           c == [ctx[p] EXCEPT !.refsHead = refs, !.tries = @ + 1,
                               !.want = want, !.headBranch = head]
<1>1. p \in Proc /\ ctx[p] \in Context
  BY OfProc DEF Plain
<1>2. /\ ~TableConflicts(p) /\ UNCHANGED <<refs, roots, entries>>
      /\ IF c.tries < TableTries
         THEN /\ ctx' = [ctx EXCEPT ![p] = [c EXCEPT !.pc = "ttry"]]
              /\ UNCHANGED asked
         ELSE Settle(p, c, FALSE)
  BY DEF TableReapply
<1> HIDE DEF head
<1>3. CASE c.tries < TableTries
  <2>1. ctx'[p] = [c EXCEPT !.pc = "ttry"] /\ UNCHANGED asked
    BY <1>1, <1>2, <1>3 DEF WellFormed
  <2>2. ctx'[p].pc = "ttry" /\ ctx'[p].refsHead = refs /\ ctx'[p].want = want
    <3> HIDE DEF want
    <3> QED BY <1>1, <2>1 DEF Context
  <2>3. \A b \in Branch :
           IF asked[p].base[b] = asked[p].desired[b]
           THEN want[b] = roots[refs].table[b]
           ELSE /\ roots[refs].table[b] = asked[p].base[b]
                /\ want[b] = asked[p].desired[b]
    BY <1>2 DEF TableConflicts, DeltaConflicts, DeltaApply, Edited
  <2> HIDE DEF want, c
  <2>4. EditDerived(p)'
    BY <1>2, <2>1, <2>2, <2>3 DEF EditDerived
  <2>5. ~asked[p].inTurn
    BY DEF PlainOK
  <2> QED
    BY <2>1, <2>2, <2>4, <2>5 DEF PlainOK
<1>4. CASE ~(c.tries < TableTries)
  <2> HIDE DEF c
  <2> QED BY <1>2, <1>4, SettlePlainOK
<1> QED
  BY <1>3, <1>4

(* Every step of a plain process keeps it in step with its root. *)
LEMMA MoverPlainOK ==
    ASSUME WellFormed, NEW p \in Plain, PlainOK(p), ProcStep(p)
    PROVE  PlainOK(p)'
<1>1. CASE Exit(p) \/ \E b \in Branch : Open(p, b)
  BY <1>1, FinalStepPlainOK, OpenPlainOK
<1>2. CASE TurnStep(p)
  <2>1. ~Refresh(p)
    BY DEF Refresh, Plain
  <2> QED
    BY <1>2, <2>1, StartTurnPlainOK, FinalStepPlainOK, FinishTurnPlainOK
    DEF TurnStep
<1>3. CASE CommandStep(p)
  <2>1. ~\E m \in ListMember, v \in Stored : WriteList(p, m, v)
    BY DEF WriteList, Plain
  <2> QED
    BY <1>3, <2>1, SetMemberPlainOK, ClearResetPlainOK, CheckoutPlainOK
    DEF CommandStep
<1>4. CASE TableStep(p)
  BY <1>4, TableStepPlainOK
<1>5. CASE PublishStep(p)
  <2>1. CASE \/ PublishNothing(p) \/ PublishWon(p) \/ ReconcileRefuse(p)
             \/ TableWon(p) \/ TableRefuse(p)
    BY <2>1, FinalStepPlainOK
  <2>2. CASE PublishLost(p) \/ TableLost(p)
    BY <2>2, LostPlainOK
  <2>3. CASE \/ ReconcileUnmoved(p) \/ ReconcileOneSided(p)
             \/ ReconcileReplay(p)
    BY <2>3, ReconcileUnmovedPlainOK, ReconcilePlainOK
  <2>4. CASE TableReapply(p)
    BY <2>4, TableReapplyPlainOK
  <2> QED
    BY <1>5, <2>1, <2>2, <2>3, <2>4 DEF PublishStep
<1> QED
  BY <1>1, <1>2, <1>3, <1>4, <1>5 DEF ProcStep

-------------------------------------------------------------------------------
(* The invariant, and what a publish of a plain process may do.  *)

(* What every process publishes derives from what it read by its command.  *)
THEOREM AlwaysIInv == Spec => []IInv
<1>1. Init => IInv
  <2> SUFFICES ASSUME Init PROVE IInv
    OBVIOUS
  <2>1. \A p \in Plain : PlainOK(p)
    BY DEF Init, PlainOK, Closed, NoAsk, Plain
  <2> QED
    BY <2>1, InitWellFormed DEF IInv
<1>2. IInv /\ [Next]_vars => IInv'
  <2> SUFFICES ASSUME IInv, [Next]_vars PROVE IInv'
    OBVIOUS
  <2>1. WellFormed /\ \A p \in Plain : PlainOK(p)
    BY DEF IInv
  <2>2. CASE Next
    <3>1. PICK q \in Proc : ProcStep(q)
      BY <2>2 DEF Next
    <3>2. WellFormed'
      BY <2>1, <3>1, ProcStepWellFormed
    <3>3. ASSUME NEW p \in Plain PROVE PlainOK(p)'
      <4>1. CASE p = q
        BY <2>1, <3>1, <4>1, MoverPlainOK
      <4>2. CASE p # q
        <5>1. OthersKept(q) /\ ArenaGrows
          BY <2>1, <3>1, StepShape
        <5>2. ctx'[p] = ctx[p] /\ asked'[p] = asked[p]
          BY <4>2, <5>1 DEF OthersKept, Plain
        <5> QED
          BY <2>1, <5>1, <5>2, OtherPlainOK
      <4> QED
        BY <4>1, <4>2
    <3> QED
      BY <3>2, <3>3 DEF IInv
  <2>3. CASE UNCHANGED vars
    <3>1. WellFormed' /\ ArenaGrows
      BY <2>1, <2>3, KeptGrows DEF vars, WellFormed, ArenaOK, ArenaGrows
    <3>2. \A p \in Plain : PlainOK(p)'
      BY <2>1, <2>3, <3>1, OtherPlainOK DEF vars
    <3> QED
      BY <3>1, <3>2 DEF IInv
  <2> QED
    BY <2>2, <2>3
<1> QED
  BY <1>1, <1>2, PTL DEF Spec

(* The table and the predecessor of a plain process are those of the root  *)
(* it will compare with: what it reads and what it replaces is one state.  *)
THEOREM AlwaysInStep == Spec => []InStep
<1>1. IInv => InStep
  BY DEF IInv, PlainOK, InStepAt, InStep
<1> QED
  BY <1>1, AlwaysIInv, PTL

(* A root is written by a compare-and-set that wins, and by nothing else. *)
LEMMA WriteIsWon ==
    ASSUME IInv, [Next]_vars, NEW p \in Plain, NEW pc \in {"try", "ttry"},
           Writes(p, pc)
    PROVE  IF pc = "try" THEN PublishWon(p) ELSE TableWon(p)
<1>1. WellFormed /\ p \in Proc
  BY DEF IInv, Plain
<1>2. roots' # roots /\ ctx'[p] # ctx[p] /\ ctx[p].pc = pc
  BY DEF Writes
<1>3. PICK q \in Proc : ProcStep(q)
  BY <1>2 DEF Next, vars
<1>4. OthersKept(q) /\ (PublishWon(q) \/ TableWon(q))
  BY <1>1, <1>2, <1>3, StepShape
<1>5. q = p
  BY <1>1, <1>2, <1>4 DEF OthersKept
<1> QED
  BY <1>2, <1>4, <1>5 DEF PublishWon, MayTry, TableWon

(* What the root a plain process writes names for its branch, and what it  *)
(* replaces: the entry of its command, built from the entry in force.      *)
LEMMA WonWrites ==
    ASSUME IInv, NEW p \in Plain, PublishWon(p)
    PROVE  /\ Written(p) = OurEntry(p)
           /\ Theirs(p) = ctx[p].branchPrev /\ EntryOf(Theirs(p)) = Base(p)
           /\ TurnsDerived(p) /\ StoreDerived(p)
           /\ \A b \in Branch \ {ctx[p].branch} :
                 roots'[refs'].table[b] = roots[refs].table[b]
<1> DEFINE e == Len(entries) + 1
           table == [ctx[p].table EXCEPT ![ctx[p].branch] = e]
<1>1. WellFormed /\ p \in Proc /\ PlainOK(p)
  BY DEF IInv, Plain
<1>2. /\ ctx[p].pc = "try" /\ Advance(p, table, ctx[p].headBranch)
      /\ entries' = Append(entries, OurEntry(p))
  BY DEF PublishWon, MayTry
<1>3. /\ ctx[p].table \in Table /\ ctx[p].branch \in Branch
      /\ entries \in Seq(Entry)
  BY <1>1, OfProc DEF Context, WellFormed, ArenaOK
<1>4. refs = ctx[p].refsHead /\ roots'[refs'].table = table
  <2> HIDE DEF table
  <2> QED BY <1>1, <1>2, AdvanceGrows
<1>5. InStepAt(p) /\ TurnsDerived(p) /\ StoreDerived(p)
  BY <1>1, <1>2 DEF PlainOK
<1>6. ctx[p].table = roots[refs].table /\ Theirs(p) = ctx[p].branchPrev
  BY <1>4, <1>5 DEF InStepAt, Theirs
<1>7. entries'[e] = OurEntry(p)
  BY <1>2, <1>3
<1>8. Written(p) = OurEntry(p)
  BY <1>3, <1>4, <1>7 DEF Written, Table
<1>9. \A b \in Branch \ {ctx[p].branch} :
         roots'[refs'].table[b] = roots[refs].table[b]
  BY <1>3, <1>4, <1>6 DEF Table
<1> QED
  BY <1>5, <1>6, <1>8, <1>9 DEF Base

(* No turn another process published is dropped by a publish of a process  *)
(* that read the branch and ran one command.                               *)
THEOREM KeepsTurns == Spec => PlainKeepsTurns
<1>1. IInv /\ [Next]_vars => [\A p \in Plain : WriteKeepsTurns(p)]_vars
  <2> SUFFICES ASSUME IInv, [Next]_vars, NEW p \in Plain, Writes(p, "try")
               PROVE  TurnsOf(EntryOf(Theirs(p)).chain)
                          \subseteq TurnsOf(Written(p).chain) \cup Dropped(p)
    BY DEF WriteKeepsTurns
  <2>1. PublishWon(p)
    BY WriteIsWon
  <2> QED
    BY <2>1, WonWrites DEF TurnsDerived, OurEntry
<1> QED
  BY <1>1, AlwaysIInv, PTL DEF Spec, PlainKeepsTurns

(* A publish of such a process changes no store member that its command    *)
(* did not set, though the store is merged with that of the root that won. *)
THEOREM KeepsStore == Spec => PlainKeepsStore
<1>1. IInv /\ [Next]_vars => [\A p \in Plain : WriteKeepsStore(p)]_vars
  <2> SUFFICES ASSUME IInv, [Next]_vars, NEW p \in Plain, Writes(p, "try"),
                      NEW m \in Member \ asked[p].edits
               PROVE  Written(p).store[m] = EntryOf(Theirs(p)).store[m]
    BY DEF WriteKeepsStore
  <2>1. PublishWon(p)
    BY WriteIsWon
  <2> QED
    BY <2>1, WonWrites DEF StoreDerived, OurEntry
<1> QED
  BY <1>1, AlwaysIInv, PTL DEF Spec, PlainKeepsStore

(* The entry such a process writes is linked to the entry it replaces, so  *)
(* the ref log of a branch names every head it had.                        *)
THEOREM KeepsReflog == Spec => PlainKeepsReflog
<1>1. IInv /\ [Next]_vars => [\A p \in Plain : WriteKeepsReflog(p)]_vars
  <2> SUFFICES ASSUME IInv, [Next]_vars, NEW p \in Plain, Writes(p, "try")
               PROVE  Written(p).prev = Theirs(p)
    BY DEF WriteKeepsReflog
  <2>1. PublishWon(p)
    BY WriteIsWon
  <2> QED
    BY <2>1, WonWrites DEF OurEntry
<1> QED
  BY <1>1, AlwaysIInv, PTL DEF Spec, PlainKeepsReflog

(* A publish of such a process keeps every other branch by reference.      *)
THEOREM KeepsBranches == Spec => PlainKeepsBranches
<1>1. IInv /\ [Next]_vars => [\A p \in Plain : WriteKeepsBranches(p)]_vars
  <2> SUFFICES ASSUME IInv, [Next]_vars, NEW p \in Plain, Writes(p, "try"),
                      NEW b \in Branch \ {ctx[p].branch}
               PROVE  roots'[refs'].table[b] = roots[refs].table[b]
    BY DEF WriteKeepsBranches
  <2>1. PublishWon(p)
    BY WriteIsWon
  <2> QED
    BY <2>1, WonWrites
<1> QED
  BY <1>1, AlwaysIInv, PTL DEF Spec, PlainKeepsBranches

(* A published table edit changes the names it was asked to change, none   *)
(* of which another process changed meanwhile, and no other.               *)
THEOREM EditsExactly == Spec => TableEditIsExact
<1> DEFINE Exact(p) ==
        Writes(p, "ttry") =>
            LET a == asked[p] IN
            \A b \in Branch :
                IF a.base[b] = a.desired[b]
                THEN roots'[refs'].table[b] = roots[refs].table[b]
                ELSE /\ roots[refs].table[b] = a.base[b]
                     /\ roots'[refs'].table[b] = a.desired[b]
<1>1. IInv /\ [Next]_vars => [\A p \in Plain : Exact(p)]_vars
  <2> SUFFICES ASSUME IInv, [Next]_vars, NEW p \in Plain, Writes(p, "ttry")
               PROVE  Exact(p)
    OBVIOUS
  <2>1. TableWon(p) /\ WellFormed /\ PlainOK(p)
    BY WriteIsWon DEF IInv
  <2>2. ctx[p].pc = "ttry" /\ Advance(p, ctx[p].want, ctx[p].headBranch)
    BY <2>1 DEF TableWon
  <2>3. refs = ctx[p].refsHead /\ roots'[refs'].table = ctx[p].want
    BY <2>1, <2>2, AdvanceGrows
  <2>4. EditDerived(p)
    BY <2>1, <2>2 DEF PlainOK
  <2> QED
    BY <2>3, <2>4 DEF EditDerived
<1> QED
  BY <1>1, AlwaysIInv, PTL DEF Spec, TableEditIsExact


-------------------------------------------------------------------------------
(* Conversations.  What a step writes or holds is a conversation that was  *)
(* written or held before it, but for the turn of a run and a replay.      *)

EntriesIn(C) == \A e \in 1 .. Len(entries) : entries[e].chain \in C
HeldIn(p, C) == ctx[p].chain \in C /\ asked[p].view \in C

(* The conversation of an entry is among those written. *)
LEMMA EntryChainIn ==
    ASSUME NEW C, <<>> \in C, EntriesIn(C), NEW e \in Nat, e <= Len(entries)
    PROVE  EntryOf(e).chain \in C
BY DEF EntriesIn, EntryOf, EmptyEntry, NoEntry

(* An entry appended is among those written. *)
LEMMA EntryChainAdded ==
    ASSUME WellFormed, NEW C, EntriesIn(C), NEW x,
           entries' = Append(entries, x), x.chain \in C
    PROVE  EntriesIn(C)'
<1>1. entries \in Seq(Entry) /\ Len(entries) \in Nat
  BY DEF WellFormed, ArenaOK
<1>2. /\ Len(entries') = Len(entries) + 1
      /\ \A e \in 1 .. Len(entries) : entries'[e] = entries[e]
      /\ entries'[Len(entries) + 1] = x
  BY <1>1
<1>3. ASSUME NEW e \in 1 .. Len(entries')
      PROVE  entries'[e].chain \in C
  <2>1. CASE e \in 1 .. Len(entries)
    BY <1>2, <2>1 DEF EntriesIn
  <2>2. CASE e = Len(entries) + 1
    BY <1>2, <2>2
  <2> QED
    BY <1>1, <1>2, <2>1, <2>2
<1> QED
  BY <1>3 DEF EntriesIn

(* The end of a publish keeps the conversation, or closes it. *)
LEMMA SettleChains ==
    ASSUME WellFormed, NEW p \in Proc, NEW c \in Context, NEW ok,
           Settle(p, c, ok)
    PROVE  /\ ctx'[p].chain \in {c.chain, <<>>}
           /\ asked'[p].view \in {asked[p].view, <<>>}
<1> DEFINE next == [c EXCEPT !.staged = FALSE, !.tries = 0, !.want = NoTable,
                             !.lists = Closed.lists]
<1>1. asked[p] \in Asked
  BY OfProc
<1>2. next.chain = c.chain
  BY DEF Context
<1>3. \A pc : [next EXCEPT !.pc = pc].chain = next.chain
  BY DEF Context
<1>4. CASE asked[p].inTurn
  <2>1. /\ ctx'[p] = [next EXCEPT !.pc = "turn"]
        /\ asked'[p] = [asked[p] EXCEPT !.cmd = "turn", !.edits = {},
                                        !.inTurn = FALSE]
    BY <1>4 DEF Settle, WellFormed
  <2>2. asked'[p].view = asked[p].view
    BY <1>1, <2>1 DEF Asked
  <2>3. ctx'[p].chain = c.chain
    <3> HIDE DEF next
    <3> QED BY <1>2, <1>3, <2>1
  <2> QED
    BY <2>2, <2>3
<1>5. CASE ~asked[p].inTurn
  <2>1. /\ ctx'[p] = [next EXCEPT !.pc = "idle"] \/ ctx'[p] = Closed
        /\ asked'[p] = NoAsk
    BY <1>5 DEF Settle, WellFormed
  <2>2. ctx'[p].chain = c.chain \/ ctx'[p].chain = <<>>
    <3>1. Closed.chain = <<>>
      BY DEF Closed
    <3> HIDE DEF next
    <3> QED BY <1>2, <1>3, <2>1, <3>1
  <2> QED
    BY <2>1, <2>2 DEF NoAsk
<1> QED
  BY <1>4, <1>5

(* So does a retry. *)
LEMMA RetryChains ==
    ASSUME WellFormed, NEW p \in Proc, NEW c \in Context, Retry(p, c)
    PROVE  /\ ctx'[p].chain \in {c.chain, <<>>}
           /\ asked'[p].view \in {asked[p].view, <<>>}
<1>1. CASE c.tries < StateTries
  <2>1. ctx'[p] = [c EXCEPT !.pc = "try"] /\ UNCHANGED asked
    BY <1>1 DEF Retry, WellFormed
  <2> QED
    BY <2>1 DEF Context
<1>2. CASE ~(c.tries < StateTries)
  BY <1>2, SettleChains DEF Retry
<1> QED
  BY <1>1, <1>2

(* Steps that open, end or begin a run, and the turns of a run. *)
LEMMA RunChains ==
    ASSUME WellFormed, NEW p \in Proc, NEW C,
           <<>> \in C, <<Sys>> \in C, EntriesIn(C), HeldIn(p, C),
           \/ Exit(p) \/ \E b \in Branch : Open(p, b)
           \/ TurnStep(p),
           FinishTurn(p) => Append(asked[p].view, issued + 1) \in C
    PROVE  EntriesIn(C)' /\ HeldIn(p, C)'
<1>1. ctx[p] \in Context /\ asked[p] \in Asked /\ UNCHANGED entries
  BY OfProc DEF Exit, Open, TurnStep, StartTurn, FailTurn, FinishTurn, Refresh
<1>2. EntriesIn(C)'
  BY <1>1 DEF EntriesIn
<1>3. NoAsk.view = <<>> /\ Closed.chain = <<>>
  BY DEF NoAsk, Closed
<1>4. CASE Exit(p)
  BY <1>2, <1>3, <1>4 DEF Exit, HeldIn, WellFormed
<1>5. ASSUME NEW b \in Branch, Open(p, b) PROVE HeldIn(p, C)'
  <2>1. ctx'[p].chain = EntryOf(roots[refs].table[b]).chain /\ UNCHANGED asked
    BY <1>5 DEF Open, Adopted, Closed, WellFormed
  <2>2. roots[refs].table[b] \in Nat /\ roots[refs].table[b] <= Len(entries)
    BY OfProc, RootOfType DEF WellFormed, Table, Within
  <2> QED
    BY <2>1, <2>2, EntryChainIn DEF HeldIn
<1>6. CASE StartTurn(p)
  <2>1. Seeded(ctx[p].chain) \in C
    BY DEF Seeded, HeldIn
  <2>2. PICK s : s = Seeded(ctx[p].chain)
    OBVIOUS
  <2>3. /\ ctx'[p] = [ctx[p] EXCEPT !.pc = "turn", !.chain = s]
        /\ asked'[p] = [NoAsk EXCEPT !.cmd = "turn", !.view = s]
    BY <1>6, <2>2 DEF StartTurn, WellFormed
  <2>4. ctx'[p].chain = s /\ asked'[p].view = s
    BY <1>1, <2>3 DEF Context, NoAsk
  <2> QED
    BY <1>2, <2>1, <2>2, <2>4 DEF HeldIn
<1>7. CASE FailTurn(p)
  <2>1. ctx'[p] = [ctx[p] EXCEPT !.pc = "idle"] \/ ctx'[p] = Closed
    BY <1>7 DEF FailTurn, WellFormed
  <2>2. ctx'[p].chain \in {ctx[p].chain, <<>>}
    BY <1>1, <1>3, <2>1 DEF Context
  <2>3. asked'[p] = NoAsk
    BY <1>7 DEF FailTurn, WellFormed
  <2> QED
    BY <1>2, <1>3, <2>2, <2>3 DEF HeldIn
<1>8. CASE FinishTurn(p)
  <2>1. PICK s : s = Append(asked[p].view, issued + 1)
    OBVIOUS
  <2>2. /\ ctx'[p] = [ctx[p] EXCEPT !.pc = "try", !.chain = s]
        /\ asked'[p] = [asked[p] EXCEPT !.since = ctx[p].refsHead]
    BY <1>8, <2>1 DEF FinishTurn, WellFormed
  <2>3. ctx'[p].chain = s /\ asked'[p].view = asked[p].view
    BY <1>1, <2>2 DEF Context, Asked
  <2> QED
    BY <1>2, <1>8, <2>1, <2>3 DEF HeldIn
<1>9. CASE Refresh(p)
  <2>1. ctx'[p] = [ctx[p] EXCEPT !.refsHead = refs,
                                 !.table = roots[refs].table,
                                 !.branchPrev = Theirs(p)]
        /\ UNCHANGED asked
    BY <1>9 DEF Refresh, WellFormed
  <2>2. ctx'[p].chain = ctx[p].chain
    BY <1>1, <2>1 DEF Context
  <2> QED
    BY <1>2, <2>1, <2>2 DEF HeldIn
<1> QED
  BY <1>2, <1>4, <1>5, <1>6, <1>7, <1>8, <1>9 DEF TurnStep

(* Commands take a conversation that is written, or an empty one. *)
LEMMA CommandChains ==
    ASSUME WellFormed, NEW p \in Proc, NEW C,
           <<>> \in C, <<Sys>> \in C, EntriesIn(C), HeldIn(p, C),
           CommandStep(p)
    PROVE  EntriesIn(C)' /\ HeldIn(p, C)'
<1>1. ctx[p] \in Context /\ asked[p] \in Asked /\ UNCHANGED entries
  BY OfProc DEF CommandStep, SetMember, WriteList, Clear, Reset, Checkout
<1>2. EntriesIn(C)'
  BY <1>1 DEF EntriesIn
<1>3. ASSUME NEW cmd, NEW edits, Ask(p, cmd, edits)
      PROVE  asked'[p].view = ctx[p].chain
  BY <1>3 DEF Ask, NoAsk, WellFormed
<1>4. ASSUME NEW m, NEW v, SetMember(p, m, v) PROVE HeldIn(p, C)'
  <2>1. ctx'[p].chain = ctx[p].chain /\ asked'[p].view = ctx[p].chain
    BY <1>1, <1>3, <1>4 DEF SetMember, Context, WellFormed
  <2> QED
    BY <2>1 DEF HeldIn
<1>5. ASSUME NEW m, NEW v, WriteList(p, m, v) PROVE HeldIn(p, C)'
  <2>1. PICK l : ctx'[p] = [ctx[p] EXCEPT !.pc = "try", !.staged = TRUE,
                                          !.lists = l]
    BY <1>5 DEF WriteList, WellFormed
  <2>2. asked'[p] = [asked[p] EXCEPT !.cmd = "list", !.edits = {m},
                        !.inTurn = TRUE, !.since = ctx[p].refsHead]
    BY <1>5 DEF WriteList, WellFormed
  <2>3. ctx'[p].chain = ctx[p].chain /\ asked'[p].view = asked[p].view
    BY <1>1, <2>1, <2>2 DEF Context, Asked
  <2> QED
    BY <2>3 DEF HeldIn
<1>6. CASE Clear(p) \/ Reset(p)
  <2>1. Before(p).chain \in C
    <3> DEFINE last == EntryOf(ctx[p].table[ctx[p].branch])
    <3>1. last \in Entry /\ last.prev <= Len(entries)
      BY BeforeType, EntryOfType DEF WellFormed
    <3>2. last.prev \in Nat
      BY <3>1 DEF Entry
    <3> QED
      BY <3>1, <3>2, EntryChainIn DEF Before
  <2>2. PICK s \in C : ctx'[p] = [ctx[p] EXCEPT !.pc = "try", !.chain = s]
    BY <1>6, <2>1 DEF Clear, Reset, WellFormed
  <2>3. ctx'[p].chain = s
    BY <1>1, <2>2 DEF Context
  <2>4. asked'[p].view = ctx[p].chain
    BY <1>3, <1>6 DEF Clear, Reset
  <2> QED
    BY <1>2, <2>3, <2>4 DEF HeldIn
<1>7. ASSUME NEW b \in Branch, Checkout(p, b) PROVE HeldIn(p, C)'
  <2> DEFINE d == Adopted(ctx[p], b)
  <2>1. d.chain = EntryOf(ctx[p].table[b]).chain /\ d \in Context
    BY <1>1, OfProc, AdoptedOK DEF Adopted, Context, ContextOK
  <2>2. ctx[p].table[b] \in Nat /\ ctx[p].table[b] <= Len(entries)
    BY OfProc DEF ContextOK, Context, Within, Table
  <2>3. d.chain \in C
    BY <2>1, <2>2, EntryChainIn
  <2>4. ctx'[p] = [d EXCEPT !.pc = "try", !.headBranch = b]
    BY <1>7 DEF Checkout, WellFormed
  <2>5. asked'[p].view = ctx[p].chain
    BY <1>3, <1>7 DEF Checkout
  <2> HIDE DEF d
  <2>6. ctx'[p].chain = d.chain
    BY <2>1, <2>4 DEF Context
  <2> QED
    BY <2>3, <2>5, <2>6 DEF HeldIn
<1> QED
  BY <1>2, <1>4, <1>5, <1>6, <1>7 DEF CommandStep

(* A table edit takes the conversation of the entry it starts from. *)
LEMMA TableChains ==
    ASSUME WellFormed, NEW p \in Proc, NEW C,
           <<>> \in C, EntriesIn(C), HeldIn(p, C), TableStep(p)
    PROVE  EntriesIn(C)' /\ HeldIn(p, C)'
<1>1. ctx[p] \in Context /\ ctx[p].table \in Table
  BY OfProc DEF Context
<1>2. ASSUME NEW cmd, NEW desired, NEW branch, NEW head,
             EditTable(p, cmd, desired, branch, head)
      PROVE  HeldIn(p, C)'
  <2>1. PICK prev : ctx'[p] = [ctx[p] EXCEPT !.pc = "ttry", !.want = desired,
                            !.branch = branch, !.headBranch = head,
                            !.branchPrev = prev]
    BY <1>2 DEF EditTable, WellFormed
  <2>2. ctx'[p].chain = ctx[p].chain
    BY <1>1, <2>1 DEF Context
  <2>3. asked'[p].view = <<>>
    BY <1>2 DEF EditTable, AskTable, NoAsk, WellFormed
  <2> QED
    BY <2>2, <2>3 DEF HeldIn
<1>3. ASSUME NEW x, x \in Entry, NEW y, y.chain = x.chain, x.chain \in C,
             entries' = Append(entries, y)
      PROVE  EntriesIn(C)'
  BY <1>3, EntryChainAdded
<1>4. ASSUME NEW b \in Branch, ctx[p].table[b] # NoEntry
      PROVE  /\ entries[ctx[p].table[b]] \in Entry
             /\ entries[ctx[p].table[b]].chain \in C
  BY <1>4, TableEntryOK DEF EntriesIn
<1>5. ctx[p].branch \in Branch
  BY <1>1 DEF Context
<1>6. ASSUME NEW x \in Entry, NEW n, NEW m, NEW v
      PROVE  /\ [x EXCEPT !.prev = n].chain = x.chain
             /\ [x EXCEPT !.store[m] = v, !.prev = n].chain = x.chain
  BY DEF Entry
<1>7. ASSUME NEW b \in Branch, CreateBranch(p, b)
      PROVE  EntriesIn(C)' /\ HeldIn(p, C)'
  BY <1>2, <1>3, <1>4, <1>5, <1>6, <1>7 DEF CreateBranch
<1>8. ASSUME NEW b \in Branch, DeleteBranch(p, b)
      PROVE  EntriesIn(C)' /\ HeldIn(p, C)'
  BY <1>2, <1>8 DEF DeleteBranch, EntriesIn
<1>9. ASSUME NEW from \in Branch, NEW to \in Branch, RenameBranch(p, from, to)
      PROVE  EntriesIn(C)' /\ HeldIn(p, C)'
  <2>1. EntriesIn(C)'
    <3>1. CASE from = ctx[p].branch
      BY <1>9, <3>1 DEF RenameBranch, EntriesIn
    <3>2. CASE from # ctx[p].branch
      BY <1>3, <1>4, <1>6, <1>9, <3>2 DEF RenameBranch
    <3> QED
      BY <3>1, <3>2
  <2> QED
    BY <1>2, <1>9, <2>1 DEF RenameBranch
<1>10. ASSUME NEW b \in Branch, NEW m, NEW v, DescribeBranch(p, b, m, v)
       PROVE  EntriesIn(C)' /\ HeldIn(p, C)'
  <2> DEFINE x == entries[ctx[p].table[b]]
             y == [x EXCEPT !.store[m] = v, !.prev = ctx[p].table[b]]
  <2>1. x \in Entry /\ x.chain \in C
    BY <1>4, <1>10 DEF DescribeBranch
  <2>2. entries' = Append(entries, y)
    BY <1>10 DEF DescribeBranch
  <2>3. y.chain = x.chain
    BY <1>6, <2>1
  <2>4. HeldIn(p, C)'
    BY <1>2, <1>10 DEF DescribeBranch
  <2> HIDE DEF x, y
  <2> QED
    BY <1>3, <2>1, <2>2, <2>3, <2>4
<1> QED
  BY <1>7, <1>8, <1>9, <1>10 DEF TableStep

(* A publish writes the conversation of its context, and a lost one takes  *)
(* theirs, ours, or a replay of ours onto theirs.                          *)
LEMMA PublishChains ==
    ASSUME WellFormed, NEW p \in Proc, NEW C,
           <<>> \in C, EntriesIn(C), HeldIn(p, C), PublishStep(p),
           ReconcileReplay(p) =>
               JoinOntoHead(EntryOf(Theirs(p)).chain, ctx[p].chain) \in C
    PROVE  EntriesIn(C)' /\ HeldIn(p, C)'
<1>1. ctx[p] \in Context /\ asked[p] \in Asked
  BY OfProc
<1>2. UNCHANGED entries => EntriesIn(C)'
  BY DEF EntriesIn
<1>3. ASSUME NEW c \in Context, c.chain \in C,
             Retry(p, c) \/ \E ok : Settle(p, c, ok)
      PROVE  HeldIn(p, C)'
  BY <1>3, RetryChains, SettleChains DEF HeldIn
<1>4. CASE PublishNothing(p)
  BY <1>1, <1>2, <1>3, <1>4 DEF PublishNothing, HeldIn
<1>5. CASE PublishWon(p)
  <2> DEFINE e == Len(entries) + 1
             table == [ctx[p].table EXCEPT ![ctx[p].branch] = e]
             c == [ctx[p] EXCEPT !.refsHead = Len(roots) + 1, !.table = table,
                                 !.branchPrev = e]
  <2>1. c \in Context
    <3>1. Len(roots) + 1 \in Nat /\ Len(entries) + 1 \in Nat
      BY OfProc
    <3>2. table \in Table
      BY <1>1, <3>1 DEF Context, Table
    <3> HIDE DEF table
    <3> QED BY <1>1, <3>1, <3>2 DEF Context
  <2>2. c.chain = ctx[p].chain
    BY <1>1 DEF Context
  <2>3. Settle(p, c, TRUE) /\ entries' = Append(entries, OurEntry(p))
    BY <1>5 DEF PublishWon
  <2>4. OurEntry(p).chain \in C
    BY DEF OurEntry, HeldIn
  <2>5. EntriesIn(C)'
    BY <2>3, <2>4, EntryChainAdded
  <2> HIDE DEF c
  <2> QED
    BY <1>3, <2>1, <2>2, <2>3, <2>5 DEF HeldIn
<1>6. CASE PublishLost(p) \/ TableLost(p)
  <2>1. PICK pc : ctx'[p] = [ctx[p] EXCEPT !.pc = pc]
    BY <1>6 DEF PublishLost, TableLost, WellFormed
  <2>2. ctx'[p].chain = ctx[p].chain
    BY <1>1, <2>1 DEF Context
  <2> QED
    BY <1>2, <1>6, <2>2 DEF PublishLost, TableLost, HeldIn
<1>7. Reread(ctx[p]) \in Context /\ Reread(ctx[p]).chain = ctx[p].chain
  BY <1>1, RereadOK DEF Reread, Context
<1>8. Theirs(p) \in Nat /\ EntryOf(Theirs(p)).chain \in C
  BY EntriesNamed, EntryChainIn
<1>9. CASE ReconcileUnmoved(p) \/ ReconcileRefuse(p)
  BY <1>2, <1>3, <1>7, <1>9 DEF ReconcileUnmoved, ReconcileRefuse, HeldIn
<1>10. ASSUME NEW chain \in Chain
       PROVE  /\ Merged(p, Reread(ctx[p]), chain) \in Context
              /\ Merged(p, Reread(ctx[p]), chain).chain = chain
  <2>1. Merged(p, Reread(ctx[p]), chain) \in Context
    BY <1>10, RereadOK, MergedOK DEF ContextOK
  <2>2. PICK d \in Context : d = Reread(ctx[p])
    BY <1>7
  <2>3. Merged(p, d, chain).chain = chain
    BY DEF Merged, Context
  <2> QED
    BY <2>1, <2>2, <2>3
<1>11. CASE ReconcileOneSided(p)
  <2>1. MovedHead(p) \in C /\ MovedHead(p) \in Chain
    BY <1>1, <1>8, EntriesNamed DEF MovedHead, HeldIn, Context, Entry
  <2> QED
    BY <1>2, <1>3, <1>10, <1>11, <2>1 DEF ReconcileOneSided
<1>12. CASE ReconcileReplay(p)
  <2>1. JoinOntoHead(EntryOf(Theirs(p)).chain, ctx[p].chain) \in Chain
    BY <1>1, EntriesNamed, JoinOntoHeadKeepsTheirs DEF Context, Entry
  <2> QED
    BY <1>2, <1>3, <1>10, <1>12, <2>1 DEF ReconcileReplay
<1>13. CASE TableWon(p)
  <2> DEFINE c == [ctx[p] EXCEPT !.refsHead = Len(roots) + 1,
                                 !.table = ctx[p].want]
  <2>1. c \in Context /\ c.chain = ctx[p].chain
    <3>1. Len(roots) + 1 \in Nat /\ ctx[p].want \in Table
      BY <1>1, OfProc DEF Context
    <3> QED BY <1>1, <3>1 DEF Context
  <2> HIDE DEF c
  <2>2. Settle(p, c, TRUE) /\ UNCHANGED entries
    BY <1>13 DEF TableWon, c
  <2> QED
    BY <1>2, <1>3, <2>1, <2>2 DEF HeldIn
<1>14. CASE TableReapply(p)
  <2> DEFINE want == DeltaApply(asked[p].base, asked[p].desired,
                                roots[refs].table)
             head == IF asked[p].movesHead THEN ctx[p].headBranch
                     ELSE roots[refs].HEAD
             c == [ctx[p] EXCEPT !.refsHead = refs, !.tries = @ + 1,
                                 !.want = want, !.headBranch = head]
  <2>1. c \in Context /\ c.chain = ctx[p].chain
    <3>1. want \in Table /\ head \in Branch /\ refs \in Nat
      BY <1>1, OfProc, RootOfType, DeltaApplyType
      DEF WellFormed, Asked, AskedOK, Context
    <3>2. ctx[p].tries + 1 \in Nat
      BY <1>1 DEF Context
    <3> HIDE DEF want, head
    <3> QED BY <1>1, <3>1, <3>2 DEF Context
  <2>2. IF c.tries < TableTries
        THEN /\ ctx' = [ctx EXCEPT ![p] = [c EXCEPT !.pc = "ttry"]]
             /\ UNCHANGED asked
        ELSE Settle(p, c, FALSE)
    BY <1>14 DEF TableReapply
  <2>3. UNCHANGED entries
    BY <1>14 DEF TableReapply
  <2> HIDE DEF c
  <2>4. CASE c.tries < TableTries
    <3>1. ctx'[p] = [c EXCEPT !.pc = "ttry"] /\ UNCHANGED asked
      BY <2>2, <2>4 DEF WellFormed
    <3>2. ctx'[p].chain = c.chain
      BY <2>1, <3>1 DEF Context
    <3> QED
      BY <1>2, <2>1, <2>3, <3>1, <3>2 DEF HeldIn
  <2>5. CASE ~(c.tries < TableTries)
    BY <1>2, <1>3, <2>1, <2>2, <2>3, <2>5 DEF HeldIn
  <2> QED
    BY <2>4, <2>5
<1>15. CASE TableRefuse(p)
  <2> DEFINE c == [ctx[p] EXCEPT !.refsHead = refs]
  <2>1. c \in Context /\ c.chain = ctx[p].chain
    BY <1>1, NewRefsOK DEF ContextOK, Context
  <2> HIDE DEF c
  <2>2. Settle(p, c, FALSE) /\ UNCHANGED entries
    BY <1>15 DEF TableRefuse, c
  <2> QED
    BY <1>2, <1>3, <2>1, <2>2 DEF HeldIn
<1> QED
  BY <1>4, <1>5, <1>6, <1>9, <1>11, <1>12, <1>13, <1>14, <1>15
  DEF PublishStep

(* All steps together. *)
LEMMA StepChains ==
    ASSUME WellFormed, NEW p \in Proc, ProcStep(p), NEW C,
           <<>> \in C, <<Sys>> \in C, EntriesIn(C), HeldIn(p, C),
           FinishTurn(p) => Append(asked[p].view, issued + 1) \in C,
           ReconcileReplay(p) =>
               JoinOntoHead(EntryOf(Theirs(p)).chain, ctx[p].chain) \in C
    PROVE  EntriesIn(C)' /\ HeldIn(p, C)'
BY RunChains, CommandChains, TableChains, PublishChains DEF ProcStep

-------------------------------------------------------------------------------
(* A step of a plain process, by what it does to the conversation.  *)

Opened(p) ==
    ctx'[p].pc = "idle" /\ ctx'[p].chain = Base(p)'.chain

TurnBegun(p) ==
    /\ ctx[p].pc = "idle" /\ ctx'[p].pc = "turn" /\ asked'[p].cmd = "turn"
    /\ asked'[p].view = Seeded(ctx[p].chain) /\ Base(p)' = Base(p)

TurnDone(p) ==
    /\ ctx[p].pc = "turn" /\ ctx'[p].pc = "try"
    /\ ctx'[p].chain = Append(asked[p].view, issued + 1)
    /\ asked'[p].cmd = asked[p].cmd /\ asked'[p].view = asked[p].view
    /\ asked'[p].edits = asked[p].edits
    /\ Base(p)' = Base(p)

Commanded(p) ==
    /\ ctx[p].pc = "idle" /\ ctx'[p].pc = "try" /\ asked'[p].cmd # "turn"
    /\ \/ /\ ctx'[p].chain = ctx[p].chain /\ Base(p)' = Base(p)
          /\ \E m \in Member : asked'[p].edits \subseteq {m}
       \/ /\ ctx'[p].chain \in {<<>>, Before(p).chain} /\ asked'[p].edits = {}
          /\ Base(p)' = Base(p)
       \/ ctx'[p].chain = Base(p)'.chain /\ asked'[p].edits = {}

LostOne(p) ==
    /\ ctx[p].pc = "try" /\ ctx'[p].pc = "lost" /\ asked'[p] = asked[p]
    /\ ctx'[p].chain = ctx[p].chain /\ Base(p)' = Base(p)

Retried(p) ==
    /\ ctx[p].pc = "lost" /\ ctx'[p].pc = "try" /\ asked'[p] = asked[p]
    /\ Base(p)' = EntryOf(Theirs(p))
    /\ \/ /\ Base(p) = EntryOf(Theirs(p)) /\ ctx'[p].chain = ctx[p].chain
       \/ /\ ~(OurHeadMoved(p) /\ TheirHeadMoved(p))
          /\ ctx'[p].chain = MovedHead(p)
       \/ /\ OurHeadMoved(p) /\ TheirHeadMoved(p) /\ p \in Replaying
          /\ ctx'[p].chain =
                JoinOntoHead(EntryOf(Theirs(p)).chain, ctx[p].chain)

(* A turn begins. *)
LEMMA BeginIs ==
    ASSUME WellFormed, NEW p \in Plain, StartTurn(p) PROVE TurnBegun(p)
<1>1. p \in Proc /\ ctx[p] \in Context
  BY OfProc DEF Plain
<1>2. PICK s : s = Seeded(ctx[p].chain)
  OBVIOUS
<1>3. /\ ctx'[p] = [ctx[p] EXCEPT !.pc = "turn", !.chain = s]
      /\ asked'[p] = [NoAsk EXCEPT !.cmd = "turn", !.view = s]
      /\ ctx[p].pc = "idle" /\ UNCHANGED <<refs, roots, entries>>
  BY <1>1, <1>2 DEF StartTurn, WellFormed
<1>4. ctx'[p].pc = "turn" /\ ctx'[p].branchPrev = ctx[p].branchPrev
  BY <1>1, <1>3 DEF Context
<1>5. asked'[p].cmd = "turn" /\ asked'[p].view = s
  BY <1>3 DEF NoAsk
<1>6. Base(p)' = Base(p)
  BY <1>3, <1>4 DEF Base, EntryOf
<1> QED
  BY <1>2, <1>3, <1>4, <1>5, <1>6 DEF TurnBegun

(* A turn is done. *)
LEMMA DoneIs ==
    ASSUME WellFormed, NEW p \in Plain, FinishTurn(p) PROVE TurnDone(p)
<1>1. p \in Proc /\ ctx[p] \in Context /\ asked[p] \in Asked
  BY OfProc DEF Plain
<1>2. PICK s : s = Append(asked[p].view, issued + 1)
  OBVIOUS
<1>3. /\ ctx'[p] = [ctx[p] EXCEPT !.pc = "try", !.chain = s]
      /\ asked'[p] = [asked[p] EXCEPT !.since = ctx[p].refsHead]
      /\ ctx[p].pc = "turn" /\ UNCHANGED <<refs, roots, entries>>
  BY <1>1, <1>2 DEF FinishTurn, WellFormed
<1>4. /\ ctx'[p].pc = "try" /\ ctx'[p].branchPrev = ctx[p].branchPrev
      /\ ctx'[p].chain = s
  BY <1>1, <1>3 DEF Context
<1>5. /\ asked'[p].cmd = asked[p].cmd /\ asked'[p].edits = asked[p].edits
      /\ asked'[p].view = asked[p].view
  BY <1>1, <1>3 DEF Asked
<1>6. Base(p)' = Base(p)
  BY <1>3, <1>4 DEF Base, EntryOf
<1> QED
  BY <1>2, <1>3, <1>4, <1>5, <1>6 DEF TurnDone

(* What is asked of an idle process. *)
LEMMA AskIs ==
    ASSUME WellFormed, NEW p \in Proc, NEW cmd, NEW edits, Ask(p, cmd, edits)
    PROVE  /\ asked'[p].cmd = cmd /\ asked'[p].edits = edits
           /\ asked'[p].view = ctx[p].chain
BY DEF Ask, NoAsk, WellFormed

(* The commands that publish a conversation or its members. *)
LEMMA CommandIs ==
    ASSUME WellFormed, NEW p \in Plain, PlainOK(p), CommandStep(p)
    PROVE  Commanded(p)
<1>1. p \in Proc /\ p \notin Session /\ ctx[p] \in Context
  BY OfProc DEF Plain
<1>2. UNCHANGED entries
  BY DEF CommandStep, SetMember, WriteList, Clear, Reset, Checkout
<1>3. ctx'[p].branchPrev = ctx[p].branchPrev => Base(p)' = Base(p)
  BY <1>2 DEF Base, EntryOf
<1>4. ASSUME NEW m \in CtxMember, NEW v, SetMember(p, m, v)
      PROVE  Commanded(p)
  <2>1. /\ ctx'[p] = [ctx[p] EXCEPT !.pc = "try", !.members[m] = v]
        /\ ctx[p].pc = "idle"
    BY <1>1, <1>4 DEF SetMember, WellFormed
  <2>2. /\ ctx'[p].pc = "try" /\ ctx'[p].chain = ctx[p].chain
        /\ ctx'[p].branchPrev = ctx[p].branchPrev
    BY <1>1, <2>1 DEF Context
  <2>3. asked'[p].cmd = "set" /\ asked'[p].edits = {m}
    BY <1>1, <1>4, AskIs DEF SetMember
  <2> QED
    BY <1>3, <2>1, <2>2, <2>3 DEF Commanded, Member
<1>5. ~\E m \in ListMember, v \in Stored : WriteList(p, m, v)
  BY DEF WriteList, Plain
<1>6. CASE Clear(p) \/ Reset(p)
  <2>1. PICK s \in {<<>>, Before(p).chain} :
               /\ ctx'[p] = [ctx[p] EXCEPT !.pc = "try", !.chain = s]
               /\ ctx[p].pc = "idle"
    BY <1>1, <1>6 DEF Clear, Reset, WellFormed
  <2>2. /\ ctx'[p].pc = "try" /\ ctx'[p].chain = s
        /\ ctx'[p].branchPrev = ctx[p].branchPrev
    BY <1>1, <2>1 DEF Context
  <2>3. asked'[p].cmd \in {"clear", "reset"} /\ asked'[p].edits = {}
    BY <1>1, <1>6, AskIs DEF Clear, Reset
  <2> QED
    BY <1>3, <2>1, <2>2, <2>3 DEF Commanded
<1>7. ASSUME NEW b \in Branch, Checkout(p, b) PROVE Commanded(p)
  <2> DEFINE d == Adopted(ctx[p], b)
  <2>1. /\ d.chain = EntryOf(ctx[p].table[b]).chain /\ d \in Context
        /\ d.branchPrev = ctx[p].table[b]
    BY <1>1, OfProc, AdoptedOK DEF Adopted, Context, ContextOK
  <2>2. ctx'[p] = [d EXCEPT !.pc = "try", !.headBranch = b]
        /\ ctx[p].pc = "idle"
    BY <1>1, <1>7 DEF Checkout, WellFormed
  <2>3. asked'[p].cmd = "checkout" /\ asked'[p].edits = {}
    BY <1>1, <1>7, AskIs DEF Checkout
  <2> HIDE DEF d
  <2>4. /\ ctx'[p].chain = d.chain /\ ctx'[p].branchPrev = d.branchPrev
        /\ ctx'[p].pc = "try"
    BY <2>1, <2>2 DEF Context
  <2>5. ctx'[p].chain = Base(p)'.chain
    BY <1>2, <2>1, <2>4 DEF Base, EntryOf
  <2> QED
    BY <2>2, <2>3, <2>4, <2>5 DEF Commanded
<1> QED
  BY <1>4, <1>5, <1>6, <1>7 DEF CommandStep

(* A branch is opened on its conversation. *)
LEMMA OpenIs ==
    ASSUME WellFormed, NEW p \in Proc, NEW b \in Branch, Open(p, b)
    PROVE  Opened(p)
<1>1. /\ ctx'[p].chain = EntryOf(roots[refs].table[b]).chain
      /\ ctx'[p].pc = "idle" /\ UNCHANGED entries
      /\ ctx'[p].branchPrev = roots[refs].table[b]
  BY DEF Open, Adopted, Closed, WellFormed
<1> QED
  BY <1>1 DEF Opened, Base, EntryOf

(* A publish is lost. *)
LEMMA LostIs ==
    ASSUME WellFormed, NEW p \in Proc, PublishLost(p)
    PROVE  LostOne(p)
<1>1. /\ ctx'[p] = [ctx[p] EXCEPT !.pc = "lost"] /\ ctx[p].pc = "try"
      /\ UNCHANGED <<entries, asked>> /\ ctx[p] \in Context
  BY OfProc DEF PublishLost, MayTry, WellFormed
<1>2. /\ ctx'[p].pc = "lost" /\ ctx'[p].chain = ctx[p].chain
      /\ ctx'[p].branchPrev = ctx[p].branchPrev
  BY <1>1 DEF Context
<1> QED
  BY <1>1, <1>2 DEF LostOne, Base, EntryOf

(* A plain process whose publish is settled is closed. *)
LEMMA SettleIs ==
    ASSUME WellFormed, NEW p \in Plain, PlainOK(p), NEW c, NEW ok,
           Settle(p, c, ok)
    PROVE  ctx'[p].pc = "closed"
<1>1. Closed.pc = "closed"
  BY DEF Closed
<1> QED
  BY <1>1, SettlePlainOK

(* A publish that is lost is tried again, or given up. *)
LEMMA RetryIs ==
    ASSUME WellFormed, NEW p \in Plain, PlainOK(p), NEW c \in Context,
           Retry(p, c)
    PROVE  \/ ctx'[p].pc = "closed"
           \/ /\ ctx'[p].pc = "try" /\ ctx'[p].chain = c.chain
              /\ ctx'[p].branchPrev = c.branchPrev /\ asked'[p] = asked[p]
<1>1. p \in Proc
  BY DEF Plain
<1>2. CASE c.tries < StateTries
  <2>1. ctx'[p] = [c EXCEPT !.pc = "try"] /\ UNCHANGED asked
    BY <1>1, <1>2 DEF Retry, WellFormed
  <2> QED
    BY <2>1 DEF Context
<1>3. CASE ~(c.tries < StateTries)
  BY <1>3, SettleIs DEF Retry
<1> QED
  BY <1>2, <1>3

(* A lost publish is reconciled, and tried again. *)
LEMMA ReconcileIs ==
    ASSUME WellFormed, NEW p \in Plain, PlainOK(p),
           \/ ReconcileUnmoved(p) \/ ReconcileOneSided(p)
           \/ ReconcileReplay(p)
    PROVE  ctx'[p].pc = "closed" \/ Retried(p)
<1>1. p \in Proc /\ ctx[p] \in Context
  BY OfProc DEF Plain
<1>2. /\ Reread(ctx[p]) \in Context /\ Reread(ctx[p]).chain = ctx[p].chain
      /\ Reread(ctx[p]).branchPrev = ctx[p].branchPrev
  BY <1>1, RereadOK DEF Reread, Context
<1>3. ctx[p].pc = "lost" /\ UNCHANGED <<refs, roots, entries>>
  BY DEF ReconcileUnmoved, ReconcileOneSided, ReconcileReplay
<1>4. CASE ReconcileUnmoved(p)
  <2>1. Retry(p, Reread(ctx[p])) /\ Theirs(p) = ctx[p].branchPrev
    BY <1>4 DEF ReconcileUnmoved, BranchMoved
  <2>2. \/ ctx'[p].pc = "closed"
        \/ /\ ctx'[p].pc = "try" /\ ctx'[p].chain = ctx[p].chain
           /\ ctx'[p].branchPrev = Theirs(p) /\ asked'[p] = asked[p]
    BY <1>2, <2>1, RetryIs
  <2>3. Base(p) = EntryOf(Theirs(p))
    BY <2>1 DEF Base
  <2>4. ctx'[p].branchPrev = Theirs(p) => Base(p)' = EntryOf(Theirs(p))
    BY <1>3 DEF Base, EntryOf
  <2> QED
    BY <1>3, <2>2, <2>3, <2>4 DEF Retried
<1>5. ASSUME NEW chain \in Chain, Retry(p, Merged(p, Reread(ctx[p]), chain))
      PROVE  \/ ctx'[p].pc = "closed"
             \/ /\ ctx'[p].pc = "try" /\ ctx'[p].chain = chain
                /\ asked'[p] = asked[p] /\ Base(p)' = EntryOf(Theirs(p))
  <2>1. Merged(p, Reread(ctx[p]), chain) \in Context
    BY <1>1, RereadOK, MergedOK DEF ContextOK
  <2>2. PICK d \in Context : d = Reread(ctx[p])
    BY <1>2
  <2>3. /\ Merged(p, d, chain).chain = chain
        /\ Merged(p, d, chain).branchPrev = Theirs(p)
    BY DEF Merged, Context
  <2>4. \/ ctx'[p].pc = "closed"
        \/ /\ ctx'[p].pc = "try" /\ ctx'[p].chain = chain
           /\ ctx'[p].branchPrev = Theirs(p) /\ asked'[p] = asked[p]
    BY <1>5, <2>1, <2>2, <2>3, RetryIs
  <2>5. ctx'[p].branchPrev = Theirs(p) => Base(p)' = EntryOf(Theirs(p))
    BY <1>3 DEF Base, EntryOf
  <2> QED
    BY <2>4, <2>5
<1>6. /\ ctx[p].chain \in Chain /\ EntryOf(Theirs(p)).chain \in Chain
      /\ MovedHead(p) \in Chain
  BY <1>1, EntriesNamed DEF MovedHead, Context, Entry
<1>7. CASE ReconcileOneSided(p)
  BY <1>3, <1>5, <1>6, <1>7 DEF ReconcileOneSided, Retried
<1>8. CASE ReconcileReplay(p)
  <2>1. JoinOntoHead(EntryOf(Theirs(p)).chain, ctx[p].chain) \in Chain
    BY <1>6, JoinOntoHeadKeepsTheirs
  <2> QED
    BY <1>3, <1>5, <1>8, <2>1 DEF ReconcileReplay, Retried
<1> QED
  BY <1>4, <1>7, <1>8

(* The steps of a plain process. *)
LEMMA PlainStep ==
    ASSUME WellFormed, NEW p \in Plain, PlainOK(p), ProcStep(p)
    PROVE  \/ ctx'[p].pc \in {"closed", "ttry", "tlost"}
           \/ /\ UNCHANGED <<roots, entries>>
              /\ \/ Opened(p)
                 \/ (StartTurn(p) /\ TurnBegun(p))
                 \/ (FinishTurn(p) /\ TurnDone(p))
                 \/ (CommandStep(p) /\ Commanded(p))
                 \/ LostOne(p)
                 \/ Retried(p)
<1>1. p \in Proc
  BY DEF Plain
<1>2. CASE Exit(p)
  BY <1>1, <1>2 DEF Exit, WellFormed, Closed
<1>3. CASE \E b \in Branch : Open(p, b)
  BY <1>1, <1>3, OpenIs DEF Open
<1>4. CASE TurnStep(p)
  <2>1. CASE StartTurn(p)
    BY <2>1, BeginIs DEF StartTurn
  <2>2. CASE FinishTurn(p)
    BY <2>2, DoneIs DEF FinishTurn
  <2>3. CASE FailTurn(p)
    BY <1>1, <2>3 DEF FailTurn, WellFormed, Closed, Plain
  <2>4. ~Refresh(p)
    BY DEF Refresh, Plain
  <2> QED
    BY <1>4, <2>1, <2>2, <2>3, <2>4 DEF TurnStep
<1>5. CASE CommandStep(p)
  <2>1. UNCHANGED <<roots, entries>>
    BY <1>5 DEF CommandStep, SetMember, WriteList, Clear, Reset, Checkout
  <2> QED
    BY <1>5, <2>1, CommandIs
<1>6. CASE TableStep(p)
  <2>1. PICK cmd, desired, branch, head :
               EditTable(p, cmd, desired, branch, head)
    BY <1>6 DEF TableStep, CreateBranch, DeleteBranch, RenameBranch,
                DescribeBranch
  <2>2. PICK prev : ctx'[p] = [ctx[p] EXCEPT !.pc = "ttry", !.want = desired,
                            !.branch = branch, !.headBranch = head,
                            !.branchPrev = prev]
    BY <1>1, <2>1 DEF EditTable, WellFormed
  <2>3. ctx[p] \in Context
    BY <1>1, OfProc
  <2> QED
    BY <2>2, <2>3 DEF Context
<1>7. CASE PublishStep(p)
  <2>1. CASE \/ PublishNothing(p) \/ PublishWon(p) \/ ReconcileRefuse(p)
             \/ TableWon(p) \/ TableRefuse(p)
    BY <2>1, SettleIs
    DEF PublishNothing, PublishWon, ReconcileRefuse, TableWon, TableRefuse
  <2>2. CASE PublishLost(p)
    BY <1>1, <2>2, LostIs DEF PublishLost
  <2>3. CASE \/ ReconcileUnmoved(p) \/ ReconcileOneSided(p)
             \/ ReconcileReplay(p)
    BY <2>3, ReconcileIs
    DEF ReconcileUnmoved, ReconcileOneSided, ReconcileReplay
  <2>4. CASE TableLost(p)
    <3>1. ctx'[p] = [ctx[p] EXCEPT !.pc = "tlost"] /\ ctx[p] \in Context
      BY <1>1, <2>4, OfProc DEF TableLost, WellFormed
    <3> QED
      BY <3>1 DEF Context
  <2>5. CASE TableReapply(p)
    <3> DEFINE want == DeltaApply(asked[p].base, asked[p].desired,
                                  roots[refs].table)
               head == IF asked[p].movesHead THEN ctx[p].headBranch
                       ELSE roots[refs].HEAD
               c == [ctx[p] EXCEPT !.refsHead = refs, !.tries = @ + 1,
                                   !.want = want, !.headBranch = head]
    <3>1. /\ IF c.tries < TableTries
             THEN /\ ctx' = [ctx EXCEPT ![p] = [c EXCEPT !.pc = "ttry"]]
                  /\ UNCHANGED asked
             ELSE Settle(p, c, FALSE)
      BY <2>5 DEF TableReapply
    <3>2. [c EXCEPT !.pc = "ttry"].pc = "ttry"
      <4>1. ctx[p] \in Context
        BY <1>1, OfProc
      <4> HIDE DEF want, head
      <4> QED BY <4>1 DEF Context
    <3> HIDE DEF c
    <3>3. CASE c.tries < TableTries
      BY <1>1, <3>1, <3>2, <3>3 DEF WellFormed
    <3>4. CASE ~(c.tries < TableTries)
      BY <3>1, <3>4, SettleIs
    <3> QED
      BY <3>3, <3>4
  <2> QED
    BY <1>7, <2>1, <2>2, <2>3, <2>4, <2>5 DEF PublishStep
<1> QED
  BY <1>2, <1>3, <1>4, <1>5, <1>6, <1>7 DEF ProcStep

-------------------------------------------------------------------------------
(* Turns.  *)

(* What is written is an entry. *)
LEMMA EntryIn ==
    ASSUME WellFormed, NEW e \in 1 .. Len(entries)
    PROVE  entries[e] \in Entry
<1>1. entries \in Seq(Entry) /\ Len(entries) \in Nat
  BY DEF WellFormed, ArenaOK
<1> QED
  BY <1>1

(* Appending adds one turn, the last. *)
LEMMA AppendTurns ==
    ASSUME NEW c \in Chain, NEW t \in Turn
    PROVE  /\ Append(c, t) \in Chain /\ Append(c, t) # <<>>
           /\ TurnsOf(Append(c, t)) = TurnsOf(c) \cup {t}
           /\ Append(c, t)[Len(Append(c, t))] = t
<1>1. Len(c) \in Nat /\ c \in Seq(Turn)
  BY DEF Chain
<1>2. /\ Append(c, t) \in Seq(Turn) /\ Len(Append(c, t)) = Len(c) + 1
      /\ DOMAIN Append(c, t) = 1 .. Len(c) + 1 /\ DOMAIN c = 1 .. Len(c)
      /\ \A i \in 1 .. Len(c) : Append(c, t)[i] = c[i]
      /\ Append(c, t)[Len(c) + 1] = t
  BY <1>1
<1>3. PICK d : d = Append(c, t)
  OBVIOUS
<1>4. ASSUME NEW u PROVE u \in TurnsOf(d) <=> u \in TurnsOf(c) \cup {t}
  <2>1. 1 .. Len(c) + 1 = (1 .. Len(c)) \cup {Len(c) + 1}
    BY <1>1
  <2> QED
    BY <1>2, <1>3, <2>1 DEF TurnsOf
<1>5. d # <<>>
  BY <1>1, <1>2, <1>3
<1> QED
  BY <1>2, <1>3, <1>4, <1>5 DEF Chain

(* A turn of a joined conversation is theirs or ours. *)
LEMMA JoinTurns ==
    ASSUME NEW theirs \in Chain, NEW ours \in Chain
    PROVE  TurnsOf(JoinOntoHead(theirs, ours))
               \subseteq TurnsOf(theirs) \cup TurnsOf(ours)
<1> DEFINE m == MergeBase(ours, theirs) + 1
           rest == SubSeq(ours, m, Len(ours))
           replayed == WithoutSystem(rest)
<1>1. m \in Nat \ {0} /\ Len(ours) \in Nat
  BY MergeBaseType DEF Chain
<1>2. \A i \in m .. Len(ours) : ours[i] \in Turn /\ ours[i] \in TurnsOf(ours)
  BY <1>1 DEF Chain, TurnsOf
<1>3. rest \in Seq(Turn) /\ TurnsOf(rest) \subseteq TurnsOf(ours)
  <2> HIDE DEF m
  <2>1. rest \in Seq(Turn)
    BY <1>1, <1>2, SubSeqProperties
  <2>2. ASSUME NEW i \in DOMAIN rest PROVE rest[i] \in TurnsOf(ours)
    <3>1. /\ Len(rest) = IF m <= Len(ours) THEN Len(ours) - m + 1 ELSE 0
          /\ \A j \in 1 .. Len(ours) - m + 1 : rest[j] = ours[m + j - 1]
      BY <1>1, <1>2, SubSeqProperties
    <3>2. i \in 1 .. Len(ours) - m + 1
      BY <1>1, <2>1, <3>1
    <3>3. m + i - 1 \in m .. Len(ours)
      BY <1>1, <3>2
    <3> QED
      BY <1>2, <3>1, <3>2, <3>3
  <2> QED
    BY <2>1, <2>2 DEF TurnsOf
<1> HIDE DEF rest
<1>4. replayed \in Seq(Turn) /\ TurnsOf(replayed) \subseteq TurnsOf(rest)
  <2>1. CASE rest # <<>> /\ Head(rest) = Sys
    <3>1. /\ Tail(rest) \in Seq(Turn) /\ Len(rest) \in Nat \ {0}
          /\ Len(Tail(rest)) = Len(rest) - 1
          /\ \A i \in 1 .. Len(Tail(rest)) : Tail(rest)[i] = rest[i + 1]
      BY <1>3, <2>1, HeadTailProperties
    <3>2. \A i \in DOMAIN Tail(rest) : rest[i + 1] \in TurnsOf(rest)
      BY <1>3, <3>1 DEF TurnsOf
    <3>3. TurnsOf(Tail(rest)) \subseteq TurnsOf(rest)
      BY <3>1, <3>2 DEF TurnsOf
    <3> QED
      BY <2>1, <3>1, <3>3 DEF WithoutSystem
  <2>2. CASE ~(rest # <<>> /\ Head(rest) = Sys)
    BY <1>3, <2>2 DEF WithoutSystem
  <2> QED
    BY <2>1, <2>2
<1>5. JoinOntoHead(theirs, ours) = theirs \o replayed
  BY DEF JoinOntoHead, rest
<1> HIDE DEF replayed
<1>6. TurnsOf(theirs \o replayed) \subseteq TurnsOf(theirs) \cup TurnsOf(replayed)
  <2>1. /\ theirs \in Seq(Turn) /\ Len(theirs) \in Nat /\ Len(replayed) \in Nat
        /\ Len(theirs \o replayed) = Len(theirs) + Len(replayed)
        /\ DOMAIN (theirs \o replayed) = 1 .. Len(theirs) + Len(replayed)
    BY <1>4, ConcatProperties DEF Chain
  <2>2. ASSUME NEW i \in 1 .. Len(theirs) + Len(replayed)
        PROVE  (theirs \o replayed)[i] \in TurnsOf(theirs) \cup TurnsOf(replayed)
    <3>1. (theirs \o replayed)[i] =
              IF i <= Len(theirs) THEN theirs[i] ELSE replayed[i - Len(theirs)]
      BY <1>4, <2>1, ConcatProperties
    <3>2. CASE i <= Len(theirs)
      BY <2>1, <3>1, <3>2 DEF TurnsOf
    <3>3. CASE ~(i <= Len(theirs))
      <4>1. i - Len(theirs) \in 1 .. Len(replayed)
        BY <2>1, <3>3
      <4>2. replayed[i - Len(theirs)] \in TurnsOf(replayed)
        BY <1>4, <4>1 DEF TurnsOf
      <4> QED
        BY <3>1, <3>3, <4>2
    <3> QED
      BY <3>2, <3>3
  <2> QED
    BY <2>1, <2>2 DEF TurnsOf
<1> QED
  BY <1>3, <1>4, <1>5, <1>6

(* A command is counted one time. *)
LEMMA IssuedStep ==
    ASSUME WellFormed, NEW p \in Proc, ProcStep(p)
    PROVE  /\ issued \in Nat /\ issued' \in {issued, issued + 1}
           /\ FinishTurn(p) => issued' = issued + 1 /\ issued + 1 \in Turn
<1>1. issued \in Nat /\ issued \in 0 .. MaxCommands
  BY BoundAssumption, OfProc
<1>2. ASSUME TableStep(p) PROVE issued' \in {issued, issued + 1}
  BY <1>2 DEF TableStep, CreateBranch, DeleteBranch, RenameBranch,
              DescribeBranch, EditTable, Issue
<1>3. ASSUME PublishStep(p) PROVE issued' \in {issued, issued + 1}
  BY <1>3 DEF PublishStep, PublishNothing, PublishWon, PublishLost,
       ReconcileUnmoved, ReconcileOneSided, ReconcileReplay, ReconcileRefuse,
       TableWon, TableLost, TableReapply, TableRefuse
<1>4. ASSUME \/ CommandStep(p) \/ TurnStep(p) \/ Exit(p)
             \/ \E b \in Branch : Open(p, b)
      PROVE  issued' \in {issued, issued + 1}
  BY <1>4 DEF CommandStep, SetMember, WriteList, Clear, Reset, Checkout,
       TurnStep, StartTurn, FailTurn, FinishTurn, Refresh, Exit, Open, Issue
<1>5. issued' \in {issued, issued + 1}
  BY <1>2, <1>3, <1>4 DEF ProcStep
<1>6. FinishTurn(p) => issued' = issued + 1 /\ issued + 1 \in Turn
  BY <1>1, IssueType DEF FinishTurn
<1> QED
  BY <1>1, <1>5, <1>6

(* A conversation has no turn of a later command. *)
LEMMA NumberedStep ==
    ASSUME WellFormed, Numbered, NEW p \in Proc, ProcStep(p)
    PROVE  Numbered'
<1>1. PICK n : n = issued'
  OBVIOUS
<1> DEFINE C == {c \in Chain : NumberedTo(c, n)}
<1>2. issued \in Nat /\ n \in Nat /\ issued <= n
  BY <1>1, IssuedStep
<1>3. \A c \in Chain : NumberedTo(c, issued) => c \in C
  <2> SUFFICES ASSUME NEW c \in Chain, NumberedTo(c, issued),
                      NEW t \in TurnsOf(c)
               PROVE  t <= n
    BY DEF NumberedTo
  <2>1. TurnsOf(c) \subseteq Turn
    BY DEF TurnsOf, Chain
  <2>2. t \in Nat /\ t <= issued
    BY <2>1, BoundAssumption DEF NumberedTo, Turn
  <2> QED
    BY <1>2, <2>2
<1>4. <<>> \in C /\ <<Sys>> \in C
  BY <1>2, SysIsTurn DEF NumberedTo, TurnsOf, Chain, Sys
<1>5. EntriesIn(C)
  <2>1. ASSUME NEW e \in 1 .. Len(entries) PROVE entries[e].chain \in Chain
    BY EntryIn DEF Entry
  <2> QED
    BY <1>3, <2>1 DEF EntriesIn, Numbered
<1>6. \A q \in Proc : HeldIn(q, C)
  BY <1>3, OfProc DEF HeldIn, Numbered, Context, Asked
<1>7. ASSUME FinishTurn(p) PROVE Append(asked[p].view, issued + 1) \in C
  <2>1. n = issued + 1 /\ issued + 1 \in Turn /\ asked[p].view \in C
    BY <1>1, <1>6, <1>7, IssuedStep DEF HeldIn
  <2> QED
    BY <1>2, <2>1, AppendTurns DEF NumberedTo
<1>8. ASSUME ReconcileReplay(p)
      PROVE  JoinOntoHead(EntryOf(Theirs(p)).chain, ctx[p].chain) \in C
  <2>1. EntryOf(Theirs(p)).chain \in C
    BY <1>4, <1>5, EntriesNamed, EntryChainIn
  <2>2. ctx[p].chain \in C
    BY <1>6 DEF HeldIn
  <2>3. PICK a, b : a = EntryOf(Theirs(p)).chain /\ b = ctx[p].chain
    OBVIOUS
  <2>4. /\ JoinOntoHead(a, b) \in Chain
        /\ TurnsOf(JoinOntoHead(a, b)) \subseteq TurnsOf(a) \cup TurnsOf(b)
    BY <2>1, <2>2, <2>3, JoinTurns, JoinOntoHeadKeepsTheirs
  <2> QED
    BY <2>1, <2>2, <2>3, <2>4 DEF NumberedTo
<1> HIDE DEF C
<1>9. EntriesIn(C)' /\ HeldIn(p, C)'
  BY <1>4, <1>5, <1>6, <1>7, <1>8, StepChains
<1>10. \A q \in Proc \ {p} : HeldIn(q, C)'
  BY <1>6, StepShape DEF OthersKept, HeldIn
<1>11. \A c \in C : NumberedTo(c, n)
  BY DEF C
<1> QED
  BY <1>1, <1>9, <1>10, <1>11 DEF Numbered, EntriesIn, HeldIn

(* A turn is on no other conversation while another process moves. *)
LEMMA OtherOwnIsNew ==
    ASSUME WellFormed, Numbered, NEW p \in Proc, ProcStep(p),
           NEW q \in Plain, q # p, OwnIsNew(q)
    PROVE  OwnIsNew(q)'
<1>1. q \in Proc /\ OthersKept(p)
  BY StepShape DEF Plain
<1>2. ctx'[q] = ctx[q] /\ asked'[q] = asked[q]
  BY <1>1 DEF OthersKept
<1> SUFFICES ASSUME AtTurn(q) PROVE OwnIsNew(q)'
  BY <1>2 DEF OwnIsNew, AtTurn
<1>3. PICK t : t = OwnTurn(q)
  OBVIOUS
<1>4. OwnTurn(q)' = t
  BY <1>2, <1>3 DEF OwnTurn
<1>5. ctx[q].chain # <<>> /\ t # Sys
  BY <1>3 DEF OwnIsNew
<1>6. t <= issued
  <2>1. ctx[q].chain \in Seq(Turn) /\ NumberedTo(ctx[q].chain, issued)
    BY <1>1, OfProc DEF Context, Chain, Numbered
  <2>2. Len(ctx[q].chain) \in DOMAIN ctx[q].chain
    BY <1>5, <2>1
  <2> QED
    BY <1>3, <2>1, <2>2 DEF NumberedTo, TurnsOf, OwnTurn
<1> DEFINE C == {c \in Chain : t \notin TurnsOf(c)}
<1>7. <<>> \in C /\ <<Sys>> \in C
  BY <1>5, SysIsTurn DEF TurnsOf, Chain
<1>8. EntriesIn(C)
  <2>1. \A e \in 1 .. Len(entries) : entries[e].chain \in Chain
    BY EntryIn DEF Entry
  <2> QED
    BY <1>3, <2>1 DEF EntriesIn, OwnIsNew
<1>9. \A r \in Proc \ {q} : HeldIn(r, C)
  BY <1>3, OfProc DEF HeldIn, OwnIsNew, Context, Asked
<1>10. ASSUME FinishTurn(p) PROVE Append(asked[p].view, issued + 1) \in C
  <2>1. issued \in Nat /\ issued + 1 \in Turn /\ asked[p].view \in C
    BY <1>1, <1>9, <1>10, IssuedStep DEF HeldIn
  <2>2. t # issued + 1
    BY <1>6, <2>1
  <2> QED
    BY <2>1, <2>2, AppendTurns
<1>11. ASSUME ReconcileReplay(p)
       PROVE  JoinOntoHead(EntryOf(Theirs(p)).chain, ctx[p].chain) \in C
  <2>1. EntryOf(Theirs(p)).chain \in C
    BY <1>7, <1>8, EntriesNamed, EntryChainIn
  <2>2. ctx[p].chain \in C
    BY <1>9 DEF HeldIn
  <2>3. PICK a, b : a = EntryOf(Theirs(p)).chain /\ b = ctx[p].chain
    OBVIOUS
  <2>4. /\ JoinOntoHead(a, b) \in Chain
        /\ TurnsOf(JoinOntoHead(a, b)) \subseteq TurnsOf(a) \cup TurnsOf(b)
    BY <2>1, <2>2, <2>3, JoinTurns, JoinOntoHeadKeepsTheirs
  <2> QED
    BY <2>1, <2>2, <2>3, <2>4
<1> HIDE DEF C
<1>12. EntriesIn(C)' /\ HeldIn(p, C)'
  BY <1>1, <1>7, <1>8, <1>9, <1>10, <1>11, StepChains
<1>13. \A r \in Proc \ {q} : HeldIn(r, C)'
  BY <1>1, <1>9, <1>12 DEF OthersKept, HeldIn
<1>14. \A c \in C : t \notin TurnsOf(c)
  BY DEF C
<1>15. \A e \in 1 .. Len(entries') : t \notin TurnsOf(entries'[e].chain)
  BY <1>12, <1>14 DEF EntriesIn
<1>16. \A r \in Proc \ {q} : /\ t \notin TurnsOf(ctx'[r].chain)
                             /\ t \notin TurnsOf(asked'[r].view)
  BY <1>13, <1>14 DEF HeldIn
<1> QED
  BY <1>2, <1>4, <1>5, <1>15, <1>16 DEF OwnIsNew

(* A prefix that is shared does not have a turn they lack. *)
LEMMA MergeBaseBefore ==
    ASSUME NEW ours \in Chain, NEW theirs \in Chain, ours # <<>>,
           ours[Len(ours)] \notin TurnsOf(theirs)
    PROVE  MergeBase(ours, theirs) \in 0 .. Len(ours) - 1
<1> DEFINE n == Len(ours)
           shared == {k \in 1 .. n : k <= Len(theirs)
                                     /\ \A i \in 1 .. k : ours[i] = theirs[i]}
<1>1. n \in Nat \ {0} /\ Len(theirs) \in Nat /\ DOMAIN theirs = 1 .. Len(theirs)
  BY DEF Chain
<1>2. n \notin shared
  BY <1>1 DEF TurnsOf
<1>3. shared \subseteq 1 .. n - 1
  BY <1>1, <1>2
<1>4. IsFiniteSet(1 .. n - 1) /\ Cardinality(1 .. n - 1) = n - 1
  <2>1. PICK k \in Nat : k = n - 1
    BY <1>1
  <2>2. IsFiniteSet(1 .. k) /\ Cardinality(1 .. k) = k
    BY FS_Interval
  <2> QED
    BY <2>1, <2>2
<1>5. Cardinality(shared) <= n - 1 /\ IsFiniteSet(shared)
  BY <1>3, <1>4, FS_Subset
<1>6. Cardinality(shared) \in Nat
  BY <1>5, FS_CardinalityType
<1> QED
  BY <1>1, <1>5, <1>6 DEF MergeBase

(* A replay ends with our last turn. *)
LEMMA JoinKeepsOwn ==
    ASSUME NEW ours \in Chain, NEW theirs \in Chain, ours # <<>>,
           ours[Len(ours)] # Sys, ours[Len(ours)] \notin TurnsOf(theirs)
    PROVE  LET j == JoinOntoHead(theirs, ours) IN
           j # <<>> /\ j[Len(j)] = ours[Len(ours)]
<1> DEFINE m == MergeBase(ours, theirs) + 1
           rest == SubSeq(ours, m, Len(ours))
           replayed == WithoutSystem(rest)
           last == ours[Len(ours)]
<1>1. m \in 1 .. Len(ours) /\ Len(ours) \in Nat \ {0}
  BY MergeBaseBefore DEF Chain
<1>2. \A i \in m .. Len(ours) : ours[i] \in Turn
  BY <1>1 DEF Chain
<1>3. /\ rest \in Seq(Turn) /\ Len(rest) \in Nat \ {0}
      /\ rest[Len(rest)] = last
  <2> HIDE DEF m
  <2>1. rest \in Seq(Turn)
    BY <1>1, <1>2, SubSeqProperties
  <2>2. /\ Len(rest) = Len(ours) - m + 1
        /\ \A j \in 1 .. Len(ours) - m + 1 : rest[j] = ours[m + j - 1]
    BY <1>1, <1>2, SubSeqProperties
  <2>3. Len(rest) \in 1 .. Len(ours) - m + 1 /\ m + Len(rest) - 1 = Len(ours)
    BY <1>1, <2>2
  <2> QED
    BY <2>1, <2>2, <2>3
<1> HIDE DEF rest, last
<1>4. last # Sys
  BY DEF last
<1>5. /\ replayed \in Seq(Turn) /\ Len(replayed) \in Nat \ {0}
      /\ replayed[Len(replayed)] = last
  <2>1. CASE rest # <<>> /\ Head(rest) = Sys
    <3>1. /\ Tail(rest) \in Seq(Turn)
          /\ Len(Tail(rest)) = Len(rest) - 1
          /\ \A i \in 1 .. Len(Tail(rest)) : Tail(rest)[i] = rest[i + 1]
          /\ Head(rest) = rest[1]
      BY <1>3, <2>1, HeadTailProperties
    <3>2. Len(rest) # 1
      BY <1>3, <1>4, <2>1, <3>1
    <3>3. Len(rest) - 1 \in Nat \ {0}
      BY <1>3, <3>2
    <3>4. Tail(rest)[Len(Tail(rest))] = rest[Len(rest)]
      BY <1>3, <3>1, <3>3
    <3> QED
      BY <1>3, <2>1, <3>1, <3>3, <3>4 DEF WithoutSystem
  <2>2. CASE ~(rest # <<>> /\ Head(rest) = Sys)
    BY <1>3, <2>2 DEF WithoutSystem
  <2> QED
    BY <2>1, <2>2
<1>6. JoinOntoHead(theirs, ours) = theirs \o replayed
  BY DEF JoinOntoHead, rest
<1> HIDE DEF replayed
<1>7. /\ Len(theirs) \in Nat
      /\ Len(theirs \o replayed) = Len(theirs) + Len(replayed)
      /\ \A i \in 1 .. Len(theirs) + Len(replayed) :
            (theirs \o replayed)[i] =
                IF i <= Len(theirs) THEN theirs[i] ELSE replayed[i - Len(theirs)]
  BY <1>5, ConcatProperties DEF Chain
<1>8. (theirs \o replayed)[Len(theirs) + Len(replayed)] = last
  <2>1. /\ Len(theirs) + Len(replayed) \in 1 .. Len(theirs) + Len(replayed)
        /\ ~(Len(theirs) + Len(replayed) <= Len(theirs))
        /\ Len(theirs) + Len(replayed) - Len(theirs) = Len(replayed)
    BY <1>5, <1>7
  <2> QED
    BY <1>5, <1>7, <2>1
<1>9. theirs \o replayed # <<>>
  BY <1>5, <1>7
<1> QED
  BY <1>6, <1>7, <1>8, <1>9 DEF last

(* A turn that is done is on no conversation but its own, and a publish    *)
(* that is lost keeps it last.                                             *)
LEMMA MoverOwnIsNew ==
    ASSUME WellFormed, Numbered, NEW p \in Plain, PlainOK(p), ProcStep(p),
           OwnIsNew(p)
    PROVE  OwnIsNew(p)'
<1>1. p \in Proc /\ OthersKept(p)
  BY StepShape DEF Plain
<1> SUFFICES ASSUME AtTurn(p)' PROVE OwnIsNew(p)'
  BY DEF OwnIsNew
<1>2. ctx'[p].pc \in {"try", "lost"} /\ asked'[p].cmd = "turn"
  BY DEF AtTurn
<1>3. /\ UNCHANGED <<roots, entries>>
      /\ \/ FinishTurn(p) /\ TurnDone(p)
         \/ LostOne(p)
         \/ Retried(p)
  BY <1>2, PlainStep DEF Opened, TurnBegun, Commanded
<1>4. \A q \in Proc \ {p} : ctx'[q] = ctx[q] /\ asked'[q] = asked[q]
  BY <1>1 DEF OthersKept
<1>5. CASE FinishTurn(p) /\ TurnDone(p)
  <2>1. PICK t \in Turn : t = issued + 1
    BY <1>1, <1>5, IssuedStep
  <2>2. issued \in Nat /\ t \in Nat /\ asked[p].view \in Chain
    BY <1>1, <2>1, OfProc, IssuedStep DEF Asked
  <2>3. ctx'[p].chain = Append(asked[p].view, t)
    BY <1>5, <2>1 DEF TurnDone
  <2>4. ctx'[p].chain # <<>> /\ OwnTurn(p)' = t
    BY <2>2, <2>3, AppendTurns DEF OwnTurn
  <2>5. ASSUME NEW c, NumberedTo(c, issued) PROVE t \notin TurnsOf(c)
    BY <2>1, <2>2, <2>5 DEF NumberedTo
  <2>6. t # Sys
    BY <2>1, <2>2 DEF Sys
  <2>7. \A e \in 1 .. Len(entries) : t \notin TurnsOf(entries[e].chain)
    BY <2>5 DEF Numbered
  <2>8. \A q \in Proc \ {p} : /\ t \notin TurnsOf(ctx[q].chain)
                              /\ t \notin TurnsOf(asked[q].view)
    BY <2>5 DEF Numbered
  <2> QED
    BY <1>3, <1>4, <2>4, <2>6, <2>7, <2>8 DEF OwnIsNew
<1>6. ASSUME AtTurn(p), ctx'[p].chain # <<>>, OwnTurn(p)' = OwnTurn(p)
      PROVE  OwnIsNew(p)'
  BY <1>3, <1>4, <1>6 DEF OwnIsNew
<1>7. CASE LostOne(p)
  <2>1. AtTurn(p) /\ ctx'[p].chain = ctx[p].chain
    BY <1>2, <1>7 DEF LostOne, AtTurn
  <2>2. OwnTurn(p)' = OwnTurn(p) /\ ctx[p].chain # <<>>
    BY <2>1 DEF OwnTurn, OwnIsNew
  <2> QED
    BY <1>6, <2>1, <2>2
<1>8. CASE Retried(p)
  <2>1. AtTurn(p)
    BY <1>2, <1>8 DEF Retried, AtTurn
  <2>2. PICK t, ours, theirs : /\ t = OwnTurn(p) /\ ours = ctx[p].chain
                               /\ theirs = EntryOf(Theirs(p)).chain
    OBVIOUS
  <2>3. ours \in Chain /\ theirs \in Chain
    BY <1>1, <2>2, OfProc, EntriesNamed DEF Context, Entry
  <2>4. ours # <<>> /\ t # Sys /\ t = ours[Len(ours)] /\ t \in TurnsOf(ours)
    <3>1. ours # <<>> /\ t # Sys /\ t = ours[Len(ours)]
      BY <2>1, <2>2 DEF OwnIsNew, OwnTurn
    <3>2. ours \in Seq(Turn)
      BY <2>3 DEF Chain
    <3>3. Len(ours) \in DOMAIN ours
      BY <3>1, <3>2
    <3> QED
      BY <3>1, <3>3 DEF TurnsOf
  <2>5. t \notin TurnsOf(theirs) /\ t \notin TurnsOf(Base(p).chain)
    <3> DEFINE C == {c \in Chain : t \notin TurnsOf(c)}
    <3>1. <<>> \in C
      BY DEF TurnsOf, Chain
    <3>2. EntriesIn(C)
      <4>1. \A e \in 1 .. Len(entries) : entries[e].chain \in Chain
        BY EntryIn DEF Entry
      <4> QED
        BY <2>1, <2>2, <4>1 DEF EntriesIn, OwnIsNew
    <3>3. /\ Theirs(p) \in Nat /\ Theirs(p) <= Len(entries)
          /\ ctx[p].branchPrev \in Nat /\ ctx[p].branchPrev <= Len(entries)
      BY <1>1, EntriesNamed, OfProc DEF ContextOK, Context
    <3> HIDE DEF C
    <3>4. theirs \in C /\ Base(p).chain \in C
      BY <2>2, <3>1, <3>2, <3>3, EntryChainIn DEF Base
    <3> QED
      BY <3>4 DEF C
  <2>6. OurHeadMoved(p)
    BY <2>2, <2>4, <2>5 DEF OurHeadMoved
  <2>7. ctx'[p].chain = ours \/ ctx'[p].chain = JoinOntoHead(theirs, ours)
    BY <1>8, <2>2, <2>6 DEF Retried, MovedHead
  <2>8. ctx'[p].chain # <<>> /\ ctx'[p].chain[Len(ctx'[p].chain)] = t
    BY <2>3, <2>4, <2>5, <2>7, JoinKeepsOwn
  <2> QED
    BY <1>6, <2>1, <2>2, <2>8 DEF OwnTurn
<1> QED
  BY <1>3, <1>5, <1>7, <1>8

(* Turns stay numbered and new in every step. *)
LEMMA FreshStep ==
    ASSUME IInv, Fresh, [Next]_vars
    PROVE  Fresh'
<1>1. WellFormed /\ Numbered
  BY DEF IInv, Fresh
<1>2. CASE Next
  <2>1. PICK p \in Proc : ProcStep(p)
    BY <1>2 DEF Next
  <2>2. Numbered'
    BY <1>1, <2>1, NumberedStep
  <2>3. ASSUME NEW q \in Plain PROVE OwnIsNew(q)'
    BY <1>1, <2>1, OtherOwnIsNew, MoverOwnIsNew DEF Fresh, IInv
  <2> QED
    BY <2>2, <2>3 DEF Fresh
<1>3. CASE UNCHANGED vars
  BY <1>3 DEF Fresh, Numbered, OwnIsNew, AtTurn, OwnTurn, vars
<1> QED
  BY <1>2, <1>3

(* Until its run has published it, a turn is on no conversation but its own. *)
THEOREM AlwaysFresh == Spec => []Fresh
<1>1. Init => Fresh
  <2> SUFFICES ASSUME Init PROVE Fresh
    OBVIOUS
  <2>1. TurnsOf(<<>>) = {}
    BY DEF TurnsOf
  <2>2. Numbered
    BY <2>1 DEF Init, Numbered, NumberedTo, EmptyEntry, Closed, NoAsk
  <2>3. \A p \in Plain : ~AtTurn(p)
    BY DEF Init, AtTurn, Closed, NoAsk, Plain
  <2> QED
    BY <2>2, <2>3 DEF Fresh, OwnIsNew
<1>2. IInv /\ Fresh /\ [Next]_vars => Fresh'
  BY FreshStep
<1> QED
  BY <1>1, <1>2, AlwaysIInv, PTL DEF Spec

-------------------------------------------------------------------------------
(* A replay of the turn of a run.  *)

(* Without the turns both sides have, a turn is left. *)
LEMMA OwnIsLeft ==
    ASSUME NEW s \in Chain, NEW t \in Turn
    PROVE  SubSeq(Append(s, t), Len(s) + 1, Len(Append(s, t))) = <<t>>
<1>1. s \in Seq(Turn) /\ Len(s) \in Nat
  BY DEF Chain
<1>2. PICK o : o = Append(s, t)
  OBVIOUS
<1>3. o \in Seq(Turn) /\ Len(o) = Len(s) + 1 /\ o[Len(s) + 1] = t
  BY <1>1, <1>2
<1>4. PICK k \in Nat \ {0} : k = Len(s) + 1
  BY <1>1
<1>5. \A i \in k .. k : o[i] \in Turn
  BY <1>3, <1>4
<1>6. PICK r : r = SubSeq(o, k, k)
  OBVIOUS
<1>7. r \in Seq(Turn) /\ Len(r) = 1 /\ r[1] = t
  <2>1. /\ r \in Seq(Turn) /\ Len(r) = IF k <= k THEN k - k + 1 ELSE 0
        /\ \A i \in 1 .. k - k + 1 : r[i] = o[k + i - 1]
    BY <1>4, <1>5, <1>6, SubSeqProperties
  <2>2. k - k + 1 = 1 /\ k + 1 - 1 = k
    BY <1>4
  <2> QED
    BY <1>3, <1>4, <2>1, <2>2
<1>8. r = <<t>>
  BY <1>7
<1> QED
  BY <1>2, <1>3, <1>4, <1>6, <1>8

(* A turn is joined after a conversation. *)
LEMMA JoinOfOne ==
    ASSUME NEW theirs \in Chain, NEW t \in Turn, t # Sys
    PROVE  theirs \o WithoutSystem(<<t>>) = Append(theirs, t)
<1>1. <<t>> # <<>> /\ Head(<<t>>) = t
  OBVIOUS
<1>2. WithoutSystem(<<t>>) = <<t>>
  BY <1>1 DEF WithoutSystem
<1>3. theirs \in Seq(Turn) /\ Len(theirs) \in Nat
  BY DEF Chain
<1>4. PICK a, b : a = theirs \o <<t>> /\ b = Append(theirs, t)
  OBVIOUS
<1>5. a \in Seq(Turn) /\ b \in Seq(Turn) /\ Len(a) = Len(b)
  BY <1>3, <1>4
<1>6. \A i \in 1 .. Len(b) : a[i] = b[i]
  BY <1>3, <1>4
<1>7. a = b
  BY <1>5, <1>6
<1> QED
  BY <1>2, <1>4, <1>7

(* An extension of a conversation shares all of it. *)
LEMMA SharesAll ==
    ASSUME NEW base \in Chain, NEW theirs \in Chain, Extends(theirs, base),
           NEW t \in Turn, t \notin TurnsOf(theirs)
    PROVE  MergeBase(Append(base, t), theirs) = Len(base)
<1> DEFINE ours == Append(base, t)
           shared == {k \in 1 .. Len(ours) :
                         k <= Len(theirs)
                         /\ \A i \in 1 .. k : ours[i] = theirs[i]}
<1>1. /\ base \in Seq(Turn) /\ theirs \in Seq(Turn)
      /\ Len(base) \in Nat /\ Len(theirs) \in Nat
  BY DEF Chain
<1>2. /\ ours \in Chain /\ Len(ours) = Len(base) + 1 /\ ours # <<>>
      /\ \A i \in 1 .. Len(base) : ours[i] = base[i]
      /\ ours[Len(ours)] = t
  <2>1. ours \in Chain /\ ours # <<>> /\ ours[Len(ours)] = t
    BY AppendTurns
  <2>2. Len(ours) = Len(base) + 1 /\ \A i \in 1 .. Len(base) : ours[i] = base[i]
    BY <1>1
  <2> QED
    BY <2>1, <2>2
<1>3. Len(base) <= Len(theirs) /\ \A i \in 1 .. Len(base) : theirs[i] = base[i]
  <2>1. SubSeq(theirs, 1, Len(base)) = base /\ Len(base) <= Len(theirs)
    BY DEF Extends
  <2>2. \A i \in 1 .. Len(base) : theirs[i] \in Turn
    BY <1>1, <2>1
  <2>3. \A i \in 1 .. Len(base) - 1 + 1 :
           SubSeq(theirs, 1, Len(base))[i] = theirs[1 + i - 1]
    BY <1>1, <2>2, SubSeqProperties
  <2>4. Len(base) - 1 + 1 = Len(base) /\ \A i \in 1 .. Len(base) : 1 + i - 1 = i
    BY <1>1
  <2> QED
    BY <2>1, <2>3, <2>4
<1> HIDE DEF ours
<1>4. MergeBase(ours, theirs) \in 0 .. Len(base)
  BY <1>1, <1>2, MergeBaseBefore
<1>5. 1 .. Len(base) \subseteq shared
  BY <1>1, <1>2, <1>3
<1>6. IsFiniteSet(shared)
  <2>1. Len(ours) \in Nat
    BY <1>1, <1>2
  <2>2. IsFiniteSet(1 .. Len(ours))
    BY <2>1, FS_Interval
  <2> QED
    BY <2>2, FS_Subset
<1>7. Cardinality(1 .. Len(base)) = Len(base)
  <2>1. \A k \in Nat : Cardinality(1 .. k) = k
    BY FS_Interval
  <2> QED
    BY <1>1, <2>1
<1>8. Cardinality(1 .. Len(base)) <= Cardinality(shared)
  BY <1>5, <1>6, FS_Subset
<1>9. MergeBase(ours, theirs) = Cardinality(shared)
  BY DEF MergeBase
<1> HIDE DEF shared
<1> QED
  BY <1>1, <1>4, <1>7, <1>8, <1>9 DEF ours

(* A turn on a conversation that the others only added to is replayed      *)
(* after what they added.                                                  *)
LEMMA JoinIsExact ==
    ASSUME NEW base \in Chain, NEW theirs \in Chain, theirs # <<>>,
           Extends(theirs, base), NEW t \in Turn, t # Sys,
           t \notin TurnsOf(theirs)
    PROVE  JoinOntoHead(theirs, Append(Seeded(base), t)) = Append(theirs, t)
<1>1. CASE base # <<>>
  <2>1. Seeded(base) = base
    BY <1>1 DEF Seeded
  <2>2. MergeBase(Append(base, t), theirs) = Len(base)
    BY SharesAll
  <2>3. SubSeq(Append(base, t), Len(base) + 1, Len(Append(base, t))) = <<t>>
    BY OwnIsLeft
  <2> QED
    BY <2>1, <2>2, <2>3, JoinOfOne DEF JoinOntoHead
<1>2. CASE base = <<>>
  <2> DEFINE s == <<Sys>>
             ours == Append(s, t)
  <2>1. Seeded(base) = s /\ s \in Chain
    BY <1>2, SysIsTurn DEF Seeded, Chain
  <2>2. ours \in Chain /\ ours # <<>> /\ ours[Len(ours)] = t
    BY <2>1, AppendTurns
  <2>3. /\ Len(ours) = 2 /\ Len(s) = 1 /\ ours \in Seq(Turn)
        /\ ours[1] = Sys /\ ours[2] = t
    <3>1. s \in Seq(Turn) /\ Len(s) = 1 /\ s[1] = Sys
      BY <2>1 DEF Chain
    <3>2. PICK z \in Seq(Turn) : z = s
      BY <3>1
    <3>3. PICK o : o = Append(z, t)
      OBVIOUS
    <3>4. o \in Seq(Turn) /\ Len(o) = Len(z) + 1 /\ o[Len(z) + 1] = t
      BY <3>3
    <3>5. \A i \in 1 .. Len(z) : o[i] = z[i]
      BY <3>3
    <3>6. o = ours /\ Len(z) = 1 /\ z[1] = Sys
      BY <3>1, <3>2, <3>3
    <3> HIDE DEF s, ours
    <3>7. Len(o) = 2 /\ o[1] = Sys /\ o[2] = t
      BY <3>4, <3>5, <3>6
    <3> QED BY <3>1, <3>4, <3>6, <3>7
  <2>4. MergeBase(ours, theirs) \in 0 .. 1
    <3> HIDE DEF ours
    <3>1. MergeBase(ours, theirs) \in 0 .. Len(ours) - 1
      BY <2>2, MergeBaseBefore
    <3> QED
      BY <2>3, <3>1
  <2>5. CASE MergeBase(ours, theirs) = 1
    <3>1. SubSeq(ours, 1 + 1, Len(ours)) = <<t>>
      BY <2>1, <2>3, OwnIsLeft
    <3> HIDE DEF ours
    <3>2. SubSeq(ours, MergeBase(ours, theirs) + 1, Len(ours)) = <<t>>
      BY <2>5, <3>1
    <3>3. JoinOntoHead(theirs, ours) = theirs \o WithoutSystem(<<t>>)
      BY <3>2 DEF JoinOntoHead
    <3> QED
      BY <2>1, <3>3, JoinOfOne DEF ours
  <2>6. CASE MergeBase(ours, theirs) = 0
    <3>1. SubSeq(ours, 0 + 1, Len(ours)) = ours
      BY <2>3
    <3>2. WithoutSystem(ours) = <<t>>
      <4>1. ours # <<>> /\ Head(ours) = Sys /\ Tail(ours) = <<t>>
        <5> HIDE DEF ours
        <5>1. ours # <<>> /\ Head(ours) = Sys
          BY <2>2, <2>3
        <5>2. /\ Tail(ours) \in Seq(Turn)
              /\ Len(Tail(ours)) = Len(ours) - 1
              /\ \A i \in 1 .. Len(Tail(ours)) : Tail(ours)[i] = ours[i + 1]
          BY <2>3, <5>1, HeadTailProperties
        <5>3. PICK r : r = Tail(ours)
          OBVIOUS
        <5>4. r \in Seq(Turn) /\ Len(r) = 1 /\ r[1] = t
          <6>1. 2 - 1 = 1 /\ 1 \in 1 .. 1 /\ 1 + 1 = 2
            OBVIOUS
          <6>2. Len(r) = 1 /\ r \in Seq(Turn)
            BY <2>3, <5>2, <5>3, <6>1
          <6>3. r[1] = ours[1 + 1]
            BY <5>2, <5>3, <6>1, <6>2
          <6> QED
            BY <2>3, <6>1, <6>2, <6>3
        <5>5. r = <<t>>
          BY <5>4
        <5> QED
          BY <5>1, <5>3, <5>5
      <4> QED
        BY <4>1 DEF WithoutSystem
    <3>3. WithoutSystem(<<t>>) = <<t>>
      <4>1. <<t>> # <<>> /\ Head(<<t>>) = t
        OBVIOUS
      <4> QED
        BY <4>1 DEF WithoutSystem
    <3> HIDE DEF ours
    <3>4. JoinOntoHead(theirs, ours) = theirs \o WithoutSystem(ours)
      BY <2>6, <3>1 DEF JoinOntoHead
    <3> QED
      BY <2>1, <3>2, <3>3, <3>4, JoinOfOne DEF ours
  <2> QED
    BY <2>4, <2>5, <2>6
<1> QED
  BY <1>1, <1>2

(* As long as the branch only grows, what a plain process publishes after  *)
(* a lost race is the conversation of the others and its turn after it.    *)
THEOREM ReplaysExactly == Spec => ReplayIsExact
<1> DEFINE Exact(p) ==
        LET theirs == EntryOf(Theirs(p)).chain IN
        /\ ctx[p].pc = "lost" /\ ctx'[p].pc = "try"
        /\ Continues(p) /\ Extends(theirs, Base(p).chain)
        => /\ ctx'[p].chain = Append(Seeded(theirs), OwnTurn(p))
           /\ OwnTurn(p) \notin TurnsOf(theirs)
<1>1. IInv /\ Fresh /\ [Next]_vars => [\A p \in Plain : Exact(p)]_vars
  <2> SUFFICES ASSUME IInv, Fresh, [Next]_vars, NEW p \in Plain,
                      ctx[p].pc = "lost", ctx'[p].pc = "try", Continues(p),
                      Extends(EntryOf(Theirs(p)).chain, Base(p).chain)
               PROVE  /\ ctx'[p].chain = Append(Seeded(EntryOf(Theirs(p)).chain),
                                                OwnTurn(p))
                      /\ OwnTurn(p) \notin TurnsOf(EntryOf(Theirs(p)).chain)
    OBVIOUS
  <2>1. WellFormed /\ PlainOK(p) /\ p \in Proc /\ OwnIsNew(p)
    BY DEF IInv, Fresh, Plain
  <2>2. PICK q \in Proc : ProcStep(q)
    BY DEF Next, vars
  <2>3. q = p
    BY <2>1, <2>2, StepShape DEF OthersKept
  <2>4. Retried(p)
    BY <2>1, <2>2, <2>3, PlainStep
    DEF Opened, TurnBegun, TurnDone, Commanded, LostOne
  <2>5. PICK t, ours, theirs, base :
               /\ t = OwnTurn(p) /\ ours = ctx[p].chain
               /\ theirs = EntryOf(Theirs(p)).chain /\ base = Base(p).chain
    OBVIOUS
  <2>6. ours \in Chain /\ theirs \in Chain /\ base \in Chain
    BY <2>1, <2>5, OfProc, EntriesNamed DEF Context, Entry
  <2>7. AtTurn(p) /\ ours = Append(Seeded(base), t) /\ Extends(theirs, base)
    BY <2>5 DEF Continues, AtTurn
  <2>8. t # Sys /\ ours # <<>>
    BY <2>1, <2>5, <2>7 DEF OwnIsNew
  <2>9. t \in Turn
    <3>1. ours \in Seq(Turn) /\ t = ours[Len(ours)]
      BY <2>5, <2>6 DEF OwnTurn, Chain
    <3>2. Len(ours) \in DOMAIN ours
      BY <2>8, <3>1
    <3> QED
      BY <3>1, <3>2
  <2>10. t \notin TurnsOf(theirs)
    <3> DEFINE C == {c \in Chain : t \notin TurnsOf(c)}
    <3>1. <<>> \in C
      BY DEF TurnsOf, Chain
    <3>2. EntriesIn(C)
      <4>1. \A e \in 1 .. Len(entries) : entries[e].chain \in Chain
        BY <2>1, EntryIn DEF Entry
      <4> QED
        BY <2>1, <2>5, <2>7, <4>1 DEF EntriesIn, OwnIsNew
    <3>3. Theirs(p) \in Nat /\ Theirs(p) <= Len(entries)
      BY <2>1, EntriesNamed
    <3> HIDE DEF C
    <3>4. theirs \in C
      BY <2>5, <3>1, <3>2, <3>3, EntryChainIn
    <3> QED
      BY <3>4 DEF C
  <2>11. ours # base
    <3>2. CASE base = <<>>
      BY <2>8, <3>2
    <3>3. CASE base # <<>>
      <4>1. ours = Append(base, t) /\ base \in Seq(Turn)
        BY <2>6, <2>7, <3>3 DEF Seeded, Chain
      <4>2. Len(ours) = Len(base) + 1 /\ Len(base) \in Nat
        BY <2>9, <4>1
      <4>3. Len(base) + 1 # Len(base)
        BY <4>2
      <4> QED
        BY <4>2, <4>3
    <3> QED
      BY <3>2, <3>3
  <2>12. OurHeadMoved(p)
    BY <2>5, <2>11 DEF OurHeadMoved
  <2>13. CASE theirs = base
    BY <2>4, <2>5, <2>7, <2>10, <2>12, <2>13
    DEF Retried, MovedHead, TheirHeadMoved
  <2>14. CASE theirs # base
    <3>1. ctx'[p].chain = JoinOntoHead(theirs, ours)
      BY <2>4, <2>5, <2>12, <2>14 DEF Retried, TheirHeadMoved
    <3>2. theirs # <<>>
      <4>1. Len(base) <= Len(theirs) /\ base \in Seq(Turn)
        BY <2>6, <2>7 DEF Extends, Chain
      <4> QED
        BY <2>14, <4>1
    <3>3. JoinOntoHead(theirs, ours) = Append(theirs, t)
      BY <2>6, <2>7, <2>8, <2>9, <2>10, <3>2, JoinIsExact
    <3>4. Seeded(theirs) = theirs
      BY <3>2 DEF Seeded
    <3> QED
      BY <2>5, <2>10, <3>1, <3>3, <3>4
  <2> QED
    BY <2>13, <2>14
<1> QED
  BY <1>1, AlwaysIInv, AlwaysFresh, PTL DEF Spec, ReplayIsExact

-------------------------------------------------------------------------------
(* The system prompt.  *)

(* A process is in a turn after a step only if it began one, or was in one *)
(* and sees the same conversation.                                         *)
LEMMA TurnKept ==
    ASSUME WellFormed, NEW p \in Proc, ProcStep(p), InTurn(p)'
    PROVE  \/ StartTurn(p)
           \/ InTurn(p) /\ asked'[p].view = asked[p].view
<1>1. ctx[p] \in Context /\ asked[p] \in Asked
  BY OfProc
<1>2. ~NoAsk.inTurn /\ Closed.pc = "closed"
  BY DEF NoAsk, Closed
<1>3. ASSUME asked'[p] = asked[p], ctx'[p].pc # "turn" \/ ctx[p].pc = "turn"
      PROVE  InTurn(p) /\ asked'[p].view = asked[p].view
  BY <1>3 DEF InTurn
<1>4. ASSUME NEW c \in Context, NEW ok, Settle(p, c, ok)
      PROVE  InTurn(p) /\ asked'[p].view = asked[p].view
  <2> DEFINE next == [c EXCEPT !.staged = FALSE, !.tries = 0,
                               !.want = NoTable, !.lists = Closed.lists]
  <2>1. CASE asked[p].inTurn
    <3>1. asked'[p] = [asked[p] EXCEPT !.cmd = "turn", !.edits = {},
                                       !.inTurn = FALSE]
      BY <1>4, <2>1 DEF Settle, WellFormed
    <3> QED
      BY <1>1, <2>1, <3>1 DEF InTurn, Asked
  <2>2. CASE ~asked[p].inTurn
    <3>1. /\ ctx'[p] = [next EXCEPT !.pc = "idle"] \/ ctx'[p] = Closed
          /\ asked'[p] = NoAsk
      BY <1>4, <2>2 DEF Settle, WellFormed
    <3>2. [next EXCEPT !.pc = "idle"].pc = "idle"
      BY DEF Context
    <3> HIDE DEF next
    <3>3. ~InTurn(p)'
      BY <1>2, <3>1, <3>2 DEF InTurn
    <3> QED
      BY <3>3
  <2> QED
    BY <2>1, <2>2
<1>5. ASSUME NEW c \in Context, Retry(p, c)
      PROVE  InTurn(p) /\ asked'[p].view = asked[p].view
  <2>1. CASE c.tries < StateTries
    <3>1. ctx'[p] = [c EXCEPT !.pc = "try"] /\ UNCHANGED asked
      BY <1>5, <2>1 DEF Retry, WellFormed
    <3>2. ctx'[p].pc = "try"
      BY <3>1 DEF Context
    <3> QED
      BY <1>3, <3>1, <3>2
  <2>2. CASE ~(c.tries < StateTries)
    BY <1>4, <1>5, <2>2 DEF Retry
  <2> QED
    BY <2>1, <2>2
<1>6. CASE Exit(p)
  BY <1>2, <1>6 DEF Exit, InTurn, WellFormed
<1>7. ASSUME NEW b \in Branch, Open(p, b)
      PROVE  InTurn(p) /\ asked'[p].view = asked[p].view
  <2>1. ctx'[p].pc = "idle" /\ UNCHANGED asked
    BY <1>7, OpenIs DEF Open, Opened
  <2> QED
    BY <1>3, <2>1
<1>8. CASE TurnStep(p)
  <2>1. ASSUME FailTurn(p) PROVE FALSE
    <3>1. ctx'[p] = [ctx[p] EXCEPT !.pc = "idle"] \/ ctx'[p] = Closed
      BY <2>1 DEF FailTurn, WellFormed
    <3>2. asked'[p] = NoAsk
      BY <2>1 DEF FailTurn, WellFormed
    <3>3. ctx'[p].pc # "turn"
      BY <1>1, <1>2, <3>1 DEF Context
    <3> QED
      BY <1>2, <3>2, <3>3 DEF InTurn
  <2>2. ASSUME FinishTurn(p)
        PROVE  InTurn(p) /\ asked'[p].view = asked[p].view
    <3>1. asked'[p] = [asked[p] EXCEPT !.since = ctx[p].refsHead]
          /\ ctx[p].pc = "turn"
      BY <2>2 DEF FinishTurn, WellFormed
    <3> QED
      BY <1>1, <3>1 DEF Asked, InTurn
  <2>3. ASSUME Refresh(p)
        PROVE  InTurn(p) /\ asked'[p].view = asked[p].view
    <3>1. /\ ctx'[p] = [ctx[p] EXCEPT !.refsHead = refs,
                                      !.table = roots[refs].table,
                                      !.branchPrev = Theirs(p)]
          /\ UNCHANGED asked
      BY <2>3 DEF Refresh, WellFormed
    <3>2. ctx'[p].pc = ctx[p].pc
      BY <1>1, <3>1 DEF Context
    <3> QED
      BY <1>3, <3>1, <3>2
  <2> QED
    BY <1>8, <2>1, <2>2, <2>3 DEF TurnStep
<1>9. CASE CommandStep(p)
  <2>1. ASSUME NEW m, NEW v, WriteList(p, m, v)
        PROVE  InTurn(p) /\ asked'[p].view = asked[p].view
    <3>1. asked'[p] = [asked[p] EXCEPT !.cmd = "list", !.edits = {m},
                          !.inTurn = TRUE, !.since = ctx[p].refsHead]
          /\ ctx[p].pc = "turn"
      BY <2>1 DEF WriteList, WellFormed
    <3> QED
      BY <1>1, <3>1 DEF Asked, InTurn
  <2>2. ASSUME NEW cmd, NEW edits, Ask(p, cmd, edits) PROVE ~asked'[p].inTurn
    BY <2>2 DEF Ask, NoAsk, WellFormed
  <2>3. ASSUME NEW m, NEW v, SetMember(p, m, v) PROVE ctx'[p].pc = "try"
    BY <1>1, <2>3 DEF SetMember, Context, WellFormed
  <2>4. ASSUME Clear(p) \/ Reset(p) PROVE ctx'[p].pc = "try"
    <3>1. PICK s : ctx'[p] = [ctx[p] EXCEPT !.pc = "try", !.chain = s]
      BY <2>4 DEF Clear, Reset, WellFormed
    <3> QED
      BY <1>1, <3>1 DEF Context
  <2>5. ASSUME NEW b \in Branch, Checkout(p, b) PROVE ctx'[p].pc = "try"
    <3> DEFINE d == Adopted(ctx[p], b)
    <3>1. d \in Context
      BY OfProc, AdoptedOK DEF ContextOK
    <3>2. ctx'[p] = [d EXCEPT !.pc = "try", !.headBranch = b]
      BY <2>5 DEF Checkout, WellFormed
    <3> HIDE DEF d
    <3> QED
      BY <3>1, <3>2 DEF Context
  <2>6. ASSUME NEW m, NEW v, SetMember(p, m, v) PROVE FALSE
    BY <2>2, <2>3, <2>6 DEF SetMember, InTurn
  <2>7. ASSUME Clear(p) \/ Reset(p) PROVE FALSE
    BY <2>2, <2>4, <2>7 DEF Clear, Reset, InTurn
  <2>8. ASSUME NEW b \in Branch, Checkout(p, b) PROVE FALSE
    BY <2>2, <2>5, <2>8 DEF Checkout, InTurn
  <2> QED
    BY <1>9, <2>1, <2>6, <2>7, <2>8 DEF CommandStep
<1>10. CASE TableStep(p)
  <2>1. PICK cmd, desired, branch, head :
               EditTable(p, cmd, desired, branch, head)
    BY <1>10 DEF TableStep, CreateBranch, DeleteBranch, RenameBranch,
                 DescribeBranch
  <2>2. PICK prev : ctx'[p] = [ctx[p] EXCEPT !.pc = "ttry", !.want = desired,
                            !.branch = branch, !.headBranch = head,
                            !.branchPrev = prev]
    BY <2>1 DEF EditTable, WellFormed
  <2>3. ctx'[p].pc = "ttry"
    BY <1>1, <2>2 DEF Context
  <2>4. ~asked'[p].inTurn
    BY <2>1 DEF EditTable, AskTable, NoAsk, WellFormed
  <2> QED
    BY <2>3, <2>4 DEF InTurn
<1>11. CASE PublishStep(p)
  <2>1. PICK w \in Table, h \in Branch :
               /\ w = DeltaApply(asked[p].base, asked[p].desired,
                                 roots[refs].table)
               /\ h = IF asked[p].movesHead THEN ctx[p].headBranch
                      ELSE roots[refs].HEAD
    <3>1. /\ DeltaApply(asked[p].base, asked[p].desired, roots[refs].table)
                \in Table
          /\ (IF asked[p].movesHead THEN ctx[p].headBranch
              ELSE roots[refs].HEAD) \in Branch
      BY <1>1, OfProc, RootOfType, DeltaApplyType
      DEF WellFormed, Asked, AskedOK, Context
    <3> QED
      BY <3>1
  <2>0. PICK r, s, e, t : /\ r = Len(roots) + 1 /\ e = Len(entries) + 1
                          /\ s = ctx[p].tries + 1
                          /\ t = [ctx[p].table EXCEPT ![ctx[p].branch] = e]
    OBVIOUS
  <2>2. /\ r \in Nat /\ e \in Nat /\ s \in Nat /\ refs \in Nat
        /\ t \in Table /\ ctx[p].want \in Table
    <3>1. /\ r \in Nat /\ e \in Nat /\ s \in Nat /\ refs \in Nat
          /\ ctx[p].want \in Table /\ ctx[p].table \in Table
      BY <1>1, <2>0, OfProc DEF Context
    <3> QED
      BY <2>0, <3>1 DEF Table
  <2>3. /\ [ctx[p] EXCEPT !.refsHead = r, !.table = t, !.branchPrev = e]
               \in Context
        /\ [ctx[p] EXCEPT !.refsHead = r, !.table = ctx[p].want] \in Context
        /\ [ctx[p] EXCEPT !.refsHead = refs] \in Context
    BY <1>1, <2>2 DEF Context
  <2>4. [ctx[p] EXCEPT !.refsHead = refs, !.tries = s, !.want = w,
                       !.headBranch = h] \in Context
    BY <1>1, <2>2 DEF Context
  <2>5. Reread(ctx[p]) \in Context
    BY RereadOK
  <2>6. ASSUME NEW chain \in Chain
        PROVE  Merged(p, Reread(ctx[p]), chain) \in Context
    BY RereadOK, MergedOK DEF ContextOK
  <2>7. CASE \/ PublishNothing(p) \/ PublishWon(p) \/ ReconcileRefuse(p)
             \/ TableWon(p) \/ TableRefuse(p)
    <3>1. \E c \in Context, ok \in BOOLEAN : Settle(p, c, ok)
      BY <1>1, <2>0, <2>3, <2>5, <2>7
      DEF PublishNothing, PublishWon, ReconcileRefuse, TableWon, TableRefuse
    <3> QED
      BY <1>4, <3>1
  <2>8. CASE PublishLost(p) \/ TableLost(p)
    <3>1. PICK pc \in {"lost", "tlost"} : ctx'[p] = [ctx[p] EXCEPT !.pc = pc]
      BY <2>8 DEF PublishLost, TableLost, WellFormed
    <3>2. ctx'[p].pc = pc /\ UNCHANGED asked
      BY <1>1, <2>8, <3>1 DEF Context, PublishLost, TableLost
    <3> QED
      BY <1>3, <3>2
  <2>9. CASE \/ ReconcileUnmoved(p) \/ ReconcileOneSided(p)
             \/ ReconcileReplay(p)
    <3>1. /\ MovedHead(p) \in Chain
          /\ JoinOntoHead(EntryOf(Theirs(p)).chain, ctx[p].chain) \in Chain
      BY <1>1, EntriesNamed, JoinOntoHeadKeepsTheirs
      DEF MovedHead, Context, Entry
    <3>2. \E c \in Context : Retry(p, c)
      BY <2>5, <2>6, <2>9, <3>1
      DEF ReconcileUnmoved, ReconcileOneSided, ReconcileReplay
    <3> QED
      BY <1>5, <3>2
  <2>10. CASE TableReapply(p)
    <3> DEFINE c == [ctx[p] EXCEPT !.refsHead = refs, !.tries = s, !.want = w,
                                   !.headBranch = h]
    <3>1. IF c.tries < TableTries
          THEN /\ ctx' = [ctx EXCEPT ![p] = [c EXCEPT !.pc = "ttry"]]
               /\ UNCHANGED asked
          ELSE Settle(p, c, FALSE)
      BY <2>0, <2>1, <2>10 DEF TableReapply
    <3>2. [c EXCEPT !.pc = "ttry"].pc = "ttry"
      BY <2>4 DEF Context
    <3>3. c \in Context
      BY <2>4
    <3> HIDE DEF c
    <3>4. CASE c.tries < TableTries
      BY <1>3, <3>1, <3>2, <3>4 DEF WellFormed
    <3>5. CASE ~(c.tries < TableTries)
      BY <1>4, <3>1, <3>3, <3>5
    <3> QED
      BY <3>4, <3>5
  <2> QED
    BY <1>11, <2>7, <2>8, <2>9, <2>10 DEF PublishStep
<1> QED
  BY <1>6, <1>7, <1>8, <1>9, <1>10, <1>11 DEF ProcStep

(* The system prompt stays first. *)
LEMMA PromptStep ==
    ASSUME WellFormed, Prompted, [Next]_vars, Replaying = {}
    PROVE  Prompted'
<1>1. CASE UNCHANGED vars
  BY <1>1 DEF Prompted, InTurn, vars
<1>2. CASE Next
  <2>1. PICK p \in Proc : ProcStep(p)
    BY <1>2 DEF Next
  <2> DEFINE C == {c \in Chain : Opening(c)}
  <2>2. <<>> \in C /\ <<Sys>> \in C
    BY SysIsTurn DEF Chain, Opening
  <2>3. EntriesIn(C)
    <3>1. \A e \in 1 .. Len(entries) : entries[e].chain \in Chain
      BY EntryIn DEF Entry
    <3> QED
      BY <3>1 DEF EntriesIn, Prompted
  <2>4. \A q \in Proc : HeldIn(q, C)
    BY OfProc DEF HeldIn, Prompted, Context, Asked
  <2>5. ASSUME FinishTurn(p) PROVE Append(asked[p].view, issued + 1) \in C
    <3>1. PICK v \in Chain, t \in Turn : v = asked[p].view /\ t = issued + 1
      BY <2>1, <2>5, OfProc, IssuedStep DEF Asked
    <3>2. v # <<>> /\ Head(v) = Sys
      BY <2>1, <2>5, <3>1 DEF Prompted, InTurn, FinishTurn, Opening
    <3>3. Append(v, t) \in Chain /\ v \in Seq(Turn)
      BY AppendTurns DEF Chain
    <3>4. Head(Append(v, t)) = Head(v)
      BY <3>2, <3>3
    <3> QED
      BY <3>1, <3>2, <3>3, <3>4 DEF Opening
  <2>6. ~ReconcileReplay(p)
    BY DEF ReconcileReplay
  <2> HIDE DEF C
  <2>7. EntriesIn(C)' /\ HeldIn(p, C)'
    BY <2>1, <2>2, <2>3, <2>4, <2>5, <2>6, StepChains
  <2>8. \A q \in Proc \ {p} : ctx'[q] = ctx[q] /\ asked'[q] = asked[q]
    BY <2>1, StepShape DEF OthersKept
  <2>9. \A c \in C : Opening(c)
    BY DEF C
  <2>10. \A q \in Proc : Opening(ctx'[q].chain) /\ Opening(asked'[q].view)
    BY <2>4, <2>7, <2>8, <2>9 DEF HeldIn
  <2>11. \A e \in 1 .. Len(entries') : Opening(entries'[e].chain)
    BY <2>7, <2>9 DEF EntriesIn
  <2>12. ASSUME NEW q \in Proc, InTurn(q)' PROVE asked'[q].view # <<>>
    <3>1. CASE q # p
      BY <2>8, <2>12, <3>1 DEF Prompted, InTurn
    <3>2. CASE q = p
      <4>1. CASE StartTurn(p)
        <5>1. PICK s : s = Seeded(ctx[p].chain)
          OBVIOUS
        <5>2. asked'[p].view = s
          BY <4>1, <5>1 DEF StartTurn, NoAsk, WellFormed
        <5>3. <<Sys>> # <<>>
          OBVIOUS
        <5> QED
          BY <3>2, <5>1, <5>2, <5>3 DEF Seeded
      <4>2. CASE InTurn(p) /\ asked'[p].view = asked[p].view
        BY <3>2, <4>2 DEF Prompted
      <4> QED
        BY <2>1, <2>12, <3>2, <4>1, <4>2, TurnKept
    <3> QED
      BY <3>1, <3>2
  <2> QED
    BY <2>10, <2>11, <2>12 DEF Prompted
<1> QED
  BY <1>1, <1>2

(* Where conflicts are refused, every conversation that is published opens *)
(* with the system prompt, whatever was cleared, reset or merged.          *)
THEOREM AlwaysSystemPrompt ==
    ASSUME Replaying = {}
    PROVE  Spec => []SystemPrompt
<1>1. Init => Prompted
  BY DEF Init, Prompted, Opening, InTurn, EmptyEntry, Closed, NoAsk
<1>2. IInv /\ Prompted /\ [Next]_vars => Prompted'
  BY PromptStep DEF IInv
<1>3. IInv /\ Prompted => SystemPrompt
  <2> SUFFICES ASSUME IInv, Prompted, NEW e \in DOMAIN entries
               PROVE  Opening(entries[e].chain)
    BY DEF SystemPrompt, Opening
  <2>1. DOMAIN entries = 1 .. Len(entries)
    BY DEF IInv, WellFormed, ArenaOK
  <2> QED
    BY <2>1 DEF Prompted
<1> QED
  BY <1>1, <1>2, <1>3, AlwaysIInv, PTL DEF Spec

-------------------------------------------------------------------------------
(* What the names of the roots hold.  *)

(* A tip is what a name of some root holds. *)
LEMMA KnownIs ==
    ASSUME WellFormed, NEW k
    PROVE  k \in TipsKnown <=>
               /\ k # TipOf(NoEntry)
               /\ \E r \in 1 .. Len(roots), b \in Branch :
                     k = TipOf(roots[r].table[b])
<1>1. DOMAIN roots = 1 .. Len(roots)
  BY DEF WellFormed, ArenaOK
<1> QED
  BY <1>1 DEF TipsKnown

(* Only a name with an entry is live. *)
LEMMA LiveIs ==
    ASSUME NEW e
    PROVE  /\ TipOf(e).live = (e # NoEntry)
           /\ TipOf(e).chain = EntryOf(e).chain
           /\ TipOf(e).store = EntryOf(e).store
           /\ e # NoEntry => TipOf(e) # TipOf(NoEntry)
BY DEF TipOf

(* An entry keeps what it holds. *)
LEMMA TipKept ==
    ASSUME WellFormed, ArenaGrows, NEW e \in Nat, e <= Len(entries)
    PROVE  EntryOf(e)' = EntryOf(e) /\ TipOf(e)' = TipOf(e)
<1>1. EntryOf(e)' = EntryOf(e)
  BY EntryKept DEF EntryOf
<1> QED
  BY <1>1 DEF TipOf

(* What a root names is an entry. *)
LEMMA NamedIs ==
    ASSUME WellFormed, NEW r \in 1 .. Len(roots), NEW b \in Branch
    PROVE  /\ roots[r].table[b] \in Nat
           /\ roots[r].table[b] <= Len(entries)
           /\ WasHeld(roots[r].table[b])
BY RootOfType DEF WellFormed, Table, Within, WasHeld

(* An entry that was held is known, and stays held and known. *)
LEMMA HeldIs ==
    ASSUME WellFormed, NEW e, WasHeld(e)
    PROVE  /\ e \in Nat /\ e <= Len(entries)
           /\ e # NoEntry => TipOf(e) \in TipsKnown /\ HeldChain(EntryOf(e).chain)
<1>1. PICK r \in 1 .. Len(roots), b \in Branch : e = roots[r].table[b]
  BY DEF WasHeld
<1>2. e \in Nat /\ e <= Len(entries)
  BY <1>1, NamedIs
<1>3. e # NoEntry => TipOf(e) \in TipsKnown
  BY <1>1, KnownIs, LiveIs
<1>4. e # NoEntry => HeldChain(EntryOf(e).chain)
  BY <1>3, LiveIs DEF HeldChain
<1> QED
  BY <1>2, <1>3, <1>4

(* What a root has held stays held. *)
LEMMA WasHeldKept ==
    ASSUME WellFormed, WellFormed', ArenaGrows, NEW e, WasHeld(e)
    PROVE  WasHeld(e)'
<1>1. Len(roots) \in Nat /\ Len(roots') \in Nat
  BY DEF WellFormed, ArenaOK
<1> QED
  BY <1>1 DEF WasHeld, ArenaGrows

(* What was known stays known, and nothing is added without a new root. *)
LEMMA KnownGrows ==
    ASSUME WellFormed, WellFormed', ArenaGrows
    PROVE  /\ TipsKnown \subseteq TipsKnown'
           /\ UNCHANGED roots => TipsKnown' = TipsKnown
           /\ \A chain : HeldChain(chain) => HeldChain(chain)'
<1>1. Len(roots) \in Nat /\ Len(roots') \in Nat /\ Len(roots) <= Len(roots')
  BY DEF WellFormed, ArenaOK, ArenaGrows
<1>2. TipOf(NoEntry)' = TipOf(NoEntry)
  BY DEF TipOf, EntryOf
<1>3. ASSUME NEW r \in 1 .. Len(roots), NEW b \in Branch
      PROVE  TipOf(roots[r].table[b])' = TipOf(roots[r].table[b])
  <2>1. roots'[r] = roots[r]
    BY DEF ArenaGrows
  <2>2. PICK e \in Nat : e = roots[r].table[b] /\ e <= Len(entries)
    BY NamedIs
  <2>3. TipOf(e)' = TipOf(e)
    BY <2>2, TipKept
  <2> QED
    BY <2>1, <2>2, <2>3 DEF TipOf, EntryOf
<1>4. ASSUME NEW k \in TipsKnown PROVE k \in TipsKnown'
  <2>1. PICK r \in 1 .. Len(roots), b \in Branch : k = TipOf(roots[r].table[b])
    BY KnownIs
  <2>2. k # TipOf(NoEntry)
    BY KnownIs
  <2>3. r \in DOMAIN roots'
    BY <1>1 DEF WellFormed, ArenaOK
  <2>4. k = TipOf(roots[r].table[b])' /\ k # TipOf(NoEntry)'
    BY <1>2, <1>3, <2>1, <2>2
  <2> QED
    BY <2>3, <2>4 DEF TipsKnown
<1>5. ASSUME UNCHANGED roots, NEW k \in TipsKnown' PROVE k \in TipsKnown
  <2>1. /\ k # TipOf(NoEntry)'
        /\ \E r \in DOMAIN roots', b \in Branch : k = TipOf(roots[r].table[b])'
    BY DEF TipsKnown
  <2>2. DOMAIN roots' = 1 .. Len(roots)
    BY <1>5 DEF WellFormed, ArenaOK
  <2> QED
    BY <1>2, <1>3, <2>1, <2>2, KnownIs
<1>6. \A chain : HeldChain(chain) => HeldChain(chain)'
  BY <1>4 DEF HeldChain
<1> QED
  BY <1>4, <1>5, <1>6

-------------------------------------------------------------------------------
(* One-command processes that refuse conflicts.  *)

OneCommand == Session = {} /\ Tooled = {} /\ Replaying = {}

(* Then every process is plain, and refuses conflicts. *)
LEMMA AllPlain == ASSUME OneCommand PROVE Plain = Proc /\ Refusing = Proc
BY DEF OneCommand, Plain, Refusing

(* The predecessor and the table of a process that has opened the arena    *)
(* are held by a root.                                                     *)
LEMMA InStepHeld ==
    ASSUME WellFormed, NEW p \in Proc, PlainOK(p),
           ctx[p].pc \in {"idle", "turn", "try", "lost"}
    PROVE  WasHeld(ctx[p].branchPrev)
           /\ \A b \in Branch : WasHeld(ctx[p].table[b])
<1>1. ctx[p].refsHead \in 1 .. Len(roots) /\ ctx[p].branch \in Branch
  BY OfProc DEF ContextOK, Context
<1>2. InStepAt(p)
  BY DEF PlainOK
<1>3. \A b \in Branch : WasHeld(ctx[p].table[b])
  BY <1>1, <1>2, NamedIs DEF InStepAt
<1> QED
  BY <1>1, <1>2, <1>3 DEF InStepAt

(* What a step appends to the entries names a predecessor that was held.   *)
LEMMA AppendedIs ==
    ASSUME WellFormed, NEW p \in Proc, PlainOK(p), ProcStep(p), p \in Plain
    PROVE  \/ UNCHANGED entries
           \/ \E x : /\ entries' = Append(entries, x)
                     /\ x.prev = NoEntry \/ WasHeld(x.prev)
<1>1. ctx[p] \in Context /\ ctx[p].branch \in Branch
  BY OfProc DEF Context
<1>2. CASE Exit(p) \/ (\E b \in Branch : Open(p, b)) \/ TurnStep(p)
           \/ CommandStep(p)
  BY <1>2 DEF Exit, Open, TurnStep, StartTurn, FailTurn, FinishTurn, Refresh,
       CommandStep, SetMember, WriteList, Clear, Reset, Checkout
<1>3. ASSUME NEW b \in Branch, CreateBranch(p, b)
      PROVE  \E x : entries' = Append(entries, x) /\ x.prev = NoEntry
  <2> DEFINE x == [entries[ctx[p].table[ctx[p].branch]] EXCEPT !.prev = NoEntry]
  <2>1. entries' = Append(entries, x) /\ ctx[p].table[ctx[p].branch] # NoEntry
    BY <1>3 DEF CreateBranch
  <2>2. entries[ctx[p].table[ctx[p].branch]] \in Entry
    BY <1>1, <2>1, TableEntryOK
  <2>3. x.prev = NoEntry
    BY <2>2, EntryRelinked DEF NoEntry
  <2> HIDE DEF x
  <2> QED
    BY <2>1, <2>3
<1>4. ASSUME NEW b \in Branch, DeleteBranch(p, b) PROVE UNCHANGED entries
  BY <1>4 DEF DeleteBranch
<1>5. ASSUME NEW b \in Branch, ctx[p].pc = "idle" PROVE WasHeld(ctx[p].table[b])
  BY <1>5, InStepHeld
<1>6. ASSUME NEW from \in Branch, NEW to \in Branch, RenameBranch(p, from, to)
      PROVE  \/ UNCHANGED entries
             \/ \E x : entries' = Append(entries, x) /\ WasHeld(x.prev)
  <2> DEFINE x == [entries[ctx[p].table[from]] EXCEPT !.prev = ctx[p].table[from]]
  <2>1. /\ entries' = entries \/ entries' = Append(entries, x)
        /\ ctx[p].table[from] # NoEntry /\ ctx[p].pc = "idle"
    BY <1>6 DEF RenameBranch, EditTable
  <2>2. /\ entries[ctx[p].table[from]] \in Entry
        /\ ctx[p].table[from] \in Nat
    BY <2>1, TableEntryOK
  <2>3. x.prev = ctx[p].table[from]
    BY <2>2, EntryRelinked
  <2> HIDE DEF x
  <2> QED
    BY <1>5, <2>1, <2>3
<1>7. ASSUME NEW b \in Branch, NEW m, NEW v, DescribeBranch(p, b, m, v)
      PROVE  \E x : entries' = Append(entries, x) /\ WasHeld(x.prev)
  <2> DEFINE x == [entries[ctx[p].table[b]] EXCEPT !.store[m] = v,
                                                   !.prev = ctx[p].table[b]]
  <2>1. /\ entries' = Append(entries, x)
        /\ ctx[p].table[b] # NoEntry /\ ctx[p].pc = "idle"
    BY <1>7 DEF DescribeBranch, EditTable
  <2>2. entries[ctx[p].table[b]] \in Entry
    BY <2>1, TableEntryOK
  <2>3. x.prev = ctx[p].table[b]
    BY <2>2 DEF Entry
  <2> HIDE DEF x
  <2> QED
    BY <1>5, <2>1, <2>3
<1>8. CASE TableStep(p)
  BY <1>3, <1>4, <1>6, <1>7, <1>8 DEF TableStep
<1>9. CASE PublishWon(p)
  <2>1. entries' = Append(entries, OurEntry(p)) /\ ctx[p].pc = "try"
    BY <1>9 DEF PublishWon, MayTry
  <2>2. OurEntry(p).prev = ctx[p].branchPrev
    BY DEF OurEntry
  <2> QED
    BY <2>1, <2>2, InStepHeld
<1>10. CASE PublishStep(p) /\ ~PublishWon(p)
  BY <1>10 DEF PublishStep, PublishNothing, PublishLost, ReconcileUnmoved,
       ReconcileOneSided, ReconcileReplay, ReconcileRefuse, TableWon,
       TableLost, TableReapply, TableRefuse
<1> QED
  BY <1>2, <1>8, <1>9, <1>10 DEF ProcStep

(* Predecessors stay linked to what was held. *)
LEMMA LinkedStep ==
    ASSUME WellFormed, Linked, NEW p \in Plain, PlainOK(p), ProcStep(p)
    PROVE  Linked'
<1>1. p \in Proc /\ WellFormed' /\ ArenaGrows
  BY ProcStepWellFormed, StepShape DEF Plain
<1>2. /\ entries \in Seq(Entry) /\ Len(entries) \in Nat
      /\ \A e \in 1 .. Len(entries) : entries'[e] = entries[e]
  BY <1>1 DEF WellFormed, ArenaOK, ArenaGrows
<1>3. \A e \in 1 .. Len(entries) :
         entries'[e].prev # NoEntry => WasHeld(entries'[e].prev)
  BY <1>2 DEF Linked
<1>4. \A e : WasHeld(e) => WasHeld(e)'
  BY <1>1, WasHeldKept
<1>5. CASE UNCHANGED entries
  BY <1>3, <1>4, <1>5 DEF Linked
<1>6. ASSUME NEW x, entries' = Append(entries, x),
             x.prev = NoEntry \/ WasHeld(x.prev)
      PROVE  Linked'
  <2>1. Len(entries') = Len(entries) + 1 /\ entries'[Len(entries) + 1] = x
    BY <1>2, <1>6
  <2>2. ASSUME NEW e \in 1 .. Len(entries'), entries'[e].prev # NoEntry
        PROVE  WasHeld(entries'[e].prev)
    <3>1. CASE e \in 1 .. Len(entries)
      BY <1>3, <2>2, <3>1
    <3>2. CASE e = Len(entries) + 1
      BY <1>6, <2>1, <2>2, <3>2
    <3> QED
      BY <1>2, <2>1, <3>1, <3>2
  <2>3. \A e \in 1 .. Len(entries') :
           entries'[e].prev # NoEntry => WasHeld(entries'[e].prev)
    BY <2>2
  <2>4. ASSUME NEW e \in 1 .. Len(entries'), entries'[e].prev # NoEntry
        PROVE  WasHeld(entries[e].prev)'
    <3>1. PICK n : n = entries'[e].prev
      OBVIOUS
    <3>2. WasHeld(n)'
      BY <1>4, <2>3, <2>4, <3>1
    <3> QED
      BY <3>1, <3>2 DEF WasHeld
  <2> QED
    BY <2>4 DEF Linked
<1> QED
  BY <1>1, <1>5, <1>6, AppendedIs

(* The conversation a process starts from is empty or known. *)
LEMMA BaseKnown ==
    ASSUME WellFormed, NEW e, WasHeld(e)
    PROVE  EntryOf(e).chain = <<>> \/ HeldChain(EntryOf(e).chain)
<1>1. CASE e = NoEntry
  BY <1>1 DEF EntryOf, EmptyEntry
<1>2. CASE e # NoEntry
  BY <1>2, HeldIs
<1> QED
  BY <1>1, <1>2

(* So is the conversation before the last entry. *)
LEMMA BeforeKnown ==
    ASSUME WellFormed, Linked, NEW p \in Proc
    PROVE  Before(p).chain = <<>> \/ HeldChain(Before(p).chain)
<1>1. PICK t : t = ctx[p].table[ctx[p].branch]
  OBVIOUS
<1>2. t \in Nat /\ t <= Len(entries) /\ Before(p) = EntryOf(EntryOf(t).prev)
  BY <1>1, BeforeType DEF Before
<1>3. CASE EntryOf(t).prev = NoEntry
  BY <1>2, <1>3 DEF EntryOf, EmptyEntry
<1>4. CASE EntryOf(t).prev # NoEntry
  <2>1. t # NoEntry
    BY <1>4 DEF EntryOf, EmptyEntry
  <2>2. t \in 1 .. Len(entries) /\ EntryOf(t) = entries[t]
    BY <1>2, <2>1 DEF EntryOf, NoEntry
  <2>3. WasHeld(EntryOf(t).prev)
    BY <1>4, <2>2 DEF Linked
  <2> QED
    BY <1>2, <2>3, BaseKnown
<1> QED
  BY <1>3, <1>4

(* What another process is to publish stays as it was. *)
LEMMA OtherRunOK ==
    ASSUME WellFormed, WellFormed', ArenaGrows, NEW q \in Proc, RunOK(q),
           ctx'[q] = ctx[q], asked'[q] = asked[q]
    PROVE  RunOK(q)'
<1>1. Base(q)' = Base(q)
  BY HeldKept
<1>2. Continues(q)' = Continues(q)
  BY <1>1 DEF Continues, OwnTurn
<1>3. HeldChain(ctx[q].chain) => HeldChain(ctx[q].chain)'
  <2>1. PICK c : c = ctx[q].chain
    OBVIOUS
  <2>2. HeldChain(c) => HeldChain(c)'
    BY KnownGrows
  <2> QED
    BY <2>1, <2>2 DEF HeldChain
<1> QED
  BY <1>1, <1>2, <1>3 DEF RunOK

(* A process comes to publish one command, or what is left of it on a      *)
(* conversation only one side moved.                                       *)
LEMMA MoverRunOK ==
    ASSUME WellFormed, Linked, NEW p \in Plain, PlainOK(p), ProcStep(p),
           RunOK(p), Replaying = {}
    PROVE  RunOK(p)'
<1>1. /\ p \in Proc /\ WellFormed' /\ ArenaGrows /\ PlainOK(p)'
  BY ProcStepWellFormed, StepShape, MoverPlainOK DEF Plain
<1>2. CASE ctx'[p].pc \in {"closed", "ttry", "tlost"}
  BY <1>2 DEF RunOK
<1>3. CASE Opened(p)
  BY <1>3 DEF Opened, RunOK
<1>4. CASE TurnBegun(p)
  BY <1>4 DEF TurnBegun, RunOK
<1>5. CASE TurnDone(p)
  <2>1. /\ asked[p].cmd = "turn" /\ asked[p].view = Seeded(Base(p).chain)
        /\ asked[p].edits = {}
    BY <1>5 DEF TurnDone, RunOK, PlainOK
  <2>2. PICK v \in Chain : v = asked[p].view
    BY <1>1, OfProc DEF Asked
  <2>3. Append(v, issued + 1)[Len(Append(v, issued + 1))] = issued + 1
    <3>1. v \in Seq(Turn) /\ Len(v) \in Nat
      BY DEF Chain
    <3> QED
      BY <3>1
  <2>4. OwnTurn(p)' = issued + 1
    BY <1>5, <2>2, <2>3 DEF OwnTurn, TurnDone
  <2>5. Continues(p)' /\ asked'[p].edits = {} /\ ctx'[p].pc = "try"
    BY <1>5, <2>1, <2>4 DEF Continues, TurnDone
  <2> QED
    BY <2>5 DEF RunOK
<1>6. CASE UNCHANGED <<roots, entries>> /\ Commanded(p)
  <2>1. /\ ctx'[p].pc = "try" /\ asked'[p].cmd # "turn"
        /\ ctx[p].chain = Base(p).chain
    BY <1>6 DEF Commanded, RunOK
  <2>2. CASE /\ ctx'[p].chain = ctx[p].chain /\ Base(p)' = Base(p)
             /\ \E m \in Member : asked'[p].edits \subseteq {m}
    BY <2>1, <2>2 DEF RunOK
  <2>3. ASSUME asked'[p].edits = {},
               ctx'[p].chain = <<>> \/ HeldChain(ctx[p].chain)'
        PROVE  RunOK(p)'
    BY <2>1, <2>3 DEF RunOK
  <2>4. ASSUME NEW c, ctx'[p].chain = c, HeldChain(c)'
        PROVE  HeldChain(ctx[p].chain)'
    BY <2>4 DEF HeldChain
  <2>5. CASE ctx'[p].chain \in {<<>>, Before(p).chain} /\ asked'[p].edits = {}
    <3>1. PICK c : c = Before(p).chain
      OBVIOUS
    <3>2. c = <<>> \/ HeldChain(c)'
      BY <1>1, <3>1, BeforeKnown, KnownGrows
    <3> QED
      BY <2>3, <2>4, <2>5, <3>1, <3>2
  <2>6. CASE ctx'[p].chain = Base(p)'.chain /\ asked'[p].edits = {}
    <3>1. PICK e : e = ctx'[p].branchPrev
      OBVIOUS
    <3>2. WasHeld(e) /\ EntryOf(e)' = EntryOf(e)
      <4>1. InStepAt(p)'
        BY <1>1, <2>1 DEF PlainOK
      <4>2. /\ ctx'[p].refsHead \in 1 .. Len(roots)
            /\ ctx'[p].branch \in Branch
        BY <1>1, <1>6, <2>1 DEF WellFormed, ProcOK, ContextOK, Context
      <4> QED
        BY <1>6, <3>1, <4>1, <4>2 DEF InStepAt, WasHeld, EntryOf
    <3>3. PICK c : c = Base(p)'.chain
      OBVIOUS
    <3>4. c = <<>> \/ HeldChain(c)'
      <4>1. c = EntryOf(e).chain
        BY <3>1, <3>2, <3>3 DEF Base, EntryOf
      <4> QED
        BY <1>1, <3>2, <4>1, BaseKnown, KnownGrows
    <3> QED
      BY <2>3, <2>4, <2>6, <3>3, <3>4
  <2> QED
    BY <1>6, <2>2, <2>5, <2>6 DEF Commanded
<1>7. ASSUME HeldChain(ctx[p].chain), ctx'[p].chain = ctx[p].chain
      PROVE  HeldChain(ctx[p].chain)'
  <2>1. PICK c : c = ctx[p].chain
    OBVIOUS
  <2>2. HeldChain(c)'
    BY <1>1, <1>7, <2>1, KnownGrows
  <2> QED
    BY <1>7, <2>1, <2>2 DEF HeldChain
<1>8. CASE LostOne(p)
  <2>1. Continues(p) => Continues(p)'
    BY <1>8 DEF LostOne, Continues, OwnTurn
  <2> QED
    BY <1>7, <1>8, <2>1 DEF LostOne, RunOK
<1>9. CASE Retried(p)
  <2>1. /\ ctx[p].pc = "lost" /\ ctx'[p].pc = "try" /\ asked'[p] = asked[p]
        /\ Base(p)' = EntryOf(Theirs(p))
        /\ \/ Base(p) = EntryOf(Theirs(p)) /\ ctx'[p].chain = ctx[p].chain
           \/ /\ ~(OurHeadMoved(p) /\ TheirHeadMoved(p))
              /\ ctx'[p].chain = MovedHead(p)
    BY <1>9 DEF Retried
  <2>2. CASE ctx[p].chain = Base(p).chain
    <3>1. ctx'[p].chain = Base(p)'.chain
      BY <2>1, <2>2 DEF MovedHead, OurHeadMoved
    <3>2. CASE \E m \in Member : asked[p].edits \subseteq {m}
      BY <2>1, <3>1, <3>2 DEF RunOK
    <3>3. CASE asked[p].cmd # "turn" /\ asked[p].edits = {}
      <4>1. PICK c : c = EntryOf(Theirs(p)).chain
        OBVIOUS
      <4>2. WasHeld(Theirs(p))
        BY <1>1, OfProc, NamedIs DEF Theirs, Context
      <4>3. c = <<>> \/ HeldChain(c)'
        BY <1>1, <4>1, <4>2, BaseKnown, KnownGrows
      <4>4. ctx'[p].chain = c
        BY <2>1, <3>1, <4>1
      <4>5. ctx'[p].chain = <<>> \/ HeldChain(ctx[p].chain)'
        BY <4>3, <4>4 DEF HeldChain
      <4> QED
        BY <2>1, <3>3, <4>5 DEF RunOK
    <3>4. ~Continues(p)
      <4>1. PICK b \in Chain : b = Base(p).chain
        BY <1>1, EntriesNamed DEF Entry
      <4>2. \A t : Append(Seeded(b), t) # b
        <5>1. CASE b = <<>>
          <6>1. PICK s \in Seq(Turn) : s = Seeded(b)
            BY SeededType DEF Chain
          <6>2. \A t : Len(Append(s, t)) = Len(s) + 1 /\ Len(s) \in Nat
            BY <6>1
          <6>3. Len(b) = 0
            BY <5>1
          <6> QED
            BY <6>1, <6>2, <6>3
        <5>2. CASE b # <<>>
          <6>1. Seeded(b) = b /\ b \in Seq(Turn) /\ Len(b) \in Nat
            BY <5>2 DEF Seeded, Chain
          <6>2. \A t : Len(Append(b, t)) = Len(b) + 1 /\ Len(b) + 1 # Len(b)
            BY <6>1
          <6> QED
            BY <6>1, <6>2
        <5> QED
          BY <5>1, <5>2
      <4> QED
        BY <2>2, <4>1, <4>2 DEF Continues
    <3> QED
      BY <2>1, <3>2, <3>3, <3>4 DEF RunOK
  <2>3. CASE ctx[p].chain # Base(p).chain
    <3>1. ctx'[p].chain = ctx[p].chain /\ Base(p)'.chain = Base(p).chain
      BY <2>1, <2>3 DEF MovedHead, OurHeadMoved, TheirHeadMoved
    <3>2. Continues(p) => Continues(p)'
      BY <2>1, <3>1 DEF Continues, OwnTurn
    <3> QED
      BY <1>7, <2>1, <2>3, <3>1, <3>2 DEF RunOK
  <2> QED
    BY <2>2, <2>3
<1> QED
  BY <1>2, <1>3, <1>4, <1>5, <1>6, <1>8, <1>9, PlainStep

(* An edit of one name, or a move, stays one while the arena grows. *)
LEMMA EditKept ==
    ASSUME WellFormed, WellFormed', ArenaGrows,
           NEW base \in Table, Within(base, Len(entries)), NEW desired
    PROVE  /\ OneName(base, desired) => OneName(base, desired)'
           /\ Moved(base, desired) => Moved(base, desired)'
<1>1. /\ Len(entries) \in Nat /\ Len(entries') \in Nat
      /\ Len(entries) <= Len(entries')
  BY DEF WellFormed, ArenaOK, ArenaGrows
<1>2. \A b \in Branch : base[b] \in Nat /\ base[b] <= Len(entries)
  BY DEF Table, Within
<1>3. \A e \in 0 .. Len(entries) :
         EntryOf(e)' = EntryOf(e) /\ TipOf(e)' = TipOf(e)
  BY <1>1, TipKept
<1>4. TipsKnown \subseteq TipsKnown'
  BY KnownGrows
<1>5. ASSUME NEW b \in Branch, NEW e \in 0 .. Len(entries),
             Rewritten(e, base[b])
      PROVE  Rewritten(e, base[b])'
  <2>1. EntryOf(base[b])' = EntryOf(base[b]) /\ EntryOf(e)' = EntryOf(e)
    BY <1>1, <1>2, <1>3
  <2> QED
    BY <1>5, <2>1 DEF Rewritten
<1>6. ASSUME OneName(base, desired) PROVE OneName(base, desired)'
  <2>1. PICK b \in Branch, e \in 0 .. Len(entries) :
          /\ desired = [base EXCEPT ![b] = e] /\ e # base[b]
          /\ \/ e = NoEntry
             \/ base[b] = NoEntry /\ TipOf(e) \in TipsKnown
             \/ Rewritten(e, base[b])
    BY <1>6 DEF OneName
  <2>2. e \in 0 .. Len(entries') /\ (TipOf(e) \in TipsKnown => TipOf(e)' \in TipsKnown')
    BY <1>1, <1>3, <1>4
  <2>3. Rewritten(e, base[b]) => Rewritten(e, base[b])'
    BY <1>5
  <2> QED
    BY <2>1, <2>2, <2>3 DEF OneName
<1>7. ASSUME Moved(base, desired) PROVE Moved(base, desired)'
  <2>1. PICK from \in Branch, to \in Branch, e \in 0 .. Len(entries) :
          /\ desired = [base EXCEPT ![from] = NoEntry, ![to] = e]
          /\ base[from] # NoEntry /\ base[to] = NoEntry
          /\ TipOf(e) = TipOf(base[from])
    BY <1>7 DEF Moved
  <2>2. e \in 0 .. Len(entries') /\ TipOf(e)' = TipOf(e)
    BY <1>1, <1>3
  <2>3. TipOf(base[from])' = TipOf(base[from])
    BY <1>1, <1>2, <1>3
  <2> QED
    BY <2>1, <2>2, <2>3 DEF Moved
<1> QED
  BY <1>6, <1>7

(* An edit of the branch table is asked on the table of the context. *)
LEMMA AskedEdit ==
    ASSUME WellFormed, NEW p \in Proc, NEW cmd, NEW desired, NEW branch,
           NEW head, EditTable(p, cmd, desired, branch, head)
    PROVE  /\ asked'[p].base = ctx[p].table /\ asked'[p].desired = desired
           /\ ctx[p].pc = "idle" /\ UNCHANGED roots
<1>1. asked'[p] = [NoAsk EXCEPT !.cmd = cmd, !.base = ctx[p].table,
                                !.desired = desired, !.since = ctx[p].refsHead,
                                !.movesHead = roots[ctx[p].refsHead].HEAD # head]
  BY DEF EditTable, AskTable, WellFormed
<1> QED
  BY <1>1 DEF EditTable, NoAsk

(* A new entry with the conversation and store of another is its tip. *)
LEMMA CopyIs ==
    ASSUME WellFormed, NEW old \in 1 .. Len(entries), NEW prev,
           NEW e, e = Len(entries) + 1,
           entries' = Append(entries, [entries[old] EXCEPT !.prev = prev])
    PROVE  /\ TipOf(e)' = TipOf(old)
           /\ Len(entries') = e
<1>1. entries \in Seq(Entry) /\ Len(entries) \in Nat /\ entries[old] \in Entry
  BY EntryIn DEF WellFormed, ArenaOK
<1>2. PICK x : x = [entries[old] EXCEPT !.prev = prev]
  OBVIOUS
<1>3. x.chain = entries[old].chain /\ x.store = entries[old].store
  BY <1>1, <1>2 DEF Entry
<1>4. Len(entries') = e /\ entries'[e] = x
  BY <1>1, <1>2
<1>5. e # NoEntry /\ old # NoEntry
  BY <1>1 DEF NoEntry
<1> QED
  BY <1>3, <1>4, <1>5 DEF TipOf, EntryOf

(* What an edit of the branch table asks for. *)
LEMMA TableStepAsks ==
    ASSUME WellFormed, NEW p \in Plain, PlainOK(p), TableStep(p)
    PROVE  EditOK(p)'
<1> DEFINE base == ctx[p].table
           last == Len(entries) + 1
<1>1. /\ p \in Proc /\ base \in Table /\ ctx[p].branch \in Branch
      /\ Within(base, Len(entries))
  BY OfProc DEF Plain, ContextOK, Context
<1>2. PICK old \in Table : old = base
  BY <1>1
<1>3. PICK new : new = last
  OBVIOUS
<1>4. /\ Len(entries) \in Nat /\ new \in Nat /\ new # NoEntry
      /\ \A b \in Branch : old[b] \in Nat /\ old[b] <= Len(entries)
  BY <1>1, <1>2, <1>3 DEF WellFormed, ArenaOK, Table, Within, NoEntry
<1>5. ProcStep(p) /\ WellFormed' /\ ArenaGrows
  <2>1. ProcStep(p)
    BY DEF ProcStep
  <2> QED
    BY <1>1, <2>1, ProcStepWellFormed, StepShape
<1> HIDE DEF base, last
<1>6. \A b \in Branch :
         /\ old[b] # NoEntry => entries[old[b]] \in Entry
                                /\ old[b] \in 1 .. Len(entries)
         /\ TipOf(old[b])' = TipOf(old[b]) /\ EntryOf(old[b])' = EntryOf(old[b])
  BY <1>1, <1>2, <1>4, <1>5, TableEntryOK, TipKept DEF base
<1>7. ASSUME NEW desired,
             OneName(old, desired)' \/ Moved(old, desired)',
             asked'[p].base = old, asked'[p].desired = desired
      PROVE  EditOK(p)'
  BY <1>7 DEF EditOK
<1>8. ASSUME NEW b \in Branch, CreateBranch(p, b) PROVE EditOK(p)'
  <2> DEFINE cur == old[ctx[p].branch]
             desired == [old EXCEPT ![b] = new]
  <2>1. /\ old[b] = NoEntry /\ cur # NoEntry
        /\ EditTable(p, "create", desired, ctx[p].branch, ctx[p].headBranch)
        /\ entries' = Append(entries, [entries[cur] EXCEPT !.prev = NoEntry])
    BY <1>2, <1>3, <1>8 DEF CreateBranch, base, last
  <2>2. PICK c : c = cur
    OBVIOUS
  <2>3. c # NoEntry /\ c \in 1 .. Len(entries) /\ WasHeld(c)
    <3>1. ctx[p].pc = "idle"
      BY <2>1 DEF EditTable
    <3>2. WasHeld(c)
      BY <1>1, <1>2, <2>2, <3>1, InStepHeld DEF base
    <3> QED
      BY <1>1, <1>6, <2>1, <2>2, <3>2
  <2>4. TipOf(new)' = TipOf(c) /\ Len(entries') = new
    BY <1>3, <2>1, <2>2, <2>3, CopyIs DEF last
  <2>5. TipOf(new)' \in TipsKnown'
    BY <1>5, <2>3, <2>4, HeldIs, KnownGrows
  <2>6. new \in 0 .. Len(entries') /\ new # old[b]
    BY <1>4, <2>1, <2>4
  <2>7. OneName(old, desired)'
    BY <2>1, <2>5, <2>6 DEF OneName
  <2> HIDE DEF desired
  <2>8. asked'[p].base = old /\ asked'[p].desired = desired
    BY <1>1, <1>2, <2>1, AskedEdit DEF base
  <2>9. PICK d : d = desired
    OBVIOUS
  <2>10. OneName(old, d)'
    BY <2>7, <2>9 DEF OneName
  <2> QED
    BY <1>7, <2>8, <2>9, <2>10
<1>9. ASSUME NEW b \in Branch, DeleteBranch(p, b) PROVE EditOK(p)'
  <2>1. PICK d : d = [old EXCEPT ![b] = NoEntry]
    OBVIOUS
  <2>2. /\ old[b] # NoEntry /\ UNCHANGED entries
        /\ EditTable(p, "delete", d, ctx[p].branch, ctx[p].headBranch)
    BY <1>2, <1>9, <2>1 DEF DeleteBranch, base
  <2>3. NoEntry \in 0 .. Len(entries')
    BY <1>4, <2>2 DEF NoEntry
  <2>4. OneName(old, d)'
    BY <2>1, <2>2, <2>3 DEF OneName
  <2>5. asked'[p].base = old /\ asked'[p].desired = d
    BY <1>1, <1>2, <2>2, AskedEdit DEF base
  <2> QED
    BY <1>7, <2>4, <2>5
<1>10. ASSUME NEW from \in Branch, NEW to \in Branch, RenameBranch(p, from, to)
       PROVE  EditOK(p)'
  <2> DEFINE mine == from = ctx[p].branch
  <2>1. PICK e : e = IF mine THEN old[from] ELSE new
    OBVIOUS
  <2>2. PICK d : d = [old EXCEPT ![from] = NoEntry, ![to] = e]
    OBVIOUS
  <2>3. /\ old[from] # NoEntry /\ old[to] = NoEntry
        /\ \E branch, head : EditTable(p, "rename", d, branch, head)
        /\ entries' = IF mine THEN entries
                      ELSE Append(entries, [entries[old[from]]
                                                EXCEPT !.prev = old[from]])
    BY <1>2, <1>3, <1>10, <2>1, <2>2 DEF RenameBranch, base, last
  <2>4. asked'[p].base = old /\ asked'[p].desired = d
    BY <1>1, <1>2, <2>3, AskedEdit DEF base
  <2>5. e \in 0 .. Len(entries') /\ TipOf(e)' = TipOf(old[from])'
    <3>1. CASE mine
      <4>1. e = old[from] /\ entries' = entries
        BY <2>1, <2>3, <3>1
      <4> QED
        BY <1>4, <4>1
    <3>2. CASE ~mine
      <4>1. e = new /\ entries' = Append(entries, [entries[old[from]]
                                                EXCEPT !.prev = old[from]])
        BY <2>1, <2>3, <3>2
      <4>2. PICK c \in 1 .. Len(entries) : c = old[from]
        BY <1>6, <2>3
      <4>3. TipOf(e)' = TipOf(c) /\ Len(entries') = e
        BY <1>3, <4>1, <4>2, CopyIs DEF last
      <4> QED
        BY <1>4, <1>6, <4>1, <4>2, <4>3
    <3> QED
      BY <3>1, <3>2
  <2>6. Moved(old, d)'
    BY <2>2, <2>3, <2>5 DEF Moved
  <2> QED
    BY <1>7, <2>4, <2>6
<1>11. ASSUME NEW b \in Branch, NEW m \in CtxMember, NEW v \in Value,
              DescribeBranch(p, b, m, v)
       PROVE  EditOK(p)'
  <2>1. PICK d : d = [old EXCEPT ![b] = new]
    OBVIOUS
  <2>2. /\ old[b] # NoEntry
        /\ EditTable(p, "describe", d, ctx[p].branch, ctx[p].headBranch)
        /\ entries' = Append(entries, [entries[old[b]] EXCEPT !.store[m] = v,
                                                              !.prev = old[b]])
    BY <1>2, <1>3, <1>11, <2>1 DEF DescribeBranch, base, last
  <2>3. PICK x : x = [entries[old[b]] EXCEPT !.store[m] = v, !.prev = old[b]]
    OBVIOUS
  <2>4. /\ x.chain = entries[old[b]].chain
        /\ x.store = [entries[old[b]].store EXCEPT ![m] = v]
    BY <1>6, <2>2, <2>3 DEF Entry
  <2>5. Len(entries') = new /\ entries'[new] = x
    <3>1. entries \in Seq(Entry)
      BY DEF WellFormed, ArenaOK
    <3> QED
      BY <1>3, <2>2, <2>3, <3>1 DEF last
  <2>6. /\ EntryOf(new)' = x /\ EntryOf(old[b])' = entries[old[b]]
    BY <1>4, <1>6, <2>2, <2>5 DEF EntryOf
  <2>7. Rewritten(new, old[b])'
    BY <1>4, <2>2, <2>4, <2>6 DEF Rewritten
  <2>8. new \in 0 .. Len(entries') /\ new # old[b]
    BY <1>4, <2>5, <1>3 DEF last
  <2>9. OneName(old, d)'
    BY <2>1, <2>7, <2>8 DEF OneName
  <2>10. asked'[p].base = old /\ asked'[p].desired = d
    BY <1>1, <1>2, <2>2, AskedEdit DEF base
  <2> QED
    BY <1>7, <2>9, <2>10
<1> QED
  BY <1>8, <1>9, <1>10, <1>11 DEF TableStep

(* A process comes to edit the table by asking for the edit, or goes on    *)
(* with the edit it asked for.                                             *)
LEMMA EditorIs ==
    ASSUME WellFormed, NEW p \in Plain, PlainOK(p), ProcStep(p),
           ctx'[p].pc \in {"ttry", "tlost"}
    PROVE  \/ TableStep(p)
           \/ ctx[p].pc \in {"ttry", "tlost"} /\ asked'[p] = asked[p]
<1>1. p \in Proc
  BY DEF Plain
<1>2. CASE Exit(p)
  BY <1>1, <1>2 DEF Exit, WellFormed, Closed
<1>3. CASE (\E b \in Branch : Open(p, b))
  BY <1>1, <1>3, OpenIs DEF Opened
<1>4. CASE TurnStep(p)
  <2>1. StartTurn(p) \/ FinishTurn(p) => ctx'[p].pc \in {"turn", "try"}
    BY BeginIs, DoneIs DEF TurnBegun, TurnDone
  <2>2. FailTurn(p) => ctx'[p].pc = "closed"
    BY <1>1 DEF FailTurn, WellFormed, Closed, Plain
  <2>3. ~Refresh(p)
    BY DEF Refresh, Plain
  <2> QED
    BY <1>4, <2>1, <2>2, <2>3 DEF TurnStep
<1>5. CASE CommandStep(p)
  BY <1>5, CommandIs DEF Commanded
<1>6. CASE PublishNothing(p) \/ PublishWon(p) \/ ReconcileRefuse(p)
           \/ TableWon(p) \/ TableRefuse(p)
  BY <1>6, SettleIs
  DEF PublishNothing, PublishWon, ReconcileRefuse, TableWon, TableRefuse
<1>7. CASE PublishLost(p)
  BY <1>1, <1>7, LostIs DEF LostOne
<1>8. CASE ReconcileUnmoved(p) \/ ReconcileOneSided(p) \/ ReconcileReplay(p)
  BY <1>8, ReconcileIs DEF Retried
<1>9. CASE TableLost(p)
  BY <1>9 DEF TableLost
<1>10. CASE TableReapply(p)
  <2>1. PICK c : IF c.tries < TableTries THEN UNCHANGED asked
                 ELSE Settle(p, c, FALSE)
    BY <1>10 DEF TableReapply
  <2>2. UNCHANGED asked /\ ctx[p].pc = "tlost"
    BY <1>10, <2>1, SettleIs DEF TableReapply
  <2> QED
    BY <2>2
<1> QED
  BY <1>2, <1>3, <1>4, <1>5, <1>6, <1>7, <1>8, <1>9, <1>10
  DEF ProcStep, PublishStep

(* An edit that is asked stays one change of the table it was asked on. *)
LEMMA SameEditOK ==
    ASSUME WellFormed, WellFormed', ArenaGrows, NEW q \in Proc, EditOK(q),
           ctx[q].pc \in {"ttry", "tlost"}, asked'[q] = asked[q]
    PROVE  EditOK(q)'
<1>1. PICK base \in Table, desired \in Table :
              base = asked[q].base /\ desired = asked[q].desired
  BY OfProc DEF Asked
<1>2. Within(base, Len(entries))
  BY <1>1, OfProc DEF AskedOK
<1>3. OneName(base, desired) \/ Moved(base, desired)
  BY <1>1 DEF EditOK
<1>4. OneName(base, desired)' \/ Moved(base, desired)'
  BY <1>2, <1>3, EditKept
<1>5. asked'[q].base = base /\ asked'[q].desired = desired
  BY <1>1
<1> QED
  BY <1>4, <1>5 DEF EditOK

(* The edit of the process that steps. *)
LEMMA MoverEditOK ==
    ASSUME WellFormed, NEW p \in Plain, PlainOK(p), ProcStep(p), EditOK(p)
    PROVE  EditOK(p)'
<1>1. p \in Proc /\ WellFormed' /\ ArenaGrows
  BY ProcStepWellFormed, StepShape DEF Plain
<1>2. CASE ctx'[p].pc \notin {"ttry", "tlost"}
  BY <1>2 DEF EditOK
<1>3. CASE TableStep(p)
  BY <1>3, TableStepAsks
<1>4. CASE ctx[p].pc \in {"ttry", "tlost"} /\ asked'[p] = asked[p]
  BY <1>1, <1>4, SameEditOK
<1> QED
  BY <1>2, <1>3, <1>4, EditorIs

(* The edit of another process. *)
LEMMA OtherEditOK ==
    ASSUME WellFormed, WellFormed', ArenaGrows, NEW q \in Proc, EditOK(q),
           ctx'[q] = ctx[q], asked'[q] = asked[q]
    PROVE  EditOK(q)'
<1>1. CASE ctx[q].pc \in {"ttry", "tlost"}
  BY <1>1, SameEditOK
<1>2. CASE ctx[q].pc \notin {"ttry", "tlost"}
  BY <1>2 DEF EditOK
<1> QED
  BY <1>1, <1>2

(* The invariant of processes that run one command and refuse conflicts. *)
LEMMA RefInvStep ==
    ASSUME OneCommand, RefInv, NEW p \in Proc, ProcStep(p)
    PROVE  Linked' /\ \A q \in Refusing : (RunOK(q) /\ EditOK(q))'
<1>1. /\ WellFormed /\ Linked /\ Plain = Proc /\ Refusing = Proc
      /\ \A q \in Proc : PlainOK(q) /\ RunOK(q) /\ EditOK(q)
  BY AllPlain DEF RefInv, IInv
<1>2. WellFormed' /\ OthersKept(p) /\ ArenaGrows
  BY <1>1, ProcStepWellFormed, StepShape
<1>3. Linked'
  BY <1>1, LinkedStep
<1>4. RunOK(p)' /\ EditOK(p)'
  BY <1>1, MoverRunOK, MoverEditOK DEF OneCommand
<1>5. ASSUME NEW q \in Proc, q # p PROVE RunOK(q)' /\ EditOK(q)'
  <2>1. ctx'[q] = ctx[q] /\ asked'[q] = asked[q]
    BY <1>2, <1>5 DEF OthersKept
  <2> QED
    BY <1>1, <1>2, <2>1, OtherRunOK, OtherEditOK
<1> QED
  BY <1>1, <1>3, <1>4, <1>5

(* Under abort, with one command each, what a process is to publish is     *)
(* always its command alone, on what a root holds (fyai_publish_state).    *)
THEOREM AlwaysRefInv ==
    ASSUME OneCommand
    PROVE  Spec => []RefInv
<1> DEFINE Rest == Linked /\ \A p \in Refusing : RunOK(p) /\ EditOK(p)
<1>1. Init => Rest
  BY DEF Init, Linked, RunOK, EditOK, EmptyEntry, Closed, NoEntry, Refusing,
         Plain
<1>2. IInv /\ Fresh /\ Rest /\ [Next]_vars => Rest'
  <2> SUFFICES ASSUME RefInv, [Next]_vars PROVE Rest'
    BY DEF RefInv
  <2>1. CASE Next
    <3>1. PICK p \in Proc : ProcStep(p)
      BY <2>1 DEF Next
    <3> QED
      BY <3>1, RefInvStep
  <2>2. CASE UNCHANGED vars
    <3>1. Linked' = Linked
      BY <2>2 DEF vars, Linked, WasHeld
    <3>2. \A q : RunOK(q)' = RunOK(q)
      BY <2>2 DEF vars, RunOK, Base, EntryOf, Continues, OwnTurn, HeldChain,
                  TipsKnown, TipOf
    <3>3. \A q : EditOK(q)' = EditOK(q)
      BY <2>2 DEF vars, EditOK, OneName, Moved, Rewritten, EntryOf,
                  TipsKnown, TipOf
    <3> QED
      BY <3>1, <3>2, <3>3 DEF RefInv
  <2> QED
    BY <2>1, <2>2
<1>3. IInv /\ Fresh /\ Rest <=> RefInv
  BY DEF RefInv
<1> HIDE DEF Rest
<1> QED
  BY <1>1, <1>2, <1>3, AlwaysIInv, AlwaysFresh, PTL DEF Spec

-------------------------------------------------------------------------------
(* The branch table that the roots implement.  *)

(* The abstract branch table has the data of the arena. *)
LEMMA SameData ==
    /\ Promise!Sys = Sys /\ Promise!Turn = Turn /\ Promise!Member = Member
    /\ Promise!Stored = Stored
    /\ \A c : Promise!TurnsOf(c) = TurnsOf(c) /\ Promise!Seeded(c) = Seeded(c)
    /\ Promise!Absent = TipOf(NoEntry)
    /\ Promise!Empty = [live |-> TRUE, chain |-> <<>>, store |-> EmptyEntry.store]
<1>1. Promise!EmptyEntry = EmptyEntry
  BY DEF Promise!EmptyEntry, EmptyEntry, Promise!Member, Member,
         Promise!NoEntry, NoEntry
<1>2. Promise!Absent = TipOf(NoEntry)
  BY <1>1 DEF Promise!Absent, TipOf, EntryOf, EmptyEntry
<1>3. Promise!Empty = [live |-> TRUE, chain |-> <<>>, store |-> EmptyEntry.store]
  BY <1>1 DEF Promise!Empty
<1>4. /\ Promise!Sys = Sys /\ Promise!Turn = Turn /\ Promise!Member = Member
      /\ Promise!Stored = Stored
  BY DEF Promise!Sys, Sys, Promise!Turn, Turn, Promise!Member, Member,
         Promise!Stored, Stored
<1>5. \A c : Promise!TurnsOf(c) = TurnsOf(c) /\ Promise!Seeded(c) = Seeded(c)
  BY <1>4 DEF Promise!TurnsOf, TurnsOf, Promise!Seeded, Seeded
<1> QED
  BY <1>2, <1>3, <1>4, <1>5

(* The fields of a tip. *)
LEMMA TipFields ==
    \A l, c, s, x :
        LET t == [live |-> l, chain |-> c, store |-> s] IN
        /\ [t EXCEPT !.live = x] = [live |-> x, chain |-> c, store |-> s]
        /\ [t EXCEPT !.chain = x] = [live |-> l, chain |-> x, store |-> s]
        /\ [t EXCEPT !.store = x] = [live |-> l, chain |-> c, store |-> x]
        /\ t.live = l /\ t.chain = c /\ t.store = s
OBVIOUS

(* The tip of an entry. *)
LEMMA LiveTip ==
    \A e : e # NoEntry =>
        TipOf(e) = [live |-> TRUE, chain |-> EntryOf(e).chain,
                    store |-> EntryOf(e).store]
<1> SUFFICES ASSUME NEW e, e # NoEntry
             PROVE  TipOf(e) = [live |-> TRUE, chain |-> EntryOf(e).chain,
                                store |-> EntryOf(e).store]
  OBVIOUS
<1>1. (e # NoEntry) = TRUE
  OBVIOUS
<1> QED
  BY <1>1, Zenon DEF TipOf

(* The arena that fyai init publishes is the initial branch table. *)
LEMMA PromiseInit == Init => Promise!Init
<1> SUFFICES ASSUME Init PROVE Promise!Init
  OBVIOUS
<1>1. /\ refs = 1 /\ entries[1] = EmptyEntry /\ DOMAIN roots = {1}
      /\ roots[1].table = [NoTable EXCEPT ![Main] = 1]
  <2>1. PICK t : t = [NoTable EXCEPT ![Main] = 1]
    OBVIOUS
  <2>2. PICK r : r = [HEAD |-> Main, table |-> t, prev |-> 0]
    OBVIOUS
  <2>3. roots = <<r>> /\ r.table = t
    BY <2>1, <2>2 DEF Init
  <2>4. PICK e : e = EmptyEntry
    OBVIOUS
  <2>5. entries = <<e>>
    BY <2>4 DEF Init
  <2>6. entries[1] = e /\ roots[1] = r
    BY <2>3, <2>5
  <2>7. DOMAIN roots = 1 .. 1
    BY <2>3
  <2>8. 1 .. 1 = {1}
    OBVIOUS
  <2> QED
    BY <2>1, <2>3, <2>4, <2>6, <2>7, <2>8 DEF Init
<1>2. \A b \in Branch : roots[1].table[b] = IF b = Main THEN 1 ELSE NoEntry
  BY <1>1, BranchAssumption DEF NoTable
<1>3. TipOf(1) = Promise!Empty /\ TipOf(1) # TipOf(NoEntry)
  <2>1. EntryOf(1) = EmptyEntry
    BY <1>1 DEF EntryOf, NoEntry
  <2>2. EmptyEntry.chain = <<>>
    BY DEF EmptyEntry
  <2>3. 1 # NoEntry
    BY DEF NoEntry
  <2>4. TipOf(1) = Promise!Empty
    BY <2>1, <2>2, <2>3, LiveTip, SameData
  <2> QED
    BY <2>3, <2>4, LiveIs
<1>4. TipNow = [b \in Branch |-> IF b = Main THEN Promise!Empty
                                 ELSE Promise!Absent]
  BY <1>1, <1>2, <1>3, SameData DEF TipNow
<1>5. ASSUME NEW k PROVE k \in TipsKnown <=> k = Promise!Empty
  <2>1. k \in TipsKnown <=>
            k # TipOf(NoEntry) /\ \E b \in Branch : k = TipOf(roots[1].table[b])
    <3>1. k \in TipsKnown <=>
            /\ k # TipOf(NoEntry)
            /\ \E r \in DOMAIN roots, b \in Branch : k = TipOf(roots[r].table[b])
      BY DEF TipsKnown
    <3> QED
      BY <1>1, <3>1
  <2>2. \A b \in Branch : TipOf(roots[1].table[b])
                            = IF b = Main THEN TipOf(1) ELSE TipOf(NoEntry)
    BY <1>2
  <2> QED
    BY <1>3, <2>1, <2>2, BranchAssumption
<1>6. TipsKnown = {Promise!Empty}
  BY <1>5
<1> QED
  BY <1>4, <1>6 DEF Promise!Init

(* A root with this table is now in force, after those there were. *)
Rooted(table) ==
    /\ refs' = Len(roots) + 1 /\ Len(roots') = refs'
    /\ roots'[refs'].table = table

(* What the names of a table hold after the step. *)
TipsAfter(table) == [b \in Branch |-> TipOf(table[b])']

(* What a new root holds. *)
LEMMA NewRoot ==
    ASSUME WellFormed, WellFormed', ArenaGrows,
           NEW table, Rooted(table)
    PROVE  /\ TipNow' = TipsAfter(table)
           /\ \A k : k \in TipsKnown' <=>
                        \/ k \in TipsKnown
                        \/ /\ k # TipOf(NoEntry)
                           /\ \E b \in Branch : k = TipsAfter(table)[b]
<1>1. PICK n \in Nat : n = Len(roots) + 1
  BY DEF WellFormed, ArenaOK
<1>2. /\ roots'[n].table = table /\ refs' = n
      /\ DOMAIN roots' = 1 .. n /\ n \in 1 .. n
      /\ 1 .. n = (1 .. Len(roots)) \cup {n}
  <2>1. Len(roots) \in Nat /\ Len(roots') = n /\ refs' = n
    BY <1>1 DEF Rooted, WellFormed, ArenaOK
  <2>2. roots' \in Seq(Root)'
    BY DEF WellFormed, ArenaOK
  <2>3. DOMAIN roots' = 1 .. n
    BY <2>1, <2>2
  <2> QED
    BY <1>1, <2>1, <2>3 DEF Rooted
<1>3. TipNow' = TipsAfter(table)
  BY <1>2 DEF TipNow, TipsAfter, TipOf, EntryOf
<1>4. TipOf(NoEntry)' = TipOf(NoEntry)
  BY DEF TipOf, EntryOf
<1>5. ASSUME NEW r \in 1 .. Len(roots), NEW b \in Branch
      PROVE  TipOf(roots[r].table[b])' = TipOf(roots[r].table[b])
  <2>1. roots'[r] = roots[r]
    BY <1>5 DEF ArenaGrows
  <2>2. PICK e \in Nat : e = roots[r].table[b] /\ e <= Len(entries)
    BY <1>5, NamedIs
  <2>3. TipOf(e)' = TipOf(e)
    BY <2>2, TipKept
  <2> QED
    BY <2>1, <2>2, <2>3 DEF TipOf, EntryOf
<1>6. ASSUME NEW b \in Branch
      PROVE  TipOf(roots[n].table[b])' = TipOf(table[b])'
  BY <1>2 DEF TipOf, EntryOf
<1>7. ASSUME NEW k
      PROVE  k \in TipsKnown' <=>
                 /\ k # TipOf(NoEntry)
                 /\ \E r \in 1 .. n, b \in Branch : k = TipOf(roots[r].table[b])'
  BY <1>2, <1>4 DEF TipsKnown
<1>8. ASSUME NEW k
      PROVE  k \in TipsKnown' <=>
                        \/ k \in TipsKnown
                        \/ /\ k # TipOf(NoEntry)
                           /\ \E b \in Branch : k = TipsAfter(table)[b]
  <2>0. \A b \in Branch : TipsAfter(table)[b] = TipOf(table[b])'
    BY DEF TipsAfter
  <2>1. k \in TipsKnown <=>
               /\ k # TipOf(NoEntry)
               /\ \E r \in 1 .. Len(roots), b \in Branch :
                     k = TipOf(roots[r].table[b])'
    BY <1>5, KnownIs
  <2> QED
    BY <1>2, <1>6, <1>7, <2>0, <2>1
<1> QED
  BY <1>3, <1>8

(* This table changes name b of the root in force to entry e, of tip t. *)
Changes(table, b, e, t) ==
    /\ table = [roots[refs].table EXCEPT ![b] = e]
    /\ e \in Nat /\ e <= Len(entries') /\ t = TipOf(e)'

(* A root that changes one name. *)
LEMMA OneChange ==
    ASSUME WellFormed, WellFormed', ArenaGrows,
           NEW table, NEW b \in Branch, NEW e, NEW t,
           Rooted(table), Changes(table, b, e, t)
    PROVE  /\ TipNow' = [TipNow EXCEPT ![b] = t]
           /\ e = NoEntry => TipsKnown' = TipsKnown
           /\ e # NoEntry => TipsKnown' = TipsKnown \cup {t}
<1>1. PICK old \in Table : old = roots[refs].table
  <2>1. refs \in 1 .. Len(roots) /\ ArenaOK
    BY DEF WellFormed, ArenaOK
  <2> QED
    BY <2>1, RootOfType
<1>2. /\ refs \in 1 .. Len(roots) /\ refs = Len(roots) /\ ArenaOK
      /\ \A x \in Branch : old[x] \in Nat /\ old[x] <= Len(entries)
  BY <1>1, NamedIs DEF WellFormed, ArenaOK
<1>3. \A x \in Branch : table[x] = IF x = b THEN e ELSE old[x]
  BY <1>1 DEF Table, Changes
<1>4. \A x \in Branch : TipOf(old[x])' = TipOf(old[x])
  BY <1>2, TipKept
<1>5. \A x \in Branch : TipOf(table[x])' = IF x = b THEN t ELSE TipOf(old[x])
  <2>1. \A x \in Branch : TipOf(table[x])' = IF x = b THEN TipOf(e)'
                                             ELSE TipOf(old[x])'
    BY <1>3 DEF TipOf, EntryOf
  <2> QED
    BY <1>4, <2>1 DEF Changes
<1>6. TipNow = [x \in Branch |-> TipOf(old[x])]
  BY <1>1 DEF TipNow
<1>7. /\ TipNow' = [x \in Branch |-> TipOf(table[x])']
      /\ \A k : k \in TipsKnown' <=>
                   \/ k \in TipsKnown
                   \/ /\ k # TipOf(NoEntry)
                      /\ \E x \in Branch : k = TipOf(table[x])'
  <2>1. \A x \in Branch : TipsAfter(table)[x] = TipOf(table[x])'
    BY DEF TipsAfter
  <2>2. /\ TipNow' = TipsAfter(table)
        /\ \A k : k \in TipsKnown' <=>
                     \/ k \in TipsKnown
                     \/ /\ k # TipOf(NoEntry)
                        /\ \E x \in Branch : k = TipsAfter(table)[x]
    BY NewRoot
  <2>3. TipNow' = [x \in Branch |-> TipOf(table[x])']
    BY <2>2 DEF TipsAfter
  <2> QED
    BY <2>1, <2>2, <2>3
<1>8. TipNow' = [TipNow EXCEPT ![b] = t]
  BY <1>5, <1>6, <1>7
<1>9. \A x \in Branch : TipOf(old[x]) # TipOf(NoEntry)
                           => TipOf(old[x]) \in TipsKnown
  BY <1>1, <1>2, KnownIs
<1>10. (e # NoEntry) = (t # TipOf(NoEntry)) /\ (e = NoEntry => t = TipOf(NoEntry))
  <2>1. e = NoEntry => TipOf(e)' = TipOf(NoEntry)
    BY DEF TipOf, EntryOf
  <2>2. e # NoEntry => TipOf(e)' # TipOf(NoEntry)
    BY DEF TipOf
  <2> QED
    BY <2>1, <2>2 DEF Changes
<1>11. ASSUME NEW k
       PROVE  k \in TipsKnown' <=>
                  k \in TipsKnown \/ (k = t /\ e # NoEntry)
  BY <1>5, <1>7, <1>9, <1>10
<1>12. e = NoEntry => TipsKnown' = TipsKnown
  BY <1>11
<1>13. e # NoEntry => TipsKnown' = TipsKnown \cup {t}
  BY <1>11
<1> QED
  BY <1>8, <1>12, <1>13

(* A root that moves what one name holds to a name that held nothing. *)
LEMMA OneMove ==
    ASSUME WellFormed, WellFormed', ArenaGrows,
           NEW table, Rooted(table), NEW from \in Branch, NEW to \in Branch,
           NEW e \in Nat,
           table = [roots[refs].table EXCEPT ![from] = NoEntry, ![to] = e],
           from # to, e <= Len(entries),
           TipOf(e) = TipOf(roots[refs].table[from])
    PROVE  /\ TipNow' = [TipNow EXCEPT ![from] = TipOf(NoEntry),
                                       ![to] = TipNow[from]]
           /\ TipsKnown' = TipsKnown
<1>1. PICK old \in Table : old = roots[refs].table
  <2>1. refs \in 1 .. Len(roots) /\ ArenaOK
    BY DEF WellFormed, ArenaOK
  <2> QED
    BY <2>1, RootOfType
<1>2. /\ refs \in 1 .. Len(roots) /\ refs = Len(roots) /\ ArenaOK
      /\ \A x \in Branch : old[x] \in Nat /\ old[x] <= Len(entries)
  BY <1>1, NamedIs DEF WellFormed, ArenaOK
<1>3. \A x \in Branch : table[x] = IF x = to THEN e
                                   ELSE IF x = from THEN NoEntry ELSE old[x]
  BY <1>1 DEF Table
<1>4. /\ \A x \in Branch : TipOf(old[x])' = TipOf(old[x])
      /\ TipOf(e)' = TipOf(e) /\ TipOf(NoEntry)' = TipOf(NoEntry)
  BY <1>2, TipKept DEF TipOf, EntryOf
<1>5. \A x \in Branch : TipOf(table[x])' =
          IF x = to THEN TipOf(old[from])
          ELSE IF x = from THEN TipOf(NoEntry) ELSE TipOf(old[x])
  <2>1. TipOf(e) = TipOf(old[from])
    BY <1>1
  <2>2. \A x \in Branch : TipOf(table[x])' =
            IF x = to THEN TipOf(e)'
            ELSE IF x = from THEN TipOf(NoEntry)' ELSE TipOf(old[x])'
    BY <1>3 DEF TipOf, EntryOf
  <2> QED
    BY <1>4, <2>1, <2>2
<1>6. TipNow = [x \in Branch |-> TipOf(old[x])]
  BY <1>1 DEF TipNow
<1>7. /\ TipNow' = [x \in Branch |-> TipOf(table[x])']
      /\ \A k : k \in TipsKnown' <=>
                   \/ k \in TipsKnown
                   \/ /\ k # TipOf(NoEntry)
                      /\ \E x \in Branch : k = TipOf(table[x])'
  <2>1. \A x \in Branch : TipsAfter(table)[x] = TipOf(table[x])'
    BY DEF TipsAfter
  <2>2. /\ TipNow' = TipsAfter(table)
        /\ \A k : k \in TipsKnown' <=>
                     \/ k \in TipsKnown
                     \/ /\ k # TipOf(NoEntry)
                        /\ \E x \in Branch : k = TipsAfter(table)[x]
    BY NewRoot
  <2>3. TipNow' = [x \in Branch |-> TipOf(table[x])']
    BY <2>2 DEF TipsAfter
  <2> QED
    BY <2>1, <2>2, <2>3
<1>8. TipNow' = [TipNow EXCEPT ![from] = TipOf(NoEntry),
                               ![to] = TipNow[from]]
  BY <1>5, <1>6, <1>7
<1>9. \A x \in Branch : TipOf(old[x]) # TipOf(NoEntry)
                           => TipOf(old[x]) \in TipsKnown
  BY <1>1, <1>2, KnownIs
<1>10. ASSUME NEW k PROVE k \in TipsKnown' <=> k \in TipsKnown
  BY <1>5, <1>7, <1>9
<1> QED
  BY <1>8, <1>10

(* The name a tip belongs to holds it. *)
LEMMA NowIs ==
    ASSUME WellFormed, NEW b \in Branch
    PROVE  /\ TipNow[b] = TipOf(roots[refs].table[b])
           /\ roots[refs].table[b] # NoEntry =>
                 TipNow[b] = [live |-> TRUE,
                              chain |-> EntryOf(roots[refs].table[b]).chain,
                              store |-> EntryOf(roots[refs].table[b]).store]
BY LiveTip DEF TipNow

(* A name becomes what it is changed to. *)
LEMMA BecomesIs ==
    ASSUME NEW b \in Branch, NEW t, NEW u, [u EXCEPT !.live = TRUE] = t,
           TipNow' = [TipNow EXCEPT ![b] = t],
           TipsKnown' = TipsKnown \cup {t}
    PROVE  Promise!Becomes(b, u)
<1>1. TipNow'[b] = t
  BY DEF TipNow
<1> QED
  BY <1>1 DEF Promise!Becomes

(* A publish of the table puts in force the root it asked for. *)
LEMMA TableWonIs ==
    ASSUME WellFormed, NEW p \in Plain, PlainOK(p), TableWon(p)
    PROVE  /\ Rooted(ctx[p].want) /\ EditDerived(p) /\ UNCHANGED entries
           /\ refs = ctx[p].refsHead /\ ctx[p].pc = "ttry"
<1>1. ctx[p].pc = "ttry" /\ Advance(p, ctx[p].want, ctx[p].headBranch)
  BY DEF TableWon
<1>2. roots \in Seq(Root) /\ Len(roots) \in Nat
  BY DEF WellFormed, ArenaOK
<1>3. Rooted(ctx[p].want) /\ refs = ctx[p].refsHead
  BY <1>1, <1>2, AdvanceGrows DEF Advance, Rooted
<1> QED
  BY <1>1, <1>3 DEF TableWon, PlainOK

(* An edit of the table that is published is one command of the abstract   *)
(* branch table.                                                           *)
LEMMA TableWonImplements ==
    ASSUME OneCommand, RefInv, NEW p \in Proc, TableWon(p)
    PROVE  Promise!Next
<1>1. /\ WellFormed /\ p \in Plain /\ PlainOK(p) /\ EditOK(p)
  BY AllPlain DEF RefInv, IInv
<1>2. WellFormed' /\ ArenaGrows
  <2>1. ProcStep(p)
    BY DEF ProcStep, PublishStep
  <2> QED
    BY <1>1, <2>1, ProcStepWellFormed, StepShape
<1>3. /\ Rooted(ctx[p].want) /\ EditDerived(p) /\ UNCHANGED entries
      /\ refs = ctx[p].refsHead
      /\ OneName(asked[p].base, asked[p].desired)
            \/ Moved(asked[p].base, asked[p].desired)
  BY <1>1, TableWonIs DEF EditOK
<1>4. PICK base \in Table, desired \in Table, want \in Table, old \in Table :
         /\ base = asked[p].base /\ desired = asked[p].desired
         /\ want = ctx[p].want /\ old = roots[refs].table
  <2>1. refs \in 1 .. Len(roots) /\ ArenaOK
    BY <1>1 DEF WellFormed, ArenaOK
  <2> QED
    BY <1>1, <2>1, OfProc, RootOfType DEF Asked, Context
<1>5. \A b \in Branch :
         IF base[b] = desired[b] THEN want[b] = old[b]
         ELSE old[b] = base[b] /\ want[b] = desired[b]
  BY <1>3, <1>4 DEF EditDerived
<1>6. /\ Rooted(want)
      /\ \A e \in 0 .. Len(entries) : TipOf(e)' = TipOf(e) /\ e <= Len(entries')
      /\ Len(entries) \in Nat /\ 0 .. Len(entries) \subseteq Nat
  <2>1. Len(entries) \in Nat
    BY <1>1 DEF WellFormed, ArenaOK
  <2> QED
    BY <1>1, <1>2, <1>3, <1>4, <2>1, TipKept
<1>7. ASSUME NEW b \in Branch, NEW e \in 0 .. Len(entries),
             desired = [base EXCEPT ![b] = e], e # base[b]
      PROVE  /\ TipNow' = [TipNow EXCEPT ![b] = TipOf(e)]
             /\ e = NoEntry => TipsKnown' = TipsKnown
             /\ e # NoEntry => TipsKnown' = TipsKnown \cup {TipOf(e)}
             /\ old[b] = base[b]
  <2>1. /\ want = [old EXCEPT ![b] = e] /\ old[b] = base[b]
        /\ want = [roots[refs].table EXCEPT ![b] = e]
    <3>1. \A x \in Branch : desired[x] = IF x = b THEN e ELSE base[x]
      BY <1>7 DEF Table
    <3>2. \A x \in Branch : want[x] = IF x = b THEN e ELSE old[x]
      BY <1>5, <1>7, <3>1
    <3>3. want = [x \in Branch |-> IF x = b THEN e ELSE old[x]]
      BY <3>2 DEF Table
    <3>4. [old EXCEPT ![b] = e] = [x \in Branch |-> IF x = b THEN e ELSE old[x]]
      BY DEF Table
    <3>5. old[b] = base[b]
      BY <1>5, <1>7, <3>1
    <3> QED
      BY <1>4, <3>3, <3>4, <3>5
  <2>2. Changes(want, b, e, TipOf(e))
    BY <1>6, <2>1 DEF Changes
  <2> QED
    BY <1>1, <1>2, <1>6, <2>1, <2>2, OneChange
<1>8. CASE OneName(base, desired)
  <2>1. PICK b \in Branch, e \in 0 .. Len(entries) :
          /\ desired = [base EXCEPT ![b] = e] /\ e # base[b]
          /\ \/ e = NoEntry
             \/ base[b] = NoEntry /\ TipOf(e) \in TipsKnown
             \/ Rewritten(e, base[b])
    BY <1>8 DEF OneName
  <2>2. /\ TipNow' = [TipNow EXCEPT ![b] = TipOf(e)]
        /\ e = NoEntry => TipsKnown' = TipsKnown
        /\ e # NoEntry => TipsKnown' = TipsKnown \cup {TipOf(e)}
        /\ old[b] = base[b] /\ TipNow[b] = TipOf(base[b])
    BY <1>1, <1>4, <1>7, <2>1, NowIs
  <2>3. e # NoEntry => [TipOf(e) EXCEPT !.live = TRUE] = TipOf(e)
    BY LiveTip, TipFields
  <2>4. CASE e = NoEntry
    <3>1. Promise!Delete(b)
      BY <2>1, <2>2, <2>4, SameData, LiveIs DEF Promise!Delete
    <3> QED
      BY <3>1 DEF Promise!Next
  <2>5. CASE e # NoEntry /\ base[b] = NoEntry /\ TipOf(e) \in TipsKnown
    <3>1. ~TipNow[b].live
      BY <2>2, <2>5, LiveIs
    <3>2. Promise!Becomes(b, TipOf(e))
      BY <2>2, <2>3, <2>5, BecomesIs
    <3>3. Promise!Create(b)
      BY <2>5, <3>1, <3>2 DEF Promise!Create
    <3> QED
      BY <3>3 DEF Promise!Next
  <2>6. CASE Rewritten(e, base[b])
    <3>1. PICK m \in CtxMember, v \in Value :
              /\ e # NoEntry /\ base[b] # NoEntry
              /\ EntryOf(e).chain = EntryOf(base[b]).chain
              /\ EntryOf(e).store = [EntryOf(base[b]).store EXCEPT ![m] = v]
      BY <2>6 DEF Rewritten
    <3>2. PICK c, s : c = EntryOf(base[b]).chain /\ s = EntryOf(base[b]).store
      OBVIOUS
    <3>3. /\ TipNow[b] = [live |-> TRUE, chain |-> c, store |-> s]
          /\ TipOf(e) = [live |-> TRUE, chain |-> c,
                         store |-> [s EXCEPT ![m] = v]]
      BY <2>2, <3>1, <3>2, LiveTip
    <3>4. [TipNow[b] EXCEPT !.store[m] = v] = TipOf(e)
      <4>1. PICK t : t = TipNow[b]
        OBVIOUS
      <4>2. [t EXCEPT !.store[m] = v] = [t EXCEPT !.store = [t.store EXCEPT ![m] = v]]
        OBVIOUS
      <4>3. t.store = s
        BY <3>3, <4>1, TipFields
      <4>4. [t EXCEPT !.store = [s EXCEPT ![m] = v]] = TipOf(e)
        <5>1. PICK x : x = [s EXCEPT ![m] = v]
          OBVIOUS
        <5>2. /\ t = [live |-> TRUE, chain |-> c, store |-> s]
              /\ TipOf(e) = [live |-> TRUE, chain |-> c, store |-> x]
          BY <3>3, <4>1, <5>1
        <5>3. [t EXCEPT !.store = x] = [live |-> TRUE, chain |-> c, store |-> x]
          <6>1. PICK l : l = TRUE
            OBVIOUS
          <6>2. t = [live |-> l, chain |-> c, store |-> s]
            BY <5>2, <6>1
          <6>3. [[live |-> l, chain |-> c, store |-> s] EXCEPT !.store = x]
                    = [live |-> l, chain |-> c, store |-> x]
            OBVIOUS
          <6> QED
            BY <6>1, <6>2, <6>3
        <5> QED
          BY <5>1, <5>2, <5>3
      <4> QED
        BY <4>1, <4>2, <4>3, <4>4
    <3>5. Promise!Becomes(b, [TipNow[b] EXCEPT !.store[m] = v])
      <4>1. PICK t : t = TipOf(e)
        OBVIOUS
      <4>2. PICK u : u = [TipNow[b] EXCEPT !.store[m] = v]
        OBVIOUS
      <4>3. [u EXCEPT !.live = TRUE] = t
        BY <2>3, <3>1, <3>4, <4>1, <4>2
      <4>4. /\ TipNow' = [TipNow EXCEPT ![b] = t]
            /\ TipsKnown' = TipsKnown \cup {t}
        BY <2>2, <3>1, <4>1
      <4>5. Promise!Becomes(b, u)
        BY <4>3, <4>4, BecomesIs
      <4> QED
        BY <4>2, <4>5
    <3>6. m \in Promise!Member /\ v \in Promise!Stored
      BY SameData DEF Member, Stored
    <3>7. Promise!SetMember(b)
      BY <3>5, <3>6 DEF Promise!SetMember
    <3> QED
      BY <3>7 DEF Promise!Next
  <2> QED
    BY <2>1, <2>4, <2>5, <2>6
<1>9. CASE Moved(base, desired)
  <2>1. PICK from \in Branch, to \in Branch, e \in 0 .. Len(entries) :
          /\ desired = [base EXCEPT ![from] = NoEntry, ![to] = e]
          /\ base[from] # NoEntry /\ base[to] = NoEntry
          /\ TipOf(e) = TipOf(base[from])
    BY <1>9 DEF Moved
  <2>2. e # NoEntry /\ from # to
    BY <2>1, LiveIs
  <2>3. /\ want = [old EXCEPT ![from] = NoEntry, ![to] = e]
        /\ old[from] = base[from] /\ old[to] = base[to]
    BY <1>5, <2>1, <2>2 DEF Table
  <2>4. /\ TipNow' = [TipNow EXCEPT ![from] = TipOf(NoEntry),
                                    ![to] = TipNow[from]]
        /\ TipsKnown' = TipsKnown
    BY <1>1, <1>2, <1>4, <1>6, <2>1, <2>2, <2>3, OneMove
  <2>5. TipNow[from].live /\ ~TipNow[to].live
    <3>1. /\ TipNow[from] = TipOf(base[from])
          /\ TipNow[to] = TipOf(base[to])
      BY <1>1, <1>4, <2>3, NowIs
    <3>2. TipOf(base[from]).live = TRUE /\ TipOf(base[to]).live = FALSE
      BY <2>1, LiveIs
    <3> QED
      BY <3>1, <3>2
  <2>6. Promise!Rename(from, to)
    BY <2>4, <2>5, SameData DEF Promise!Rename
  <2> QED
    BY <2>6 DEF Promise!Next
<1> QED
  BY <1>3, <1>4, <1>8, <1>9

(* A publish of a branch puts in force a root that gives it the            *)
(* conversation and the store of the process.                              *)
LEMMA PublishWonIs ==
    ASSUME WellFormed, NEW p \in Plain, PlainOK(p), PublishWon(p)
    PROVE  \E table, e, t :
               /\ Rooted(table) /\ Changes(table, ctx[p].branch, e, t)
               /\ e # NoEntry
               /\ t = [live |-> TRUE, chain |-> ctx[p].chain,
                       store |-> OurStore(p)]
               /\ roots[refs].table[ctx[p].branch] = ctx[p].branchPrev
               /\ ctx[p].pc = "try"
<1>1. PICK e : e = Len(entries) + 1
  OBVIOUS
<1>2. PICK table : table = [ctx[p].table EXCEPT ![ctx[p].branch] = e]
  OBVIOUS
<1>3. /\ ctx[p].pc = "try" /\ Advance(p, table, ctx[p].headBranch)
      /\ entries' = Append(entries, OurEntry(p))
  BY <1>1, <1>2 DEF PublishWon, MayTry
<1>4. /\ roots \in Seq(Root) /\ Len(roots) \in Nat
      /\ entries \in Seq(Entry) /\ Len(entries) \in Nat
  BY DEF WellFormed, ArenaOK
<1>5. Rooted(table) /\ refs = ctx[p].refsHead
  BY <1>3, <1>4, AdvanceGrows DEF Advance, Rooted
<1>6. InStepAt(p)
  BY <1>3 DEF PlainOK
<1>7. /\ ctx[p].table = roots[refs].table
      /\ roots[refs].table[ctx[p].branch] = ctx[p].branchPrev
  BY <1>5, <1>6 DEF InStepAt
<1>8. PICK x : x = OurEntry(p)
  OBVIOUS
<1>9. x.chain = ctx[p].chain /\ x.store = OurStore(p)
  BY <1>8 DEF OurEntry
<1>10. Len(entries') = e /\ entries'[e] = x /\ e \in Nat /\ e # NoEntry
  BY <1>1, <1>3, <1>4, <1>8 DEF NoEntry
<1>11. PICK t : t = TipOf(e)'
  OBVIOUS
<1>12. t = [live |-> TRUE, chain |-> x.chain, store |-> x.store]
  <2>1. EntryOf(e)' = x
    BY <1>10 DEF EntryOf
  <2>2. (e # NoEntry) = TRUE
    BY <1>10
  <2> QED
    BY <1>11, <2>1, <2>2, Zenon DEF TipOf
<1>13. Changes(table, ctx[p].branch, e, t)
  BY <1>2, <1>7, <1>10, <1>11 DEF Changes
<1> QED
  BY <1>3, <1>5, <1>7, <1>9, <1>10, <1>12, <1>13

(* A turn no other process has is in no conversation that is known. *)
LEMMA OwnIsUnknown ==
    ASSUME WellFormed, NEW p \in Proc, OwnIsNew(p), AtTurn(p),
           NEW k \in TipsKnown
    PROVE  OwnTurn(p) \notin TurnsOf(k.chain)
<1>1. PICK r \in 1 .. Len(roots), b \in Branch : k = TipOf(roots[r].table[b])
  BY KnownIs
<1>2. PICK e \in Nat : e = roots[r].table[b] /\ e <= Len(entries)
  BY NamedIs
<1>3. k.chain = EntryOf(e).chain
  BY <1>1, <1>2, LiveIs
<1>4. CASE e = NoEntry
  <2>1. EntryOf(e).chain = <<>>
    BY <1>4 DEF EntryOf, EmptyEntry
  <2> QED
    BY <1>3, <2>1 DEF TurnsOf
<1>5. CASE e # NoEntry
  <2>1. e \in 1 .. Len(entries) /\ EntryOf(e) = entries[e]
    BY <1>2, <1>5 DEF EntryOf, NoEntry
  <2> QED
    BY <1>3, <2>1 DEF OwnIsNew
<1> QED
  BY <1>4, <1>5

(* A publish of a branch is one command of the abstract branch table: the  *)
(* turn of the process, one member, an earlier conversation, or none.      *)
LEMMA PublishWonImplements ==
    ASSUME OneCommand, RefInv, NEW p \in Proc, PublishWon(p)
    PROVE  Promise!Next
<1>1. /\ WellFormed /\ p \in Plain /\ PlainOK(p) /\ RunOK(p) /\ OwnIsNew(p)
  BY AllPlain DEF RefInv, IInv, Fresh
<1>2. WellFormed' /\ ArenaGrows
  <2>1. ProcStep(p)
    BY DEF ProcStep, PublishStep
  <2> QED
    BY <1>1, <2>1, ProcStepWellFormed, StepShape
<1>3. PICK b \in Branch : b = ctx[p].branch
  BY <1>1, OfProc DEF Context
<1>4. PICK table, e, t :
         /\ Rooted(table) /\ Changes(table, b, e, t) /\ e # NoEntry
         /\ t = [live |-> TRUE, chain |-> ctx[p].chain, store |-> OurStore(p)]
         /\ roots[refs].table[b] = ctx[p].branchPrev
         /\ ctx[p].pc = "try"
  BY <1>1, <1>3, PublishWonIs
<1>5. /\ TipNow' = [TipNow EXCEPT ![b] = t]
      /\ TipsKnown' = TipsKnown \cup {t}
  <2>1. Rooted(table) /\ Changes(table, b, e, t) /\ e # NoEntry
    BY <1>4
  <2> QED
    BY <1>1, <1>2, <2>1, OneChange
<1>6. PICK l, c, s : /\ TipNow[b] = [live |-> l, chain |-> c, store |-> s]
                     /\ c = Base(p).chain /\ s = Base(p).store
  <2>1. TipNow[b] = TipOf(ctx[p].branchPrev)
    <3>1. roots[refs].table[b] = ctx[p].branchPrev
      BY <1>4
    <3> QED
      BY <1>1, <3>1, NowIs
  <2>2. PICK l : l = (ctx[p].branchPrev # NoEntry)
    OBVIOUS
  <2>3. TipOf(ctx[p].branchPrev) = [live |-> l, chain |-> Base(p).chain,
                                    store |-> Base(p).store]
    BY <2>2, Zenon DEF TipOf, Base
  <2> QED
    BY <2>1, <2>3
<1>7. PICK x, y : x = ctx[p].chain /\ y = OurStore(p)
  OBVIOUS
<1>8. t = [live |-> TRUE, chain |-> x, store |-> y]
  BY <1>4, <1>7
<1>9. /\ s \in Store /\ y \in Store /\ x \in Chain
      /\ \A m \in Member \ asked[p].edits : y[m] = s[m]
  BY <1>1, <1>4, <1>6, <1>7, EntriesNamed, OfProc
  DEF PlainOK, StoreDerived, Entry, Context
<1>10. asked[p].edits = {} => y = s
  BY <1>9 DEF Store
<1>11. ASSUME y = s PROVE Promise!Becomes(b, [TipNow[b] EXCEPT !.chain = x])
  <2>1. PICK u : u = [TipNow[b] EXCEPT !.chain = x]
    OBVIOUS
  <2>2. [u EXCEPT !.live = TRUE] = t
    <3>1. PICK tip : tip = TipNow[b]
      OBVIOUS
    <3>2. tip = [live |-> l, chain |-> c, store |-> s]
      BY <1>6, <3>1
    <3>3. [[tip EXCEPT !.chain = x] EXCEPT !.live = TRUE]
              = [live |-> TRUE, chain |-> x, store |-> s]
      <4>1. PICK z : z = TRUE
        OBVIOUS
      <4>2. [tip EXCEPT !.chain = x] = [live |-> l, chain |-> x, store |-> s]
        BY <3>2
      <4>3. [[live |-> l, chain |-> x, store |-> s] EXCEPT !.live = z]
                = [live |-> z, chain |-> x, store |-> s]
        OBVIOUS
      <4> QED
        BY <4>1, <4>2, <4>3
    <3> QED
      BY <1>8, <1>11, <2>1, <3>1, <3>3
  <2>3. Promise!Becomes(b, u)
    BY <1>5, <2>2, BecomesIs
  <2> QED
    BY <2>1, <2>3
<1>12. CASE Continues(p) /\ asked[p].edits = {}
  <2>1. PICK o : o = OwnTurn(p)
    OBVIOUS
  <2>2. /\ x = Append(Seeded(c), o) /\ AtTurn(p)
        /\ o = x[Len(x)] /\ x # <<>> /\ o # Sys
    BY <1>1, <1>4, <1>6, <1>7, <1>12, <2>1
    DEF Continues, AtTurn, OwnIsNew, OwnTurn
  <2>3. o \in Turn
    BY <1>9, <2>2 DEF Chain
  <2>4. \A k \in TipsKnown : o \notin TurnsOf(k.chain)
    BY <1>1, <2>1, <2>2, OwnIsUnknown
  <2>5. TipNow[b].chain = c
    BY <1>6
  <2>6. Promise!Becomes(b, [TipNow[b] EXCEPT !.chain =
                                Append(Promise!Seeded(TipNow[b].chain), o)])
    BY <1>10, <1>11, <1>12, <2>2, <2>5, SameData
  <2>7. Promise!AddTurn(b)
    BY <2>2, <2>3, <2>4, <2>6, SameData DEF Promise!AddTurn
  <2> QED
    BY <2>7 DEF Promise!Next
<1>13. ASSUME ctx[p].chain = Base(p).chain,
              NEW m \in Member, asked[p].edits \subseteq {m}
       PROVE  Promise!Next
  <2>1. PICK v : v = y[m]
    OBVIOUS
  <2>2. y = [s EXCEPT ![m] = v] /\ v \in Stored
    BY <1>9, <1>13, <2>1 DEF Store
  <2>3. PICK u : u = [TipNow[b] EXCEPT !.store[m] = v]
    OBVIOUS
  <2>4. [u EXCEPT !.live = TRUE] = t
    <3>1. PICK tip : tip = TipNow[b]
      OBVIOUS
    <3>2. tip = [live |-> l, chain |-> c, store |-> s]
      BY <1>6, <3>1
    <3>3. [[tip EXCEPT !.store[m] = v] EXCEPT !.live = TRUE]
              = [live |-> TRUE, chain |-> c, store |-> [s EXCEPT ![m] = v]]
      <4>1. PICK z, w : z = TRUE /\ w = [s EXCEPT ![m] = v]
        OBVIOUS
      <4>2. tip.store = s
        BY <3>2
      <4>3. [tip EXCEPT !.store = w] = [live |-> l, chain |-> c, store |-> w]
        BY <3>2
      <4>4. [tip EXCEPT !.store[m] = v]
                = [tip EXCEPT !.store = [tip.store EXCEPT ![m] = v]]
        OBVIOUS
      <4>5. [tip EXCEPT !.store[m] = v] = [live |-> l, chain |-> c, store |-> w]
        BY <4>1, <4>2, <4>3, <4>4
      <4>6. [[live |-> l, chain |-> c, store |-> w] EXCEPT !.live = z]
                = [live |-> z, chain |-> c, store |-> w]
        OBVIOUS
      <4> QED
        BY <4>1, <4>5, <4>6
    <3>4. c = x
      BY <1>6, <1>7, <1>13
    <3> QED
      BY <1>8, <2>2, <2>3, <3>1, <3>3, <3>4
  <2>5. Promise!Becomes(b, u)
    BY <1>5, <2>4, BecomesIs
  <2>6. Promise!SetMember(b)
    BY <2>2, <2>3, <2>5, SameData DEF Promise!SetMember
  <2> QED
    BY <2>6 DEF Promise!Next
<1>14. CASE ctx[p].chain = <<>> /\ asked[p].edits = {}
  <2>1. Promise!Clear(b)
    BY <1>7, <1>10, <1>11, <1>14 DEF Promise!Clear
  <2> QED
    BY <2>1 DEF Promise!Next
<1>15. CASE HeldChain(ctx[p].chain) /\ asked[p].edits = {}
  <2>1. PICK k \in TipsKnown : k.chain = x
    BY <1>7, <1>15 DEF HeldChain
  <2>2. Promise!Becomes(b, [TipNow[b] EXCEPT !.chain = k.chain])
    BY <1>10, <1>11, <1>15, <2>1
  <2>3. Promise!Reset(b)
    BY <2>2 DEF Promise!Reset
  <2> QED
    BY <2>3 DEF Promise!Next
<1> QED
  BY <1>1, <1>4, <1>12, <1>13, <1>14, <1>15 DEF RunOK

(* Under abort, every publish of processes that run one command each is    *)
(* one command of the abstract branch table, applied to the state that the *)
(* publish replaces (fyai_root_publish_try, publish_reconcile).            *)
THEOREM ImplementsTheBranchTable ==
    ASSUME OneCommand
    PROVE  Spec => ImplementsBranchTable
<1>1. Init => Promise!Init
  BY PromiseInit
<1>2. RefInv /\ [Next]_vars => [Promise!Next]_Promise!vars
  <2> SUFFICES ASSUME RefInv, [Next]_vars
               PROVE  Promise!Next \/ (TipNow' = TipNow /\ TipsKnown' = TipsKnown)
    BY DEF Promise!vars
  <2>1. WellFormed
    BY DEF RefInv, IInv
  <2>2. CASE UNCHANGED vars
    BY <2>2 DEF vars, TipNow, TipsKnown, TipOf, EntryOf
  <2>3. ASSUME NEW p \in Proc, ProcStep(p), ~PublishWon(p), ~TableWon(p)
        PROVE  TipNow' = TipNow /\ TipsKnown' = TipsKnown
    <3>1. WellFormed' /\ ArenaGrows /\ UNCHANGED roots
      BY <2>1, <2>3, ProcStepWellFormed, StepShape
    <3>2. TipsKnown' = TipsKnown
      BY <2>1, <3>1, KnownGrows
    <3>3. refs' = refs /\ refs \in 1 .. Len(roots)
      BY <2>1, <3>1 DEF WellFormed, ArenaOK
    <3>4. ASSUME NEW b \in Branch
          PROVE  TipOf(roots[refs].table[b])' = TipOf(roots[refs].table[b])
      <4>1. PICK e \in Nat : e = roots[refs].table[b] /\ e <= Len(entries)
        BY <2>1, <3>3, NamedIs
      <4>2. TipOf(e)' = TipOf(e)
        BY <2>1, <3>1, <4>1, TipKept
      <4> QED
        BY <3>1, <3>3, <4>1, <4>2 DEF TipOf, EntryOf
    <3>5. TipNow' = TipNow
      BY <3>4 DEF TipNow
    <3> QED
      BY <3>2, <3>5
  <2> QED
    BY <2>2, <2>3, PublishWonImplements, TableWonImplements DEF Next
<1> QED
  BY <1>1, <1>2, AlwaysRefInv, PTL DEF Spec, ImplementsBranchTable, Promise!Spec
===============================================================================
