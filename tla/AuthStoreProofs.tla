--------------------------- MODULE AuthStoreProofs ---------------------------
(***************************************************************************)
(* The safety of the subscription login, for any number of processes,      *)
(* registrations, sign-ins and requests: a refresh token is shown to the   *)
(* provider once, the store keeps the newest token and every registration, *)
(* and a refresh undoes nothing that another process did.                  *)
(*                                                                         *)
(* IInv is the inductive invariant.  Who has the lock has read what is     *)
(* stored and nobody else writes it (Holds); and while no answer of the    *)
(* provider has been lost, the tokens that are stored, about to be stored  *)
(* or issued to a sign-in under way are the newest of sign-ins apart       *)
(* (Tokened).                                                              *)
(***************************************************************************)
EXTENDS AuthStore, TLAPS

(* A record that can be saved, one way or the other.                       *)
Saved == [who : 0 .. Accounts, reg : [Account -> Tokens]]

Processes ==
    [st : {"idle", "wait", "keys", "post", "answered", "aborting", "browser",
           "exchange", "jwks", "revoke", "save", "unlink"},
     op : {"none", "refresh", "force", "login", "logout"},
     then : {"idle", "browser", "exchange"},
     acct : 0 .. Accounts, sent : Tokens, auth : Saved, cred : Saved, out : Saved]

Typed ==
    /\ file \in Saved \cup {Absent} /\ ring \in Saved \cup {Absent} /\ up \in BOOLEAN
    /\ lock \in Proc \cup {NoProc}
    /\ gen \in [Grant -> 0 .. MaxGen]
    /\ proc \in [Proc -> Processes]
    /\ harm \subseteq {"token", "record"} /\ left \in 0 .. Ops

(* Who reads and writes the login has the lock; a request that is being    *)
(* stopped has it or not.                                                  *)
Reads == {"keys", "post", "answered"}
Writes == {"save", "unlink"}
Locked ==
    \A p \in Proc :
        /\ proc[p].st \in Reads \cup Writes \cup {"revoke"} => lock = p
        /\ lock = p => proc[p].st \in Reads \cup Writes \cup {"revoke", "aborting"}
        /\ proc[p].st = "idle" => proc[p] = Idle

(* What the steps of a request say of its kind.                            *)
KindOf(q) ==
    /\ q.st \in {"browser", "exchange", "jwks"} \/ q.then # "idle" => q.op = "login"
    /\ q.st = "revoke" => q.op = "logout"
    /\ q.op = "login" /\ q.st \in {"jwks", "wait"} => q.sent.grant > 0
Kinds == \A p \in Proc : KindOf(proc[p])

(* What a process q that has the lock has read is what is stored, s.       *)
Refreshes(q) == q.op \in {"refresh", "force"}
Current(s) == s.reg[s.who]
Rotated(t) == Token(t.grant, t.n + 1)

Follows(q, s) ==
    /\ q.st \in Reads =>
          /\ Refreshes(q) /\ q.auth \in {s, NoRecord}
          /\ s.who \in Account /\ Current(s).grant > 0
          /\ q.sent = IF q.st = "answered" THEN Rotated(Current(s)) ELSE Current(s)
    /\ q.st = "revoke" => q.cred = s
    /\ q.st = "save" /\ Refreshes(q) =>
          \A a \in Account : \/ q.out.reg[a] = s.reg[a]
                             \/ a = s.who /\ q.out.reg[a] = Rotated(s.reg[a])
Names(q, s) ==
    q.st \in Writes => \A a \in Account : Registered(s, a) => Registered(q.out, a)

Holds ==
    \A p \in Proc :
        /\ Follows(proc[p], Stored)
        /\ proc[p].st = "unlink" => ring = proc[p].out
        /\ "record" \notin harm => Names(proc[p], Stored)

(* The tokens of a record c are the newest, by g, of sign-ins apart.       *)
Fresh(t, g) == t.grant > 0 /\ g[t.grant] = t.n /\ t.n > 0
Apart(c) ==
    \A a, b \in Account : a # b /\ c.reg[a].grant > 0 => c.reg[a].grant # c.reg[b].grant
FreshBut(c, S, g) == \A a \in Account \ S : c.reg[a].grant > 0 => Fresh(c.reg[a], g)
Good(c, g) == Apart(c) /\ FreshBut(c, {}, g)
Has(c, n) == \E a \in Account : c.reg[a].grant = n

Keeps(q, s, g) ==
    /\ q.st \in {"keys", "post", "aborting", "revoke"} => Good(s, g)
    /\ q.st = "answered" => Apart(s) /\ FreshBut(s, {s.who}, g) /\ Fresh(q.sent, g)
    /\ q.st \in Writes => Good(q.out, g) /\ (Refreshes(q) \/ Good(s, g))

(* A sign-in whose tokens no record has yet.                               *)
Flies(q) == q.op = "login" /\ q.st \in {"jwks", "wait"}

Tokened ==
    /\ lock = NoProc => Good(Stored, gen)
    /\ \A p \in Proc : lock = p => Keeps(proc[p], Stored, gen)
    /\ \A a \in Account : Stored.reg[a].grant > 0 => gen[Stored.reg[a].grant] > 0
    /\ \A p \in Proc : Flies(proc[p]) =>
          /\ Fresh(proc[p].sent, gen) /\ ~Has(Stored, proc[p].sent.grant)
          /\ \A r \in Proc :
                /\ Flies(proc[r]) /\ r # p => proc[r].sent.grant # proc[p].sent.grant
                /\ proc[r].st \in Writes => ~Has(proc[r].out, proc[p].sent.grant)

IInv == Typed /\ Locked /\ Kinds /\ Holds /\ ("token" \notin harm => Tokened)

-------------------------------------------------------------------------------
(* Records.                                                                *)

(* The records that the module names.                                      *)
LEMMA RecordFacts ==
    /\ NoRecord \in Saved /\ NoRecord.who = 0
    /\ Absent \notin Saved /\ Absent.who = -1
    /\ \A a \in Account : NoRecord.reg[a] = NotRegistered /\ Absent.reg[a] = NotRegistered
    /\ NotRegistered \in Tokens /\ SignedOut \in Tokens
    /\ NotRegistered.grant = -1 /\ SignedOut.grant = 0
    /\ \A c \in Saved : /\ c.who \in 0 .. Accounts /\ c.reg \in [Account -> Tokens]
                        /\ \A a \in Account : /\ c.reg[a].grant \in -1 .. Grants
                                              /\ c.reg[a].n \in 0 .. MaxGen
<1>1. NotRegistered \in Tokens /\ SignedOut \in Tokens
      /\ NotRegistered.grant = -1 /\ SignedOut.grant = 0
  BY AuthAssumption DEF NotRegistered, SignedOut, Token, Tokens
<1>2. NoRecord = [who |-> 0, reg |-> [a \in Account |-> NotRegistered]]
  BY DEF NoRecord
<1>3. NoRecord \in Saved /\ NoRecord.who = 0
  BY <1>1, <1>2, AuthAssumption DEF Saved
<1>4. Absent = [who |-> -1, reg |-> [a \in Account |-> NotRegistered]]
  BY <1>2 DEF Absent
<1>5. Absent \notin Saved /\ Absent.who = -1
  BY <1>4, AuthAssumption DEF Saved
<1>6. \A a \in Account : NoRecord.reg[a] = NotRegistered /\ Absent.reg[a] = NotRegistered
  BY <1>2, <1>4
<1>7. \A c \in Saved : /\ c.who \in 0 .. Accounts /\ c.reg \in [Account -> Tokens]
                       /\ \A a \in Account : /\ c.reg[a].grant \in -1 .. Grants
                                             /\ c.reg[a].n \in 0 .. MaxGen
  BY DEF Saved, Tokens
<1> QED
  BY <1>1, <1>3, <1>5, <1>6, <1>7

(* A record with no sign-in is good, and has none of any.                  *)
LEMMA EmptyGood ==
    ASSUME NEW c \in {NoRecord, Absent}, NEW g
    PROVE  Good(c, g) /\ \A n \in Grant : ~Has(c, n)
BY RecordFacts DEF Good, Apart, FreshBut, Has, Grant

(* What a load reads is what is stored, or nothing.                        *)
LEMMA LoadFacts ==
    ASSUME Typed
    PROVE  /\ Stored \in Saved \cup {Absent}
           /\ Load \in {Stored, Absent} /\ AuthOf(Load) \in {Stored, NoRecord}
           /\ Load # Absent => Load = Stored /\ Stored \in Saved /\ AuthOf(Load) = Stored
           /\ AuthOf(Load) \in Saved
           /\ AuthOf(Load).who > 0 => AuthOf(Load) = Stored /\ Stored \in Saved
BY RecordFacts DEF Typed, Stored, Load, AuthOf

-------------------------------------------------------------------------------
(* Steps of a process, by what they change.                                *)

(* A step of p to q leaves the others where they are.                      *)
Becomes(p, q) == q \in Processes /\ KindOf(q) /\ proc' = [proc EXCEPT ![p] = q]

(* The other processes stay where they are.                                *)
LEMMA OthersStay ==
    ASSUME Typed, Kinds, NEW p \in Proc, NEW q, Becomes(p, q)
    PROVE  /\ proc' \in [Proc -> Processes] /\ proc'[p] = q
           /\ \A r \in Proc : r # p => proc'[r] = proc[r]
           /\ Kinds'
BY DEF Typed, Becomes, Kinds

Harms == harm \subseteq harm' /\ harm' \subseteq {"token", "record"}

(* A step without the lock, that reads and writes nothing.                 *)
Moves(p, q) ==
    /\ Becomes(p, q)
    /\ lock # p
    /\ q.st \notin Reads \cup Writes \cup {"revoke"} /\ (q.st = "idle" => q = Idle)
    /\ Flies(q) => Flies(proc[p]) /\ q.sent = proc[p].sent
    /\ Harms /\ left' \in 0 .. Ops
    /\ UNCHANGED <<store, lock, gen>>

(* It keeps the invariant.                                                 *)
LEMMA MovesKeep ==
    ASSUME IInv, NEW p \in Proc, NEW q, Moves(p, q)
    PROVE  IInv'
<1>1. /\ proc' \in [Proc -> Processes] /\ proc'[p] = q
      /\ \A r \in Proc : r # p => proc'[r] = proc[r]
      /\ Kinds'
  BY OthersStay DEF IInv, Moves
<1>2. UNCHANGED <<file, ring, up, lock, gen, Stored>>
  BY DEF Moves, store, Stored
<1>3. /\ harm \subseteq harm' /\ lock # p
      /\ q.st \notin Reads \cup Writes \cup {"revoke"} /\ (q.st = "idle" => q = Idle)
      /\ Flies(q) => Flies(proc[p]) /\ q.sent = proc[p].sent
  BY DEF Moves, Harms
<1>4. Typed'
  BY <1>1, <1>2 DEF IInv, Typed, Moves, Harms
<1>5. Locked'
  BY <1>1, <1>2, <1>3 DEF IInv, Locked
<1>6. Holds'
  <2>1. Follows(q, Stored) /\ Names(q, Stored) /\ q.st # "unlink"
    BY <1>3 DEF Follows, Names, Reads, Writes
  <2> QED
    BY <1>1, <1>2, <1>3, <2>1 DEF IInv, Holds
<1>7. ASSUME "token" \notin harm' PROVE Tokened'
  <2>1. Tokened
    BY <1>3, <1>7 DEF IInv
  <2>2. q.st \notin Writes
    BY <1>3
  <2> QED
    BY <1>1, <1>2, <1>3, <2>1, <2>2 DEF Tokened
<1> QED
  BY <1>1, <1>4, <1>5, <1>6, <1>7 DEF IInv

(* A step of who has the lock, or takes it.                                *)
Goes(p, q) ==
    /\ Becomes(p, q)
    /\ lock \in {p, NoProc} /\ lock' = p
    /\ q.st \in Reads \cup Writes \cup {"revoke", "aborting"}
    /\ Follows(q, Stored) /\ (q.st = "unlink" => ring = q.out)
    /\ "record" \notin harm' => Names(q, Stored)
    /\ "token" \notin harm' =>
          /\ Keeps(q, Stored, gen)
          /\ q.st \in Writes =>
                \A r \in Proc : r # p /\ Flies(proc[r]) => ~Has(q.out, proc[r].sent.grant)
    /\ Harms /\ left' \in 0 .. Ops
    /\ UNCHANGED <<store, gen>>

(* It keeps the invariant.                                                 *)
LEMMA GoesKeep ==
    ASSUME IInv, NEW p \in Proc, NEW q, Goes(p, q)
    PROVE  IInv'
<1>1. /\ proc' \in [Proc -> Processes] /\ proc'[p] = q
      /\ \A r \in Proc : r # p => proc'[r] = proc[r]
      /\ Kinds'
  BY OthersStay DEF IInv, Goes
<1>2. UNCHANGED <<file, ring, up, gen, Stored>>
  BY DEF Goes, store, Stored
<1>3. /\ harm \subseteq harm' /\ lock \in {p, NoProc} /\ lock' = p
      /\ q.st \in Reads \cup Writes \cup {"revoke", "aborting"}
      /\ q.st # "idle" /\ ~Flies(q)
  BY DEF Goes, Harms, Flies, Reads, Writes
<1>4. \A r \in Proc : r # p => lock # r
  BY <1>3, AuthAssumption
<1>5. Typed'
  BY <1>1, <1>2 DEF IInv, Typed, Goes, Harms
<1>6. Locked'
  BY <1>1, <1>3, <1>4 DEF IInv, Locked
<1>7. Holds'
  BY <1>1, <1>2, <1>3 DEF IInv, Holds, Goes
<1>8. ASSUME "token" \notin harm' PROVE Tokened'
  <2>1. Tokened
    BY <1>3, <1>8 DEF IInv
  <2>2. /\ Keeps(q, Stored, gen)
        /\ q.st \in Writes =>
              \A r \in Proc : r # p /\ Flies(proc[r]) => ~Has(q.out, proc[r].sent.grant)
    BY <1>8 DEF Goes
  <2>3. lock' # NoProc
    BY <1>3, AuthAssumption
  <2> QED
    BY <1>1, <1>2, <1>3, <1>4, <2>1, <2>2, <2>3 DEF Tokened
<1> QED
  BY <1>1, <1>5, <1>6, <1>7, <1>8 DEF IInv

(* The end of a request: what it held of the tokens is stored, or lost.    *)
Finishes(p) ==
    /\ Ends(p) /\ lock' = Unlocked(p)
    /\ Lost(p) => "token" \in harm'
    /\ Harms /\ left' \in 0 .. Ops
    /\ UNCHANGED <<store, gen>>

(* The request a process has when it has none.                             *)
LEMMA IdleFacts ==
    /\ Idle \in Processes /\ Idle.st = "idle" /\ Idle.op = "none" /\ Idle.sent = SignedOut
    /\ Idle.out = NoRecord /\ Idle.auth = NoRecord /\ Idle.cred = NoRecord /\ Idle.then = "idle"
    /\ KindOf(Idle)
BY RecordFacts, AuthAssumption DEF Idle, Processes, KindOf

(* It keeps the invariant.                                                 *)
LEMMA FinishesKeep ==
    ASSUME IInv, NEW p \in Proc, Finishes(p)
    PROVE  IInv'
<1>1. /\ proc' \in [Proc -> Processes] /\ proc'[p] = Idle
      /\ \A r \in Proc : r # p => proc'[r] = proc[r]
      /\ Kinds'
  BY OthersStay, IdleFacts DEF IInv, Finishes, Ends, Becomes
<1>2. UNCHANGED <<file, ring, up, gen, Stored>>
  BY DEF Finishes, store, Stored
<1>3. harm \subseteq harm' /\ lock' # p /\ \A r \in Proc : r # p => (lock' = r <=> lock = r)
  BY AuthAssumption DEF Finishes, Harms, Unlocked
<1>4. Typed'
  BY <1>1, <1>2 DEF IInv, Typed, Finishes, Harms, Unlocked
<1>5. Locked'
  BY <1>1, <1>3, IdleFacts DEF IInv, Locked, Reads, Writes
<1>6. Holds'
  <2>1. Follows(Idle, Stored) /\ Names(Idle, Stored) /\ Idle.st # "unlink"
    BY IdleFacts DEF Follows, Names, Reads, Writes
  <2> QED
    BY <1>1, <1>2, <1>3, <2>1 DEF IInv, Holds
<1>7. ASSUME "token" \notin harm' PROVE Tokened'
  <2>1. Tokened /\ ~Lost(p)
    BY <1>3, <1>7 DEF IInv, Finishes
  <2>2. ASSUME lock' = NoProc PROVE Good(Stored, gen)
    <3>1. CASE lock = NoProc
      BY <2>1, <3>1 DEF Tokened
    <3>2. CASE lock = p
      <4>1. /\ Keeps(proc[p], Stored, gen)
            /\ proc[p].st \in Reads \cup Writes \cup {"revoke", "aborting"}
        BY <2>1, <3>2 DEF Tokened, IInv, Locked
      <4>2. proc[p].st # "answered"
        BY <2>1 DEF Lost, IInv, Holds, Follows, Refreshes, Reads
      <4>3. CASE proc[p].st \in Writes /\ Refreshes(proc[p])
        <5>1. proc[p].st = "unlink" /\ file = Absent
          BY <2>1, <4>3 DEF Lost, Refreshes, Writes
        <5>2. Stored = proc[p].out
          BY <5>1 DEF Stored, IInv, Holds
        <5> QED
          BY <4>1, <4>3, <5>2 DEF Keeps
      <4> QED
        BY <4>1, <4>2, <4>3 DEF Keeps, Reads
    <3> QED
      BY <2>2, <3>1, <3>2 DEF Finishes, Unlocked
  <2>3. ~Flies(Idle) /\ Idle.st \notin Writes
    BY IdleFacts DEF Flies, Writes
  <2> QED
    BY <1>1, <1>2, <1>3, <2>1, <2>2, <2>3 DEF Tokened
<1> QED
  BY <1>1, <1>4, <1>5, <1>6, <1>7 DEF IInv

-------------------------------------------------------------------------------
(* Refresh.                                                                *)

(* fyai_auth_refresh_start_locked: the lock is taken with what is stored.  *)
LEMMA StartLockedKeeps ==
    ASSUME IInv, NEW p \in Proc, NEW q \in Processes, StartLocked(p, q), KindOf(q),
           lock = NoProc, Refreshes(q), q.st \in {"idle", "wait"}, proc[p].st \in {"idle", "wait"},
           left' \in 0 .. Ops, UNCHANGED <<store, gen, harm>>
    PROVE  IInv'
<1>1. lock # p
  BY AuthAssumption
<1> DEFINE auth == AuthOf(Load)
           t == [q EXCEPT !.auth = auth, !.st = "keys", !.sent = Active(auth)]
<1>2. CASE Ready(auth) /\ proc' = [proc EXCEPT ![p] = t] /\ lock' = p
  <2>1. auth = Stored /\ Stored \in Saved /\ Stored.who \in Account /\ Current(Stored).grant > 0
    <3>1. auth = Stored /\ Stored \in Saved
      BY <1>2, LoadFacts DEF Ready, IInv
    <3> QED
      BY <1>2, <3>1, RecordFacts, AuthAssumption DEF Ready, Current, Account
  <2>2. Active(auth) = Current(Stored) /\ Current(Stored) \in Tokens
    BY <2>1, RecordFacts DEF Active, Current
  <2>3. /\ t \in Processes /\ t.st = "keys" /\ t.op = q.op /\ t.auth = Stored
        /\ t.sent = Current(Stored) /\ KindOf(t)
    BY <2>1, <2>2 DEF Processes, KindOf
  <2> HIDE DEF t
  <2>4. Follows(t, Stored) /\ Names(t, Stored)
    BY <2>1, <2>3 DEF Follows, Names, Reads, Writes, Refreshes
  <2>5. "token" \notin harm' => Keeps(t, Stored, gen)
    BY <2>3 DEF IInv, Tokened, Keeps, Writes
  <2>6. Goes(p, t)
    BY <1>2, <2>3, <2>4, <2>5 DEF Goes, Becomes, Harms, Reads, Writes, IInv, Typed
  <2> QED
    BY <2>6, GoesKeep
<1>3. CASE Ends(p) /\ UNCHANGED lock
  <2>1. Finishes(p)
    BY <1>1, <1>3 DEF Finishes, Unlocked, Lost, Harms, IInv, Typed
  <2> QED
    BY <2>1, FinishesKeep
<1> QED
  BY <1>2, <1>3 DEF StartLocked

(* A process that asks has nothing, and its request is one of its kind.    *)
LEMMA AskFacts ==
    ASSUME IInv, NEW p \in Proc, Asks(p), NEW op \in {"refresh", "force", "login", "logout"}
    PROVE  /\ proc[p] = Idle /\ left' \in 0 .. Ops /\ lock # p
           /\ Asked(p, op) = [Idle EXCEPT !.op = op] /\ Asked(p, op) \in Processes
           /\ Asked(p, op).op = op /\ Asked(p, op).st = "idle" /\ Asked(p, op).then = "idle"
           /\ Asked(p, op).out = NoRecord /\ KindOf(Asked(p, op))
<1>1. proc[p] = Idle /\ lock # p
  BY IdleFacts DEF IInv, Locked, Asks, Reads, Writes
<1>2. Asked(p, op) = [Idle EXCEPT !.op = op]
  BY <1>1 DEF Asked
<1>3. left' \in 0 .. Ops
  BY AuthAssumption DEF Asks, IInv, Typed
<1> QED
  BY <1>1, <1>2, <1>3, IdleFacts DEF Processes, KindOf

(* fyai_auth_refresh_submit.                                               *)
LEMMA SubmitKeeps ==
    ASSUME IInv, NEW p \in Proc, NEW op \in {"refresh", "force"}, Submit(p, op)
    PROVE  IInv'
<1> DEFINE q == Asked(p, op)
           t == [q EXCEPT !.st = "wait"]
<1>1. /\ Asks(p) /\ proc[p] = Idle /\ left' \in 0 .. Ops /\ lock # p
      /\ q \in Processes /\ q.op = op /\ q.st = "idle" /\ KindOf(q)
  BY AskFacts DEF Submit
<1> HIDE DEF q
<1>2. CASE lock = NoProc
  BY <1>1, <1>2, IdleFacts, StartLockedKeeps DEF Submit, Refreshes, q
<1>3. CASE lock # NoProc
  <2>1. t \in Processes /\ t.st = "wait" /\ t.op = op /\ KindOf(t)
    BY <1>1 DEF Processes, KindOf
  <2>2. proc' = [proc EXCEPT ![p] = t] /\ UNCHANGED <<store, lock, gen, harm>>
    BY <1>3 DEF Submit, q
  <2> HIDE DEF t
  <2>3. Moves(p, t)
    BY <1>1, <2>1, <2>2 DEF Moves, Becomes, Flies, Harms, Reads, Writes, IInv, Typed
  <2> QED
    BY <2>3, MovesKeep
<1> QED
  BY <1>2, <1>3

(* fyai_auth_refresh_lock_timer.                                           *)
LEMMA LockTimerKeeps ==
    ASSUME IInv, NEW p \in Proc, LockTimer(p)
    PROVE  IInv'
BY StartLockedKeeps DEF LockTimer, IInv, Typed, Kinds, Refreshes

(* fyai_auth_refresh_complete of the signing keys.                         *)
LEMMA KeysAnsweredKeeps ==
    ASSUME IInv, NEW p \in Proc, NEW ok \in BOOLEAN, KeysAnswered(p, ok)
    PROVE  IInv'
<1>1. CASE ok
  <2> DEFINE t == [proc[p] EXCEPT !.st = "post"]
  <2>1. proc[p] \in Processes /\ proc[p].st = "keys" /\ KindOf(proc[p]) /\ lock = p
    BY DEF IInv, Typed, Kinds, Locked, KeysAnswered, Reads
  <2>2. /\ t \in Processes /\ t.st = "post" /\ t.op = proc[p].op /\ t.auth = proc[p].auth
        /\ t.sent = proc[p].sent /\ KindOf(t)
    BY <2>1 DEF Processes, KindOf
  <2>3. proc' = [proc EXCEPT ![p] = t] /\ UNCHANGED <<store, lock, gen, harm, left>>
    BY <1>1, <2>1 DEF KeysAnswered, IInv, Typed
  <2> HIDE DEF t
  <2>4. Follows(t, Stored) /\ Names(t, Stored)
    BY <2>1, <2>2 DEF IInv, Holds, Follows, Names, Reads, Writes, Refreshes
  <2>5. "token" \notin harm' => Keeps(t, Stored, gen)
    BY <2>1, <2>2, <2>3 DEF IInv, Tokened, Keeps, Writes
  <2>6. Goes(p, t)
    BY <2>1, <2>2, <2>3, <2>4, <2>5 DEF Goes, Becomes, Harms, Reads, Writes, IInv, Typed
  <2> QED
    BY <2>6, GoesKeep
<1>2. CASE ~ok
  <2>1. Finishes(p)
    BY <1>2 DEF KeysAnswered, Finishes, Lost, Harms, IInv, Typed
  <2> QED
    BY <2>1, FinishesKeep
<1> QED
  BY <1>1, <1>2

(* The answer of the provider makes the stored token old, and no other.    *)
LEMMA ProviderRefreshKeeps ==
    ASSUME IInv, NEW p \in Proc, ProviderRefresh(p)
    PROVE  IInv'
<1> DEFINE t == proc[p].sent
           q == [proc[p] EXCEPT !.st = "answered", !.sent.n = @ + 1]
<1>1. /\ proc[p] \in Processes /\ proc[p].st = "post" /\ KindOf(proc[p]) /\ lock = p
      /\ Follows(proc[p], Stored)
  BY DEF IInv, Typed, Kinds, Locked, Holds, ProviderRefresh, Reads
<1>2. /\ t = Current(Stored) /\ Stored.who \in Account /\ Refreshes(proc[p])
      /\ proc[p].auth \in {Stored, NoRecord}
      /\ t.grant \in Grant /\ t.n \in 0 .. MaxGen /\ t.n < MaxGen /\ gen[t.grant] = t.n
      /\ t \in Tokens
  <2>1. t \in Tokens /\ t.grant \in -1 .. Grants /\ t.n \in 0 .. MaxGen
    BY <1>1 DEF Processes, Tokens
  <2> QED
    BY <1>1, <2>1, AuthAssumption DEF Follows, Reads, ProviderRefresh, Newest, Grant
<1>3. /\ q \in Processes /\ q.st = "answered" /\ q.op = proc[p].op /\ q.auth = proc[p].auth
      /\ q.sent = Rotated(t) /\ KindOf(q)
  <2>1. t = [grant |-> t.grant, n |-> t.n] /\ [t EXCEPT !.n = @ + 1] = Rotated(t)
    BY <1>2 DEF Tokens, Rotated, Token
  <2>2. Rotated(t) \in Tokens
    BY <1>2, AuthAssumption DEF Rotated, Token, Tokens, Grant
  <2>3. q = [proc[p] EXCEPT !.st = "answered", !.sent = Rotated(t)]
    BY <1>1, <2>1 DEF Processes
  <2> QED
    BY <1>1, <2>2, <2>3 DEF Processes, KindOf
<1>4. /\ proc' = [proc EXCEPT ![p] = q] /\ gen' = [gen EXCEPT ![t.grant] = @ + 1]
      /\ UNCHANGED <<file, ring, up, lock, harm, left>>
  BY <1>1 DEF ProviderRefresh, store, IInv, Typed
<1> HIDE DEF q
<1>5. /\ proc' \in [Proc -> Processes] /\ proc'[p] = q
      /\ \A r \in Proc : r # p => proc'[r] = proc[r]
      /\ Kinds'
  BY <1>3, <1>4, OthersStay DEF IInv, Becomes
<1>6. /\ gen' \in [Grant -> 0 .. MaxGen]
      /\ gen'[t.grant] = t.n + 1 /\ \A g \in Grant : g # t.grant => gen'[g] = gen[g]
  <2>1. gen \in [Grant -> 0 .. MaxGen] /\ gen[t.grant] + 1 \in 0 .. MaxGen
    BY <1>2, AuthAssumption DEF IInv, Typed
  <2> HIDE DEF t
  <2> QED
    BY <1>2, <1>4, <2>1
<1>7. Stored' = Stored
  BY <1>4 DEF Stored
<1>8. Typed'
  BY <1>4, <1>5, <1>6 DEF IInv, Typed
<1>9. Locked'
  BY <1>1, <1>3, <1>4, <1>5 DEF IInv, Locked, Reads, Writes
<1>10. Holds'
  <2>1. Follows(q, Stored) /\ Names(q, Stored)
    BY <1>1, <1>2, <1>3 DEF Follows, Names, Reads, Writes, Refreshes
  <2> QED
    BY <1>3, <1>4, <1>5, <1>7, <2>1 DEF IInv, Holds
<1>11. ASSUME "token" \notin harm' PROVE Tokened'
  <2>1. Tokened /\ Good(Stored, gen)
    BY <1>1, <1>4, <1>11 DEF IInv, Tokened, Keeps
  <2>2. Has(Stored, t.grant)
    BY <1>2 DEF Has, Current
  <2>3. \A u \in Tokens : Fresh(u, gen) /\ u.grant # t.grant => Fresh(u, gen')
    BY <1>6, AuthAssumption DEF Fresh, Tokens, Grant
  <2>4. Fresh(q.sent, gen')
    BY <1>2, <1>3, <1>6, AuthAssumption DEF Fresh, Rotated, Token, Grant
  <2>5. \A a \in Account : Stored.reg[a] \in Tokens
    BY LoadFacts, RecordFacts DEF IInv
  <2>6. FreshBut(Stored, {Stored.who}, gen')
    <3>1. ASSUME NEW a \in Account, a # Stored.who, Stored.reg[a].grant > 0
          PROVE  Stored.reg[a].grant # t.grant
      BY <1>2, <2>1, <3>1 DEF Good, Apart, Current
    <3> QED
      BY <2>1, <2>3, <2>5, <3>1 DEF Good, FreshBut
  <2>7. Keeps(q, Stored, gen')
    BY <1>3, <2>1, <2>4, <2>6 DEF Keeps, Good, Writes
  <2>8. ASSUME NEW a \in Account, Stored.reg[a].grant > 0
        PROVE  gen'[Stored.reg[a].grant] > 0
    <3>1. Stored.reg[a].grant \in Grant
      BY <2>5, <2>8 DEF Tokens, Grant
    <3>2. gen[Stored.reg[a].grant] > 0
      BY <2>1, <2>8 DEF Tokened
    <3> QED
      BY <1>2, <1>6, <3>1, <3>2
  <2>9. ASSUME NEW r \in Proc, Flies(proc'[r])
        PROVE  /\ r # p /\ Fresh(proc'[r].sent, gen')
    <3>1. r # p /\ proc'[r] = proc[r]
      BY <1>3, <1>5, <2>9 DEF Flies
    <3>2. proc[r].sent \in Tokens /\ Fresh(proc[r].sent, gen) /\ proc[r].sent.grant # t.grant
      BY <2>1, <2>2, <2>9, <3>1 DEF Tokened, IInv, Typed, Processes
    <3> QED
      BY <2>3, <3>1, <3>2
  <2>10. ~Flies(q) /\ q.st \notin Writes /\ \A r \in Proc : r # p => lock' # r
    BY <1>1, <1>3, <1>4 DEF Flies, Writes
  <2> QED
    BY <1>1, <1>4, <1>5, <1>7, <2>1, <2>7, <2>8, <2>9, <2>10, AuthAssumption DEF Tokened
<1> QED
  BY <1>5, <1>8, <1>9, <1>10, <1>11 DEF IInv

(* A post that is refused ends the request.                                *)
LEMMA ProviderRefusesKeeps ==
    ASSUME IInv, NEW p \in Proc, ProviderRefuses(p)
    PROVE  IInv'
<1>1. Finishes(p)
  BY DEF ProviderRefuses, Finishes, Lost, Harms, IInv, Typed
<1> QED
  BY <1>1, FinishesKeep

(* A record o with the token t put at a0 in another, s, that is good but   *)
(* for it.                                                                 *)
Puts(o, s, a0, t) ==
    /\ \A a \in Account : o.reg[a] = IF a = a0 THEN t ELSE s.reg[a]
    /\ t.grant > 0 => t.grant = s.reg[a0].grant \/ ~Has(s, t.grant)

(* A record with one token exchanged for another.                          *)
LEMMA WithToken ==
    ASSUME NEW s, NEW o, NEW a0, NEW t, NEW g, Puts(o, s, a0, t),
           Apart(s), FreshBut(s, {a0}, g), t.grant > 0 => Fresh(t, g)
    PROVE  /\ Good(o, g)
           /\ \A n \in Grant : Has(o, n) => Has(s, n) \/ n = t.grant
<1>1. Apart(o)
  BY DEF Apart, Has, Puts
<1>2. FreshBut(o, {}, g)
  BY DEF FreshBut, Puts
<1>3. \A n \in Grant : Has(o, n) => Has(s, n) \/ n = t.grant
  BY DEF Has, Puts
<1> QED
  BY <1>1, <1>2, <1>3 DEF Good

(* The token of a sign-in under way is of a sign-in that is not stored.     *)
LEMMA FliesFacts ==
    ASSUME IInv, "token" \notin harm, NEW r \in Proc, Flies(proc[r])
    PROVE  /\ proc[r].sent.grant \in Grant /\ proc[r].sent \in Tokens
           /\ Fresh(proc[r].sent, gen) /\ ~Has(Stored, proc[r].sent.grant)
<1>1. proc[r].sent \in Tokens
  BY DEF IInv, Typed, Processes
<1>2. Fresh(proc[r].sent, gen) /\ ~Has(Stored, proc[r].sent.grant)
  BY DEF IInv, Tokened
<1> QED
  BY <1>1, <1>2, AuthAssumption DEF Fresh, Tokens, Grant

(* fyai_auth_refresh_complete of the tokens.                               *)
LEMMA KeepTokensKeeps ==
    ASSUME IInv, NEW p \in Proc, KeepTokens(p)
    PROVE  IInv'
<1> DEFINE auth == proc[p].auth
           o == [auth EXCEPT !.reg[auth.who] = proc[p].sent]
           q == [proc[p] EXCEPT !.st = "save", !.out = o]
<1>1. /\ proc[p] \in Processes /\ proc[p].st = "answered" /\ KindOf(proc[p]) /\ lock = p
      /\ Follows(proc[p], Stored)
  BY DEF IInv, Typed, Kinds, Locked, Holds, KeepTokens, Reads
<1>2. CASE auth.who > 0
  <2>1. /\ auth = Stored /\ Stored \in Saved /\ Stored.who \in Account /\ Refreshes(proc[p])
        /\ proc[p].sent = Rotated(Current(Stored)) /\ proc[p].sent \in Tokens
        /\ Current(Stored).grant > 0
    BY <1>1, <1>2, RecordFacts DEF Follows, Reads, Processes
  <2>2. /\ o \in Saved
        /\ \A a \in Account :
              o.reg[a] = IF a = Stored.who THEN proc[p].sent ELSE Stored.reg[a]
    BY <2>1 DEF Saved
  <2>3. proc[p].sent.grant = Current(Stored).grant
    BY <2>1 DEF Rotated, Token
  <2> HIDE DEF o
  <2>4. /\ q \in Processes /\ q.st = "save" /\ q.op = proc[p].op /\ q.out = o /\ KindOf(q)
    BY <1>1, <2>2 DEF Processes, KindOf
  <2>5. proc' = [proc EXCEPT ![p] = q] /\ UNCHANGED <<store, lock, gen, harm, left>>
    BY <1>1, <1>2 DEF KeepTokens, IInv, Typed, o
  <2> HIDE DEF q
  <2>6. Follows(q, Stored)
    BY <2>1, <2>2, <2>4 DEF Follows, Reads, Current
  <2>7. Names(q, Stored)
    BY <2>1, <2>2, <2>3, <2>4 DEF Names, Registered, Current
  <2>8. ASSUME "token" \notin harm'
        PROVE  Good(o, gen) /\ \A n \in Grant : Has(o, n) => Has(Stored, n)
    <3>1. Keeps(proc[p], Stored, gen)
      BY <1>1, <2>5, <2>8 DEF IInv, Tokened
    <3>2. Apart(Stored) /\ FreshBut(Stored, {Stored.who}, gen) /\ Fresh(proc[p].sent, gen)
      BY <1>1, <3>1 DEF Keeps
    <3>3. proc[p].sent.grant = Stored.reg[Stored.who].grant
      BY <2>3 DEF Current
    <3>4. Has(Stored, proc[p].sent.grant)
      BY <2>1, <3>3 DEF Has
    <3> DEFINE t == proc[p].sent
    <3>5. (t.grant > 0 => Fresh(t, gen)) /\ Puts(o, Stored, Stored.who, t)
      BY <2>2, <3>2, <3>3 DEF Puts
    <3> HIDE DEF t
    <3>6. Good(o, gen) /\ \A n \in Grant : Has(o, n) => Has(Stored, n) \/ n = t.grant
      BY <3>2, <3>5, WithToken
    <3> QED
      BY <3>4, <3>6 DEF t
  <2>9. "token" \notin harm' => Keeps(q, Stored, gen)
    BY <2>1, <2>4, <2>8 DEF Keeps, Refreshes, Writes
  <2>10. "token" \notin harm' =>
            \A r \in Proc : Flies(proc[r]) => ~Has(q.out, proc[r].sent.grant)
    BY <2>4, <2>5, <2>8, FliesFacts
  <2>11. Goes(p, q)
    BY <1>1, <2>4, <2>5, <2>6, <2>7, <2>9, <2>10
    DEF Goes, Becomes, Harms, Reads, Writes, IInv, Typed
  <2> QED
    BY <2>11, GoesKeep
<1>3. CASE ~(auth.who > 0)
  <2>1. Finishes(p)
    BY <1>3 DEF KeepTokens, Finishes, Harms, IInv, Typed
  <2> QED
    BY <2>1, FinishesKeep
<1> QED
  BY <1>2, <1>3

-------------------------------------------------------------------------------
(* The saves.                                                              *)

(* What was saved is what is stored, and the lock is free.                 *)
LEMMA SavedKeeps ==
    ASSUME IInv, NEW p \in Proc, NEW q, Becomes(p, q),
           proc[p].st \in Writes, lock' = NoProc, Stored' = proc[p].out,
           q.st \in {"browser", "exchange"} \/ q = Idle,
           file' \in Saved \cup {Absent}, UNCHANGED <<ring, up, gen, harm, left>>
    PROVE  IInv'
<1>1. /\ proc' \in [Proc -> Processes] /\ proc'[p] = q
      /\ \A r \in Proc : r # p => proc'[r] = proc[r]
      /\ Kinds'
  BY OthersStay DEF IInv
<1>2. lock = p /\ proc[p].out \in Saved
  BY DEF IInv, Locked, Typed, Processes
<1>3. /\ q.st \notin Reads \cup Writes \cup {"revoke", "aborting"} /\ (q.st = "idle" => q = Idle)
      /\ ~Flies(q)
  BY IdleFacts DEF Reads, Writes, Flies
<1>4. \A r \in Proc : r # p => proc[r].st \notin Reads \cup Writes \cup {"revoke"}
  BY <1>2 DEF IInv, Locked
<1>5. Typed'
  BY <1>1 DEF IInv, Typed
<1>6. Locked'
  BY <1>1, <1>3, <1>4, AuthAssumption DEF IInv, Locked
<1>7. Holds'
  <2>1. \A r \in Proc : proc'[r].st \notin Reads \cup Writes \cup {"revoke"}
    BY <1>1, <1>3, <1>4
  <2> QED
    BY <2>1 DEF Holds, Follows, Names, Reads, Writes
<1>8. ASSUME "token" \notin harm' PROVE Tokened'
  <2>1. Tokened /\ Good(proc[p].out, gen)
    BY <1>2, <1>8 DEF IInv, Tokened, Keeps
  <2>2. \A a \in Account : proc[p].out.reg[a].grant > 0 => gen[proc[p].out.reg[a].grant] > 0
    <3>1. ASSUME NEW a \in Account, proc[p].out.reg[a].grant > 0
          PROVE  gen[proc[p].out.reg[a].grant] > 0
      <4>1. Fresh(proc[p].out.reg[a], gen)
        BY <2>1, <3>1 DEF Good, FreshBut
      <4> QED
        BY <4>1 DEF Fresh
    <3> QED
      BY <3>1
  <2>3. \A r \in Proc : r # p => proc[r].st \notin Writes
    BY <1>4
  <2>4. \A r \in Proc : lock' # r
    BY AuthAssumption
  <2>5. ASSUME NEW r \in Proc, Flies(proc'[r])
        PROVE  r # p /\ Flies(proc[r]) /\ Fresh(proc[r].sent, gen) /\ ~Has(proc[p].out, proc[r].sent.grant)
    BY <1>1, <1>3, <2>1, <2>5 DEF Tokened
  <2>6. q.st \notin Writes
    BY <1>3
  <2> QED
    BY <1>1, <2>1, <2>2, <2>3, <2>4, <2>5, <2>6 DEF Tokened
<1> QED
  BY <1>1, <1>5, <1>6, <1>7, <1>8 DEF IInv

(* What follows a save that is done, and one that failed.                  *)
LEMMA AfterSaveFacts ==
    ASSUME IInv, NEW p \in Proc, NEW ok \in BOOLEAN, AfterSave(p, ok), proc[p].st \in Writes
    PROVE  /\ lock = p /\ lock' = NoProc
           /\ ok => harm' = harm /\ \E q : Becomes(p, q) /\ (q.st \in {"browser", "exchange"} \/ q = Idle)
           /\ ~ok => Ends(p) /\ harm' = IF Lost(p) THEN harm \cup {"token"} ELSE harm
<1>1. lock = p /\ proc[p] \in Processes /\ KindOf(proc[p])
  BY DEF IInv, Locked, Typed, Kinds
<1>2. lock' = NoProc
  BY <1>1 DEF AfterSave, Unlocked
<1>3. CASE ok /\ proc[p].then # "idle"
  <2> DEFINE q == [proc[p] EXCEPT !.st = proc[p].then, !.then = "idle", !.out = NoRecord]
  <2>1. q \in Processes /\ q.st = proc[p].then /\ q.op = proc[p].op /\ KindOf(q)
    BY <1>1, <1>3, RecordFacts DEF Processes, KindOf
  <2>2. proc[p].then \in {"browser", "exchange"}
    BY <1>1, <1>3 DEF Processes
  <2>3. proc' = [proc EXCEPT ![p] = q]
    BY <1>1, <1>3 DEF AfterSave, IInv, Typed
  <2> HIDE DEF q
  <2>4. Becomes(p, q) /\ q.st \in {"browser", "exchange"}
    BY <2>1, <2>2, <2>3 DEF Becomes
  <2> QED
    BY <1>1, <1>2, <1>3, <2>4 DEF AfterSave
<1>4. CASE ~(ok /\ proc[p].then # "idle")
  <2>1. Ends(p) /\ Becomes(p, Idle)
    BY <1>4, IdleFacts DEF AfterSave, Ends, Becomes
  <2> QED
    BY <1>1, <1>2, <2>1 DEF AfterSave
<1> QED
  BY <1>3, <1>4

(* The keyring takes the record, behind the file if there is one.          *)
LEMMA SaveRingKeeps ==
    ASSUME IInv, NEW p \in Proc, SaveRing(p)
    PROVE  IInv'
<1> DEFINE q == [proc[p] EXCEPT !.st = "unlink"]
           o == proc[p].out
<1>1. /\ proc[p] \in Processes /\ proc[p].st = "save" /\ KindOf(proc[p]) /\ lock = p
      /\ o \in Saved
  BY DEF IInv, Typed, Kinds, Locked, SaveRing, Writes, Processes
<1>2. q \in Processes /\ q.st = "unlink" /\ q.op = proc[p].op /\ q.out = o /\ KindOf(q)
  BY <1>1 DEF Processes, KindOf
<1>3. proc' = [proc EXCEPT ![p] = q] /\ ring' = o /\ UNCHANGED <<file, up, lock, gen, harm, left>>
  BY <1>1 DEF SaveRing, IInv, Typed
<1> HIDE DEF q
<1>4. /\ proc' \in [Proc -> Processes] /\ proc'[p] = q
      /\ \A r \in Proc : r # p => proc'[r] = proc[r]
      /\ Kinds'
  BY <1>2, <1>3, OthersStay DEF IInv, Becomes
<1>5. Stored' = IF file = Absent THEN o ELSE Stored
  BY <1>3 DEF Stored
<1>6. Typed'
  BY <1>1, <1>3, <1>4 DEF IInv, Typed
<1>7. Locked'
  BY <1>1, <1>2, <1>3, <1>4 DEF IInv, Locked, Writes
<1>8. \A r \in Proc : r # p => proc[r].st \notin Reads \cup Writes \cup {"revoke"}
  BY <1>1 DEF IInv, Locked
<1>9. Holds'
  <2>1. ASSUME NEW r \in Proc, r # p
        PROVE  /\ Follows(proc'[r], Stored') /\ proc'[r].st # "unlink" /\ Names(proc'[r], Stored')
    BY <1>4, <1>8, <2>1 DEF Follows, Names, Reads, Writes
  <2>2. Follows(q, Stored')
    BY <1>2 DEF Follows, Reads
  <2>3. "record" \notin harm' => Names(q, Stored')
    BY <1>1, <1>2, <1>3, <1>5 DEF IInv, Holds, Names, Writes
  <2> QED
    BY <1>2, <1>3, <1>4, <2>1, <2>2, <2>3 DEF Holds
<1>10. ASSUME "token" \notin harm' PROVE Tokened'
  <2>1. Tokened /\ Keeps(proc[p], Stored, gen)
    BY <1>1, <1>3, <1>10 DEF IInv, Tokened
  <2>2. Good(o, gen) /\ (Refreshes(q) \/ Good(Stored, gen))
    BY <1>1, <1>2, <2>1 DEF Keeps, Refreshes, Writes
  <2>3. Keeps(q, Stored', gen)
    BY <1>2, <1>5, <2>2 DEF Keeps
  <2>4. \A a \in Account : o.reg[a].grant > 0 => gen[o.reg[a].grant] > 0
    <3>1. ASSUME NEW a \in Account, o.reg[a].grant > 0 PROVE gen[o.reg[a].grant] > 0
      <4>1. Fresh(o.reg[a], gen)
        BY <2>2, <3>1 DEF Good, FreshBut
      <4> QED
        BY <4>1 DEF Fresh
    <3> QED
      BY <3>1
  <2>5. \A a \in Account : Stored'.reg[a].grant > 0 => gen[Stored'.reg[a].grant] > 0
    BY <1>5, <2>1, <2>4 DEF Tokened
  <2>6. \A r \in Proc : Flies(proc'[r]) =>
           /\ r # p /\ Flies(proc[r]) /\ ~Has(o, proc[r].sent.grant) /\ ~Has(Stored', proc[r].sent.grant)
           /\ Fresh(proc[r].sent, gen)
    BY <1>1, <1>2, <1>4, <1>5, <2>1 DEF Tokened, Flies, Writes
  <2>7. \A r \in Proc : r # p => proc[r].st \notin Writes /\ lock' # r
    BY <1>1, <1>3, <1>8
  <2>8. lock' # NoProc
    BY <1>1, <1>3, AuthAssumption
  <2> QED
    BY <1>1, <1>2, <1>3, <1>4, <2>1, <2>3, <2>5, <2>6, <2>7, <2>8 DEF Tokened
<1> QED
  BY <1>4, <1>6, <1>7, <1>9, <1>10 DEF IInv

(* auth_delete_file: the record in the keyring becomes what is stored.     *)
LEMMA DeleteFileKeeps ==
    ASSUME IInv, NEW p \in Proc, NEW ok \in BOOLEAN, DeleteFile(p, ok)
    PROVE  IInv'
<1>1. AfterSave(p, ok) /\ proc[p].st \in Writes /\ proc[p].st = "unlink"
  BY DEF DeleteFile, Writes
<1>2. CASE ok
  <2>1. Stored' = proc[p].out
    BY <1>1, <1>2 DEF DeleteFile, Stored, IInv, Holds
  <2>2. file' \in Saved \cup {Absent} /\ UNCHANGED <<ring, up, gen, left>>
    BY <1>2 DEF DeleteFile
  <2> QED
    BY <1>1, <1>2, <2>1, <2>2, AfterSaveFacts, SavedKeeps
<1>3. CASE ~ok
  <2>1. UNCHANGED <<file, ring, up, gen, left>>
    BY <1>3 DEF DeleteFile
  <2>2. Finishes(p)
    BY <1>1, <1>3, <2>1, AfterSaveFacts DEF Finishes, Unlocked, Harms, IInv, Typed, store
  <2> QED
    BY <2>2, FinishesKeep
<1> QED
  BY <1>2, <1>3

(* auth_save_file, done or failed.                                         *)
LEMMA SaveFileKeeps ==
    ASSUME IInv, NEW p \in Proc, NEW ok \in BOOLEAN, SaveFile(p, ok)
    PROVE  IInv'
<1>1. AfterSave(p, ok) /\ proc[p].st \in Writes /\ proc[p].out \in Saved
  BY DEF SaveFile, Writes, IInv, Typed, Processes
<1>2. CASE ok
  <2>1. file' = proc[p].out /\ UNCHANGED <<ring, up, gen, left>>
    BY <1>2 DEF SaveFile
  <2>2. Stored' = proc[p].out
    BY <1>1, <2>1, RecordFacts DEF Stored
  <2> QED
    BY <1>1, <1>2, <2>1, <2>2, AfterSaveFacts, SavedKeeps
<1>3. CASE ~ok
  <2>1. UNCHANGED <<file, ring, up, gen, left>>
    BY <1>3 DEF SaveFile
  <2>2. Finishes(p)
    BY <1>1, <1>3, <2>1, AfterSaveFacts DEF Finishes, Unlocked, Harms, IInv, Typed, store
  <2> QED
    BY <2>2, FinishesKeep
<1> QED
  BY <1>2, <1>3

-------------------------------------------------------------------------------
(* Sign in.                                                                *)

(* fyai_auth_login_submit.                                                 *)
LEMMA LoginSubmitKeeps ==
    ASSUME IInv, NEW p \in Proc, NEW acct \in 0 .. Accounts, LoginSubmit(p, acct)
    PROVE  IInv'
<1> DEFINE c == AuthOf(Load)
           q == [Asked(p, "login") EXCEPT !.acct = acct, !.cred = c]
           t == [q EXCEPT !.st = "browser"]
           u == [q EXCEPT !.st = "save", !.then = "browser"]
<1>1. /\ Asks(p) /\ proc[p] = Idle /\ left' \in 0 .. Ops /\ lock # p
      /\ UNCHANGED <<store, gen>>
  BY AskFacts DEF LoginSubmit
<1>2. /\ q \in Processes /\ q.st = "idle" /\ q.op = "login" /\ q.then = "idle"
      /\ q.out = NoRecord
  <2>1. c \in Saved
    BY LoadFacts DEF IInv
  <2>2. /\ Asked(p, "login") \in Processes /\ Asked(p, "login").op = "login"
        /\ Asked(p, "login").st = "idle" /\ Asked(p, "login").then = "idle"
        /\ Asked(p, "login").out = NoRecord
    BY <1>1, AskFacts
  <2> QED
    BY <2>1, <2>2 DEF Processes
<1> HIDE DEF q
<1>3. CASE UNCHANGED <<lock, proc, harm>>
  <2>1. Becomes(p, Idle)
    BY <1>1, <1>3, IdleFacts DEF Becomes, IInv, Typed
  <2>2. Moves(p, Idle)
    BY <1>1, <1>3, <2>1, IdleFacts DEF Moves, Flies, Harms, Reads, Writes, IInv, Typed
  <2> QED
    BY <2>2, MovesKeep
<1>4. CASE proc' = [proc EXCEPT ![p] = t] /\ UNCHANGED <<lock, harm>>
  <2>1. t \in Processes /\ t.st = "browser" /\ t.op = "login" /\ KindOf(t)
    BY <1>2 DEF Processes, KindOf
  <2> HIDE DEF t
  <2>2. Moves(p, t)
    BY <1>1, <1>4, <2>1 DEF Moves, Becomes, Flies, Harms, Reads, Writes, IInv, Typed
  <2> QED
    BY <2>2, MovesKeep
<1>5. CASE /\ lock = NoProc /\ proc' = [proc EXCEPT ![p] = u] /\ lock' = p
           /\ harm' = harm \cup {"record"}
  <2>1. u \in Processes /\ u.st = "save" /\ u.op = "login" /\ u.out = NoRecord /\ KindOf(u)
    BY <1>2 DEF Processes, KindOf
  <2> HIDE DEF u
  <2>2. Follows(u, Stored)
    BY <2>1 DEF Follows, Reads, Refreshes
  <2>3. "token" \notin harm' => Keeps(u, Stored, gen)
    BY <1>5, <2>1, EmptyGood DEF IInv, Tokened, Keeps, Writes
  <2>4. "token" \notin harm' =>
            \A r \in Proc : Flies(proc[r]) => ~Has(u.out, proc[r].sent.grant)
    BY <1>5, <2>1, EmptyGood, FliesFacts
  <2>5. Goes(p, u)
    BY <1>1, <1>5, <2>1, <2>2, <2>3, <2>4 DEF Goes, Becomes, Harms, Writes, IInv, Typed
  <2> QED
    BY <2>5, GoesKeep
<1> QED
  BY <1>3, <1>4, <1>5 DEF LoginSubmit, q

(* auth_register_pending: a registration that no record has is added.      *)
LEMMA RegisterKeeps ==
    ASSUME IInv, NEW p \in Proc, NEW a \in Account, Register(p, a)
    PROVE  IInv'
<1> DEFINE active == AuthOf(Load)
           with == [active EXCEPT !.reg[a] = SignedOut, !.who = IF @ = 0 THEN a ELSE @]
           q == [proc[p] EXCEPT !.st = "save", !.then = "exchange", !.acct = a, !.out = with,
                                !.cred = [who |-> a, reg |-> with.reg]]
<1>1. /\ proc[p] \in Processes /\ proc[p].st = "browser" /\ proc[p].op = "login" /\ lock # p
  BY DEF IInv, Typed, Kinds, KindOf, Locked, Register, Reads, Writes
<1>2. CASE lock = NoProc
  <2>1. active \in Saved /\ active \in {Stored, NoRecord} /\ (Load # Absent => active = Stored)
    BY LoadFacts DEF IInv
  <2>2. a \in 0 .. Accounts /\ active.reg \in [Account -> Tokens] /\ active.who \in 0 .. Accounts
    BY <2>1, RecordFacts, AuthAssumption DEF Account
  <2>3. /\ with \in Saved /\ with.reg \in [Account -> Tokens]
        /\ \A b \in Account : with.reg[b] = IF b = a THEN SignedOut ELSE active.reg[b]
    <3>1. [active.reg EXCEPT ![a] = SignedOut] \in [Account -> Tokens]
      BY <2>2, RecordFacts
    <3> DEFINE v == [active EXCEPT !.reg[a] = SignedOut]
    <3>2. v \in Saved /\ v.who = active.who /\ v.reg = [active.reg EXCEPT ![a] = SignedOut]
      BY <2>1, <3>1 DEF Saved
    <3>3. with = [v EXCEPT !.who = IF active.who = 0 THEN a ELSE active.who]
      BY <2>1 DEF Saved
    <3> HIDE DEF v, with
    <3>4. with \in Saved /\ with.reg = v.reg
      BY <2>2, <3>2, <3>3 DEF Saved
    <3> QED
      BY <2>2, <3>1, <3>2, <3>4
  <2> HIDE DEF with, active
  <2>4. [who |-> a, reg |-> with.reg] \in Saved
    BY <2>2, <2>3 DEF Saved
  <2>5. /\ q \in Processes /\ q.st = "save" /\ q.op = "login" /\ q.out = with /\ KindOf(q)
    BY <1>1, <2>2, <2>3, <2>4 DEF Processes, KindOf
  <2>6. /\ proc' = [proc EXCEPT ![p] = q] /\ lock' = p
        /\ harm' = IF Load = Absent THEN harm \cup {"record"} ELSE harm
        /\ UNCHANGED <<store, gen, left>>
    BY <1>1, <1>2 DEF Register, with, active, IInv, Typed
  <2> HIDE DEF q
  <2>7. Follows(q, Stored)
    BY <2>5 DEF Follows, Reads, Refreshes
  <2>8. "record" \notin harm' => Names(q, Stored)
    BY <2>1, <2>3, <2>5, <2>6, RecordFacts DEF Names, Registered
  <2>9. ASSUME "token" \notin harm'
        PROVE  /\ Good(Stored, gen) /\ Good(with, gen)
               /\ \A n \in Grant : Has(with, n) => Has(Stored, n)
    <3>1. Good(Stored, gen)
      BY <1>2, <2>6, <2>9 DEF IInv, Tokened
    <3>2. Good(active, gen) /\ \A n \in Grant : Has(active, n) => Has(Stored, n)
      BY <2>1, <3>1, EmptyGood
    <3>3. Puts(with, active, a, SignedOut)
      BY <2>3, RecordFacts DEF Puts
    <3>4. Apart(active) /\ FreshBut(active, {a}, gen)
      BY <3>2 DEF Good, FreshBut
    <3>5. Good(with, gen) /\ \A n \in Grant : Has(with, n) => Has(active, n) \/ n = SignedOut.grant
      <4>1. SignedOut.grant > 0 => Fresh(SignedOut, gen)
        BY RecordFacts
      <4> QED
        BY <3>3, <3>4, <4>1, WithToken
    <3> QED
      BY <3>1, <3>2, <3>5, RecordFacts, AuthAssumption DEF Grant
  <2>10. "token" \notin harm' => Keeps(q, Stored, gen)
    BY <2>5, <2>9 DEF Keeps
  <2>11. "token" \notin harm' =>
            \A r \in Proc : Flies(proc[r]) => ~Has(q.out, proc[r].sent.grant)
    BY <2>5, <2>6, <2>9, FliesFacts
  <2>12. Goes(p, q)
    BY <1>1, <1>2, <2>5, <2>6, <2>7, <2>8, <2>10, <2>11
    DEF Goes, Becomes, Harms, Writes, IInv, Typed
  <2> QED
    BY <2>12, GoesKeep
<1>3. CASE lock # NoProc
  <2>1. Finishes(p)
    BY <1>1, <1>3 DEF Register, Finishes, Unlocked, Lost, Harms, IInv, Typed
  <2> QED
    BY <2>1, FinishesKeep
<1> QED
  BY <1>2, <1>3

(* A sign-in with a registration the record has needs no lock.             *)
LEMMA RedirectKeeps ==
    ASSUME IInv, NEW p \in Proc, Redirect(p)
    PROVE  IInv'
<1> DEFINE q == [proc[p] EXCEPT !.st = "exchange"]
<1>1. /\ proc[p] \in Processes /\ proc[p].st = "browser" /\ proc[p].op = "login" /\ lock # p
  BY DEF IInv, Typed, Kinds, KindOf, Locked, Redirect, Reads, Writes
<1>2. q \in Processes /\ q.st = "exchange" /\ q.op = "login" /\ KindOf(q)
  BY <1>1 DEF Processes, KindOf
<1>3. proc' = [proc EXCEPT ![p] = q] /\ UNCHANGED <<store, lock, gen, harm, left>>
  BY <1>1 DEF Redirect, IInv, Typed
<1> HIDE DEF q
<1>4. Moves(p, q)
  BY <1>1, <1>2, <1>3 DEF Moves, Becomes, Flies, Harms, Reads, Writes, IInv, Typed
<1> QED
  BY <1>4, MovesKeep

(* A sign-in that ends before its tokens are saved.                        *)
LEMMA LoginFailsKeeps ==
    ASSUME IInv, NEW p \in Proc, LoginFails(p)
    PROVE  IInv'
<1>1. lock # p
  BY DEF LoginFails, IInv, Locked, Reads, Writes
<1>2. Finishes(p)
  BY <1>1 DEF LoginFails, Finishes, Unlocked, Lost, Harms, IInv, Typed
<1> QED
  BY <1>2, FinishesKeep

(* A new sign-in is none of those that are stored or under way.            *)
LEMMA ExchangeKeeps ==
    ASSUME IInv, NEW p \in Proc, NEW g \in Grant, Exchange(p, g)
    PROVE  IInv'
<1> DEFINE q == [proc[p] EXCEPT !.st = "jwks", !.sent = Token(g, 1)]
<1>1. /\ proc[p] \in Processes /\ proc[p].st = "exchange" /\ proc[p].op = "login" /\ lock # p
  BY DEF IInv, Typed, Kinds, KindOf, Locked, Exchange, Reads, Writes
<1>2. Token(g, 1) \in Tokens
  BY AuthAssumption DEF Token, Tokens, Grant
<1>3. /\ q \in Processes /\ q.st = "jwks" /\ q.op = "login" /\ q.sent = Token(g, 1) /\ KindOf(q)
  <2>1. q \in Processes /\ q.st = "jwks" /\ q.op = "login" /\ q.sent = Token(g, 1)
    BY <1>1, <1>2 DEF Processes
  <2>2. q.then = proc[p].then /\ KindOf(proc[p])
    BY <1>1 DEF Processes, IInv, Kinds
  <2>3. Token(g, 1).grant > 0
    BY AuthAssumption DEF Token, Grant
  <2> QED
    BY <2>1, <2>2, <2>3 DEF KindOf
<1>4. /\ proc' = [proc EXCEPT ![p] = q] /\ gen[g] = 0 /\ gen' = [gen EXCEPT ![g] = 1]
      /\ UNCHANGED <<file, ring, up, lock, harm, left>>
  BY <1>1 DEF Exchange, store, IInv, Typed
<1> HIDE DEF q
<1>5. /\ proc' \in [Proc -> Processes] /\ proc'[p] = q
      /\ \A r \in Proc : r # p => proc'[r] = proc[r]
      /\ Kinds'
  BY <1>3, <1>4, OthersStay DEF IInv, Becomes
<1>6. /\ gen' \in [Grant -> 0 .. MaxGen] /\ gen'[g] = 1
      /\ \A h \in Grant : h # g => gen'[h] = gen[h]
  BY <1>4, AuthAssumption DEF IInv, Typed
<1>7. Stored' = Stored
  BY <1>4 DEF Stored
<1>8. Typed'
  BY <1>4, <1>5, <1>6 DEF IInv, Typed
<1>9. Locked'
  BY <1>1, <1>3, <1>4, <1>5 DEF IInv, Locked, Reads, Writes
<1>10. Holds'
  <2>1. Follows(q, Stored) /\ Names(q, Stored)
    BY <1>3 DEF Follows, Names, Reads, Writes
  <2> QED
    BY <1>3, <1>4, <1>5, <1>7, <2>1 DEF IInv, Holds
<1>11. ASSUME "token" \notin harm' PROVE Tokened'
  <2>1. Tokened
    BY <1>4, <1>11 DEF IInv
  <2>2. \A u \in Tokens : Fresh(u, gen) => u.grant # g /\ Fresh(u, gen')
    BY <1>4, <1>6, AuthAssumption DEF Fresh, Tokens, Grant
  <2>3. ASSUME NEW c \in Saved \cup {Absent}, NEW S, FreshBut(c, S, gen)
        PROVE  FreshBut(c, S, gen') /\ (S = {} => ~Has(c, g))
    <3>1. \A a \in Account : c.reg[a] \in Tokens
      BY RecordFacts
    <3>2. g > 0
      BY AuthAssumption DEF Grant
    <3> QED
      BY <2>2, <2>3, <3>1, <3>2 DEF FreshBut, Has
  <2>4. Stored \in Saved \cup {Absent} /\ \A r \in Proc : proc[r] \in Processes
    BY LoadFacts DEF IInv, Typed
  <2>5. \A r \in Proc : proc[r].out \in Saved /\ proc[r].sent \in Tokens
    BY <2>4 DEF Processes
  <2>6. Good(Stored, gen) => Good(Stored, gen')
    BY <2>3, <2>4 DEF Good
  <2>7. ASSUME NEW r \in Proc, lock = r PROVE Keeps(proc[r], Stored, gen')
    <3>1. Keeps(proc[r], Stored, gen)
      BY <2>1, <2>7 DEF Tokened
    <3>2. Good(proc[r].out, gen) => Good(proc[r].out, gen')
      BY <2>3, <2>5 DEF Good
    <3>3. FreshBut(Stored, {Stored.who}, gen) => FreshBut(Stored, {Stored.who}, gen')
      BY <2>3, <2>4
    <3> QED
      BY <2>2, <2>5, <2>6, <3>1, <3>2, <3>3 DEF Keeps
  <2>8. ASSUME NEW a \in Account, Stored.reg[a].grant > 0
        PROVE  gen'[Stored.reg[a].grant] > 0 /\ Stored.reg[a].grant # g
    <3>1. gen[Stored.reg[a].grant] > 0
      BY <2>1, <2>8 DEF Tokened
    <3>2. Stored.reg[a].grant \in Grant
      BY <2>4, <2>8, RecordFacts, AuthAssumption DEF Grant
    <3> QED
      BY <1>4, <1>6, <3>1, <3>2
  <2>9. ~Has(Stored, g)
    BY <2>8, AuthAssumption DEF Has, Grant
  <2>10. Fresh(q.sent, gen') /\ q.sent.grant = g
    BY <1>3, <1>6, AuthAssumption DEF Fresh, Token, Grant
  <2>11. \A r \in Proc : proc[r].st \in Writes => ~Has(proc[r].out, g)
    <3>1. ASSUME NEW r \in Proc, proc[r].st \in Writes PROVE ~Has(proc[r].out, g)
      <4>1. lock = r
        BY <3>1 DEF IInv, Locked
      <4>2. Good(proc[r].out, gen)
        BY <2>1, <3>1, <4>1 DEF Tokened, Keeps
      <4> QED
        BY <2>3, <2>5, <4>2 DEF Good
    <3> QED
      BY <3>1
  <2>12. \A r \in Proc : Flies(proc[r]) => proc[r].sent.grant # g /\ Fresh(proc[r].sent, gen')
    BY <2>1, <2>2, <2>5 DEF Tokened
  <2>13. ~Flies(proc[p]) /\ q.st \notin Writes /\ proc[p].st \notin Writes
    BY <1>1, <1>3 DEF Flies, Writes
  <2>14. lock' = NoProc => Good(Stored, gen')
    BY <1>4, <2>1, <2>6 DEF Tokened
  <2>15. \A r \in Proc : lock' = r => Keeps(proc'[r], Stored, gen')
    BY <1>1, <1>4, <1>5, <2>7
  <2>16. ASSUME NEW r \in Proc, Flies(proc'[r])
         PROVE  /\ Fresh(proc'[r].sent, gen') /\ ~Has(Stored, proc'[r].sent.grant)
                /\ \A v \in Proc :
                     /\ Flies(proc'[v]) /\ v # r => proc'[v].sent.grant # proc'[r].sent.grant
                     /\ proc'[v].st \in Writes => ~Has(proc'[v].out, proc'[r].sent.grant)
    <3>1. CASE r = p
      BY <1>5, <2>9, <2>10, <2>11, <2>12, <2>13, <3>1
    <3>2. CASE r # p
      <4>1. proc'[r] = proc[r] /\ Flies(proc[r])
        BY <1>5, <2>16, <3>2
      <4> QED
        BY <1>5, <2>1, <2>10, <2>12, <2>13, <4>1 DEF Tokened
    <3> QED
      BY <3>1, <3>2
  <2> QED
    BY <1>7, <2>8, <2>14, <2>15, <2>16 DEF Tokened
<1> QED
  BY <1>5, <1>8, <1>9, <1>10, <1>11 DEF IInv

(* fyai_auth_login_save, with the lock or without it.                      *)
LEMMA LoginSaveKeeps ==
    ASSUME IInv, NEW p \in Proc, LoginSave(p), Flies(proc[p]), proc[p].op = "login",
           UNCHANGED <<store, gen, left>>
    PROVE  IInv'
<1> DEFINE reg == IF Load = Absent THEN proc[p].cred.reg ELSE Load.reg
           o == [who |-> proc[p].acct, reg |-> [reg EXCEPT ![proc[p].acct] = proc[p].sent]]
           q == [proc[p] EXCEPT !.st = "wait"]
           t == [proc[p] EXCEPT !.st = "save", !.out = o]
<1>1. /\ proc[p] \in Processes /\ KindOf(proc[p]) /\ lock # p
      /\ proc[p].st \in {"jwks", "wait"}
  BY DEF IInv, Typed, Kinds, Locked, Flies, Reads, Writes
<1>2. CASE lock # NoProc
  <2>1. /\ q \in Processes /\ q.st = "wait" /\ q.op = "login" /\ q.sent = proc[p].sent
        /\ KindOf(q)
    BY <1>1 DEF Processes, KindOf
  <2>2. proc' = [proc EXCEPT ![p] = q] /\ UNCHANGED <<lock, harm>>
    BY <1>1, <1>2 DEF LoginSave, IInv, Typed
  <2> HIDE DEF q
  <2>3. Moves(p, q)
    BY <1>1, <2>1, <2>2 DEF Moves, Becomes, Harms, Reads, Writes, IInv, Typed
  <2> QED
    BY <2>3, MovesKeep
<1>3. CASE lock = NoProc
  <2>1. reg \in [Account -> Tokens]
    <3>1. Load # Absent => Load \in Saved
      BY LoadFacts DEF IInv
    <3> QED
      BY <1>1, <3>1 DEF Processes, Saved
  <2>2. proc[p].acct \in 0 .. Accounts /\ proc[p].sent \in Tokens
    BY <1>1 DEF Processes
  <2> HIDE DEF reg
  <2>3. /\ o \in Saved
        /\ \A a \in Account : o.reg[a] = IF a = proc[p].acct THEN proc[p].sent ELSE reg[a]
    BY <2>1, <2>2 DEF Saved
  <2>4. /\ t \in Processes /\ t.st = "save" /\ t.op = "login" /\ t.out = o /\ KindOf(t)
    BY <1>1, <2>3 DEF Processes, KindOf
  <2>5. /\ proc' = [proc EXCEPT ![p] = t] /\ lock' = p
        /\ harm' = IF Load = Absent THEN harm \cup {"token", "record"} ELSE harm
    BY <1>1, <1>3 DEF LoginSave, reg, IInv, Typed
  <2> HIDE DEF t, o
  <2>6. Follows(t, Stored)
    BY <2>4 DEF Follows, Reads, Refreshes
  <2>7. Load # Absent => reg = Stored.reg
    BY LoadFacts DEF reg, IInv
  <2>8. "record" \notin harm' => Names(t, Stored)
    <3>1. proc[p].sent.grant > 0
      BY <1>1 DEF KindOf
    <3>2. proc[p].sent.grant >= 0
      BY <1>1, <3>1, RecordFacts DEF Processes, Tokens
    <3>3. "record" \notin harm' => Load # Absent
      BY <2>5
    <3> QED
      BY <2>3, <2>4, <2>7, <3>2, <3>3 DEF Names, Registered
  <2>9. ASSUME "token" \notin harm'
        PROVE  /\ Good(Stored, gen) /\ Good(o, gen)
               /\ \A n \in Grant : Has(o, n) => Has(Stored, n) \/ n = proc[p].sent.grant
    <3>1. Good(Stored, gen) /\ "token" \notin harm /\ Load # Absent
      BY <1>3, <2>5, <2>9 DEF IInv, Tokened
    <3>2. Fresh(proc[p].sent, gen) /\ ~Has(Stored, proc[p].sent.grant)
      BY <3>1, FliesFacts
    <3>3. Puts(o, Stored, proc[p].acct, proc[p].sent)
      BY <2>3, <2>7, <3>1, <3>2 DEF Puts
    <3>4. Apart(Stored) /\ FreshBut(Stored, {proc[p].acct}, gen)
      BY <3>1 DEF Good, FreshBut
    <3> QED
      BY <3>1, <3>2, <3>3, <3>4, WithToken
  <2>10. "token" \notin harm' => Keeps(t, Stored, gen)
    BY <2>4, <2>9 DEF Keeps
  <2>11. ASSUME "token" \notin harm', NEW r \in Proc, r # p, Flies(proc[r])
         PROVE  ~Has(t.out, proc[r].sent.grant)
    <3>1. "token" \notin harm
      BY <2>5, <2>11
    <3>2. /\ proc[r].sent.grant \in Grant /\ ~Has(Stored, proc[r].sent.grant)
          /\ proc[r].sent.grant # proc[p].sent.grant
      BY <2>11, <3>1, FliesFacts DEF IInv, Tokened
    <3> QED
      BY <2>4, <2>9, <2>11, <3>2
  <2>12. Goes(p, t)
    BY <1>3, <2>4, <2>5, <2>6, <2>8, <2>10, <2>11
    DEF Goes, Becomes, Harms, Writes, IInv, Typed
  <2> QED
    BY <2>12, GoesKeep
<1> QED
  BY <1>2, <1>3

(* The two handlers that save a sign-in.                                   *)
LEMMA LoginAsksToSave ==
    ASSUME IInv, NEW p \in Proc, LoginKeys(p) \/ CredentialTimer(p)
    PROVE  IInv'
<1>1. Flies(proc[p]) /\ proc[p].op = "login"
  BY DEF LoginKeys, CredentialTimer, Flies, IInv, Kinds, KindOf
<1> QED
  BY <1>1, LoginSaveKeeps DEF LoginKeys, CredentialTimer

-------------------------------------------------------------------------------
(* Sign out, read, cancel.                                                 *)

(* fyai_auth_logout.                                                       *)
LEMMA LogoutKeeps ==
    ASSUME IInv, NEW p \in Proc, Logout(p)
    PROVE  IInv'
<1> DEFINE q == [Asked(p, "logout") EXCEPT !.st = "revoke", !.cred = Load]
<1>1. /\ Asks(p) /\ proc[p] = Idle /\ left' \in 0 .. Ops /\ lock # p
      /\ Asked(p, "logout") \in Processes /\ Asked(p, "logout").op = "logout"
      /\ Asked(p, "logout").then = "idle"
      /\ UNCHANGED <<store, gen, harm>>
  BY AskFacts DEF Logout
<1>2. CASE UNCHANGED <<lock, proc>>
  <2>1. Becomes(p, Idle)
    BY <1>1, <1>2, IdleFacts DEF Becomes, IInv, Typed
  <2>2. Moves(p, Idle)
    BY <1>1, <1>2, <2>1, IdleFacts DEF Moves, Flies, Harms, Reads, Writes, IInv, Typed
  <2> QED
    BY <2>2, MovesKeep
<1>3. CASE lock = NoProc /\ Load # Absent /\ proc' = [proc EXCEPT ![p] = q] /\ lock' = p
  <2>1. Load = Stored /\ Stored \in Saved
    BY <1>3, LoadFacts DEF IInv
  <2>2. q \in Processes /\ q.st = "revoke" /\ q.op = "logout" /\ q.cred = Stored /\ KindOf(q)
    BY <1>1, <2>1 DEF Processes, KindOf
  <2> HIDE DEF q
  <2>3. Follows(q, Stored) /\ Names(q, Stored)
    BY <2>2 DEF Follows, Names, Reads, Writes
  <2>4. "token" \notin harm' => Keeps(q, Stored, gen)
    BY <1>1, <1>3, <2>2 DEF IInv, Tokened, Keeps, Writes
  <2>5. Goes(p, q)
    BY <1>1, <1>3, <2>2, <2>3, <2>4 DEF Goes, Becomes, Harms, Writes, IInv, Typed
  <2> QED
    BY <2>5, GoesKeep
<1> QED
  BY <1>2, <1>3 DEF Logout

(* The record that is saved at a sign-out.                                 *)
LEMMA RevokedKeeps ==
    ASSUME IInv, NEW p \in Proc, Revoked(p)
    PROVE  IInv'
<1> DEFINE c == proc[p].cred
           o == IF c.who = 0 THEN c ELSE [c EXCEPT !.reg[c.who] = SignedOut]
           q == [proc[p] EXCEPT !.st = "save", !.cred = NoRecord, !.out = o]
<1>1. /\ proc[p] \in Processes /\ proc[p].st = "revoke" /\ proc[p].op = "logout" /\ lock = p
      /\ KindOf(proc[p]) /\ c = Stored /\ Stored \in Saved
  BY DEF IInv, Typed, Kinds, KindOf, Locked, Holds, Follows, Processes, Revoked
<1>2. /\ o \in Saved
      /\ \A a \in Account :
            o.reg[a] = IF c.who # 0 /\ a = c.who THEN SignedOut ELSE Stored.reg[a]
  BY <1>1, RecordFacts DEF Saved
<1>3. proc' = [proc EXCEPT ![p] = q] /\ UNCHANGED <<store, lock, gen, harm, left>>
  BY <1>1 DEF Revoked, IInv, Typed
<1> HIDE DEF o
<1>4. q \in Processes /\ q.st = "save" /\ q.op = "logout" /\ q.out = o /\ KindOf(q)
  BY <1>1, <1>2, RecordFacts DEF Processes, KindOf
<1> HIDE DEF q
<1>5. Follows(q, Stored)
  BY <1>4 DEF Follows, Reads, Refreshes
<1>6. Names(q, Stored)
  BY <1>2, <1>4, RecordFacts DEF Names, Registered
<1>7. ASSUME "token" \notin harm'
      PROVE  /\ Good(Stored, gen) /\ Good(o, gen)
             /\ \A n \in Grant : Has(o, n) => Has(Stored, n)
  <2>1. Good(Stored, gen)
    BY <1>1, <1>3, <1>7 DEF IInv, Tokened, Keeps
  <2>2. CASE c.who = 0
    BY <1>1, <2>1, <2>2 DEF o
  <2>3. CASE c.who # 0
    <3>1. Puts(o, Stored, c.who, SignedOut)
      BY <1>2, <2>3, RecordFacts DEF Puts
    <3>2. Apart(Stored) /\ FreshBut(Stored, {c.who}, gen)
      BY <2>1 DEF Good, FreshBut
    <3>3. SignedOut.grant > 0 => Fresh(SignedOut, gen)
      BY RecordFacts
    <3>4. Good(o, gen) /\ \A n \in Grant : Has(o, n) => Has(Stored, n) \/ n = SignedOut.grant
      BY <3>1, <3>2, <3>3, WithToken
    <3> QED
      BY <2>1, <3>4, RecordFacts, AuthAssumption DEF Grant
  <2> QED
    BY <2>2, <2>3
<1>8. "token" \notin harm' => Keeps(q, Stored, gen)
  BY <1>4, <1>7 DEF Keeps
<1>9. "token" \notin harm' =>
          \A r \in Proc : Flies(proc[r]) => ~Has(q.out, proc[r].sent.grant)
  BY <1>3, <1>4, <1>7, FliesFacts
<1>10. Goes(p, q)
  BY <1>1, <1>3, <1>4, <1>5, <1>6, <1>8, <1>9 DEF Goes, Becomes, Harms, Writes, IInv, Typed
<1> QED
  BY <1>10, GoesKeep

(* fyai_auth_store_load, in the process that has the lock.                 *)
LEMMA StoreLoadKeeps ==
    ASSUME IInv, NEW p \in Proc, StoreLoad(p)
    PROVE  IInv'
<1> DEFINE q == [proc[p] EXCEPT !.auth = AuthOf(Load)]
<1>1. /\ proc[p] \in Processes /\ proc[p].st \in Reads /\ KindOf(proc[p]) /\ lock = p
      /\ Follows(proc[p], Stored)
  BY DEF IInv, Typed, Kinds, Locked, Holds, StoreLoad, Reads
<1>2. AuthOf(Load) \in Saved /\ AuthOf(Load) \in {Stored, NoRecord}
  BY LoadFacts DEF IInv
<1>3. /\ q \in Processes /\ q.st = proc[p].st /\ q.op = proc[p].op /\ q.sent = proc[p].sent
      /\ q.auth = AuthOf(Load) /\ KindOf(q)
  BY <1>1, <1>2 DEF Processes, KindOf
<1>4. proc' = [proc EXCEPT ![p] = q] /\ UNCHANGED <<store, lock, gen, harm, left>>
  BY <1>1 DEF StoreLoad, IInv, Typed
<1> HIDE DEF q
<1>5. Follows(q, Stored) /\ Names(q, Stored)
  BY <1>1, <1>2, <1>3 DEF Follows, Names, Reads, Writes, Refreshes
<1>6. "token" \notin harm' => Keeps(q, Stored, gen)
  BY <1>1, <1>3, <1>4 DEF IInv, Tokened, Keeps, Reads, Writes
<1>7. Goes(p, q)
  BY <1>1, <1>3, <1>4, <1>5, <1>6 DEF Goes, Becomes, Harms, Reads, Writes, IInv, Typed
<1> QED
  BY <1>7, GoesKeep

(* A request that is cancelled.                                            *)
LEMMA CancelKeeps ==
    ASSUME IInv, NEW p \in Proc, Cancel(p)
    PROVE  IInv'
<1> DEFINE q == [proc[p] EXCEPT !.st = "aborting"]
<1>1. proc[p] \in Processes /\ KindOf(proc[p])
  BY DEF IInv, Typed, Kinds
<1>2. CASE proc[p].st \in {"wait", "browser"} /\ Ends(p) /\ UNCHANGED harm
  <2>1. lock # p
    BY <1>2 DEF IInv, Locked, Reads, Writes
  <2>2. Finishes(p)
    BY <1>2, <2>1 DEF Cancel, Finishes, Unlocked, Lost, Harms, IInv, Typed
  <2> QED
    BY <2>2, FinishesKeep
<1>3. CASE /\ proc[p].st \in Reads \cup {"exchange", "jwks"}
           /\ proc' = [proc EXCEPT ![p] = q]
           /\ harm' = IF proc[p].st = "answered" THEN harm \cup {"token"} ELSE harm
  <2>1. q \in Processes /\ q.st = "aborting" /\ q.op = proc[p].op /\ KindOf(q)
    BY <1>1 DEF Processes, KindOf
  <2> HIDE DEF q
  <2>2. UNCHANGED <<store, lock, gen, left>>
    BY DEF Cancel
  <2>3. CASE lock = p
    <3>1. Follows(q, Stored) /\ Names(q, Stored)
      BY <2>1 DEF Follows, Names, Reads, Writes
    <3>2. proc[p].st \in Reads
      BY <1>3, <2>3 DEF IInv, Locked, Writes
    <3>3. "token" \notin harm' => Keeps(q, Stored, gen)
      BY <1>3, <2>1, <2>3, <3>2 DEF IInv, Tokened, Keeps, Reads, Writes
    <3>4. Goes(p, q)
      BY <1>3, <2>1, <2>2, <2>3, <3>1, <3>3 DEF Goes, Becomes, Harms, Reads, Writes, IInv, Typed
    <3> QED
      BY <3>4, GoesKeep
  <2>4. CASE lock # p
    <3>1. Moves(p, q)
      BY <1>3, <2>1, <2>2, <2>4 DEF Moves, Becomes, Flies, Harms, Reads, Writes, IInv, Typed
    <3> QED
      BY <3>1, MovesKeep
  <2> QED
    BY <2>3, <2>4
<1> QED
  BY <1>1, <1>2, <1>3 DEF Cancel, Reads, IInv, Typed

(* The end of a request that was stopped, taken back, or whose process     *)
(* died.                                                                   *)
LEMMA StopsKeep ==
    ASSUME IInv, NEW p \in Proc, Aborted(p) \/ Destroy(p) \/ Crash(p)
    PROVE  IInv'
<1>1. Finishes(p)
  BY DEF Aborted, Destroy, Crash, Finishes, Lost, Harms, IInv, Typed
<1> QED
  BY <1>1, FinishesKeep

(* The keyring service stops, or runs again.                               *)
LEMMA KeyringKeeps ==
    ASSUME IInv, Keyring
    PROVE  IInv'
<1>1. UNCHANGED <<file, ring, lock, gen, proc, harm, left, Stored>> /\ up' \in BOOLEAN
  BY DEF Keyring, Stored, IInv, Typed
<1> QED
  BY <1>1 DEF IInv, Typed, Locked, Kinds, Holds, Tokened

-------------------------------------------------------------------------------
(* The theorems.                                                           *)

(* The invariant holds at first.                                           *)
LEMMA InitIInv ==
    ASSUME Init
    PROVE  IInv
<1>1. 1 \in Account /\ 1 \in Grant /\ Token(1, 1) \in Tokens /\ 1 \in 0 .. Accounts
  BY AuthAssumption DEF Account, Grant, Token, Tokens
<1>2. /\ FirstLogin \in Saved
      /\ \A a \in Account : FirstLogin.reg[a] = IF a = 1 THEN Token(1, 1) ELSE NotRegistered
  BY <1>1, RecordFacts DEF FirstLogin, Saved
<1>3. FirstLogin # Absent
  BY <1>2, RecordFacts
<1>4. Stored \in {FirstLogin, Absent} /\ file \in Saved \cup {Absent} /\ ring \in Saved \cup {Absent}
  BY <1>2 DEF Init, Stored
<1>5. gen \in [Grant -> 0 .. MaxGen] /\ (Stored = FirstLogin => gen[1] = 1)
  BY <1>1, <1>3, AuthAssumption DEF Init, Stored
<1>6. Typed
  BY <1>4, <1>5, IdleFacts, AuthAssumption DEF Init, Typed
<1>7. Locked /\ Kinds
  BY IdleFacts, AuthAssumption DEF Init, Locked, Kinds, Reads, Writes
<1>8. Holds
  BY IdleFacts DEF Init, Holds, Follows, Names, Reads, Writes
<1>9. Tokened
  <2>1. Good(Stored, gen)
    <3>1. CASE Stored = Absent
      BY <3>1, EmptyGood
    <3>2. CASE Stored = FirstLogin
      BY <1>1, <1>2, <1>5, <3>2, RecordFacts
      DEF Good, Apart, FreshBut, Fresh, Token
    <3> QED
      BY <1>4, <3>1, <3>2
  <2>2. \A a \in Account : Stored.reg[a].grant > 0 => gen[Stored.reg[a].grant] > 0
    BY <2>1 DEF Good, FreshBut, Fresh
  <2>3. \A p \in Proc : ~Flies(proc[p]) /\ lock # p
    BY IdleFacts, AuthAssumption DEF Init, Flies
  <2> QED
    BY <2>1, <2>2, <2>3 DEF Tokened
<1> QED
  BY <1>6, <1>7, <1>8, <1>9 DEF IInv

(* Every step keeps it.                                                    *)
LEMMA StepIInv ==
    ASSUME IInv, [Next]_vars
    PROVE  IInv'
<1>1. CASE UNCHANGED vars
  <2>1. UNCHANGED <<file, ring, up, lock, gen, proc, harm, left, Stored>>
    BY <1>1 DEF vars, store, Stored
  <2> QED
    BY <2>1 DEF IInv, Typed, Locked, Kinds, Holds, Tokened
<1>2. ASSUME NEW p \in Proc, RefreshNext(p) PROVE IInv'
  BY <1>2, SubmitKeeps, LockTimerKeeps, ProviderRefreshKeeps, ProviderRefusesKeeps,
     KeepTokensKeeps, KeysAnsweredKeeps
  DEF RefreshNext
<1>3. ASSUME NEW p \in Proc, SaveNext(p) PROVE IInv'
  BY <1>3, SaveRingKeeps, DeleteFileKeeps, SaveFileKeeps DEF SaveNext
<1>4. ASSUME NEW p \in Proc, LoginNext(p) PROVE IInv'
  BY <1>4, LoginSubmitKeeps, RegisterKeeps, ExchangeKeeps, RedirectKeeps, LoginFailsKeeps,
     LoginAsksToSave
  DEF LoginNext
<1> QED
  BY <1>1, <1>2, <1>3, <1>4, LogoutKeeps, RevokedKeeps, StoreLoadKeeps, CancelKeeps, StopsKeep,
     KeyringKeeps
  DEF Next

(* The invariant holds in every state: who has the lock has read what is   *)
(* stored, and while no answer of the provider is lost, the tokens stored, *)
(* about to be stored or just issued are the newest of sign-ins apart.     *)
THEOREM AlwaysIInv == Spec => []IInv
<1>1. Init => IInv
  BY InitIInv
<1>2. IInv /\ [Next]_vars => IInv'
  BY StepIInv
<1> QED
  BY <1>1, <1>2, PTL DEF Spec

(* The types of the state; and who is to save has the lock.                *)
THEOREM AlwaysTypeOK == Spec => []TypeOK
<1>1. IInv => TypeOK
  <2>1. Saved \subseteq Records /\ Absent \in Records
    BY RecordFacts, AuthAssumption DEF Saved, Records, Absent, NoRecord
  <2>2. Processes \subseteq Procs
    BY <2>1 DEF Processes, Procs
  <2> QED
    BY <2>1, <2>2 DEF IInv, Typed, Locked, Reads, Writes, TypeOK
<1> QED
  BY <1>1, AlwaysIInv, PTL

(* A refresh token is shown to the provider once (fyai_auth_refresh_submit *)
(* and the lock timer), however many processes find the login expired.     *)
THEOREM AlwaysPostsNewest == Spec => []PostsNewest
<1>1. IInv => PostsNewest
  <2> SUFFICES ASSUME IInv, "token" \notin harm, NEW p \in Proc, proc[p].st = "post"
               PROVE  Newest(proc[p].sent)
    BY DEF PostsNewest
  <2>1. lock = p /\ Good(Stored, gen)
    BY DEF IInv, Locked, Reads, Tokened, Keeps
  <2>2. proc[p].sent = Stored.reg[Stored.who] /\ Stored.who \in Account /\ proc[p].sent.grant > 0
    BY DEF IInv, Holds, Follows, Reads, Current
  <2> QED
    BY <2>1, <2>2 DEF Good, FreshBut, Fresh, Newest
<1> QED
  BY <1>1, AlwaysIInv, PTL

(* The store has the newest token of every sign-in it names when nobody    *)
(* has the lock (auth_save), though a process may die between two writes.  *)
THEOREM AlwaysStoredIsNewest == Spec => []StoredIsNewest
<1>1. IInv => StoredIsNewest
  BY DEF IInv, Tokened, Good, FreshBut, Fresh, Newest, StoredIsNewest
<1> QED
  BY <1>1, AlwaysIInv, PTL

-------------------------------------------------------------------------------
(* What a step may do to the store.                                        *)

(* A step changes what is stored only if it saves a record, and nothing    *)
(* that has been lost is found again.                                      *)
LEMMA StoreSteps ==
    ASSUME IInv, [Next]_vars
    PROVE  /\ harm \subseteq harm'
           /\ \/ Stored' = Stored
              \/ \E p \in Proc : proc[p].st \in Writes /\ Stored' = proc[p].out
<1>1. CASE UNCHANGED vars \/ Keyring
  BY <1>1 DEF vars, store, Stored, Keyring
<1>2. ASSUME NEW p \in Proc, RefreshNext(p)
      PROVE  UNCHANGED store /\ harm \subseteq harm'
  BY <1>2
  DEF RefreshNext, Submit, LockTimer, ProviderRefresh, ProviderRefuses, KeepTokens, KeysAnswered
<1>3. ASSUME NEW p \in Proc, LoginNext(p)
      PROVE  UNCHANGED store /\ harm \subseteq harm'
  BY <1>3
  DEF LoginNext, LoginSubmit, Register, Exchange, Redirect, LoginFails, LoginKeys, CredentialTimer,
      LoginSave
<1>4. ASSUME NEW p \in Proc,
             \/ Logout(p) \/ Revoked(p) \/ StoreLoad(p)
             \/ Cancel(p) \/ Aborted(p) \/ Destroy(p) \/ Crash(p)
      PROVE  UNCHANGED store /\ harm \subseteq harm'
  BY <1>4 DEF Logout, Revoked, StoreLoad, Cancel, Aborted, Destroy, Crash
<1>5. ASSUME NEW p \in Proc, SaveNext(p)
      PROVE  /\ harm \subseteq harm'
             /\ Stored' = Stored \/ (proc[p].st \in Writes /\ Stored' = proc[p].out)
  <2>1. CASE SaveRing(p)
    BY <2>1 DEF SaveRing, Stored, Writes
  <2>2. ASSUME NEW ok \in BOOLEAN, DeleteFile(p, ok)
        PROVE  /\ harm \subseteq harm'
               /\ Stored' = Stored \/ (proc[p].st \in Writes /\ Stored' = proc[p].out)
    BY <2>2 DEF DeleteFile, AfterSave, Stored, Writes, IInv, Holds
  <2>3. ASSUME NEW ok \in BOOLEAN, SaveFile(p, ok)
        PROVE  /\ harm \subseteq harm'
               /\ Stored' = Stored \/ (proc[p].st \in Writes /\ Stored' = proc[p].out)
    <3>1. proc[p].out # Absent
      BY RecordFacts DEF IInv, Typed, Processes
    <3> QED
      BY <2>3, <3>1 DEF SaveFile, AfterSave, Stored, Writes
  <2> QED
    BY <1>5, <2>1, <2>2, <2>3 DEF SaveNext
<1>6. UNCHANGED store => Stored' = Stored
  BY DEF store, Stored
<1> QED
  BY <1>1, <1>2, <1>3, <1>4, <1>5, <1>6 DEF Next

(* A registration stays in the store (auth_register_pending and            *)
(* fyai_auth_login_save, which read it again under the lock), whoever      *)
(* writes it next, unless a record has been lost.                          *)
THEOREM AlwaysRegistrationsStay == Spec => RegistrationsStay
<1>1. ASSUME IInv, [Next]_vars, NEW a \in Account, Registered(Stored, a), "record" \notin harm'
      PROVE  Registered(Stored', a)
  <2>1. "record" \notin harm
    BY <1>1, StoreSteps
  <2>2. CASE Stored' = Stored
    BY <1>1, <2>2
  <2>3. ASSUME NEW p \in Proc, proc[p].st \in Writes, Stored' = proc[p].out
        PROVE  Registered(Stored', a)
    <3>1. Names(proc[p], Stored)
      BY <1>1, <2>1 DEF IInv, Holds
    <3> QED
      BY <1>1, <2>3, <3>1 DEF Names
  <2> QED
    BY <1>1, <2>2, <2>3, StoreSteps
<1>2. IInv /\ [Next]_vars =>
        [\A a \in Account :
           (Registered(Stored, a) /\ "record" \notin harm') => Registered(Stored', a)]_vars
  BY <1>1
<1> QED
  BY <1>2, AlwaysIInv, PTL DEF Spec, RegistrationsStay

(* A refresh that stores its tokens (fyai_auth_refresh_complete) changes   *)
(* the token of the sign-in it read and nothing else: what another process *)
(* signed in or out stays.                                                 *)
THEOREM AlwaysRefreshKeepsRest == Spec => RefreshKeepsRest
<1>1. ASSUME IInv, [Next]_vars, NEW p \in Proc,
             proc[p].op \in {"refresh", "force"}, proc[p].st = "save", NEW a \in Account
      PROVE  \/ Stored'.reg[a] = Stored.reg[a]
             \/ a = Stored.who /\ Stored'.reg[a] = [Stored.reg[a] EXCEPT !.n = @ + 1]
  <2>1. CASE Stored' = Stored
    BY <2>1
  <2>2. ASSUME NEW r \in Proc, proc[r].st \in Writes, Stored' = proc[r].out
        PROVE  \/ Stored'.reg[a] = Stored.reg[a]
               \/ a = Stored.who /\ Stored'.reg[a] = [Stored.reg[a] EXCEPT !.n = @ + 1]
    <3>1. r = p
      BY <1>1, <2>2 DEF IInv, Locked, Writes
    <3>2. Follows(proc[p], Stored)
      BY <1>1 DEF IInv, Holds
    <3>3. \/ Stored'.reg[a] = Stored.reg[a]
          \/ a = Stored.who /\ Stored'.reg[a] = Rotated(Stored.reg[a])
      BY <1>1, <2>2, <3>1, <3>2 DEF Follows, Refreshes
    <3>4. Stored.reg[a] \in Tokens
      <4>1. Stored \in Saved \cup {Absent}
        BY <1>1, LoadFacts DEF IInv
      <4> QED
        BY <4>1, RecordFacts
    <3>5. Rotated(Stored.reg[a]) = [Stored.reg[a] EXCEPT !.n = @ + 1]
      BY <3>4 DEF Rotated, Token, Tokens
    <3> QED
      BY <3>3, <3>5
  <2> QED
    BY <1>1, <2>1, <2>2, StoreSteps
<1>2. IInv /\ [Next]_vars =>
        [\A p \in Proc :
          (proc[p].op \in {"refresh", "force"} /\ proc[p].st = "save" /\ proc[p].st' # "save") =>
            \A a \in Account :
                \/ Stored'.reg[a] = Stored.reg[a]
                \/ a = Stored.who /\ Stored'.reg[a] = [Stored.reg[a] EXCEPT !.n = @ + 1]
        ]_vars
  BY <1>1
<1> QED
  BY <1>2, AlwaysIInv, PTL DEF Spec, RefreshKeepsRest
==============================================================================
