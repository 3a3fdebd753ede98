--------------------------- MODULE EventLoopProofs ---------------------------
(***************************************************************************)
(* Proofs about the event loop and the tool jobs that are its sources.      *)
(*                                                                         *)
(* The operations on sources and jobs are functions of a world, the record  *)
(* of all that they change; a handler is a chain of them.  So the lemmas    *)
(* are about worlds: which worlds are sound, and which soundness each       *)
(* operation needs and leaves.  Within a handler a pointer of a job may     *)
(* name a source that has gone: the sets B and D are the jobs whose         *)
(* pointers to a child source and to a time limit are so.                   *)
(***************************************************************************)
EXTENDS EventLoop, FilterProofs, FiniteSetTheorems

(***************************************************************************)
(* Sequences.                                                              *)
(***************************************************************************)
(* A function whose domain is that of a sequence is one.                    *)
LEMMA FunctionIsSeq ==
    ASSUME NEW S, NEW n \in Nat, NEW m \in [1 .. n -> S]
    PROVE  m \in Seq(S)
OBVIOUS

(* An element that is put after others.                                     *)
LEMMA AppendIs ==
    ASSUME NEW S, NEW b \in Seq(S), NEW e \in S
    PROVE  LET c == Append(b, e) IN
           /\ c \in Seq(S) /\ Len(c) = Len(b) + 1 /\ c[Len(b) + 1] = e
           /\ \A d \in 1 .. Len(b) : c[d] = b[d]
OBVIOUS

(* A source that is written in its slot.                                    *)
LEMMA PutIs ==
    ASSUME NEW S, NEW m \in Seq(S), NEW i \in DOMAIN m, NEW r \in S
    PROVE  LET k == [m EXCEPT ![i] = r] IN
           /\ k \in Seq(S) /\ DOMAIN k = DOMAIN m /\ k[i] = r
           /\ \A t \in (DOMAIN m \ {i}) : k[t] = m[t]
<1>1. PICK n \in Nat : m \in [1 .. n -> S]
  <2>1. Len(m) \in Nat /\ m \in [1 .. Len(m) -> S]
    OBVIOUS
  <2> QED BY <2>1
<1>2. PICK k : k = [m EXCEPT ![i] = r]
  OBVIOUS
<1>3. k \in [1 .. n -> S] /\ DOMAIN k = DOMAIN m /\ k[i] = r
      /\ \A t \in (DOMAIN m \ {i}) : k[t] = m[t]
  BY <1>1, <1>2
<1>4. k \in Seq(S)
  BY <1>1, <1>3
<1> QED BY <1>2, <1>3, <1>4

(* A sequence of numbers is one of those that are in it.                    *)
LEMMA SeqOfSet ==
    ASSUME NEW l \in Seq(Nat), NEW S, ToSet(l) \subseteq S
    PROVE  l \in Seq(S)
<1>1. Len(l) \in Nat /\ DOMAIN l = 1 .. Len(l) /\ l \in [1 .. Len(l) -> Nat]
  OBVIOUS
<1>2. \A i \in DOMAIN l : l[i] \in S
  BY DEF ToSet
<1>3. l \in [1 .. Len(l) -> S]
  BY <1>1, <1>2
<1> QED BY <1>1, <1>3

(* A number that is put before others.                                      *)
LEMMA PushIs ==
    ASSUME NEW l \in Seq(Nat), Once(l), NEW n \in Nat, n \notin ToSet(l)
    PROVE  <<n>> \o l \in Seq(Nat) /\ ToSet(<<n>> \o l) = ToSet(l) \cup {n} /\ Once(<<n>> \o l)
<1>1. PICK k : k = <<n>>
  OBVIOUS
<1>2. k \in Seq(Nat) /\ ToSet(k) = {n} /\ Once(k)
  BY <1>1, OneOf
<1>3. ToSet(k) \cap ToSet(l) = {}
  BY <1>2
<1>4. k \o l \in Seq(Nat) /\ ToSet(k \o l) = ToSet(l) \cup {n} /\ Once(k \o l)
  BY <1>2, <1>3, ConcatOf
<1> QED BY <1>1, <1>4

(***************************************************************************)
(* Sound worlds.                                                           *)
(***************************************************************************)
SrcRec == [cb : Callback, of : Nat, peer : Nat, removed : BOOLEAN, reaped : BOOLEAN,
           timer : {"off", "set", "due", "read"}, stage : 0 .. 3]
JobRec == [st : {"none", "run", "ended", "waited", "dropped"}, csrc : Nat, deadline : Nat,
           stopping : BOOLEAN]
Worlds == [mem : Seq(SrcRec), list : Seq(Nat), pool : Seq(Nat), job : [Jobs -> JobRec],
           proc : [Jobs -> {"none", "run", "zombie", "gone"}],
           sig : [Jobs -> {"none", "term", "kill"}], heard : [Jobs -> Nat], dead : BOOLEAN]
Child == {"watch", "term"}

(* The sources that are linked, and not flagged to go.                      *)
Linked(w) == {s \in ToSet(w.list) : ~w.mem[s].removed}

(* A slot is linked or in the pool.                                         *)
Slots(w) ==
    /\ Once(w.list) /\ Once(w.pool) /\ ToSet(w.list) \cap ToSet(w.pool) = {}
    /\ ToSet(w.list) \cup ToSet(w.pool) = DOMAIN w.mem

(* What a source names, though it may have gone.                            *)
Refs(w) ==
    \A s \in DOMAIN w.mem :
        /\ w.mem[s].cb \in Child \cup {"deadline"} => w.mem[s].of \in Jobs
        /\ w.mem[s].cb = "ladder" => w.mem[s].of \in DOMAIN w.mem
        /\ w.mem[s].peer \in DOMAIN w.mem \cup {None}

(* A linked child source is that of a job that runs.                        *)
Watched(w, B) ==
    \A s \in Linked(w) : w.mem[s].cb \in Child =>
        /\ w.mem[s].of \notin B
        /\ w.job[w.mem[s].of].st = "run" /\ w.job[w.mem[s].of].csrc = s

(* A job names linked sources of its own.                                   *)
Children(w, B) ==
    \A j \in (Jobs \ B) : LET c == w.job[j].csrc IN
        c # None => c \in Linked(w) /\ w.mem[c].cb \in Child /\ w.mem[c].of = j
Deadlines(w, D) ==
    \A j \in (Jobs \ D) : LET c == w.job[j].deadline IN
        c # None => c \in Linked(w) /\ w.mem[c].cb = "deadline" /\ w.mem[c].of = j

(* A linked child source that has a ladder has one of its own.              *)
Ladders(w) ==
    \A s \in Linked(w) : w.mem[s].cb = "term" => LET p == w.mem[s].peer IN
        p # None => p \in Linked(w) /\ w.mem[p].cb = "ladder" /\ w.mem[p].of = s

Sound(w, B, D) ==
    /\ Slots(w) /\ Refs(w) /\ Watched(w, B) /\ Children(w, B) /\ Deadlines(w, D) /\ Ladders(w)

(* What every operation leaves: within a dispatch no slot is freed, and     *)
(* outside of one no source is flagged.                                     *)
Follows(w, v) ==
    /\ DOMAIN w.mem \subseteq DOMAIN v.mem
    /\ Dispatching => ToSet(w.list) \subseteq ToSet(v.list)
    /\ ~Dispatching /\ Linked(w) = ToSet(w.list) => Linked(v) = ToSet(v.list)
SameJobs(w, v) ==
    /\ v.job = w.job /\ v.proc = w.proc /\ v.sig = w.sig /\ v.heard = w.heard
    /\ v.dead = w.dead
Alike(w, v) ==
    \A t \in DOMAIN w.mem :
        v.mem[t].cb = w.mem[t].cb /\ v.mem[t].of = w.mem[t].of /\ v.mem[t].peer = w.mem[t].peer

(***************************************************************************)
(* Sources come and go.                                                    *)
(***************************************************************************)
(* The source s, if it was there, is no longer linked.                      *)
Without(w, v, s) ==
    /\ v \in Worlds /\ Slots(v) /\ Follows(w, v) /\ SameJobs(w, v) /\ Alike(w, v)
    /\ DOMAIN v.mem = DOMAIN w.mem /\ Linked(v) = Linked(w) \ {s}

(* The memory and the lists of a world.                                     *)
LEMMA MemOf ==
    ASSUME NEW w \in Worlds, Slots(w)
    PROVE  /\ w.mem \in Seq(SrcRec) /\ Len(w.mem) \in Nat /\ DOMAIN w.mem = 1 .. Len(w.mem)
           /\ \A s \in DOMAIN w.mem : w.mem[s] \in SrcRec /\ s \in Nat \ {0}
           /\ None \notin DOMAIN w.mem
           /\ ToSet(w.list) \subseteq DOMAIN w.mem /\ ToSet(w.pool) \subseteq DOMAIN w.mem
           /\ w.list \in Seq(Nat) /\ w.pool \in Seq(Nat)
<1>1. w.mem \in Seq(SrcRec) /\ w.list \in Seq(Nat) /\ w.pool \in Seq(Nat)
  BY DEF Worlds
<1>2. Len(w.mem) \in Nat /\ DOMAIN w.mem = 1 .. Len(w.mem)
      /\ \A s \in DOMAIN w.mem : w.mem[s] \in SrcRec
  <2>1. PICK m : m = w.mem
    OBVIOUS
  <2> QED BY <1>1, <2>1
<1>3. \A s \in DOMAIN w.mem : s \in Nat \ {0}
  BY <1>2
<1> QED BY <1>1, <1>2, <1>3 DEF Slots, None

(* A source that is removed is no longer linked.                            *)
LEMMA RemoveIs ==
    ASSUME NEW w \in Worlds, Slots(w), NEW s \in ToSet(w.list) \cup {None}
    PROVE  Without(w, SourceRemove(w, s), s)
<1> DEFINE v == SourceRemove(w, s)
<1>0. /\ \A t \in DOMAIN w.mem : w.mem[t] \in SrcRec
      /\ None \notin DOMAIN w.mem /\ ToSet(w.list) \subseteq DOMAIN w.mem
      /\ w.mem \in Seq(SrcRec) /\ w.list \in Seq(Nat) /\ w.pool \in Seq(Nat)
  BY MemOf
<1>1. CASE s = None \/ w.mem[s].removed
  <2>1. v = w
    BY <1>1 DEF SourceRemove
  <2>2. Linked(w) = Linked(w) \ {s}
    BY <1>0, <1>1 DEF Linked
  <2> HIDE DEF v
  <2>3. Without(w, v, s)
    BY <2>1, <2>2 DEF Without, Follows, SameJobs, Alike
  <2> QED BY <2>3 DEF v
<1>2. CASE s # None /\ ~w.mem[s].removed
  <2>0. s \in ToSet(w.list) /\ s \in DOMAIN w.mem /\ s \in Nat
    BY <1>0, <1>2, MemOf
  <2> DEFINE off == [w EXCEPT !.mem[s].timer = "off"]
  <2>1. /\ off \in Worlds /\ off.list = w.list /\ off.pool = w.pool /\ SameJobs(w, off)
        /\ off.mem = [w.mem EXCEPT ![s].timer = "off"]
    <3> DEFINE m == [w.mem EXCEPT ![s].timer = "off"]
    <3>1. m \in Seq(SrcRec)
      <4>1. PICK r : r = [w.mem[s] EXCEPT !.timer = "off"]
        OBVIOUS
      <4>2. r \in SrcRec
        BY <1>0, <2>0, <4>1 DEF SrcRec
      <4>3. m = [w.mem EXCEPT ![s] = r]
        BY <4>1
      <4> HIDE DEF m
      <4> QED BY <1>0, <2>0, <4>2, <4>3, PutIs
    <3>2. off = [w EXCEPT !.mem = m]
      BY DEF Worlds
    <3> HIDE DEF m
    <3>3. off.mem = m /\ off.list = w.list /\ off.pool = w.pool /\ SameJobs(w, off)
      BY <3>2 DEF Worlds, SameJobs
    <3>4. off \in Worlds
      BY <3>1, <3>2 DEF Worlds
    <3> QED BY <3>3, <3>4 DEF m
  <2>2. /\ off.mem \in Seq(SrcRec) /\ DOMAIN off.mem = DOMAIN w.mem
        /\ \A t \in DOMAIN w.mem : /\ off.mem[t].cb = w.mem[t].cb
                                   /\ off.mem[t].of = w.mem[t].of
                                   /\ off.mem[t].peer = w.mem[t].peer
                                   /\ off.mem[t].removed = w.mem[t].removed
                                   /\ off.mem[t] \in SrcRec
    <3>1. off.mem \in Seq(SrcRec)
      BY <2>1 DEF Worlds
    <3>2. \A t \in DOMAIN w.mem : off.mem[t] = (IF t = s THEN [w.mem[s] EXCEPT !.timer = "off"]
                                               ELSE w.mem[t])
      BY <2>1
    <3>3. LET r == [w.mem[s] EXCEPT !.timer = "off"] IN
          /\ r.cb = w.mem[s].cb /\ r.of = w.mem[s].of /\ r.peer = w.mem[s].peer
          /\ r.removed = w.mem[s].removed /\ r \in SrcRec
      BY <1>0, <2>0 DEF SrcRec
    <3>4. DOMAIN off.mem = DOMAIN w.mem
      BY <2>1
    <3> HIDE DEF off
    <3> QED BY <1>0, <3>1, <3>2, <3>3, <3>4
  <2>3. v = IF Dispatching THEN [off EXCEPT !.mem[s].removed = TRUE] ELSE Unlink(off, s)
    BY <1>2 DEF SourceRemove
  <2> HIDE DEF off
  <2>4. CASE Dispatching
    <3> DEFINE m == [off.mem EXCEPT ![s].removed = TRUE]
    <3>1. v = [off EXCEPT !.mem = m]
      BY <2>1, <2>3, <2>4 DEF Worlds
    <3>2. /\ \A t \in DOMAIN w.mem : t # s => m[t] = off.mem[t]
          /\ m[s] = [off.mem[s] EXCEPT !.removed = TRUE] /\ DOMAIN m = DOMAIN w.mem
      BY <2>0, <2>2
    <3>3. /\ m[s] \in SrcRec /\ m[s].cb = w.mem[s].cb /\ m[s].of = w.mem[s].of
          /\ m[s].peer = w.mem[s].peer /\ m[s].removed
      BY <2>0, <2>2, <3>2 DEF SrcRec
    <3>4. m \in Seq(SrcRec)
      <4>1. PICK r : r = [off.mem[s] EXCEPT !.removed = TRUE]
        OBVIOUS
      <4>2. r \in SrcRec
        BY <3>2, <3>3, <4>1
      <4>3. m = [off.mem EXCEPT ![s] = r]
        BY <4>1
      <4> HIDE DEF m
      <4> QED BY <2>0, <2>2, <4>2, <4>3, PutIs
    <3> HIDE DEF m, v
    <3>5. v \in Worlds /\ v.mem = m /\ v.list = w.list /\ v.pool = w.pool /\ SameJobs(w, v)
      BY <2>1, <3>1, <3>4 DEF Worlds, SameJobs
    <3>6. Alike(w, v)
      <4>1. \A t \in DOMAIN w.mem :
                m[t].cb = w.mem[t].cb /\ m[t].of = w.mem[t].of /\ m[t].peer = w.mem[t].peer
        <5>1. TAKE t \in DOMAIN w.mem
        <5>2. CASE t = s
          BY <3>3, <5>2
        <5>3. CASE t # s
          BY <2>2, <3>2, <5>3
        <5> QED BY <5>2, <5>3
      <4> QED BY <3>5, <4>1 DEF Alike
    <3>7. Linked(v) = Linked(w) \ {s}
      BY <1>0, <2>2, <3>2, <3>3, <3>5 DEF Linked
    <3>8. Slots(v) /\ Follows(w, v)
      BY <2>4, <3>2, <3>5 DEF Slots, Follows
    <3>9. Without(w, v, s)
      BY <3>2, <3>5, <3>6, <3>7, <3>8 DEF Without
    <3> QED BY <3>9 DEF v
  <2>5. CASE ~Dispatching
    <3> DEFINE l == Filter(w.list, ToSet(w.list) \ {s})
               p == <<s>> \o w.pool
    <3>1. v = [off EXCEPT !.list = l, !.pool = p]
      BY <2>1, <2>3, <2>5 DEF Unlink
    <3>2. l \in Seq(Nat) /\ ToSet(l) = ToSet(w.list) \ {s} /\ Once(l)
      <4>1. PICK S : S = ToSet(w.list) \ {s}
        OBVIOUS
      <4>2. Filter(w.list, S) \in Seq(Nat \cap S) /\ ToSet(Filter(w.list, S)) = ToSet(w.list) \cap S
            /\ Once(Filter(w.list, S))
        BY <1>0, FilterIs DEF Slots
      <4>3. Filter(w.list, S) \in Seq(Nat)
        BY <4>2
      <4> QED BY <4>1, <4>2, <4>3
    <3>3. p \in Seq(Nat) /\ ToSet(p) = ToSet(w.pool) \cup {s} /\ Once(p)
      <4>1. s \notin ToSet(w.pool)
        BY <2>0 DEF Slots
      <4> QED BY <1>0, <2>0, <4>1, PushIs DEF Slots
    <3> HIDE DEF l, p, v
    <3>4. v \in Worlds /\ v.mem = off.mem /\ v.list = l /\ v.pool = p /\ SameJobs(w, v)
      BY <2>1, <3>1, <3>2, <3>3 DEF Worlds, SameJobs
    <3>5. Alike(w, v) /\ DOMAIN v.mem = DOMAIN w.mem
      BY <2>2, <3>4 DEF Alike
    <3>6. Linked(v) = Linked(w) \ {s}
      BY <1>0, <2>2, <3>2, <3>4 DEF Linked
    <3>7. Slots(v)
      BY <2>0, <3>2, <3>3, <3>4, <3>5 DEF Slots
    <3>8. Follows(w, v)
      BY <1>0, <2>2, <2>5, <3>2, <3>4, <3>5 DEF Follows, Linked
    <3>9. Without(w, v, s)
      BY <3>4, <3>5, <3>6, <3>7, <3>8 DEF Without
    <3> QED BY <3>9 DEF v
  <2> QED BY <2>4, <2>5
<1> QED BY <1>1, <1>2

(* The source src is linked, in the slot n.                                 *)
With(w, v, n, src) ==
    /\ v \in Worlds /\ Slots(v) /\ SameJobs(w, v)
    /\ n \in Nat \ {0} /\ n \notin ToSet(w.list)
    /\ DOMAIN v.mem = DOMAIN w.mem \cup {n}
    /\ v.mem[n] = src /\ \A t \in (DOMAIN w.mem \ {n}) : v.mem[t] = w.mem[t]
    /\ ToSet(v.list) = ToSet(w.list) \cup {n}

(* A source that is added is linked, in a slot that was not.                *)
LEMMA AddIs ==
    ASSUME NEW w \in Worlds, Slots(w), NEW src \in SrcRec
    PROVE  With(w, SourceAdd(w, src), NextSlot(w), src)
<1> DEFINE v == SourceAdd(w, src)
           n == NextSlot(w)
           m == Filled(w, src)
           l == <<n>> \o w.list
           p == IF w.pool = <<>> THEN w.pool ELSE Tail(w.pool)
<1>0. /\ \A t \in DOMAIN w.mem : w.mem[t] \in SrcRec /\ t \in Nat \ {0}
      /\ ToSet(w.list) \subseteq DOMAIN w.mem /\ ToSet(w.pool) \subseteq DOMAIN w.mem
      /\ Len(w.mem) \in Nat /\ DOMAIN w.mem = 1 .. Len(w.mem)
      /\ w.mem \in Seq(SrcRec) /\ w.list \in Seq(Nat) /\ w.pool \in Seq(Nat)
  BY MemOf
<1>1. v = [w EXCEPT !.mem = m, !.list = l, !.pool = p]
  BY DEF SourceAdd
<1>2. /\ n \in Nat \ {0} /\ n \notin ToSet(w.list) /\ p \in Seq(Nat) /\ Once(p)
      /\ ToSet(p) = ToSet(w.pool) \ {n}
      /\ m \in Seq(SrcRec) /\ DOMAIN m = DOMAIN w.mem \cup {n} /\ m[n] = src
      /\ \A t \in (DOMAIN w.mem \ {n}) : m[t] = w.mem[t]
  <2>1. CASE w.pool = <<>>
    <3>1. n = Len(w.mem) + 1 /\ m = Append(w.mem, src) /\ p = w.pool
      BY <2>1 DEF NextSlot, Filled
    <3>2. ToSet(w.pool) = {}
      BY <2>1 DEF ToSet
    <3>3. /\ m \in Seq(SrcRec) /\ m[n] = src /\ Len(m) = Len(w.mem) + 1
          /\ DOMAIN m = 1 .. Len(w.mem) + 1
          /\ \A t \in 1 .. Len(w.mem) : m[t] = w.mem[t]
      <4>1. PICK q \in Seq(SrcRec) : q = w.mem
        BY <1>0
      <4> HIDE DEF m, n
      <4> QED BY <3>1, <4>1
    <3> HIDE DEF m, n, p
    <3> QED BY <1>0, <3>1, <3>2, <3>3 DEF Slots
  <2>2. CASE w.pool # <<>>
    <3>1. n = Head(w.pool) /\ m = [w.mem EXCEPT ![n] = src] /\ p = Tail(w.pool)
      BY <2>2 DEF NextSlot, Filled
    <3> HIDE DEF m, n, p
    <3>2. /\ p \in Seq(Nat) /\ ToSet(w.pool) = ToSet(p) \cup {n} /\ Once(p) /\ n \notin ToSet(p)
      BY <1>0, <2>2, <3>1, TailOf DEF Slots
    <3>3. n \in DOMAIN w.mem
      BY <1>0, <3>2
    <3>4. /\ m \in Seq(SrcRec) /\ m[n] = src /\ DOMAIN m = DOMAIN w.mem
          /\ \A t \in (DOMAIN w.mem \ {n}) : m[t] = w.mem[t]
      BY <1>0, <3>1, <3>3, PutIs
    <3>5. n \notin ToSet(w.list) /\ n \in Nat \ {0} /\ ToSet(p) = ToSet(w.pool) \ {n}
          /\ DOMAIN w.mem = DOMAIN w.mem \cup {n}
      BY <1>0, <3>2, <3>3 DEF Slots
    <3> QED BY <3>2, <3>4, <3>5
  <2> QED BY <2>1, <2>2
<1>3. l \in Seq(Nat) /\ ToSet(l) = ToSet(w.list) \cup {n} /\ Once(l)
  <2> HIDE DEF n
  <2>1. n \in Nat /\ n \notin ToSet(w.list) /\ Once(w.list)
    BY <1>2 DEF Slots
  <2> QED BY <1>0, <2>1, PushIs
<1> HIDE DEF n, m, l, p, v
<1>4. v \in Worlds /\ v.mem = m /\ v.list = l /\ v.pool = p /\ SameJobs(w, v)
  BY <1>1, <1>2, <1>3 DEF Worlds, SameJobs
<1>5. Slots(v)
  BY <1>0, <1>2, <1>3, <1>4 DEF Slots
<1>6. With(w, v, n, src)
  BY <1>2, <1>3, <1>4, <1>5 DEF With
<1> QED BY <1>6 DEF n, v

(***************************************************************************)
(* What an operation leaves.                                               *)
(***************************************************************************)
(* The world v is one that an operation makes of w, and tells no exit.      *)
Leads(w, v) == v \in Worlds /\ Follows(w, v) /\ v.heard = w.heard

(* What leads on from what an operation left is what two operations leave.  *)
LEMMA LeadsOn ==
    ASSUME NEW w, NEW v, NEW u, Leads(w, v), Leads(v, u)
    PROVE  Leads(w, u)
BY DEF Leads, Follows

(* A source goes.  No job outside of B and D names it, no ladder is needed  *)
(* of it, and no child that stays is of a job in B.                         *)
LEMMA WithoutKeeps ==
    ASSUME NEW w \in Worlds, NEW v, NEW s, NEW B, NEW D, NEW C, NEW E,
           Sound(w, B, D), Without(w, v, s), B \subseteq C, D \subseteq E,
           \A t \in Linked(v) : w.mem[t].cb \in Child => w.mem[t].of \notin C,
           \A j \in (Jobs \ C) : w.job[j].csrc = s => s = None,
           \A j \in (Jobs \ E) : w.job[j].deadline = s => s = None,
           \A t \in Linked(v) : w.mem[t].cb = "term" /\ w.mem[t].peer = s => s = None
    PROVE  Sound(v, C, E) /\ Leads(w, v)
<1>1. /\ v.job = w.job /\ DOMAIN v.mem = DOMAIN w.mem /\ Linked(v) = Linked(w) \ {s}
      /\ Slots(v) /\ Leads(w, v)
      /\ \A t \in DOMAIN w.mem : /\ v.mem[t].cb = w.mem[t].cb /\ v.mem[t].of = w.mem[t].of
                                 /\ v.mem[t].peer = w.mem[t].peer
  BY DEF Without, SameJobs, Alike, Leads
<1>2. Linked(w) \subseteq DOMAIN w.mem
  BY DEF Sound, Slots, Linked
<1>3. Refs(v)
  BY <1>1 DEF Sound, Refs
<1>4. Watched(v, C)
  BY <1>1, <1>2 DEF Sound, Watched
<1>5. Children(v, C)
  BY <1>1, <1>2 DEF Sound, Children
<1>6. Deadlines(v, E)
  BY <1>1, <1>2 DEF Sound, Deadlines
<1>7. Ladders(v)
  BY <1>1, <1>2 DEF Sound, Ladders
<1> QED BY <1>1, <1>3, <1>4, <1>5, <1>6, <1>7 DEF Sound

(* A job lets go of its child source.                                       *)
LEMMA DropChild ==
    ASSUME NEW w \in Worlds, NEW B, NEW D, NEW j \in (Jobs \ B), Sound(w, B, D)
    PROVE  LET v == SourceRemove(w, w.job[j].csrc) IN
           Sound(v, B \cup {j}, D) /\ Leads(w, v) /\ SameJobs(w, v)
<1> DEFINE s == w.job[j].csrc
           v == SourceRemove(w, s)
<1>1. s # None => s \in Linked(w) /\ w.mem[s].cb \in Child /\ w.mem[s].of = j
  BY DEF Sound, Children
<1>2. s \in ToSet(w.list) \cup {None}
  BY <1>1 DEF Linked
<1>3. Without(w, v, s)
  BY <1>2, RemoveIs DEF Sound
<1> HIDE DEF v
<1>4. \A t \in Linked(v) : w.mem[t].cb \in Child => w.mem[t].of \notin B \cup {j}
  BY <1>3 DEF Sound, Watched, Without
<1>5. \A k \in (Jobs \ (B \cup {j})) : w.job[k].csrc = s => s = None
  BY <1>1 DEF Sound, Children
<1>6. \A k \in (Jobs \ D) : w.job[k].deadline = s => s = None
  BY <1>1 DEF Sound, Deadlines, Child
<1>7. \A t \in Linked(v) : w.mem[t].cb = "term" /\ w.mem[t].peer = s => s = None
  BY <1>1, <1>3 DEF Sound, Ladders, Child, Without
<1> HIDE DEF s
<1>8. Sound(v, B \cup {j}, D) /\ Leads(w, v)
  <2>1. PICK C : C = B \cup {j}
    OBVIOUS
  <2>2. B \subseteq C /\ D \subseteq D
    BY <2>1
  <2>3. \A t \in Linked(v) : w.mem[t].cb \in Child => w.mem[t].of \notin C
    BY <1>4, <2>1
  <2>4. \A k \in (Jobs \ C) : w.job[k].csrc = s => s = None
    BY <1>5, <2>1
  <2>5. Sound(v, C, D) /\ Leads(w, v)
    BY <1>3, <1>6, <1>7, <2>2, <2>3, <2>4, WithoutKeeps
  <2> QED BY <2>1, <2>5
<1> QED BY <1>3, <1>8 DEF s, v, Without

(* A job lets go of its time limit.                                         *)
LEMMA DropDeadline ==
    ASSUME NEW w \in Worlds, NEW B, NEW D, NEW j \in (Jobs \ D), Sound(w, B, D)
    PROVE  LET v == SourceRemove(w, w.job[j].deadline) IN
           Sound(v, B, D \cup {j}) /\ Leads(w, v) /\ SameJobs(w, v)
<1> DEFINE s == w.job[j].deadline
           v == SourceRemove(w, s)
<1>1. s # None => s \in Linked(w) /\ w.mem[s].cb = "deadline" /\ w.mem[s].of = j
  BY DEF Sound, Deadlines
<1>2. s \in ToSet(w.list) \cup {None}
  BY <1>1 DEF Linked
<1>3. Without(w, v, s)
  BY <1>2, RemoveIs DEF Sound
<1> HIDE DEF v
<1>4. \A t \in Linked(v) : w.mem[t].cb \in Child => w.mem[t].of \notin B
  BY <1>3 DEF Sound, Watched, Without
<1>5. \A k \in (Jobs \ B) : w.job[k].csrc = s => s = None
  BY <1>1 DEF Sound, Children, Child
<1>6. \A k \in (Jobs \ (D \cup {j})) : w.job[k].deadline = s => s = None
  BY <1>1 DEF Sound, Deadlines
<1>7. \A t \in Linked(v) : w.mem[t].cb = "term" /\ w.mem[t].peer = s => s = None
  BY <1>1, <1>3 DEF Sound, Ladders, Without
<1>8. Sound(v, B, D \cup {j}) /\ Leads(w, v)
  BY <1>3, <1>4, <1>5, <1>6, <1>7, WithoutKeeps
<1> QED BY <1>3, <1>8 DEF v, Without

(* A timer that no child needs goes: one of a wait, or the ladder of a      *)
(* child that has gone.                                                     *)
LEMMA DropTimer ==
    ASSUME NEW w \in Worlds, NEW B, NEW D, NEW s \in ToSet(w.list) \cup {None}, Sound(w, B, D),
           s # None => w.mem[s].cb \in {"ladder", "tick"},
           s # None => \A t \in Linked(w) : w.mem[t].cb = "term" => w.mem[t].peer # s
    PROVE  LET v == SourceRemove(w, s) IN
           Sound(v, B, D) /\ Leads(w, v) /\ SameJobs(w, v)
<1> DEFINE v == SourceRemove(w, s)
<1>3. Without(w, v, s)
  BY RemoveIs DEF Sound
<1> HIDE DEF v
<1>4. \A t \in Linked(v) : w.mem[t].cb \in Child => w.mem[t].of \notin B
  BY <1>3 DEF Sound, Watched, Without
<1>5. \A k \in (Jobs \ B) : w.job[k].csrc = s => s = None
  BY DEF Sound, Children, Child
<1>6. \A k \in (Jobs \ D) : w.job[k].deadline = s => s = None
  BY DEF Sound, Deadlines
<1>7. \A t \in Linked(v) : w.mem[t].cb = "term" /\ w.mem[t].peer = s => s = None
  BY <1>3 DEF Without
<1>8. Sound(v, B, D) /\ Leads(w, v)
  BY <1>3, <1>4, <1>5, <1>6, <1>7, WithoutKeeps
<1> QED BY <1>3, <1>8 DEF v, Without

(***************************************************************************)
(* Sources and jobs are written.                                           *)
(***************************************************************************)
(* Nothing is written that soundness looks at: a timer, a stage, a signal.  *)
Untouched(w, v) ==
    /\ v \in Worlds /\ v.list = w.list /\ v.pool = w.pool /\ v.job = w.job /\ v.heard = w.heard
    /\ DOMAIN v.mem = DOMAIN w.mem /\ Alike(w, v)
    /\ \A t \in DOMAIN w.mem : v.mem[t].removed = w.mem[t].removed

(* Such a write keeps a world sound.                                        *)
LEMMA UntouchedKeeps ==
    ASSUME NEW w \in Worlds, NEW v, NEW B, NEW D, Untouched(w, v), Sound(w, B, D)
    PROVE  Sound(v, B, D) /\ Leads(w, v) /\ Linked(v) = Linked(w)
<1>1. /\ v \in Worlds /\ v.job = w.job /\ DOMAIN v.mem = DOMAIN w.mem
      /\ v.list = w.list /\ v.pool = w.pool /\ v.heard = w.heard
      /\ \A t \in DOMAIN w.mem : /\ v.mem[t].cb = w.mem[t].cb /\ v.mem[t].of = w.mem[t].of
                                 /\ v.mem[t].peer = w.mem[t].peer
                                 /\ v.mem[t].removed = w.mem[t].removed
  BY DEF Untouched, Alike
<1>2. Linked(w) \subseteq DOMAIN w.mem /\ ToSet(w.list) \subseteq DOMAIN w.mem
  BY DEF Sound, Slots, Linked
<1>3. Linked(v) = Linked(w)
  BY <1>1, <1>2 DEF Linked
<1>4. Slots(v) /\ Refs(v)
  BY <1>1 DEF Sound, Slots, Refs
<1>5. Watched(v, B) /\ Children(v, B)
  BY <1>1, <1>2, <1>3 DEF Sound, Watched, Children
<1>6. Deadlines(v, D) /\ Ladders(v)
  BY <1>1, <1>2, <1>3 DEF Sound, Deadlines, Ladders
<1>7. Leads(w, v)
  BY <1>1, <1>3 DEF Leads, Follows
<1> QED BY <1>3, <1>4, <1>5, <1>6, <1>7 DEF Sound

(* A job is written.                                                        *)
Rewritten(w, v, j, r) ==
    /\ v \in Worlds /\ v.list = w.list /\ v.pool = w.pool /\ v.mem = w.mem
    /\ \A k \in (Jobs \ {j}) : v.job[k] = w.job[k]
    /\ v.job[j] = r

(* A job that names no child source of its own may name no other, and one   *)
(* whose time limit has gone none.                                          *)
LEMMA RewrittenKeeps ==
    ASSUME NEW w \in Worlds, NEW v, NEW B, NEW D, NEW C, NEW E, NEW j \in Jobs, NEW r,
           Rewritten(w, v, j, r), Sound(w, B, D),
           \/ C = B /\ r.csrc = w.job[j].csrc /\ r.st = w.job[j].st
           \/ j \in B /\ C = B /\ r.csrc = w.job[j].csrc
           \/ j \in B /\ C = B \ {j} /\ r.csrc = None,
           \/ E = D /\ r.deadline = w.job[j].deadline
           \/ E = D \ {j} /\ r.deadline = None
           \/ /\ E = D /\ r.deadline \in Linked(w)
              /\ w.mem[r.deadline].cb = "deadline" /\ w.mem[r.deadline].of = j
    PROVE  Sound(v, C, E) /\ Follows(w, v)
<1>1. /\ v \in Worlds /\ v.list = w.list /\ v.pool = w.pool /\ v.mem = w.mem
      /\ \A k \in (Jobs \ {j}) : v.job[k] = w.job[k]
      /\ v.job[j] = r
  BY DEF Rewritten
<1>2. Linked(v) = Linked(w) /\ Linked(w) \subseteq DOMAIN w.mem
  BY <1>1 DEF Linked, Sound, Slots
<1>3. Slots(v) /\ Refs(v) /\ Ladders(v)
  BY <1>1, <1>2 DEF Sound, Slots, Refs, Ladders
<1>4. Watched(v, C)
  BY <1>1, <1>2 DEF Sound, Watched, Refs, Child
<1>5. Children(v, C)
  BY <1>1, <1>2 DEF Sound, Children
<1>6. Deadlines(v, E)
  BY <1>1, <1>2 DEF Sound, Deadlines
<1>7. Follows(w, v)
  BY <1>1, <1>2 DEF Follows
<1> QED BY <1>3, <1>4, <1>5, <1>6, <1>7 DEF Sound

(***************************************************************************)
(* Sources are added.                                                      *)
(***************************************************************************)
(* A source is linked, and what was linked is as it was.                    *)
Joined(w, v, n, src) ==
    /\ Linked(v) = Linked(w) \cup {n} /\ n \notin Linked(w) /\ n \in Nat \ {0}
    /\ Linked(w) \subseteq DOMAIN w.mem /\ Linked(v) \subseteq DOMAIN v.mem
    /\ DOMAIN v.mem = DOMAIN w.mem \cup {n}
    /\ v.mem[n] = src /\ \A t \in (DOMAIN w.mem \ {n}) : v.mem[t] = w.mem[t]

(* A source that is added joins those that are linked.                      *)
LEMMA JoinedIs ==
    ASSUME NEW w \in Worlds, Slots(w), NEW src \in SrcRec, ~src.removed
    PROVE  LET v == SourceAdd(w, src) IN
           Joined(w, v, NextSlot(w), src) /\ Slots(v) /\ Leads(w, v) /\ SameJobs(w, v)
<1> DEFINE v == SourceAdd(w, src)
           n == NextSlot(w)
<1>1. With(w, v, n, src)
  BY AddIs
<1> HIDE DEF v, n
<1>2. /\ v \in Worlds /\ Slots(v) /\ SameJobs(w, v)
      /\ n \in Nat \ {0} /\ n \notin ToSet(w.list)
      /\ DOMAIN v.mem = DOMAIN w.mem \cup {n}
      /\ v.mem[n] = src /\ \A t \in (DOMAIN w.mem \ {n}) : v.mem[t] = w.mem[t]
      /\ ToSet(v.list) = ToSet(w.list) \cup {n}
  BY <1>1 DEF With
<1>3. ToSet(w.list) \subseteq DOMAIN w.mem /\ ToSet(v.list) \subseteq DOMAIN v.mem
  BY <1>2 DEF Slots
<1>4. Linked(v) = Linked(w) \cup {n}
  BY <1>2, <1>3 DEF Linked
<1>5. Follows(w, v)
  BY <1>2, <1>4 DEF Follows
<1>6. Joined(w, v, n, src)
  BY <1>2, <1>3, <1>4 DEF Joined, Linked
<1>7. Leads(w, v)
  BY <1>2, <1>5 DEF Leads, SameJobs
<1> QED BY <1>2, <1>6, <1>7 DEF v, n

(* Cleared memory names nothing.                                            *)
LEMMA BlankIs == Blank \in SrcRec /\ ~Blank.removed /\ Blank.peer = None
<1>1. "none" \in Callback /\ None \in Nat /\ 0 \in 0 .. 3
  BY DEF None, Callback
<1> QED BY <1>1 DEF Blank, SrcRec

(* A timer is added.                                                        *)
LEMMA AddTimerIs ==
    ASSUME NEW w \in Worlds, NEW B, NEW D, Sound(w, B, D),
           NEW cb \in {"ladder", "deadline", "tick"}, NEW of \in Nat,
           cb = "ladder" => of \in DOMAIN w.mem, cb = "deadline" => of \in Jobs
    PROVE  LET v == AddTimer(w, cb, of)
               n == NextSlot(w)
           IN /\ Sound(v, B, D) /\ Leads(w, v) /\ SameJobs(w, v)
              /\ n \in Linked(v) /\ n \in Nat \ {0} /\ v.mem[n].cb = cb /\ v.mem[n].of = of
              /\ n \notin Linked(w)
              /\ \A t \in Linked(w) : t \in Linked(v) /\ v.mem[t] = w.mem[t]
<1> DEFINE src == [Blank EXCEPT !.cb = cb, !.of = of, !.timer = "set"]
           v == AddTimer(w, cb, of)
           n == NextSlot(w)
<1>1. /\ src \in SrcRec /\ ~src.removed /\ src.cb = cb /\ src.of = of /\ src.peer = None
  <2>1. PICK b : b = Blank
    OBVIOUS
  <2>2. b \in SrcRec /\ ~b.removed /\ b.peer = None
    BY <2>1, BlankIs
  <2>3. cb \in Callback
    BY DEF Callback
  <2>4. src = [b EXCEPT !.cb = cb, !.of = of, !.timer = "set"]
    BY <2>1
  <2> HIDE DEF src
  <2> QED BY <2>2, <2>3, <2>4 DEF SrcRec
<1>2. v = SourceAdd(w, src)
  BY DEF AddTimer
<1> HIDE DEF src, v, n
<1>3. Joined(w, v, n, src) /\ Slots(v) /\ Leads(w, v) /\ SameJobs(w, v)
  BY <1>1, <1>2, JoinedIs DEF Sound, n
<1>4. /\ Linked(v) = Linked(w) \cup {n} /\ n \notin Linked(w) /\ n \in Nat \ {0}
      /\ Linked(w) \subseteq DOMAIN w.mem
      /\ DOMAIN v.mem = DOMAIN w.mem \cup {n}
      /\ v.mem[n] = src /\ \A t \in (DOMAIN w.mem \ {n}) : v.mem[t] = w.mem[t]
      /\ v.job = w.job
  BY <1>3 DEF Joined, SameJobs
<1>5. \A t \in Linked(w) : t \in Linked(v) /\ v.mem[t] = w.mem[t]
  BY <1>4
<1>6. Refs(v)
  <2>1. \A t \in DOMAIN v.mem : v.mem[t] = (IF t = n THEN src ELSE w.mem[t])
    BY <1>4
  <2> QED BY <1>1, <1>4, <2>1 DEF Sound, Refs, Child
<1>7. Watched(v, B)
  BY <1>1, <1>4, <1>5 DEF Sound, Watched, Child
<1>8. Children(v, B)
  BY <1>4, <1>5 DEF Sound, Children
<1>9. Deadlines(v, D)
  BY <1>4, <1>5 DEF Sound, Deadlines
<1>10. Ladders(v)
  BY <1>1, <1>4, <1>5 DEF Sound, Ladders
<1>11. Sound(v, B, D)
  BY <1>3, <1>6, <1>7, <1>8, <1>9, <1>10 DEF Sound
<1> QED BY <1>1, <1>3, <1>4, <1>5, <1>11 DEF v, n

(* A child source is added for a job that runs and has none.                *)
LEMMA AddChildIs ==
    ASSUME NEW w \in Worlds, NEW B, NEW D, Sound(w, B, D), NEW j \in Jobs, j \in B,
           w.job[j].st = "run", NEW cb \in Child
    PROVE  LET v == AddChild(w, j, cb)
               n == NextSlot(w)
           IN /\ Sound(v, B \ {j}, D) /\ Leads(w, v)
              /\ n \in Linked(v) /\ n \in Nat \ {0} /\ v.mem[n].cb = cb /\ v.mem[n].of = j
              /\ v.mem[n].peer = None
              /\ \A k \in (Jobs \ {j}) : v.job[k] = w.job[k]
              /\ v.job[j].st = "run" /\ v.job[j].deadline = w.job[j].deadline
              /\ v.sig = w.sig /\ v.dead = w.dead
<1> DEFINE over == w.proc[j] # "run"
           src == [Blank EXCEPT !.cb = cb, !.of = j, !.reaped = over]
           u == SourceAdd(w, src)
           n == NextSlot(w)
           v == AddChild(w, j, cb)
           r == [w.job[j] EXCEPT !.csrc = n]
           jb == [w.job EXCEPT ![j] = r]
           pr == [w.proc EXCEPT ![j] = IF over THEN "gone" ELSE @]
<1>0. Jobs \subseteq Nat
  BY LoopAssumption
<1>1. src \in SrcRec /\ ~src.removed /\ src.cb = cb /\ src.of = j /\ src.peer = None
  <2>1. PICK b : b = Blank
    OBVIOUS
  <2>2. b \in SrcRec /\ ~b.removed /\ b.peer = None
    BY <2>1, BlankIs
  <2>3. cb \in Callback /\ j \in Nat /\ over \in BOOLEAN
    BY <1>0 DEF Callback, Child
  <2>4. src = [b EXCEPT !.cb = cb, !.of = j, !.reaped = over]
    BY <2>1
  <2> HIDE DEF src, over
  <2> QED BY <2>2, <2>3, <2>4 DEF SrcRec
<1> HIDE DEF src
<1>2. Joined(w, u, n, src) /\ Slots(u) /\ Leads(w, u) /\ SameJobs(w, u)
  BY <1>1, JoinedIs DEF Sound
<1>3. u \in Worlds /\ n \in Nat /\ w.job[j] \in JobRec
  BY <1>2 DEF Leads, Joined, Worlds
<1>4. v = [u EXCEPT !.job = jb, !.proc = pr]
  <2> HIDE DEF u
  <2>1. u.job = w.job /\ u.proc = w.proc
    BY <1>2 DEF SameJobs
  <2>2. v = [u EXCEPT !.job[j].csrc = n, !.proc[j] = IF over THEN "gone" ELSE @]
    BY DEF AddChild, u, src
  <2> QED BY <1>3, <2>1, <2>2 DEF Worlds
<1> HIDE DEF u, n, v
<1>5. r \in JobRec /\ r.csrc = n /\ r.st = w.job[j].st /\ r.deadline = w.job[j].deadline
  BY <1>3 DEF JobRec
<1> HIDE DEF r
<1>6. jb \in [Jobs -> JobRec] /\ jb[j] = r /\ \A k \in (Jobs \ {j}) : jb[k] = w.job[k]
  BY <1>5 DEF Worlds
<1>7. pr \in [Jobs -> {"none", "run", "zombie", "gone"}]
  BY DEF Worlds
<1> HIDE DEF jb, pr
<1>8. /\ v \in Worlds /\ v.mem = u.mem /\ v.list = u.list /\ v.pool = u.pool /\ v.job = jb
      /\ v.heard = u.heard /\ v.sig = u.sig /\ v.dead = u.dead
  BY <1>3, <1>4, <1>6, <1>7 DEF Worlds
<1>9. /\ Linked(v) = Linked(w) \cup {n} /\ n \notin Linked(w) /\ n \in Nat \ {0}
      /\ Linked(w) \subseteq DOMAIN w.mem
      /\ DOMAIN v.mem = DOMAIN w.mem \cup {n}
      /\ v.mem[n] = src /\ \A t \in (DOMAIN w.mem \ {n}) : v.mem[t] = w.mem[t]
  BY <1>2, <1>8 DEF Joined, Linked
<1>10. \A t \in Linked(w) : t \in Linked(v) /\ v.mem[t] = w.mem[t]
  BY <1>9
<1>11. Slots(v) /\ Leads(w, v)
  BY <1>2, <1>8 DEF Slots, Leads, Follows, Linked
<1>12. Refs(v)
  <2>1. \A t \in DOMAIN v.mem : v.mem[t] = (IF t = n THEN src ELSE w.mem[t])
    BY <1>9
  <2> QED BY <1>1, <1>9, <2>1 DEF Sound, Refs, Child
<1>13. Watched(v, B \ {j})
  <2>1. SUFFICES ASSUME NEW s \in Linked(v), v.mem[s].cb \in Child
                 PROVE  /\ v.mem[s].of \notin B \ {j}
                        /\ v.job[v.mem[s].of].st = "run" /\ v.job[v.mem[s].of].csrc = s
    BY DEF Watched
  <2>3. CASE s = n
    BY <1>1, <1>5, <1>6, <1>8, <1>9, <2>3
  <2>4. CASE s # n
    <3>1. s \in Linked(w) /\ v.mem[s] = w.mem[s] /\ w.mem[s].of \in Jobs
      BY <1>9, <1>10, <2>1, <2>4 DEF Sound, Refs
    <3>2. w.mem[s].of \notin B /\ w.job[w.mem[s].of].st = "run" /\ w.job[w.mem[s].of].csrc = s
      BY <2>1, <3>1 DEF Sound, Watched
    <3> QED BY <1>6, <1>8, <3>1, <3>2
  <2> QED BY <2>3, <2>4
<1>14. Children(v, B \ {j})
  <2>1. \A k \in (Jobs \ (B \ {j})) : k = j \/ k \in (Jobs \ B)
    OBVIOUS
  <2> QED BY <1>1, <1>5, <1>6, <1>8, <1>9, <1>10, <2>1 DEF Sound, Children
<1>15. Deadlines(v, D)
  <2>1. \A k \in Jobs : v.job[k].deadline = w.job[k].deadline
    BY <1>5, <1>6, <1>8
  <2> QED BY <1>9, <1>10, <2>1 DEF Sound, Deadlines
<1>16. Ladders(v)
  BY <1>1, <1>9, <1>10 DEF Sound, Ladders
<1>17. Sound(v, B \ {j}, D)
  BY <1>11, <1>12, <1>13, <1>14, <1>15, <1>16 DEF Sound
<1>18. v.sig = w.sig /\ v.dead = w.dead
  BY <1>2, <1>8 DEF SameJobs
<1> QED BY <1>1, <1>5, <1>6, <1>8, <1>9, <1>11, <1>17, <1>18 DEF v, n

(***************************************************************************)
(* Memory, jobs and signals are written.                                   *)
(***************************************************************************)
(* A source of a world is written.                                          *)
LEMMA MemPut ==
    ASSUME NEW w \in Worlds, NEW i \in DOMAIN w.mem, NEW r \in SrcRec
    PROVE  LET v == [w EXCEPT !.mem[i] = r] IN
           /\ v \in Worlds /\ v.list = w.list /\ v.pool = w.pool /\ SameJobs(w, v)
           /\ DOMAIN v.mem = DOMAIN w.mem /\ v.mem[i] = r
           /\ \A t \in (DOMAIN w.mem \ {i}) : v.mem[t] = w.mem[t]
<1> DEFINE v == [w EXCEPT !.mem[i] = r]
<1>1. PICK m : m = [w.mem EXCEPT ![i] = r]
  OBVIOUS
<1>2. w.mem \in Seq(SrcRec)
  BY DEF Worlds
<1>3. m \in Seq(SrcRec) /\ DOMAIN m = DOMAIN w.mem /\ m[i] = r
      /\ \A t \in (DOMAIN w.mem \ {i}) : m[t] = w.mem[t]
  BY <1>1, <1>2, PutIs
<1>4. v = [w EXCEPT !.mem = m]
  BY <1>1
<1> HIDE DEF v
<1>5. v \in Worlds /\ v.mem = m /\ v.list = w.list /\ v.pool = w.pool /\ SameJobs(w, v)
  BY <1>3, <1>4 DEF Worlds, SameJobs
<1> QED BY <1>3, <1>5 DEF v

(* A timer of a world is written.                                           *)
LEMMA TimerPut ==
    ASSUME NEW w \in Worlds, NEW i \in DOMAIN w.mem, NEW x \in {"off", "set", "due", "read"},
           NEW v, v = [w EXCEPT !.mem[i].timer = x]
    PROVE  Untouched(w, v) /\ SameJobs(w, v)
<1>1. PICK r : r = [w.mem[i] EXCEPT !.timer = x]
  OBVIOUS
<1>2. w.mem[i] \in SrcRec
  <2>1. PICK m \in Seq(SrcRec) : m = w.mem
    BY DEF Worlds
  <2> QED BY <2>1
<1>3. /\ r \in SrcRec /\ r.cb = w.mem[i].cb /\ r.of = w.mem[i].of
      /\ r.peer = w.mem[i].peer /\ r.removed = w.mem[i].removed
  BY <1>1, <1>2 DEF SrcRec
<1>4. v = [w EXCEPT !.mem[i] = r]
  BY <1>1
<1>5. /\ v \in Worlds /\ v.list = w.list /\ v.pool = w.pool /\ SameJobs(w, v)
      /\ DOMAIN v.mem = DOMAIN w.mem /\ v.mem[i] = r
      /\ \A t \in (DOMAIN w.mem \ {i}) : v.mem[t] = w.mem[t]
  <2>1. PICK u : u = [w EXCEPT !.mem[i] = r]
    OBVIOUS
  <2>2. /\ u \in Worlds /\ u.list = w.list /\ u.pool = w.pool /\ SameJobs(w, u)
        /\ DOMAIN u.mem = DOMAIN w.mem /\ u.mem[i] = r
        /\ \A t \in (DOMAIN w.mem \ {i}) : u.mem[t] = w.mem[t]
    BY <1>3, <2>1, MemPut
  <2> QED BY <1>4, <2>1, <2>2
<1>6. \A t \in DOMAIN w.mem : /\ v.mem[t].cb = w.mem[t].cb /\ v.mem[t].of = w.mem[t].of
                              /\ v.mem[t].peer = w.mem[t].peer
                              /\ v.mem[t].removed = w.mem[t].removed
  BY <1>3, <1>5
<1> QED BY <1>5, <1>6 DEF Untouched, Alike, SameJobs

(* A job of a world is written.                                             *)
LEMMA JobPut ==
    ASSUME NEW w \in Worlds, NEW j \in Jobs, NEW r \in JobRec, NEW v,
           v = [w EXCEPT !.job[j] = r]
    PROVE  /\ Rewritten(w, v, j, r)
           /\ v.proc = w.proc /\ v.sig = w.sig /\ v.heard = w.heard /\ v.dead = w.dead
<1>1. PICK m : m = [w.job EXCEPT ![j] = r]
  OBVIOUS
<1>2. m \in [Jobs -> JobRec] /\ m[j] = r /\ \A k \in (Jobs \ {j}) : m[k] = w.job[k]
  BY <1>1 DEF Worlds
<1>3. v = [w EXCEPT !.job = m]
  BY <1>1
<1>4. /\ v \in Worlds /\ v.job = m /\ v.list = w.list /\ v.pool = w.pool /\ v.mem = w.mem
      /\ v.proc = w.proc /\ v.sig = w.sig /\ v.heard = w.heard /\ v.dead = w.dead
  BY <1>2, <1>3 DEF Worlds
<1> QED BY <1>2, <1>4 DEF Rewritten

(* A signal changes nothing but what was sent.                              *)
LEMMA SendIs ==
    ASSUME NEW w \in Worlds, NEW j \in Jobs, NEW s \in {"term", "kill"}
    PROVE  /\ Untouched(w, Send(w, j, s)) /\ Send(w, j, s).mem = w.mem
           /\ Send(w, j, s).job = w.job /\ Send(w, j, s).dead = w.dead
<1> DEFINE v == Send(w, j, s)
<1>1. PICK x : x = IF w.proc[j] \in {"none", "gone"} \/ w.sig[j] = "kill" THEN w.sig[j] ELSE s
  OBVIOUS
<1>2. PICK m : m = [w.sig EXCEPT ![j] = x]
  OBVIOUS
<1>3. m \in [Jobs -> {"none", "term", "kill"}]
  BY <1>1, <1>2 DEF Worlds
<1>4. v = [w EXCEPT !.sig = m]
  BY <1>1, <1>2 DEF Send
<1> HIDE DEF v
<1>5. /\ v \in Worlds /\ v.list = w.list /\ v.pool = w.pool /\ v.job = w.job
      /\ v.heard = w.heard /\ v.mem = w.mem /\ v.dead = w.dead
  BY <1>3, <1>4 DEF Worlds
<1>6. Untouched(w, v)
  BY <1>5 DEF Untouched, Alike
<1> QED BY <1>5, <1>6 DEF v

(* What relates jobs and linked sources asks for the kinds and owners only. *)
LEMMA SameJobsSources ==
    ASSUME NEW w, NEW v, NEW B, NEW D, Linked(v) = Linked(w), v.job = w.job,
           \A i \in Linked(v) : v.mem[i].cb = w.mem[i].cb /\ v.mem[i].of = w.mem[i].of,
           Watched(w, B) /\ Children(w, B) /\ Deadlines(w, D)
    PROVE  Watched(v, B) /\ Children(v, B) /\ Deadlines(v, D)
<1>1. Watched(v, B)
  BY DEF Watched
<1>2. Children(v, B)
  BY DEF Children
<1>3. Deadlines(v, D)
  BY DEF Deadlines
<1> QED BY <1>1, <1>2, <1>3

(* The child and the ladder of a job that is asked to stop.                 *)
LEMMA AddTerminateIs ==
    ASSUME NEW w \in Worlds, NEW B, NEW D, Sound(w, B, D), NEW j \in Jobs, j \in B,
           w.job[j].st = "run"
    PROVE  LET v == AddTerminate(w, j) IN
           /\ Sound(v, B \ {j}, D) /\ Leads(w, v)
           /\ \A k \in (Jobs \ {j}) : v.job[k] = w.job[k]
           /\ v.job[j].st = "run" /\ v.job[j].deadline = w.job[j].deadline
<1> DEFINE C == B \ {j}
           c == NextSlot(w)
           x == AddChild(w, j, "term")
           t == NextSlot(x)
           y == AddTimer(x, "ladder", c)
           r == [y.mem[c] EXCEPT !.peer = t, !.stage = 1]
           z == [y EXCEPT !.mem[c] = r]
           v == Send(z, j, "term")
<1>1. AddTerminate(w, j) = v
  BY DEF AddTerminate
<1>2. /\ Sound(x, C, D) /\ Leads(w, x)
      /\ c \in Linked(x) /\ c \in Nat \ {0} /\ x.mem[c].cb = "term" /\ x.mem[c].of = j
      /\ x.mem[c].peer = None
      /\ \A k \in (Jobs \ {j}) : x.job[k] = w.job[k]
      /\ x.job[j].st = "run" /\ x.job[j].deadline = w.job[j].deadline
  <2>1. "term" \in Child
    BY DEF Child
  <2> QED BY <2>1, AddChildIs
<1> HIDE DEF C, c, x
<1>3. x \in Worlds /\ Linked(x) \subseteq DOMAIN x.mem
  BY <1>2 DEF Leads, Sound, Slots, Linked
<1>4. /\ Sound(y, C, D) /\ Leads(x, y) /\ SameJobs(x, y)
      /\ t \in Linked(y) /\ t \in Nat \ {0} /\ y.mem[t].cb = "ladder" /\ y.mem[t].of = c
      /\ t \notin Linked(x)
      /\ \A i \in Linked(x) : i \in Linked(y) /\ y.mem[i] = x.mem[i]
  <2>1. c \in DOMAIN x.mem /\ c \in Nat
    BY <1>2, <1>3
  <2> QED BY <1>2, <1>3, <2>1, AddTimerIs
<1> HIDE DEF t, y
<1>5. y \in Worlds /\ Linked(y) \subseteq DOMAIN y.mem /\ c # t
  BY <1>2, <1>4 DEF Leads, Sound, Slots, Linked
<1>6. /\ r \in SrcRec /\ r.cb = "term" /\ r.of = j /\ r.peer = t /\ r.removed = y.mem[c].removed
  <2>1. y.mem[c] \in SrcRec
    <3>1. PICK m \in Seq(SrcRec) : m = y.mem
      BY <1>5 DEF Worlds
    <3> QED BY <1>2, <1>4, <1>5, <3>1
  <2>2. PICK q : q = y.mem[c]
    OBVIOUS
  <2>3. q \in SrcRec /\ q.cb = "term" /\ q.of = j
    BY <1>2, <1>4, <2>1, <2>2
  <2>4. r = [q EXCEPT !.peer = t, !.stage = 1]
    BY <2>2
  <2>5. 1 \in 0 .. 3 /\ t \in Nat
    BY <1>4
  <2> HIDE DEF r
  <2> QED BY <2>2, <2>3, <2>4, <2>5 DEF SrcRec
<1> HIDE DEF r
<1>7. /\ z \in Worlds /\ z.list = y.list /\ z.pool = y.pool /\ SameJobs(y, z)
      /\ DOMAIN z.mem = DOMAIN y.mem /\ z.mem[c] = r
      /\ \A i \in (DOMAIN y.mem \ {c}) : z.mem[i] = y.mem[i]
  BY <1>2, <1>4, <1>5, <1>6, MemPut
<1> HIDE DEF z
<1>8. Linked(z) = Linked(y) /\ c \in Linked(y) /\ y.mem[c].cb = "term" /\ y.mem[c].of = j
  BY <1>2, <1>4, <1>5, <1>6, <1>7 DEF Linked, Sound, Slots
<1>9. z.job = y.job /\ z.heard = y.heard
  BY <1>7 DEF SameJobs
<1>10. Slots(z)
  BY <1>4, <1>7 DEF Sound, Slots
<1>11. Refs(z)
  <2>1. \A i \in DOMAIN z.mem : z.mem[i] = (IF i = c THEN r ELSE y.mem[i])
    BY <1>7
  <2>2. t \in DOMAIN y.mem
    BY <1>4, <1>5
  <2> QED BY <1>4, <1>6, <1>7, <2>1, <2>2 DEF Sound, Refs
<1>12. \A i \in Linked(z) : z.mem[i].cb = y.mem[i].cb /\ z.mem[i].of = y.mem[i].of
  BY <1>5, <1>6, <1>7, <1>8
<1>13. Watched(z, C) /\ Children(z, C) /\ Deadlines(z, D)
  BY <1>4, <1>8, <1>9, <1>12, SameJobsSources DEF Sound
<1>14. Ladders(z)
  <2>1. SUFFICES ASSUME NEW s \in Linked(z), z.mem[s].cb = "term", z.mem[s].peer # None
                 PROVE  LET p == z.mem[s].peer IN
                        p \in Linked(z) /\ z.mem[p].cb = "ladder" /\ z.mem[p].of = s
    BY DEF Ladders
  <2>2. CASE s = c
    BY <1>4, <1>6, <1>7, <1>8, <1>12, <2>2
  <2>3. CASE s # c
    <3>1. z.mem[s] = y.mem[s] /\ s \in Linked(y)
      BY <1>5, <1>7, <1>8, <2>3
    <3>2. y.mem[s].peer \in Linked(y) /\ y.mem[y.mem[s].peer].cb = "ladder"
          /\ y.mem[y.mem[s].peer].of = s
      BY <1>4, <2>1, <3>1 DEF Sound, Ladders
    <3> QED BY <1>8, <1>12, <3>1, <3>2
  <2> QED BY <2>2, <2>3
<1>15. Sound(z, C, D)
  BY <1>10, <1>11, <1>13, <1>14 DEF Sound
<1>16. Leads(y, z)
  BY <1>7, <1>8, <1>9 DEF Leads, Follows
<1>17. Untouched(z, v) /\ v.job = z.job
  BY <1>7, SendIs
<1> HIDE DEF v
<1>18. Sound(v, C, D) /\ Leads(z, v)
  BY <1>7, <1>15, <1>17, UntouchedKeeps
<1>19. Leads(w, v)
  BY <1>2, <1>4, <1>16, <1>18, LeadsOn
<1>20. v.job = x.job
  BY <1>4, <1>9, <1>17 DEF SameJobs
<1> QED BY <1>1, <1>2, <1>18, <1>19, <1>20 DEF C

(***************************************************************************)
(* The operations on jobs.                                                 *)
(***************************************************************************)
(* A job is asked to stop.                                                  *)
LEMMA CancelJobIs ==
    ASSUME NEW w \in Worlds, Sound(w, {}, {}), NEW j \in Jobs
    PROVE  Sound(CancelJob(w, j), {}, {}) /\ Leads(w, CancelJob(w, j))
<1>1. CASE w.job[j].st # "run" \/ w.job[j].stopping
  <2>1. CancelJob(w, j) = w
    BY <1>1 DEF CancelJob
  <2>2. Leads(w, w)
    BY DEF Leads, Follows
  <2> QED BY <2>1, <2>2
<1>2. CASE w.job[j].st = "run" /\ ~w.job[j].stopping
  <2> DEFINE r == [w.job[j] EXCEPT !.stopping = TRUE]
             x == [w EXCEPT !.job[j].stopping = TRUE]
             y == SourceRemove(x, w.job[j].csrc)
             v == AddTerminate(y, j)
  <2>1. CancelJob(w, j) = v
    BY <1>2 DEF CancelJob
  <2>2. w.job[j] \in JobRec
    BY DEF Worlds
  <2>3. /\ r \in JobRec /\ r.csrc = w.job[j].csrc /\ r.st = "run"
        /\ r.deadline = w.job[j].deadline
    BY <1>2, <2>2 DEF JobRec
  <2>4. x = [w EXCEPT !.job[j] = r]
    OBVIOUS
  <2> HIDE DEF r, x
  <2>5. Rewritten(w, x, j, r) /\ x.heard = w.heard
    BY <2>3, <2>4, JobPut
  <2>6. Sound(x, {}, {}) /\ Follows(w, x)
    BY <1>2, <2>3, <2>5, RewrittenKeeps
  <2>7. /\ Leads(w, x) /\ x \in Worlds /\ x.job[j] = r
    BY <2>5, <2>6 DEF Leads, Rewritten
  <2>8. y = SourceRemove(x, x.job[j].csrc)
    BY <2>3, <2>7
  <2> HIDE DEF y
  <2>9. Sound(y, {j}, {}) /\ Leads(x, y) /\ SameJobs(x, y)
    <3>1. {} \cup {j} = {j} /\ j \in (Jobs \ {})
      OBVIOUS
    <3> QED BY <2>6, <2>7, <2>8, <3>1, DropChild
  <2>10. y \in Worlds /\ y.job[j].st = "run"
    BY <2>3, <2>7, <2>9 DEF Leads, SameJobs
  <2> HIDE DEF v
  <2>11. Sound(v, {}, {}) /\ Leads(y, v)
    <3>1. {j} \ {j} = {} /\ j \in {j}
      OBVIOUS
    <3> QED BY <2>9, <2>10, <3>1, AddTerminateIs DEF v
  <2>12. Leads(w, v)
    BY <2>7, <2>9, <2>11, LeadsOn
  <2> QED BY <2>1, <2>11, <2>12
<1> QED BY <1>1, <1>2

(* A job is dropped.                                                        *)
LEMMA DiscardJobIs ==
    ASSUME NEW w \in Worlds, Sound(w, {}, {}), NEW j \in Jobs
    PROVE  Sound(DiscardJob(w, j), {}, {}) /\ Leads(w, DiscardJob(w, j))
<1> DEFINE v == CancelJob(w, j)
           x == SourceRemove(v, v.job[j].deadline)
           u == SourceRemove(x, v.job[j].csrc)
           st == IF u.proc[j] = "run" THEN "waited" ELSE "dropped"
           r == [u.job[j] EXCEPT !.deadline = None, !.csrc = None, !.st = st]
           jb == [u.job EXCEPT ![j] = r]
           pr == [u.proc EXCEPT ![j] = IF @ = "run" THEN "run" ELSE "gone"]
           z == DiscardJob(w, j)
<1>1. Sound(v, {}, {}) /\ Leads(w, v)
  BY CancelJobIs
<1>2. z = [u EXCEPT !.job = jb, !.proc = pr]
  <2>1. PICK q : q = u
    OBVIOUS
  <2>2. PICK o : o = st
    OBVIOUS
  <2>3. z = [q EXCEPT !.job[j].deadline = None, !.job[j].csrc = None,
                      !.job[j].st = IF q.proc[j] = "run" THEN "waited" ELSE "dropped",
                      !.proc[j] = IF @ = "run" THEN "run" ELSE "gone"]
    BY <2>1 DEF DiscardJob
  <2>4. z = [q EXCEPT !.job[j].deadline = None, !.job[j].csrc = None, !.job[j].st = o,
                      !.proc[j] = IF @ = "run" THEN "run" ELSE "gone"]
    BY <2>1, <2>2, <2>3
  <2>5. r = [q.job[j] EXCEPT !.deadline = None, !.csrc = None, !.st = o]
    BY <2>1, <2>2
  <2>6. /\ jb = [q.job EXCEPT ![j] = r]
        /\ pr = [q.proc EXCEPT ![j] = IF @ = "run" THEN "run" ELSE "gone"]
    BY <2>1
  <2> HIDE DEF z, r, jb, pr, u, st
  <2>7. z = [q EXCEPT !.job = jb, !.proc = pr]
    BY <2>4, <2>5, <2>6
  <2> QED BY <2>1, <2>7
<1> HIDE DEF v
<1>3. v \in Worlds
  BY <1>1 DEF Leads
<1>4. Sound(x, {}, {j}) /\ Leads(v, x) /\ SameJobs(v, x)
  <2>1. {} \cup {j} = {j} /\ j \in (Jobs \ {})
    OBVIOUS
  <2> QED BY <1>1, <1>3, <2>1, DropDeadline
<1> HIDE DEF x
<1>5. x \in Worlds /\ u = SourceRemove(x, x.job[j].csrc)
  BY <1>4 DEF Leads, SameJobs
<1> HIDE DEF u
<1>6. Sound(u, {j}, {j}) /\ Leads(x, u)
  <2>1. {} \cup {j} = {j} /\ j \in (Jobs \ {})
    OBVIOUS
  <2> QED BY <1>4, <1>5, <2>1, DropChild
<1>7. u \in Worlds /\ u.job[j] \in JobRec
  BY <1>6 DEF Leads, Worlds
<1>8. r \in JobRec /\ r.csrc = None /\ r.deadline = None
  <2>1. st \in {"none", "run", "ended", "waited", "dropped"}
    OBVIOUS
  <2> HIDE DEF st
  <2> QED BY <1>7, <2>1 DEF JobRec, None
<1> HIDE DEF r
<1>9. jb \in [Jobs -> JobRec] /\ jb[j] = r /\ \A k \in (Jobs \ {j}) : jb[k] = u.job[k]
  BY <1>7, <1>8 DEF Worlds
<1>10. pr \in [Jobs -> {"none", "run", "zombie", "gone"}]
  BY <1>7 DEF Worlds
<1> HIDE DEF jb, pr, z
<1>11. /\ z \in Worlds /\ z.job = jb /\ z.list = u.list /\ z.pool = u.pool /\ z.mem = u.mem
       /\ z.heard = u.heard
  BY <1>2, <1>7, <1>9, <1>10 DEF Worlds
<1>12. Rewritten(u, z, j, r)
  BY <1>9, <1>11 DEF Rewritten
<1>13. Sound(z, {}, {}) /\ Follows(u, z)
  <2>1. {} = {j} \ {j} /\ j \in {j}
    OBVIOUS
  <2> QED BY <1>6, <1>7, <1>8, <1>12, <2>1, RewrittenKeeps
<1>14. Leads(u, z)
  BY <1>11, <1>13 DEF Leads
<1>15. Leads(w, z)
  BY <1>1, <1>4, <1>6, <1>14, LeadsOn
<1> QED BY <1>13, <1>15 DEF z

(* The exit of a job is told: its child source is withdrawn.                *)
LEMMA JobChildIs ==
    ASSUME NEW w \in Worlds, NEW j \in Jobs, Sound(w, {j}, {})
    PROVE  LET v == JobChild(w, j) IN
           /\ Sound(v, {}, {}) /\ Follows(w, v) /\ v \in Worlds
           /\ \A k \in (Jobs \ {j}) : v.heard[k] = w.heard[k] /\ v.job[k] = w.job[k]
<1> DEFINE u == SourceRemove(w, w.job[j].deadline)
           r == [u.job[j] EXCEPT !.csrc = None, !.deadline = None, !.st = "ended"]
           jb == [u.job EXCEPT ![j] = r]
           hd == [u.heard EXCEPT ![j] = @ + 1]
           v == JobChild(w, j)
<1>1. v = [u EXCEPT !.job = jb, !.heard = hd]
  BY DEF JobChild
<1>2. Sound(u, {j}, {j}) /\ Leads(w, u) /\ SameJobs(w, u)
  <2>1. {} \cup {j} = {j} /\ j \in (Jobs \ {})
    OBVIOUS
  <2> QED BY <2>1, DropDeadline
<1> HIDE DEF u
<1>3. u \in Worlds /\ u.job[j] \in JobRec /\ u.job = w.job /\ u.heard = w.heard
  BY <1>2 DEF Leads, Worlds, SameJobs
<1>4. r \in JobRec /\ r.csrc = None /\ r.deadline = None
  BY <1>3 DEF JobRec, None
<1> HIDE DEF r
<1>5. jb \in [Jobs -> JobRec] /\ jb[j] = r /\ \A k \in (Jobs \ {j}) : jb[k] = u.job[k]
  BY <1>3, <1>4 DEF Worlds
<1>6. hd \in [Jobs -> Nat] /\ \A k \in (Jobs \ {j}) : hd[k] = u.heard[k]
  <2>1. u.heard \in [Jobs -> Nat]
    BY <1>3 DEF Worlds
  <2> QED BY <2>1
<1> HIDE DEF jb, hd, v
<1>7. /\ v \in Worlds /\ v.job = jb /\ v.list = u.list /\ v.pool = u.pool /\ v.mem = u.mem
      /\ v.heard = hd
  BY <1>1, <1>3, <1>5, <1>6 DEF Worlds
<1>8. Rewritten(u, v, j, r)
  BY <1>5, <1>7 DEF Rewritten
<1>9. Sound(v, {}, {}) /\ Follows(u, v)
  <2>1. {} = {j} \ {j} /\ j \in {j}
    OBVIOUS
  <2> QED BY <1>2, <1>3, <1>4, <1>8, <2>1, RewrittenKeeps
<1>10. Follows(w, v)
  BY <1>2, <1>9 DEF Leads, Follows
<1> QED BY <1>3, <1>5, <1>6, <1>7, <1>9, <1>10 DEF v

(* A job starts.                                                            *)
LEMMA SubmittedIs ==
    ASSUME NEW w \in Worlds, NEW j \in Jobs, Sound(w, {}, {}), w.job[j].st = "none"
    PROVE  Sound(Submitted(w, j), {}, {}) /\ Leads(w, Submitted(w, j))
<1> DEFINE r == [w.job[j] EXCEPT !.st = "run"]
           jb == [w.job EXCEPT ![j] = r]
           pr == [w.proc EXCEPT ![j] = "run"]
           u == [w EXCEPT !.job[j].st = "run", !.proc[j] = "run"]
           v == AddChild(u, j, "watch")
           n == NextSlot(v)
           x == AddTimer(v, "deadline", j)
           q == [x.job[j] EXCEPT !.deadline = n]
           y == [x EXCEPT !.job[j].deadline = n]
<1>1. Submitted(w, j) = IF j \in Limited THEN y ELSE v
  BY DEF Submitted
<1>2. w.job[j] \in JobRec
  BY DEF Worlds
<1>3. /\ r \in JobRec /\ r.st = "run" /\ r.csrc = w.job[j].csrc
      /\ r.deadline = w.job[j].deadline
  BY <1>2 DEF JobRec
<1>4. u = [w EXCEPT !.job = jb, !.proc = pr]
  OBVIOUS
<1> HIDE DEF r, u
<1>5. /\ jb \in [Jobs -> JobRec] /\ jb[j] = r
      /\ \A k \in (Jobs \ {j}) : jb[k] = w.job[k]
      /\ pr \in [Jobs -> {"none", "run", "zombie", "gone"}]
  BY <1>2, <1>3 DEF Worlds
<1> HIDE DEF jb, pr
<1>6. /\ u \in Worlds /\ u.job = jb /\ u.list = w.list /\ u.pool = w.pool /\ u.mem = w.mem
      /\ u.heard = w.heard
  BY <1>4, <1>5 DEF Worlds
<1>7. Sound(w, {j}, {})
  <2>1. Watched(w, {j})
    BY DEF Sound, Watched
  <2>2. Children(w, {j})
    BY DEF Sound, Children
  <2> QED BY <2>1, <2>2 DEF Sound
<1>8. Sound(u, {j}, {}) /\ Follows(w, u)
  <2>1. Rewritten(w, u, j, r)
    BY <1>5, <1>6 DEF Rewritten
  <2>2. j \in {j}
    OBVIOUS
  <2> QED BY <1>3, <1>7, <2>1, <2>2, RewrittenKeeps
<1>9. Leads(w, u) /\ u.job[j].st = "run"
  BY <1>3, <1>5, <1>6, <1>8 DEF Leads
<1> HIDE DEF v
<1>10. Sound(v, {}, {}) /\ Leads(u, v)
  <2>1. {j} \ {j} = {} /\ j \in {j} /\ "watch" \in Child
    BY DEF Child
  <2>2. Sound(v, {j} \ {j}, {}) /\ Leads(u, v)
    BY <1>6, <1>8, <1>9, <2>1, AddChildIs DEF v
  <2> QED BY <2>1, <2>2
<1>11. Leads(w, v) /\ v \in Worlds
  BY <1>9, <1>10, LeadsOn DEF Leads
<1> HIDE DEF n, x
<1>12. /\ Sound(x, {}, {}) /\ Leads(v, x)
       /\ n \in Linked(x) /\ n \in Nat \ {0} /\ x.mem[n].cb = "deadline" /\ x.mem[n].of = j
  <2>1. j \in Nat
    BY LoopAssumption
  <2> QED BY <1>10, <1>11, <2>1, AddTimerIs DEF n, x
<1>13. x \in Worlds /\ x.job[j] \in JobRec
  BY <1>12 DEF Leads, Worlds
<1>14. q \in JobRec /\ q.csrc = x.job[j].csrc /\ q.st = x.job[j].st /\ q.deadline = n
  BY <1>12, <1>13 DEF JobRec
<1>15. y = [x EXCEPT !.job[j] = q]
  OBVIOUS
<1> HIDE DEF q, y
<1>16. Rewritten(x, y, j, q) /\ y.heard = x.heard
  BY <1>13, <1>14, <1>15, JobPut
<1>17. Sound(y, {}, {}) /\ Follows(x, y)
  BY <1>12, <1>13, <1>14, <1>16, RewrittenKeeps
<1>18. Leads(x, y)
  BY <1>16, <1>17 DEF Leads, Rewritten
<1>19. Leads(w, y)
  BY <1>11, <1>12, <1>18, LeadsOn
<1> QED BY <1>1, <1>10, <1>11, <1>17, <1>19

(* Memory that was freed is used.                                           *)
LEMMA DeadIs ==
    ASSUME NEW w \in Worlds
    PROVE  Untouched(w, [w EXCEPT !.dead = TRUE])
<1>1. PICK v : v = [w EXCEPT !.dead = TRUE]
  OBVIOUS
<1>2. /\ v \in Worlds /\ v.list = w.list /\ v.pool = w.pool /\ v.job = w.job
      /\ v.heard = w.heard /\ v.mem = w.mem
  BY <1>1 DEF Worlds
<1>3. Untouched(w, v)
  BY <1>2 DEF Untouched, Alike
<1> QED BY <1>1, <1>3

(* A job takes too long.                                                    *)
LEMMA JobDeadlineIs ==
    ASSUME NEW w \in Worlds, Sound(w, {}, {}), NEW j \in Jobs
    PROVE  Sound(JobDeadline(w, j), {}, {}) /\ Leads(w, JobDeadline(w, j))
<1> DEFINE r == [w.job[j] EXCEPT !.deadline = None]
           x == [w EXCEPT !.job[j].deadline = None]
           v == CancelJob(x, j)
           d == [w EXCEPT !.dead = TRUE]
<1>1. JobDeadline(w, j) = IF w.job[j].st \in {"run", "ended"} THEN v ELSE d
  BY DEF JobDeadline
<1>2. w.job[j] \in JobRec
  BY DEF Worlds
<1>3. r \in JobRec /\ r.csrc = w.job[j].csrc /\ r.st = w.job[j].st /\ r.deadline = None
  BY <1>2 DEF JobRec, None
<1>4. x = [w EXCEPT !.job[j] = r]
  OBVIOUS
<1> HIDE DEF r, x
<1>5. Rewritten(w, x, j, r) /\ x.heard = w.heard
  BY <1>3, <1>4, JobPut
<1>6. Sound(x, {}, {}) /\ Follows(w, x)
  <2>1. {} = {} \ {j}
    OBVIOUS
  <2> QED BY <1>3, <1>5, <2>1, RewrittenKeeps
<1>7. Leads(w, x) /\ x \in Worlds
  BY <1>5, <1>6 DEF Leads, Rewritten
<1>8. Sound(v, {}, {}) /\ Leads(x, v)
  BY <1>6, <1>7, CancelJobIs
<1>9. Sound(d, {}, {}) /\ Leads(w, d)
  BY DeadIs, UntouchedKeeps
<1>10. Leads(w, v)
  BY <1>7, <1>8, LeadsOn
<1> QED BY <1>1, <1>8, <1>9, <1>10

(* The next stage of a ladder.                                              *)
LEMMA ClimbIs ==
    ASSUME NEW w \in Worlds, Sound(w, {}, {}), NEW s \in DOMAIN w.mem, w.mem[s].cb = "ladder"
    PROVE  /\ Sound(Climb(w, s), {}, {}) /\ Leads(w, Climb(w, s))
           /\ DOMAIN Climb(w, s).mem = DOMAIN w.mem
<1> DEFINE child == w.mem[s].of
           last == w.mem[child].stage >= 2
           g == IF last THEN 3 ELSE 2
           r == [w.mem[child] EXCEPT !.stage = g]
           v == [w EXCEPT !.mem[child].stage = g]
           j == CHOOSE i \in Pid(w, child) : TRUE
           d == [v EXCEPT !.dead = TRUE]
           k == Send(v, j, "kill")
           p == w.mem[child].peer
           o == [k EXCEPT !.mem[p].timer = "off"]
<1>1. /\ child \in DOMAIN w.mem /\ p \in DOMAIN w.mem \cup {None}
      /\ w.mem[child].cb \in Child => w.mem[child].of \in Jobs
  BY DEF Sound, Refs
<1>2. Climb(w, s) = IF last THEN v ELSE IF Pid(w, child) = {} THEN d
                    ELSE IF p = None THEN k ELSE o
  BY DEF Climb
<1>3. Pid(w, child) # {} => j \in Jobs
  BY <1>1 DEF Pid, Child
<1>4. w.mem[child] \in SrcRec
  BY <1>1, MemOf DEF Sound
<1>5. g \in 0 .. 3
  OBVIOUS
<1> HIDE DEF g, j, p
<1>6. /\ r \in SrcRec /\ r.cb = w.mem[child].cb /\ r.of = w.mem[child].of
      /\ r.peer = w.mem[child].peer /\ r.removed = w.mem[child].removed
  BY <1>4, <1>5 DEF SrcRec
<1>7. v = [w EXCEPT !.mem[child] = r]
  OBVIOUS
<1> HIDE DEF r, v
<1>8. Untouched(w, v)
  <2>1. PICK c : c = child
    OBVIOUS
  <2>2. PICK u : u = [w EXCEPT !.mem[c] = r]
    OBVIOUS
  <2>3. /\ u \in Worlds /\ u.list = w.list /\ u.pool = w.pool /\ SameJobs(w, u)
        /\ DOMAIN u.mem = DOMAIN w.mem /\ u.mem[c] = r
        /\ \A t \in (DOMAIN w.mem \ {c}) : u.mem[t] = w.mem[t]
    BY <1>1, <1>6, <2>1, <2>2, MemPut
  <2>4. \A t \in DOMAIN w.mem : /\ u.mem[t].cb = w.mem[t].cb /\ u.mem[t].of = w.mem[t].of
                                /\ u.mem[t].peer = w.mem[t].peer
                                /\ u.mem[t].removed = w.mem[t].removed
    BY <1>6, <2>1, <2>3
  <2>5. Untouched(w, u)
    BY <2>3, <2>4 DEF Untouched, Alike, SameJobs
  <2> QED BY <1>7, <2>1, <2>2, <2>5
<1> HIDE DEF child
<1>9. v \in Worlds /\ DOMAIN v.mem = DOMAIN w.mem /\ Sound(v, {}, {}) /\ Leads(w, v)
  BY <1>8, UntouchedKeeps DEF Untouched
<1> HIDE DEF d, k, o
<1>10. Sound(d, {}, {}) /\ Leads(v, d) /\ DOMAIN d.mem = DOMAIN v.mem
  <2>1. Untouched(v, d)
    BY <1>9, DeadIs DEF d
  <2> QED BY <1>9, <2>1, UntouchedKeeps DEF Untouched
<1>11. Pid(w, child) # {} =>
          k \in Worlds /\ Sound(k, {}, {}) /\ Leads(v, k) /\ DOMAIN k.mem = DOMAIN v.mem
  <2>1. SUFFICES ASSUME Pid(w, child) # {}
                 PROVE  /\ k \in Worlds /\ Sound(k, {}, {}) /\ Leads(v, k)
                        /\ DOMAIN k.mem = DOMAIN v.mem
    OBVIOUS
  <2>2. Untouched(v, k)
    BY <1>3, <1>9, <2>1, SendIs DEF k
  <2> QED BY <1>9, <2>2, UntouchedKeeps DEF Untouched
<1>12. Pid(w, child) # {} /\ p # None =>
          Sound(o, {}, {}) /\ Leads(k, o) /\ DOMAIN o.mem = DOMAIN k.mem
  <2>1. SUFFICES ASSUME Pid(w, child) # {}, p # None
                 PROVE  Sound(o, {}, {}) /\ Leads(k, o) /\ DOMAIN o.mem = DOMAIN k.mem
    OBVIOUS
  <2>2. p \in DOMAIN k.mem
    BY <1>1, <1>9, <1>11, <2>1
  <2>3. Untouched(k, o)
    BY <1>11, <2>1, <2>2, TimerPut DEF o
  <2> QED BY <1>11, <2>1, <2>3, UntouchedKeeps DEF Untouched
<1>13. Leads(w, d) /\ (Pid(w, child) # {} => Leads(w, k))
       /\ (Pid(w, child) # {} /\ p # None => Leads(w, o))
  BY <1>9, <1>10, <1>11, <1>12, LeadsOn
<1> QED BY <1>2, <1>9, <1>10, <1>11, <1>12, <1>13

(* A timer that has fired is spent.                                         *)
LEMMA SpentIs ==
    ASSUME NEW w \in Worlds, Sound(w, {}, {}), NEW s \in DOMAIN w.mem
    PROVE  Sound(Spent(w, s), {}, {}) /\ Leads(w, Spent(w, s))
<1>1. PICK v : v = [w EXCEPT !.mem[s].timer = "off"]
  OBVIOUS
<1>2. Untouched(w, v)
  BY <1>1, TimerPut
<1> QED BY <1>1, <1>2, UntouchedKeeps DEF Spent

(* What was flagged goes to the pool.                                       *)
LEMMA ReapIs ==
    ASSUME NEW w \in Worlds, Sound(w, {}, {})
    PROVE  LET v == ReapRemoved(w) IN
           /\ v \in Worlds /\ Sound(v, {}, {}) /\ Linked(v) = ToSet(v.list) /\ SameJobs(w, v)
           /\ DOMAIN v.mem = DOMAIN w.mem
<1> DEFINE flagged == {s \in ToSet(w.list) : w.mem[s].removed}
           v == ReapRemoved(w)
<1>1. PICK F : F = flagged
  OBVIOUS
<1>2. PICK l : l = Filter(w.list, ToSet(w.list) \ F)
  OBVIOUS
<1>3. PICK f : f = Filter(w.list, F)
  OBVIOUS
<1>4. PICK p : p = Reverse(f) \o w.pool
  OBVIOUS
<1>5. v = [w EXCEPT !.list = l, !.pool = p]
  BY <1>1, <1>2, <1>3, <1>4 DEF ReapRemoved
<1>6. /\ w.list \in Seq(Nat) /\ w.pool \in Seq(Nat) /\ Once(w.list) /\ Once(w.pool)
      /\ ToSet(w.list) \cap ToSet(w.pool) = {}
      /\ ToSet(w.list) \cup ToSet(w.pool) = DOMAIN w.mem
  BY DEF Sound, Slots, Worlds
<1>7. l \in Seq(Nat) /\ ToSet(l) = ToSet(w.list) \ F /\ Once(l)
  <2>1. PICK S : S = ToSet(w.list) \ F
    OBVIOUS
  <2>2. l \in Seq(Nat \cap S) /\ ToSet(l) = ToSet(w.list) \cap S /\ Once(l)
    BY <1>2, <1>6, <2>1, FilterIs
  <2> QED BY <2>1, <2>2
<1>8. f \in Seq(Nat) /\ ToSet(f) = F /\ Once(f)
  <2>1. PICK q \in Seq(Nat) : q = w.list
    BY <1>6
  <2>2. Filter(q, F) \in Seq(Nat \cap F) /\ ToSet(Filter(q, F)) = ToSet(q) \cap F
        /\ (Once(q) => Once(Filter(q, F)))
    BY FilterIs
  <2>3. f \in Seq(Nat \cap F) /\ ToSet(f) = ToSet(q) \cap F /\ Once(f)
    BY <1>3, <1>6, <2>1, <2>2
  <2>4. ToSet(f) = F
    BY <1>1, <2>1, <2>3
  <2> QED BY <2>3, <2>4
<1>9. p \in Seq(Nat) /\ ToSet(p) = F \cup ToSet(w.pool) /\ Once(p)
  <2>1. PICK q : q = Reverse(f)
    OBVIOUS
  <2>2. q \in Seq(Nat) /\ ToSet(q) = F /\ Once(q)
    BY <1>8, <2>1, ReverseOf
  <2>3. ToSet(q) \cap ToSet(w.pool) = {}
    BY <1>1, <1>6, <2>2
  <2> QED BY <1>4, <1>6, <2>1, <2>2, <2>3, ConcatOf
<1> HIDE DEF v
<1>10. /\ v \in Worlds /\ v.mem = w.mem /\ v.list = l /\ v.pool = p /\ SameJobs(w, v)
  BY <1>5, <1>7, <1>9 DEF Worlds, SameJobs
<1>11. Linked(v) = Linked(w) /\ Linked(v) = ToSet(v.list)
  BY <1>1, <1>7, <1>10 DEF Linked
<1>12. Slots(v) /\ Refs(v)
  BY <1>1, <1>6, <1>7, <1>9, <1>10 DEF Slots, Sound, Refs
<1>13. Watched(v, {}) /\ Children(v, {}) /\ Deadlines(v, {})
  BY <1>10, <1>11, SameJobsSources DEF Sound, SameJobs
<1>14. Ladders(v)
  BY <1>10, <1>11 DEF Sound, Ladders
<1>15. Sound(v, {}, {})
  BY <1>12, <1>13, <1>14 DEF Sound
<1> QED BY <1>10, <1>11, <1>15 DEF v

(***************************************************************************)
(* The invariant.                                                          *)
(***************************************************************************)
(* The events that are still to be dispatched are of linked sources.        *)
Pending(bs, l) ==
    /\ bs \in Seq(Seq(Nat)) /\ Len(bs) <= 2
    /\ \A d \in 1 .. Len(bs) : ToSet(bs[d]) \subseteq ToSet(l) \cup {Input}

IInv ==
    /\ World \in Worlds /\ Sound(World, {}, {})
    /\ ~Dispatching => Linked(World) = ToSet(list)
    /\ Pending(batches, list)
    /\ nap \in DOMAIN mem \cup {None} /\ ops \in 0 .. MaxOps

(* A job that has ended or was dropped is not told of an exit.              *)
Told ==
    \A j \in Jobs : job[j].st \in {"ended", "waited", "dropped"} => heard'[j] = heard[j]

(* The fields of the world.                                                 *)
LEMMA WorldIs ==
    /\ World.mem = mem /\ World.list = list /\ World.pool = pool /\ World.job = job
    /\ World.proc = proc /\ World.sig = sig /\ World.heard = heard /\ World.dead = dead
BY DEF World

(* An operation on the world.                                               *)
LEMMA BecomesIs ==
    ASSUME NEW w \in Worlds, Becomes(w)
    PROVE  World' = w /\ list' = w.list /\ mem' = w.mem /\ heard' = w.heard
<1>1. World' = [mem |-> mem', list |-> list', pool |-> pool', job |-> job',
                proc |-> proc', sig |-> sig', heard |-> heard', dead |-> dead']
  BY DEF World
<1>2. World' = [mem |-> w.mem, list |-> w.list, pool |-> w.pool, job |-> w.job,
                proc |-> w.proc, sig |-> w.sig, heard |-> w.heard, dead |-> w.dead]
  BY <1>1 DEF Becomes
<1>3. w = [mem |-> w.mem, list |-> w.list, pool |-> w.pool, job |-> w.job,
           proc |-> w.proc, sig |-> w.sig, heard |-> w.heard, dead |-> w.dead]
  BY DEF Worlds
<1> QED BY <1>2, <1>3 DEF Becomes

(* The batch that runs is written, within or at the end of what was ready.  *)
LEMMA LaterIs ==
    ASSUME Pending(batches, list), Dispatching, NEW evs \in Seq(Nat), NEW l,
           ToSet(evs) \subseteq ToSet(l) \cup {Input}, ToSet(list) \subseteq ToSet(l)
    PROVE  Pending(Later(evs), l) /\ Later(evs) # <<>> /\ Len(Later(evs)) = Len(batches)
<1>1. PICK b \in Seq(Seq(Nat)) : b = batches
  BY DEF Pending
<1>2. /\ Len(b) \in Nat /\ Len(b) <= 2 /\ Len(b) >= 1
      /\ \A d \in 1 .. Len(b) : ToSet(b[d]) \subseteq ToSet(list) \cup {Input}
  BY <1>1 DEF Pending, Dispatching
<1>3. PICK n \in Nat : n = Len(b)
  BY <1>2
<1>4. PICK c : c = [b EXCEPT ![n] = evs]
  OBVIOUS
<1>5. n \in DOMAIN b /\ DOMAIN b = 1 .. n
  BY <1>2, <1>3
<1>6. /\ c \in Seq(Seq(Nat)) /\ DOMAIN c = DOMAIN b /\ c[n] = evs
      /\ \A t \in (DOMAIN b \ {n}) : c[t] = b[t]
  BY <1>4, <1>5, PutIs
<1>7. Len(c) = n
  BY <1>3, <1>5, <1>6
<1>8. \A d \in 1 .. Len(c) : ToSet(c[d]) \subseteq ToSet(l) \cup {Input}
  <2>1. TAKE d \in 1 .. Len(c)
  <2>2. CASE d = n
    BY <1>6, <2>2
  <2>3. CASE d # n
    BY <1>2, <1>3, <1>5, <1>6, <1>7, <2>3
  <2> QED BY <2>2, <2>3
<1>9. Later(evs) = c
  BY <1>1, <1>3, <1>4 DEF Later, Depth
<1>10. c # <<>>
  BY <1>2, <1>3, <1>7
<1> QED BY <1>1, <1>2, <1>3, <1>6, <1>7, <1>8, <1>9, <1>10 DEF Pending

(* The events of the batch that runs.                                       *)
LEMMA EventsIs ==
    ASSUME Pending(batches, list), Dispatching
    PROVE  Events \in Seq(Nat) /\ ToSet(Events) \subseteq ToSet(list) \cup {Input}
<1>1. PICK b \in Seq(Seq(Nat)) : b = batches
  BY DEF Pending
<1>2. Len(b) \in 1 .. Len(b)
  BY <1>1 DEF Dispatching
<1>3. Events = b[Len(b)]
  BY <1>1 DEF Events, Depth
<1> QED BY <1>1, <1>2, <1>3 DEF Pending

(* The first event of the batch that runs is dispatched.                    *)
LEMMA DispatchIs ==
    ASSUME IInv, NEW s, Dispatch(s), NEW l, ToSet(list) \subseteq ToSet(l)
    PROVE  /\ s \in ToSet(list) \cup {Input} /\ Dispatching
           /\ Pending(Later(Tail(Events)), l) /\ Later(Tail(Events)) # <<>>
           /\ Len(Later(Tail(Events))) = Len(batches)
<1>1. Dispatching /\ Events # <<>> /\ Head(Events) = s /\ Pending(batches, list)
  BY DEF Dispatch, IInv
<1>2. PICK e \in Seq(Nat) : e = Events /\ ToSet(e) \subseteq ToSet(list) \cup {Input}
  BY <1>1, EventsIs
<1>3. PICK t : t = Tail(e)
  OBVIOUS
<1>4. t \in Seq(Nat) /\ ToSet(e) = ToSet(t) \cup {s}
  BY <1>1, <1>2, <1>3, TailOf
<1>5. ToSet(t) \subseteq ToSet(l) \cup {Input}
  BY <1>2, <1>4
<1>6. Pending(Later(t), l) /\ Later(t) # <<>> /\ Len(Later(t)) = Len(batches)
  BY <1>1, <1>4, <1>5, LaterIs
<1> QED BY <1>1, <1>2, <1>3, <1>4, <1>6

(* A step that leads the world on, and whose batches are of what is linked. *)
LEMMA StepKeeps ==
    ASSUME IInv, NEW w, Becomes(w), w \in Worlds, Sound(w, {}, {}), Follows(World, w),
           Pending(batches', w.list), nap' \in DOMAIN w.mem \cup {None}, ops' \in 0 .. MaxOps,
           batches = <<>> \/ batches' # <<>>
    PROVE  IInv'
<1>1. World' = w /\ list' = w.list /\ mem' = w.mem
  BY BecomesIs
<1>2. batches' = <<>> => Linked(w) = ToSet(w.list)
  BY WorldIs DEF IInv, Follows, Dispatching
<1>3. IInv' = (/\ World' \in Worlds /\ Sound(World', {}, {})
               /\ batches' # <<>> \/ Linked(World') = ToSet(list')
               /\ Pending(batches', list')
               /\ nap' \in DOMAIN mem' \cup {None} /\ ops' \in 0 .. MaxOps)
  BY DEF IInv, Dispatching
<1> QED BY <1>1, <1>2, <1>3

(***************************************************************************)
(* The steps.                                                              *)
(***************************************************************************)
(* A step that tells no exit.                                               *)
Makes(w) == Becomes(w) /\ Sound(w, {}, {}) /\ Leads(World, w)

(* A step that tells no exit keeps the invariant.                           *)
LEMMA MakesKeeps ==
    ASSUME IInv, NEW w, Makes(w), Pending(batches', w.list),
           nap' \in DOMAIN w.mem \cup {None}, ops' \in 0 .. MaxOps,
           batches = <<>> \/ batches' # <<>>
    PROVE  IInv' /\ Told
<1>1. /\ w \in Worlds /\ Sound(w, {}, {}) /\ Follows(World, w) /\ Becomes(w)
      /\ w.heard = World.heard
  BY DEF Makes, Leads
<1>2. IInv'
  BY <1>1, StepKeeps
<1>3. heard' = heard
  BY <1>1, BecomesIs, WorldIs
<1> QED BY <1>2, <1>3 DEF Told

(* Slots are never lost, nor within a dispatch the sources.                 *)
LEMMA MakesIs ==
    ASSUME NEW w, Leads(World, w)
    PROVE  /\ w \in Worlds /\ DOMAIN mem \subseteq DOMAIN w.mem
           /\ Dispatching => ToSet(list) \subseteq ToSet(w.list)
BY WorldIs DEF Leads, Follows

(* Nothing happens to the world.                                            *)
LEMMA StayIs ==
    ASSUME IInv
    PROVE  Leads(World, World) /\ Sound(World, {}, {})
BY DEF Leads, Follows, IInv

(* A wait hands over what is ready.                                         *)
LEMMA ReceiveIs ==
    ASSUME IInv, NEW evs \in Seq(Nat), ToSet(evs) \subseteq ToSet(list) \cup {Input},
           Receive(evs)
    PROVE  Pending(batches', list) /\ batches' # <<>>
<1>1. CASE batches = <<>>
  <2>1. PICK c : c = <<evs>>
    OBVIOUS
  <2>2. c \in Seq(Seq(Nat)) /\ Len(c) = 1 /\ c[1] = evs /\ c # <<>>
    BY <2>1
  <2>3. Pending(c, list)
    BY <2>2 DEF Pending
  <2> QED BY <1>1, <2>1, <2>2, <2>3 DEF Receive
<1>2. CASE batches # <<>>
  <2>1. Pending(Later(evs), list) /\ Later(evs) # <<>>
    BY <1>2, LaterIs DEF IInv, Dispatching
  <2> QED BY <1>2, <2>1 DEF Receive
<1> QED BY <1>1, <1>2

(* The children that are known to have ended.                               *)
LEMMA ReapedIs ==
    ASSUME IInv, NEW m
    PROVE  Reaped(m) \in Seq(Nat) /\ ToSet(Reaped(m)) \subseteq ToSet(list)
<1>1. PICK S : S = {s \in ToSet(list) : m[s].reaped /\ ~m[s].removed}
  OBVIOUS
<1>2. PICK l \in Seq(Nat) : l = list
  BY WorldIs DEF IInv, Worlds
<1>3. Filter(l, S) \in Seq(Nat \cap S) /\ ToSet(Filter(l, S)) = ToSet(l) \cap S
  BY FilterIs
<1>4. Reaped(m) = Filter(l, S)
  BY <1>1, <1>2 DEF Reaped
<1> QED BY <1>2, <1>3, <1>4

(* A wait that finds children known to have ended.                          *)
LEMMA WaitKeeps ==
    ASSUME IInv, Wait
    PROVE  IInv' /\ Told
<1>1. Receive(Reaped(mem)) /\ UNCHANGED <<sources, nap, jobs, ops, dead>>
  BY DEF Wait
<1>2. Becomes(World)
  BY <1>1, WorldIs DEF Becomes, sources, jobs
<1>3. PICK e : e = Reaped(mem)
  OBVIOUS
<1>4. Pending(batches', list) /\ batches' # <<>>
  BY <1>1, <1>3, ReapedIs, ReceiveIs
<1>5. nap' \in DOMAIN World.mem \cup {None} /\ ops' \in 0 .. MaxOps /\ World.list = list
  BY <1>1, WorldIs DEF IInv
<1>6. Makes(World)
  BY <1>2, StayIs DEF Makes
<1>7. PICK w : w = World
  OBVIOUS
<1>8. /\ Makes(w) /\ Pending(batches', w.list) /\ batches' # <<>>
      /\ nap' \in DOMAIN w.mem \cup {None} /\ ops' \in 0 .. MaxOps
  BY <1>4, <1>5, <1>6, <1>7
<1> QED BY <1>8, MakesKeeps

(* A step that writes timers, or what is known of the processes.            *)
LEMMA WrittenIs ==
    ASSUME IInv, mem' \in Seq(SrcRec), DOMAIN mem' = DOMAIN mem,
           \A t \in DOMAIN mem : /\ mem'[t].cb = mem[t].cb /\ mem'[t].of = mem[t].of
                                 /\ mem'[t].peer = mem[t].peer
                                 /\ mem'[t].removed = mem[t].removed,
           proc' \in [Jobs -> {"none", "run", "zombie", "gone"}],
           UNCHANGED <<list, pool, job, sig, heard, dead>>
    PROVE  /\ Makes(World') /\ World'.list = list
           /\ DOMAIN World'.mem = DOMAIN mem
<1>1. PICK w : w = World'
  OBVIOUS
<1>2. w = [mem |-> mem', list |-> list, pool |-> pool, job |-> job,
           proc |-> proc', sig |-> sig, heard |-> heard, dead |-> dead]
  BY <1>1 DEF World
<1>3. /\ w.mem = mem' /\ w.list = list /\ w.pool = pool /\ w.job = job /\ w.proc = proc'
      /\ w.sig = sig /\ w.heard = heard /\ w.dead = dead
  BY <1>2
<1>4. /\ list \in Seq(Nat) /\ pool \in Seq(Nat) /\ job \in [Jobs -> JobRec]
      /\ sig \in [Jobs -> {"none", "term", "kill"}] /\ heard \in [Jobs -> Nat]
      /\ dead \in BOOLEAN
  BY WorldIs DEF IInv, Worlds
<1>5. w \in Worlds
  BY <1>2, <1>4 DEF Worlds
<1>6. Untouched(World, w)
  BY <1>3, <1>5, WorldIs DEF Untouched, Alike
<1>7. Sound(w, {}, {}) /\ Leads(World, w)
  BY <1>6, UntouchedKeeps DEF IInv
<1>8. Becomes(w)
  BY <1>3 DEF Becomes
<1> QED BY <1>1, <1>3, <1>7, <1>8 DEF Makes

(* The memory of the sources.                                               *)
LEMMA MemIs ==
    ASSUME IInv
    PROVE  /\ mem \in Seq(SrcRec) /\ Len(mem) \in Nat /\ DOMAIN mem = 1 .. Len(mem)
           /\ \A s \in DOMAIN mem : mem[s] \in SrcRec
           /\ ToSet(list) \subseteq DOMAIN mem
<1>1. World \in Worlds /\ Slots(World)
  BY DEF IInv, Sound
<1> QED BY <1>1, MemOf, WorldIs

(* A wait that reads timers and reaps children.                             *)
LEMMA PollKeeps ==
    ASSUME IInv, NEW typed, typed \subseteq {Input}, Poll(typed), ops' \in 0 .. MaxOps
    PROVE  IInv' /\ Told
<1> DEFINE ready == Ended \cup Due \cup typed
           read == [s \in Slot |->
                      IF s \in Due THEN [mem[s] EXCEPT !.timer = "read"]
                      ELSE IF s \in Ended THEN [mem[s] EXCEPT !.reaped = TRUE]
                      ELSE mem[s]]
<1>1. /\ mem' = read
      /\ \E order \in SetToSeqs(ready) : Receive(order \o Reaped(read))
      /\ proc' = [j \in Jobs |-> IF \E s \in Ended : mem[s].of = j
                               THEN "gone" ELSE proc[j]]
      /\ UNCHANGED <<list, pool, nap, job, sig, heard, dead>>
  BY DEF Poll
<1>2. /\ DOMAIN read = DOMAIN mem
      /\ \A t \in DOMAIN mem : /\ read[t] \in SrcRec
                               /\ read[t].cb = mem[t].cb /\ read[t].of = mem[t].of
                               /\ read[t].peer = mem[t].peer
                               /\ read[t].removed = mem[t].removed
  <2>1. DOMAIN read = DOMAIN mem
    BY DEF Slot
  <2>2. SUFFICES ASSUME NEW t \in DOMAIN mem
                 PROVE  /\ read[t] \in SrcRec
                        /\ read[t].cb = mem[t].cb /\ read[t].of = mem[t].of
                        /\ read[t].peer = mem[t].peer
                        /\ read[t].removed = mem[t].removed
    BY <2>1
  <2>3. PICK r : r = mem[t]
    OBVIOUS
  <2>4. r \in SrcRec
    BY <2>3, MemIs
  <2>5. read[t] = IF t \in Due THEN [r EXCEPT !.timer = "read"]
                  ELSE IF t \in Ended THEN [r EXCEPT !.reaped = TRUE] ELSE r
    BY <2>3 DEF Slot
  <2> HIDE DEF read
  <2> QED BY <2>3, <2>4, <2>5 DEF SrcRec
<1> HIDE DEF read
<1>3. read \in Seq(SrcRec)
  <2>1. PICK n \in Nat : DOMAIN mem = 1 .. n
    BY MemIs
  <2>2. mem' = read /\ read \in [1 .. n -> SrcRec]
    <3>1. read = [s \in 1 .. n |-> read[s]]
      BY <2>1 DEF read, Slot
    <3> QED BY <1>1, <1>2, <2>1, <3>1
  <2> QED BY <2>2
<1>4. proc' \in [Jobs -> {"none", "run", "zombie", "gone"}]
  <2>1. proc \in [Jobs -> {"none", "run", "zombie", "gone"}]
    BY WorldIs DEF IInv, Worlds
  <2> QED BY <1>1, <2>1
<1>5. Makes(World') /\ World'.list = list /\ DOMAIN World'.mem = DOMAIN mem
  BY <1>1, <1>2, <1>3, <1>4, WrittenIs
<1>6. IsFiniteSet(ready) /\ ready \subseteq Nat /\ ready \subseteq ToSet(list) \cup {Input}
  <2>1. ready \subseteq ToSet(list) \cup {Input}
    BY DEF Ended, Due
  <2>2. PICK n \in Nat : ToSet(list) \subseteq 1 .. n
    BY MemIs
  <2>3. \A t \in ready : t \in Nat /\ t <= n
    BY <2>1, <2>2 DEF Input
  <2> HIDE DEF ready
  <2>4. IsFiniteSet(ready)
    BY <2>3, FS_BoundedSetOfNaturals
  <2> QED BY <2>1, <2>3, <2>4
<1> HIDE DEF ready
<1>7. PICK order \in SetToSeqs(ready) : Receive(order \o Reaped(read))
  BY <1>1
<1>8. order \in Seq(Nat) /\ ToSet(order) \subseteq ToSet(list) \cup {Input}
  <2>1. PICK n \in Nat : n = Cardinality(ready)
    BY <1>6, FS_CardinalityType
  <2>2. order \in [1 .. n -> ready]
    BY <1>7, <2>1 DEF SetToSeqs
  <2>3. order \in [1 .. n -> Nat]
    BY <1>6, <2>2
  <2>4. order \in Seq(Nat)
    BY <2>3
  <2>5. \A i \in DOMAIN order : order[i] \in ready
    BY <2>2
  <2> QED BY <1>6, <2>4, <2>5 DEF ToSet
<1>9. PICK e : e = Reaped(read)
  OBVIOUS
<1>10. e \in Seq(Nat) /\ ToSet(e) \subseteq ToSet(list)
  BY <1>9, ReapedIs
<1>11. order \o e \in Seq(Nat) /\ ToSet(order \o e) \subseteq ToSet(list) \cup {Input}
  BY <1>8, <1>10, ConcatOf
<1>12. Pending(batches', list) /\ batches' # <<>>
  BY <1>7, <1>9, <1>11, ReceiveIs
<1>13. nap' \in DOMAIN mem \cup {None}
  BY <1>1 DEF IInv
<1>14. PICK w : w = World'
  OBVIOUS
<1>15. /\ Makes(w) /\ Pending(batches', w.list) /\ batches' # <<>>
       /\ nap' \in DOMAIN w.mem \cup {None} /\ ops' \in 0 .. MaxOps
  BY <1>5, <1>12, <1>13, <1>14
<1> QED BY <1>15, MakesKeeps

(* A wait that finds nothing sets the timers that were read.                *)
LEMMA RepairKeeps ==
    ASSUME IInv, Repair
    PROVE  IInv' /\ Told
<1>1. /\ mem' = [s \in Slot |-> IF mem[s].timer = "read"
                               THEN [mem[s] EXCEPT !.timer = "due"] ELSE mem[s]]
      /\ UNCHANGED <<list, pool, batches, nap, job, proc, sig, heard, ops, dead>>
  BY DEF Repair, jobs
<1>2. /\ DOMAIN mem' = DOMAIN mem
      /\ \A t \in DOMAIN mem : /\ mem'[t] \in SrcRec
                               /\ mem'[t].cb = mem[t].cb /\ mem'[t].of = mem[t].of
                               /\ mem'[t].peer = mem[t].peer
                               /\ mem'[t].removed = mem[t].removed
  <2>1. DOMAIN mem' = DOMAIN mem
    BY <1>1 DEF Slot
  <2>2. SUFFICES ASSUME NEW t \in DOMAIN mem
                 PROVE  /\ mem'[t] \in SrcRec
                        /\ mem'[t].cb = mem[t].cb /\ mem'[t].of = mem[t].of
                        /\ mem'[t].peer = mem[t].peer
                        /\ mem'[t].removed = mem[t].removed
    BY <2>1
  <2>3. PICK r : r = mem[t]
    OBVIOUS
  <2>4. r \in SrcRec
    BY <2>3, MemIs
  <2>5. mem'[t] = IF r.timer = "read" THEN [r EXCEPT !.timer = "due"] ELSE r
    BY <1>1, <2>3 DEF Slot
  <2> QED BY <2>3, <2>4, <2>5 DEF SrcRec
<1>3. mem' \in Seq(SrcRec)
  <2>1. PICK n \in Nat : DOMAIN mem = 1 .. n
    BY MemIs
  <2>2. PICK m : m = mem'
    OBVIOUS
  <2>3. m = [s \in 1 .. n |-> m[s]]
    BY <1>1, <2>1, <2>2 DEF Slot
  <2>4. m \in [1 .. n -> SrcRec]
    BY <1>2, <2>1, <2>2, <2>3
  <2> QED BY <2>2, <2>4
<1>4. proc' \in [Jobs -> {"none", "run", "zombie", "gone"}]
  BY <1>1, WorldIs DEF IInv, Worlds
<1>5. Makes(World') /\ World'.list = list /\ DOMAIN World'.mem = DOMAIN mem
  BY <1>1, <1>2, <1>3, <1>4, WrittenIs
<1>6. PICK w : w = World'
  OBVIOUS
<1>7. /\ Makes(w) /\ Pending(batches', w.list) /\ (batches = <<>> \/ batches' # <<>>)
      /\ nap' \in DOMAIN w.mem \cup {None} /\ ops' \in 0 .. MaxOps
  BY <1>1, <1>5, <1>6 DEF IInv
<1> QED BY <1>7, MakesKeeps

(* A step that only an operation on the world is of.                        *)
LEMMA OnlyKeeps ==
    ASSUME IInv, NEW w, Makes(w), batches = <<>>, batches' = batches, nap' = nap,
           ops' \in 0 .. MaxOps
    PROVE  IInv' /\ Told
<1>1. Pending(batches', w.list)
  BY DEF IInv, Pending
<1>2. nap' \in DOMAIN w.mem \cup {None}
  BY MakesIs DEF Makes, IInv
<1> QED BY <1>1, <1>2, MakesKeeps

(* A callback that tells no exit.                                           *)
LEMMA CallbackKeeps ==
    ASSUME IInv, NEW s, Dispatch(s), NEW w, Makes(w), batches' = Later(Tail(Events)),
           nap' \in {nap, None}, ops' = ops
    PROVE  IInv' /\ Told
<1>1. Dispatching
  BY DEF Dispatch
<1>2. /\ w \in Worlds /\ DOMAIN mem \subseteq DOMAIN w.mem
      /\ ToSet(list) \subseteq ToSet(w.list)
  BY <1>1, MakesIs DEF Makes
<1>3. PICK l : l = w.list
  OBVIOUS
<1>4. Pending(Later(Tail(Events)), l) /\ Later(Tail(Events)) # <<>>
  BY <1>2, <1>3, DispatchIs
<1>5. Pending(batches', w.list) /\ batches' # <<>>
  BY <1>3, <1>4
<1>6. nap' \in DOMAIN w.mem \cup {None} /\ ops' \in 0 .. MaxOps
  BY <1>2 DEF IInv
<1> QED BY <1>5, <1>6, MakesKeeps

(* An event of a source that was removed is skipped.                        *)
LEMMA SkipKeeps ==
    ASSUME IInv, NEW s \in Slot, Skip(s)
    PROVE  IInv' /\ Told
<1>1. Dispatch(s) /\ batches' = Later(Tail(Events)) /\ UNCHANGED <<sources, nap, jobs, ops, dead>>
  BY DEF Skip
<1>2. PICK w : w = World
  OBVIOUS
<1>3. Becomes(w)
  BY <1>1, <1>2, WorldIs DEF Becomes, sources, jobs
<1>4. Makes(w)
  BY <1>2, <1>3, StayIs DEF Makes
<1> QED BY <1>1, <1>4, CallbackKeeps

(* What the user asks for.                                                  *)
LEMMA AskedIs ==
    ASSUME IInv, NEW j \in Jobs, Asked(j)
    PROVE  \E w : Makes(w)
<1>1. PICK u : u = World
  OBVIOUS
<1>2. u \in Worlds /\ Sound(u, {}, {})
  BY <1>1 DEF IInv
<1>3. \/ Becomes(CancelJob(u, j))
      \/ Becomes(DiscardJob(u, j))
      \/ Becomes(DiscardJob(Send(u, j, "kill"), j))
  BY <1>1 DEF Asked
<1>4. CASE Becomes(CancelJob(u, j))
  BY <1>1, <1>2, <1>4, CancelJobIs DEF Makes
<1>5. CASE Becomes(DiscardJob(u, j))
  BY <1>1, <1>2, <1>5, DiscardJobIs DEF Makes
<1>6. CASE Becomes(DiscardJob(Send(u, j, "kill"), j))
  <2>1. PICK k : k = Send(u, j, "kill")
    OBVIOUS
  <2>2. Untouched(u, k)
    BY <1>2, <2>1, SendIs
  <2>3. k \in Worlds /\ Sound(k, {}, {}) /\ Leads(u, k)
    BY <1>2, <2>2, UntouchedKeeps DEF Untouched
  <2>4. Sound(DiscardJob(k, j), {}, {}) /\ Leads(k, DiscardJob(k, j))
    BY <2>3, DiscardJobIs
  <2>5. Leads(u, DiscardJob(k, j))
    BY <2>3, <2>4, LeadsOn
  <2> QED BY <1>1, <1>6, <2>1, <2>4, <2>5 DEF Makes
<1> QED BY <1>3, <1>4, <1>5, <1>6

(* The user asks for a job to stop or to go.                                *)
LEMMA DispatchInputKeeps ==
    ASSUME IInv, DispatchInput
    PROVE  IInv' /\ Told
<1>1. Dispatch(Input) /\ batches' = Later(Tail(Events)) /\ nap' = nap /\ ops' = ops
  BY DEF DispatchInput
<1>2. PICK w : Makes(w)
  <2>1. CASE Becomes(World)
    BY <2>1, StayIs DEF Makes
  <2>2. CASE \E j \in Jobs : Asked(j)
    BY <2>2, AskedIs
  <2> QED BY <2>1, <2>2 DEF DispatchInput
<1> QED BY <1>1, <1>2, CallbackKeeps

(* A turn submits a job.                                                    *)
LEMMA SubmitKeeps ==
    ASSUME IInv, NEW j \in Jobs, Submit(j)
    PROVE  IInv' /\ Told
<1>1. /\ batches = <<>> /\ batches' = batches /\ nap' = nap /\ ops' = ops
      /\ job[j].st = "none" /\ Becomes(Submitted(World, j))
  BY DEF Submit
<1>2. PICK u : u = World
  OBVIOUS
<1>3. u \in Worlds /\ Sound(u, {}, {}) /\ u.job[j].st = "none"
  BY <1>1, <1>2, WorldIs DEF IInv
<1>4. Makes(Submitted(u, j))
  BY <1>1, <1>2, <1>3, SubmittedIs DEF Makes
<1>5. PICK w : w = Submitted(u, j)
  OBVIOUS
<1>6. Makes(w) /\ ops' \in 0 .. MaxOps
  BY <1>1, <1>4, <1>5 DEF IInv
<1> QED BY <1>1, <1>6, OnlyKeeps

(* An interrupt releases what a turn owns.                                  *)
LEMMA ReleaseKeeps ==
    ASSUME IInv, NEW j \in Jobs, Release(j)
    PROVE  IInv' /\ Told
<1>1. /\ batches = <<>> /\ batches' = batches /\ nap' = nap
      /\ ops < MaxOps /\ ops' = ops + 1 /\ Asked(j)
  BY DEF Release
<1>2. PICK w : Makes(w)
  BY <1>1, AskedIs
<1>3. ops' \in 0 .. MaxOps
  BY <1>1, LoopAssumption DEF IInv
<1> QED BY <1>1, <1>2, <1>3, OnlyKeeps

(* A process ends.                                                          *)
LEMMA ProcessEndsKeeps ==
    ASSUME IInv, NEW j \in Jobs, ProcessEnds(j)
    PROVE  IInv' /\ Told
<1>1. /\ proc' = [proc EXCEPT ![j] = "zombie"]
      /\ UNCHANGED <<mem, list, pool, batches, nap, job, sig, heard, ops, dead>>
  BY DEF ProcessEnds, sources
<1>2. proc' \in [Jobs -> {"none", "run", "zombie", "gone"}]
  <2>1. proc \in [Jobs -> {"none", "run", "zombie", "gone"}]
    BY WorldIs DEF IInv, Worlds
  <2> QED BY <1>1, <2>1
<1>3. Makes(World') /\ World'.list = list /\ DOMAIN World'.mem = DOMAIN mem
  BY <1>1, <1>2, MemIs, WrittenIs
<1>4. PICK w : w = World'
  OBVIOUS
<1>5. /\ Makes(w) /\ Pending(batches', w.list) /\ (batches = <<>> \/ batches' # <<>>)
      /\ nap' \in DOMAIN w.mem \cup {None} /\ ops' \in 0 .. MaxOps
  BY <1>1, <1>3, <1>4 DEF IInv
<1> QED BY <1>5, MakesKeeps

(* A timer is due.                                                          *)
LEMMA TimerExpiresKeeps ==
    ASSUME IInv, NEW s \in Slot, TimerExpires(s)
    PROVE  IInv' /\ Told
<1>1. /\ mem' = [mem EXCEPT ![s].timer = "due"]
      /\ UNCHANGED <<list, pool, batches, nap, job, proc, sig, heard, ops, dead>>
  BY DEF TimerExpires, jobs
<1>2. PICK u : u = World
  OBVIOUS
<1>3. u \in Worlds /\ Sound(u, {}, {}) /\ s \in DOMAIN u.mem
  BY <1>2, WorldIs DEF IInv, Slot
<1>4. PICK w : w = [u EXCEPT !.mem[s].timer = "due"]
  OBVIOUS
<1>5. Untouched(u, w) /\ SameJobs(u, w)
  BY <1>3, <1>4, TimerPut
<1>6. Sound(w, {}, {}) /\ Leads(u, w)
  BY <1>3, <1>5, UntouchedKeeps
<1>7. w.mem = mem' /\ w.list = list /\ w.pool = pool
  <2>1. w.mem = [u.mem EXCEPT ![s].timer = "due"]
    BY <1>3, <1>4 DEF Worlds
  <2> QED BY <1>1, <1>2, <1>5, <2>1, WorldIs DEF Untouched
<1>8. Becomes(w)
  BY <1>1, <1>2, <1>5, <1>7, WorldIs DEF Becomes, SameJobs
<1>9. DOMAIN w.mem = DOMAIN mem
  BY <1>2, <1>5, WorldIs DEF Untouched
<1>10. /\ Makes(w) /\ Pending(batches', w.list) /\ (batches = <<>> \/ batches' # <<>>)
       /\ nap' \in DOMAIN w.mem \cup {None} /\ ops' \in 0 .. MaxOps
  BY <1>1, <1>2, <1>6, <1>7, <1>8, <1>9 DEF IInv, Makes
<1> QED BY <1>10, MakesKeeps

(* A discard has waited for its process.                                    *)
LEMMA WaitedForKeeps ==
    ASSUME IInv, NEW j \in Jobs, WaitedFor(j)
    PROVE  IInv' /\ Told
<1> DEFINE r == [job[j] EXCEPT !.st = "dropped"]
<1>1. /\ job[j].st = "waited"
      /\ proc' = [proc EXCEPT ![j] = "gone"] /\ job' = [job EXCEPT ![j] = r]
      /\ UNCHANGED <<mem, list, pool, batches, nap, sig, heard, ops, dead>>
  BY DEF WaitedFor, sources
<1>2. PICK u : u = World
  OBVIOUS
<1>3. /\ u \in Worlds /\ Sound(u, {}, {}) /\ u.mem = mem /\ u.list = list /\ u.pool = pool
      /\ u.job = job /\ u.proc = proc /\ u.sig = sig /\ u.heard = heard /\ u.dead = dead
  BY <1>2, WorldIs DEF IInv
<1>4. u.job[j].st # "run" /\ u.job[j] \in JobRec
  BY <1>1, <1>3 DEF Worlds
<1>5. u.job[j].csrc = None
  BY <1>3, <1>4 DEF Sound, Children, Watched
<1>6. Sound(u, {j}, {})
  <2>1. Watched(u, {j})
    BY <1>3, <1>4 DEF Sound, Watched
  <2>2. Children(u, {j})
    BY <1>3 DEF Sound, Children
  <2> QED BY <1>3, <2>1, <2>2 DEF Sound
<1>7. r \in JobRec /\ r.csrc = None /\ r.deadline = u.job[j].deadline
  BY <1>3, <1>4, <1>5 DEF JobRec
<1> HIDE DEF r
<1>8. /\ job' \in [Jobs -> JobRec] /\ job'[j] = r
      /\ \A k \in (Jobs \ {j}) : job'[k] = u.job[k]
  BY <1>1, <1>3, <1>7 DEF Worlds
<1>9. proc' \in [Jobs -> {"none", "run", "zombie", "gone"}]
  <2>1. proc \in [Jobs -> {"none", "run", "zombie", "gone"}]
    BY <1>3 DEF Worlds
  <2> QED BY <1>1, <2>1
<1>10. PICK w : w = World'
  OBVIOUS
<1>11. w = [mem |-> mem, list |-> list, pool |-> pool, job |-> job',
            proc |-> proc', sig |-> sig, heard |-> heard, dead |-> dead]
  BY <1>1, <1>10 DEF World
<1>12. /\ w.mem = mem /\ w.list = list /\ w.pool = pool /\ w.job = job' /\ w.proc = proc'
       /\ w.sig = sig /\ w.heard = heard /\ w.dead = dead
  BY <1>11
<1>13. w \in Worlds
  BY <1>3, <1>8, <1>9, <1>11 DEF Worlds
<1>14. Rewritten(u, w, j, r)
  BY <1>3, <1>8, <1>12, <1>13 DEF Rewritten
<1>15. Sound(w, {}, {}) /\ Follows(u, w)
  <2>1. {} = {j} \ {j} /\ j \in {j}
    OBVIOUS
  <2> QED BY <1>3, <1>6, <1>7, <1>14, <2>1, RewrittenKeeps
<1>16. Becomes(w)
  BY <1>1, <1>12 DEF Becomes
<1>17. Makes(w)
  BY <1>2, <1>3, <1>12, <1>13, <1>15, <1>16 DEF Makes, Leads
<1>18. /\ Makes(w) /\ Pending(batches', w.list) /\ (batches = <<>> \/ batches' # <<>>)
       /\ nap' \in DOMAIN w.mem \cup {None} /\ ops' \in 0 .. MaxOps
  BY <1>1, <1>12, <1>17 DEF IInv
<1> QED BY <1>18, MakesKeeps

(* The end of a batch: of the outermost, what was flagged is freed.         *)
LEMMA EndBatchKeeps ==
    ASSUME IInv, EndBatch
    PROVE  IInv' /\ Told
<1>1. /\ Dispatching /\ batches' = Front(batches) /\ nap' = nap /\ ops' = ops
      /\ \/ Depth = 1 /\ Becomes(ReapRemoved(World))
         \/ Depth = 2 /\ Becomes(World)
  BY DEF EndBatch
<1>2. PICK u : u = World
  OBVIOUS
<1>3. /\ u \in Worlds /\ Sound(u, {}, {}) /\ u.mem = mem /\ u.list = list
      /\ u.heard = heard
  BY <1>2, WorldIs DEF IInv
<1>4. PICK b \in Seq(Seq(Nat)) : b = batches
  BY DEF IInv, Pending
<1>5. PICK f : f = SubSeq(b, 1, Len(b) - 1)
  OBVIOUS
<1>6. batches' = f
  BY <1>1, <1>4, <1>5 DEF Front
<1>7. CASE Depth = 1 /\ Becomes(ReapRemoved(u))
  <2>1. f = <<>>
    <3>1. Len(b) = 1
      BY <1>4, <1>7 DEF Depth
    <3> QED BY <1>5, <3>1
  <2>2. PICK v : v = ReapRemoved(u)
    OBVIOUS
  <2>3. /\ v \in Worlds /\ Sound(v, {}, {}) /\ Linked(v) = ToSet(v.list) /\ SameJobs(u, v)
        /\ DOMAIN v.mem = DOMAIN u.mem
    BY <1>3, <2>2, ReapIs
  <2>4. World' = v /\ list' = v.list /\ mem' = v.mem /\ heard' = v.heard
    BY <1>7, <2>2, <2>3, BecomesIs
  <2>5. Pending(f, v.list)
    BY <2>1 DEF Pending
  <2>6. v.heard = heard
    BY <1>3, <2>3 DEF SameJobs
  <2>7. nap' \in DOMAIN mem' \cup {None} /\ ops' \in 0 .. MaxOps
    BY <1>1, <1>3, <2>3, <2>4 DEF IInv
  <2>8. Sound(World', {}, {}) /\ World' \in Worlds /\ Linked(World') = ToSet(list')
        /\ Pending(batches', list')
    BY <1>6, <2>3, <2>4, <2>5
  <2>9. IInv' = (/\ World' \in Worlds /\ Sound(World', {}, {})
                 /\ batches' # <<>> \/ Linked(World') = ToSet(list')
                 /\ Pending(batches', list')
                 /\ nap' \in DOMAIN mem' \cup {None} /\ ops' \in 0 .. MaxOps)
    BY DEF IInv, Dispatching
  <2> QED BY <2>4, <2>6, <2>7, <2>8, <2>9 DEF Told
<1>8. CASE Depth = 2 /\ Becomes(u)
  <2>1. Len(b) = 2
    BY <1>4, <1>8 DEF Depth
  <2>2. f \in Seq(Seq(Nat)) /\ Len(f) = 1 /\ f[1] = b[1]
    BY <1>5, <2>1
  <2>3. Pending(f, list) /\ f # <<>>
    <3>1. ToSet(b[1]) \subseteq ToSet(list) \cup {Input}
      BY <1>4, <2>1 DEF IInv, Pending
    <3>2. \A d \in 1 .. Len(f) : f[d] = b[1]
      BY <2>2
    <3>3. Len(f) <= 2
      BY <2>2
    <3>4. f # <<>>
      <4>1. 1 \in 1 .. Len(f)
        BY <2>2
      <4> QED BY <4>1
    <3> QED BY <2>2, <3>1, <3>2, <3>3, <3>4 DEF Pending
  <2>4. Makes(u)
    BY <1>2, <1>8, StayIs DEF Makes
  <2>5. /\ Pending(batches', u.list) /\ (batches = <<>> \/ batches' # <<>>)
        /\ nap' \in DOMAIN u.mem \cup {None} /\ ops' \in 0 .. MaxOps
    BY <1>1, <1>3, <1>6, <2>3 DEF IInv
  <2> QED BY <2>4, <2>5, MakesKeeps
<1> QED BY <1>1, <1>2, <1>7, <1>8

(* The source of an event that is dispatched.                               *)
LEMMA LiveIs ==
    ASSUME IInv, NEW s \in Slot, Dispatch(s), s # Input, Live(s)
    PROVE  s \in Linked(World) /\ s \in ToSet(list) /\ s \in DOMAIN mem
<1>1. s \in ToSet(list)
  BY DispatchIs
<1> QED BY <1>1, WorldIs DEF Linked, Live, Slot

(* A ladder, a time limit or the timer of a wait fires.                     *)
LEMMA DispatchTimerKeeps ==
    ASSUME IInv, NEW s \in Slot, DispatchTimer(s)
    PROVE  IInv' /\ Told
<1>1. /\ Dispatch(s) /\ s # Input /\ Live(s) /\ batches' = Later(Tail(Events)) /\ ops' = ops
      /\ \/ mem[s].cb = "ladder" /\ Becomes(Spent(Climb(World, s), s)) /\ nap' = nap
         \/ mem[s].cb = "deadline" /\ nap' = nap
            /\ Becomes(Spent(JobDeadline(World, mem[s].of), s))
         \/ mem[s].cb = "tick" /\ Becomes(SourceRemove(World, s)) /\ nap' = None
  BY DEF DispatchTimer
<1>2. PICK u : u = World
  OBVIOUS
<1>3. /\ u \in Worlds /\ Sound(u, {}, {}) /\ u.mem = mem /\ u.list = list
  BY <1>2, WorldIs DEF IInv
<1>4. s \in Linked(u) /\ s \in ToSet(u.list) /\ s \in DOMAIN u.mem
  BY <1>1, <1>2, <1>3, LiveIs
<1>5. CASE u.mem[s].cb = "ladder" /\ Becomes(Spent(Climb(u, s), s)) /\ nap' = nap
  <2>1. PICK v : v = Climb(u, s)
    OBVIOUS
  <2>2. Sound(v, {}, {}) /\ Leads(u, v) /\ DOMAIN v.mem = DOMAIN u.mem
    BY <1>3, <1>4, <1>5, <2>1, ClimbIs
  <2>3. PICK w : w = Spent(v, s)
    OBVIOUS
  <2>4. Sound(w, {}, {}) /\ Leads(v, w)
    BY <1>4, <2>2, <2>3, SpentIs DEF Leads
  <2>5. Makes(w)
    BY <1>2, <1>5, <2>1, <2>2, <2>3, <2>4, LeadsOn DEF Makes
  <2> QED BY <1>1, <1>5, <2>5, CallbackKeeps
<1>6. CASE u.mem[s].cb = "deadline" /\ nap' = nap
           /\ Becomes(Spent(JobDeadline(u, u.mem[s].of), s))
  <2>1. PICK j : j = u.mem[s].of
    OBVIOUS
  <2>2. j \in Jobs
    BY <1>3, <1>4, <1>6, <2>1 DEF Sound, Refs
  <2>3. PICK v : v = JobDeadline(u, j)
    OBVIOUS
  <2>4. Sound(v, {}, {}) /\ Leads(u, v)
    BY <1>3, <2>2, <2>3, JobDeadlineIs
  <2>5. v \in Worlds /\ s \in DOMAIN v.mem
    BY <1>4, <2>4 DEF Leads, Follows
  <2>6. PICK w : w = Spent(v, s)
    OBVIOUS
  <2>7. Sound(w, {}, {}) /\ Leads(v, w)
    BY <2>4, <2>5, <2>6, SpentIs
  <2>8. Makes(w)
    BY <1>2, <1>6, <2>1, <2>3, <2>4, <2>6, <2>7, LeadsOn DEF Makes
  <2> QED BY <1>1, <1>6, <2>8, CallbackKeeps
<1>7. CASE u.mem[s].cb = "tick" /\ Becomes(SourceRemove(u, s)) /\ nap' = None
  <2>1. PICK w : w = SourceRemove(u, s)
    OBVIOUS
  <2>2. \A t \in Linked(u) : u.mem[t].cb = "term" => u.mem[t].peer # s
    <3>1. s # None
      BY <1>3, <1>4, MemOf DEF Sound
    <3> QED BY <1>3, <1>7, <3>1 DEF Sound, Ladders
  <2>3. Sound(w, {}, {}) /\ Leads(u, w)
    BY <1>3, <1>4, <1>7, <2>1, <2>2, DropTimer
  <2>4. Makes(w)
    BY <1>2, <1>7, <2>1, <2>3 DEF Makes
  <2> QED BY <1>1, <1>7, <2>4, CallbackKeeps
<1> QED BY <1>1, <1>2, <1>3, <1>5, <1>6, <1>7

(* The exit of a job: its child source is withdrawn, then its ladder and    *)
(* its time limit go, then it is told.                                      *)
LEMMA ExitedIs ==
    ASSUME IInv, Dispatching, NEW s \in Linked(World), mem[s].cb \in Child
    PROVE  /\ Sound(Exited(s), {}, {}) /\ Follows(World, Exited(s)) /\ Exited(s) \in Worlds
           /\ mem[s].of \in Jobs /\ job[mem[s].of].st = "run"
           /\ \A k \in (Jobs \ {mem[s].of}) :
                  Exited(s).heard[k] = heard[k] /\ Exited(s).job[k] = job[k]
<1>1. PICK w : w = World
  OBVIOUS
<1>2. /\ w \in Worlds /\ Sound(w, {}, {}) /\ w.mem = mem /\ w.job = job /\ w.heard = heard
      /\ s \in Linked(w)
  BY <1>1, WorldIs DEF IInv
<1>3. PICK j : j = w.mem[s].of
  OBVIOUS
<1>4. /\ s \in DOMAIN w.mem /\ w.mem[s] \in SrcRec /\ s \in ToSet(w.list)
      /\ ToSet(w.list) \subseteq DOMAIN w.mem
  BY <1>2, MemOf DEF Sound, Linked
<1>5. j \in Jobs /\ w.job[j].st = "run" /\ w.job[j].csrc = s
  BY <1>2, <1>3, <1>4 DEF Sound, Refs, Watched
<1> DEFINE r == [w.mem[s] EXCEPT !.removed = TRUE]
           x == [w EXCEPT !.mem[s].removed = TRUE]
           y == IF w.mem[s].cb = "term" THEN SourceRemove(x, w.mem[s].peer) ELSE x
           v == JobChild(y, j)
<1>6. Exited(s) = v
  BY <1>1, <1>2, <1>3 DEF Exited, Withdrawn
<1>7. /\ r \in SrcRec /\ r.cb = w.mem[s].cb /\ r.of = w.mem[s].of /\ r.peer = w.mem[s].peer
      /\ r.removed
  BY <1>4 DEF SrcRec
<1>8. x = [w EXCEPT !.mem[s] = r]
  OBVIOUS
<1> HIDE DEF r, x
<1>9. /\ x \in Worlds /\ x.list = w.list /\ x.pool = w.pool /\ SameJobs(w, x)
      /\ DOMAIN x.mem = DOMAIN w.mem /\ x.mem[s] = r
      /\ \A t \in (DOMAIN w.mem \ {s}) : x.mem[t] = w.mem[t]
  BY <1>2, <1>4, <1>7, <1>8, MemPut
<1>10. Alike(w, x)
  <2>1. \A t \in DOMAIN w.mem :
            x.mem[t].cb = w.mem[t].cb /\ x.mem[t].of = w.mem[t].of /\ x.mem[t].peer = w.mem[t].peer
    BY <1>7, <1>9
  <2> QED BY <2>1 DEF Alike
<1>11. Linked(x) = Linked(w) \ {s}
  BY <1>4, <1>7, <1>9 DEF Linked
<1>12. Without(w, x, s)
  <2>1. Slots(x)
    BY <1>2, <1>9 DEF Sound, Slots
  <2>2. Follows(w, x)
    BY <1>9 DEF Follows
  <2> QED BY <1>9, <1>10, <1>11, <2>1, <2>2 DEF Without
<1>13. Sound(x, {j}, {}) /\ Leads(w, x)
  <2>1. PICK C : C = {j}
    OBVIOUS
  <2>2. PICK E : E = {}
    OBVIOUS
  <2>3. E \subseteq C /\ E \subseteq E /\ Sound(w, E, E)
    BY <1>2, <2>2
  <2>4. \A t \in Linked(x) : w.mem[t].cb \in Child => w.mem[t].of \notin C
    BY <1>2, <1>5, <1>11, <2>1 DEF Sound, Watched
  <2>5. \A k \in (Jobs \ C) : w.job[k].csrc = s => s = None
    BY <1>2, <1>3, <2>1 DEF Sound, Children
  <2>6. \A k \in (Jobs \ E) : w.job[k].deadline = s => s = None
    BY <1>1, <1>2, <2>2 DEF Sound, Deadlines, Child
  <2>7. \A t \in Linked(x) : w.mem[t].cb = "term" /\ w.mem[t].peer = s => s = None
    BY <1>1, <1>2, <1>11 DEF Sound, Ladders, Child
  <2>8. Sound(x, C, E) /\ Leads(w, x)
    BY <1>2, <1>12, <2>3, <2>4, <2>5, <2>6, <2>7, WithoutKeeps
  <2> QED BY <2>1, <2>2, <2>8
<1>14. Sound(y, {j}, {}) /\ Leads(w, y) /\ SameJobs(w, y)
  <2>1. CASE w.mem[s].cb # "term"
    BY <1>9, <1>13, <2>1
  <2>2. CASE w.mem[s].cb = "term"
    <3>1. PICK p : p = w.mem[s].peer
      OBVIOUS
    <3>2. p # None => p \in Linked(w) /\ w.mem[p].cb = "ladder" /\ w.mem[p].of = s
      BY <1>2, <2>2, <3>1 DEF Sound, Ladders
    <3>3. p \in ToSet(x.list) \cup {None}
      BY <1>9, <3>2 DEF Linked
    <3>4. p # None => x.mem[p].cb \in {"ladder", "tick"}
      <4>1. p # None => p \in DOMAIN w.mem /\ p # s
        BY <1>4, <2>2, <3>2 DEF Linked
      <4> QED BY <1>9, <3>2, <4>1
    <3>5. p # None => \A t \in Linked(x) : x.mem[t].cb = "term" => x.mem[t].peer # p
      <4>1. SUFFICES ASSUME p # None, NEW t \in Linked(x), x.mem[t].cb = "term",
                            x.mem[t].peer = p
                     PROVE  FALSE
        OBVIOUS
      <4>2. t \in Linked(w) /\ t # s /\ t \in DOMAIN w.mem
        BY <1>4, <1>11, <4>1 DEF Linked
      <4>3. w.mem[t].cb = "term" /\ w.mem[t].peer = p
        BY <1>9, <4>1, <4>2
      <4>4. w.mem[p].of = t
        BY <1>2, <4>1, <4>2, <4>3 DEF Sound, Ladders
      <4> QED BY <3>2, <4>1, <4>2, <4>4
    <3>6. PICK z : z = SourceRemove(x, p)
      OBVIOUS
    <3>7. Sound(z, {j}, {}) /\ Leads(x, z) /\ SameJobs(x, z)
      BY <1>9, <1>13, <3>3, <3>4, <3>5, <3>6, DropTimer
    <3>8. y = z
      BY <2>2, <3>1, <3>6
    <3> HIDE DEF y
    <3>9. Leads(w, z)
      BY <1>13, <3>7, LeadsOn
    <3>10. SameJobs(w, z)
      BY <1>9, <3>7 DEF SameJobs
    <3> QED BY <3>7, <3>8, <3>9, <3>10
  <2> QED BY <2>1, <2>2
<1> HIDE DEF y
<1>15. y \in Worlds /\ y.job = w.job /\ y.heard = w.heard
  BY <1>14 DEF Leads, SameJobs
<1>16. /\ Sound(v, {}, {}) /\ Follows(y, v) /\ v \in Worlds
       /\ \A k \in (Jobs \ {j}) : v.heard[k] = y.heard[k] /\ v.job[k] = y.job[k]
  BY <1>5, <1>14, <1>15, JobChildIs
<1> HIDE DEF v
<1>17. Follows(w, v)
  BY <1>14, <1>16 DEF Leads, Follows
<1> QED BY <1>1, <1>2, <1>3, <1>5, <1>6, <1>15, <1>16, <1>17

(* A nested loop begins, with nothing to dispatch.                          *)
LEMMA NestedIs ==
    ASSUME NEW l, NEW b, Pending(b, l), Len(b) = 1
    PROVE  Pending(Append(b, <<>>), l) /\ Append(b, <<>>) # <<>>
<1>1. b \in Seq(Seq(Nat)) /\ ToSet(b[1]) \subseteq ToSet(l) \cup {Input}
  BY DEF Pending
<1>2. PICK e : e = <<>>
  OBVIOUS
<1>3. e \in Seq(Nat) /\ ToSet(e) = {}
  BY <1>2 DEF ToSet
<1>4. PICK c : c = Append(b, e)
  OBVIOUS
<1>5. c \in Seq(Seq(Nat)) /\ Len(c) = 2 /\ c[1] = b[1] /\ c[2] = e
  <2>1. PICK T : T = Seq(Nat)
    OBVIOUS
  <2>2. b \in Seq(T) /\ e \in T
    BY <1>1, <1>3, <2>1
  <2>3. c \in Seq(T) /\ Len(c) = Len(b) + 1 /\ c[Len(b) + 1] = e
        /\ \A d \in 1 .. Len(b) : c[d] = b[d]
    BY <1>4, <2>2, AppendIs
  <2> QED BY <2>1, <2>3
<1>6. \A d \in 1 .. Len(c) : ToSet(c[d]) \subseteq ToSet(l) \cup {Input}
  <2>1. \A d \in 1 .. Len(c) : d = 1 \/ d = 2
    BY <1>5
  <2> QED BY <1>1, <1>3, <1>5, <2>1
<1>7. c # <<>>
  BY <1>5
<1>8. Pending(c, l)
  BY <1>5, <1>6 DEF Pending
<1> QED BY <1>2, <1>4, <1>7, <1>8

(* The exit of a job is told, and its group goes on.                        *)
LEMMA DispatchChildKeeps ==
    ASSUME IInv, NEW s \in Slot, DispatchChild(s)
    PROVE  IInv' /\ Told
<1>1. /\ Dispatch(s) /\ s # Input /\ Live(s) /\ mem[s].cb \in Child /\ ops' = ops
      /\ \/ Becomes(Exited(s)) /\ batches' = Later(Tail(Events)) /\ nap' = nap
         \/ /\ \E j \in Jobs : job[j].st = "none" /\ Becomes(Submitted(Exited(s), j))
            /\ batches' = Later(Tail(Events)) /\ nap' = nap
         \/ /\ Depth = 1 /\ Becomes(AddTimer(Exited(s), "tick", None))
            /\ nap' = NextSlot(Exited(s)) /\ batches' = Append(Later(Tail(Events)), <<>>)
  BY DEF DispatchChild, Child
<1>2. s \in Linked(World) /\ Dispatching
  BY <1>1, LiveIs DEF Dispatch
<1>3. PICK x : x = Exited(s)
  OBVIOUS
<1>4. PICK i : i = mem[s].of
  OBVIOUS
<1>5. /\ Sound(x, {}, {}) /\ Follows(World, x) /\ x \in Worlds
      /\ i \in Jobs /\ job[i].st = "run"
      /\ \A k \in (Jobs \ {i}) : x.heard[k] = heard[k] /\ x.job[k] = job[k]
  BY <1>1, <1>2, <1>3, <1>4, ExitedIs
<1>6. \A w : Leads(x, w) =>
        /\ w \in Worlds /\ Follows(World, w) /\ w.heard = x.heard
        /\ DOMAIN mem \subseteq DOMAIN w.mem /\ ToSet(list) \subseteq ToSet(w.list)
  BY <1>2, <1>5, WorldIs DEF Leads, Follows
<1>7. ASSUME NEW w, Leads(x, w), Becomes(w), Sound(w, {}, {}), Pending(batches', w.list),
             batches' # <<>>, nap' \in DOMAIN w.mem \cup {None}
      PROVE  IInv' /\ Told
  <2>1. ops' \in 0 .. MaxOps
    BY <1>1 DEF IInv
  <2>2. IInv'
    BY <1>6, <1>7, <2>1, StepKeeps
  <2>3. heard' = x.heard
    BY <1>6, <1>7, BecomesIs
  <2>4. Told
    BY <1>5, <2>3 DEF Told
  <2> QED BY <2>2, <2>4
<1>8. ASSUME NEW w, Leads(x, w), Becomes(w), Sound(w, {}, {}),
             batches' = Later(Tail(Events)), nap' = nap
      PROVE  IInv' /\ Told
  <2>1. PICK l : l = w.list
    OBVIOUS
  <2>2. Pending(batches', l) /\ batches' # <<>>
    BY <1>1, <1>6, <1>8, <2>1, DispatchIs
  <2>3. nap' \in DOMAIN w.mem \cup {None}
    BY <1>6, <1>8 DEF IInv
  <2> QED BY <1>7, <1>8, <2>1, <2>2, <2>3
<1>9. Leads(x, x)
  BY <1>5 DEF Leads, Follows
<1>10. CASE Becomes(x) /\ batches' = Later(Tail(Events)) /\ nap' = nap
  BY <1>5, <1>8, <1>9, <1>10
<1>11. CASE /\ \E j \in Jobs : job[j].st = "none" /\ Becomes(Submitted(x, j))
            /\ batches' = Later(Tail(Events)) /\ nap' = nap
  <2>1. PICK j \in Jobs : job[j].st = "none" /\ Becomes(Submitted(x, j))
    BY <1>11
  <2>2. x.job[j].st = "none"
    BY <1>5, <2>1
  <2>3. PICK w : w = Submitted(x, j)
    OBVIOUS
  <2>4. Sound(w, {}, {}) /\ Leads(x, w)
    BY <1>5, <2>2, <2>3, SubmittedIs
  <2> QED BY <1>8, <1>11, <2>1, <2>3, <2>4
<1>12. CASE /\ Depth = 1 /\ Becomes(AddTimer(x, "tick", None))
            /\ nap' = NextSlot(x) /\ batches' = Append(Later(Tail(Events)), <<>>)
  <2>1. PICK w : w = AddTimer(x, "tick", None)
    OBVIOUS
  <2>2. PICK n : n = NextSlot(x)
    OBVIOUS
  <2>3. Sound(w, {}, {}) /\ Leads(x, w) /\ n \in Linked(w)
    <3>1. None \in Nat
      BY DEF None
    <3> QED BY <1>5, <2>1, <2>2, <3>1, AddTimerIs
  <2>4. n \in DOMAIN w.mem
    BY <2>3 DEF Sound, Slots, Linked
  <2>5. PICK l : l = w.list
    OBVIOUS
  <2>6. PICK b : b = Later(Tail(Events))
    OBVIOUS
  <2>7. Pending(b, l) /\ Len(b) = 1
    BY <1>1, <1>6, <1>12, <2>3, <2>5, <2>6, DispatchIs DEF Depth
  <2>8. Pending(batches', l) /\ batches' # <<>>
    BY <1>12, <2>6, <2>7, NestedIs
  <2> QED BY <1>7, <1>12, <2>1, <2>2, <2>3, <2>4, <2>5, <2>8
<1> QED BY <1>1, <1>3, <1>10, <1>11, <1>12

(* At the start there are no sources, and no job has started.               *)
LEMMA InitInv == Init => IInv
<1>1. SUFFICES ASSUME Init PROVE IInv
  OBVIOUS
<1>2. PICK e : e = <<>>
  OBVIOUS
<1>3. /\ e \in Seq(SrcRec) /\ e \in Seq(Nat) /\ e \in Seq(Seq(Nat)) /\ Len(e) = 0
      /\ DOMAIN e = {} /\ ToSet(e) = {} /\ Once(e)
  BY <1>2 DEF ToSet, Once
<1>4. PICK w : w = World
  OBVIOUS
<1>5. /\ w.mem = e /\ w.list = e /\ w.pool = e /\ w.job = [j \in Jobs |-> NoJob]
      /\ batches = e /\ nap = None /\ ops = 0 /\ list = e
  BY <1>1, <1>2, <1>4, WorldIs DEF Init
<1>6. NoJob \in JobRec /\ NoJob.csrc = None /\ NoJob.deadline = None
  BY DEF NoJob, JobRec, None
<1>7. w \in Worlds
  <2>1. /\ proc \in [Jobs -> {"none", "run", "zombie", "gone"}]
        /\ sig \in [Jobs -> {"none", "term", "kill"}] /\ heard \in [Jobs -> Nat]
        /\ dead \in BOOLEAN
    BY <1>1 DEF Init
  <2>2. mem = e /\ list = e /\ pool = e /\ job \in [Jobs -> JobRec]
    BY <1>1, <1>2, <1>6 DEF Init
  <2>3. w = [mem |-> e, list |-> e, pool |-> e, job |-> job,
             proc |-> proc, sig |-> sig, heard |-> heard, dead |-> dead]
    BY <1>4, <2>2 DEF World
  <2>4. PICK M : M = Seq(SrcRec)
    OBVIOUS
  <2>5. e \in M /\ e \in Seq(Nat)
    BY <1>3, <2>4
  <2>6. w \in [mem : M, list : Seq(Nat), pool : Seq(Nat), job : [Jobs -> JobRec],
                proc : [Jobs -> {"none", "run", "zombie", "gone"}],
                sig : [Jobs -> {"none", "term", "kill"}], heard : [Jobs -> Nat], dead : BOOLEAN]
    BY <2>1, <2>2, <2>3, <2>5
  <2> QED BY <2>4, <2>6 DEF Worlds
<1>8. Linked(w) = {}
  BY <1>3, <1>5 DEF Linked
<1>9. Sound(w, {}, {})
  <2>1. Slots(w) /\ Refs(w)
    BY <1>3, <1>5 DEF Slots, Refs
  <2>2. Watched(w, {}) /\ Ladders(w)
    BY <1>8 DEF Watched, Ladders
  <2>3. Children(w, {}) /\ Deadlines(w, {})
    BY <1>5, <1>6 DEF Children, Deadlines
  <2> QED BY <2>1, <2>2, <2>3 DEF Sound
<1>10. Pending(batches, list)
  BY <1>3, <1>5 DEF Pending
<1>11. ops \in 0 .. MaxOps /\ nap \in DOMAIN mem \cup {None}
  BY <1>5, LoopAssumption
<1>12. Linked(w) = ToSet(list)
  BY <1>3, <1>5, <1>8
<1> QED BY <1>4, <1>7, <1>9, <1>10, <1>11, <1>12 DEF IInv

(* Every step keeps the invariant, and tells no exit to a job that has gone. *)
LEMMA NextInv == IInv /\ [Next]_vars => IInv' /\ (Told \/ UNCHANGED vars)
<1> SUFFICES ASSUME IInv, [Next]_vars PROVE IInv' /\ (Told \/ UNCHANGED vars)
  OBVIOUS
<1>1. CASE UNCHANGED vars
  <2>1. UNCHANGED <<mem, list, pool, batches, nap, job, proc, sig, heard, ops, dead>>
    BY <1>1 DEF vars, sources, jobs
  <2>2. World' = World
    BY <2>1 DEF World
  <2> QED BY <1>1, <2>1, <2>2 DEF IInv, Dispatching
<1>2. CASE Wait
  BY <1>2, WaitKeeps
<1>3. CASE Read
  <2>1. {} \subseteq {Input} /\ ops' \in 0 .. MaxOps /\ Poll({})
    BY <1>3 DEF Read, IInv
  <2> QED BY <2>1, PollKeeps
<1>4. CASE Repair
  BY <1>4, RepairKeeps
<1>5. CASE EndBatch
  BY <1>5, EndBatchKeeps
<1>6. CASE DispatchInput
  BY <1>6, DispatchInputKeeps
<1>7. CASE \E s \in Slot : Skip(s) \/ DispatchChild(s) \/ DispatchTimer(s)
  BY <1>7, SkipKeeps, DispatchChildKeeps, DispatchTimerKeeps
<1>8. CASE Typed
  <2>1. ops' \in 0 .. MaxOps /\ Poll({Input})
    BY <1>8, LoopAssumption DEF Typed, IInv
  <2> QED BY <2>1, PollKeeps
<1>9. CASE \E j \in Jobs : Submit(j) \/ Release(j) \/ ProcessEnds(j) \/ WaitedFor(j)
  BY <1>9, SubmitKeeps, ReleaseKeeps, ProcessEndsKeeps, WaitedForKeeps
<1>10. CASE \E s \in Slot : TimerExpires(s)
  BY <1>10, TimerExpiresKeeps
<1> QED BY <1>1, <1>2, <1>3, <1>4, <1>5, <1>6, <1>7, <1>8, <1>9, <1>10 DEF Next, LoopStep

(***************************************************************************)
(* The theorems.                                                           *)
(***************************************************************************)
(* The loop and its jobs stay sound: every slot is linked or in the pool,   *)
(* once; every linked child source is the one its job names, and the job    *)
(* runs; every event still to be dispatched, by any loop on the stack, is   *)
(* of a linked source (fyai_event.c, fyai_tools.c).                         *)
THEOREM EventLoopInvariant == Spec => []IInv
<1>1. IInv /\ [Next]_vars => IInv'
  BY NextInv
<1> QED BY InitInv, <1>1, PTL DEF Spec

(* The type invariant: no source is twice in the list and the pool.         *)
THEOREM TypeCorrect == Spec => []TypeOK
<1>1. IInv => TypeOK
  <2> SUFFICES ASSUME IInv PROVE TypeOK
    OBVIOUS
  <2>1. PICK w : w = World
    OBVIOUS
  <2>2. /\ w \in Worlds /\ Sound(w, {}, {}) /\ w.mem = mem /\ w.list = list /\ w.pool = pool
        /\ w.job = job /\ w.proc = proc /\ w.sig = sig /\ w.heard = heard /\ w.dead = dead
    BY <2>1, WorldIs DEF IInv
  <2>3. /\ mem \in Seq(SrcRec) /\ list \in Seq(Nat) /\ pool \in Seq(Nat)
        /\ ToSet(list) \subseteq DOMAIN mem /\ ToSet(pool) \subseteq DOMAIN mem
        /\ Once(list) /\ Once(pool) /\ ToSet(list) \cap ToSet(pool) = {}
    BY <2>2 DEF Worlds, Sound, Slots
  <2>4. list \in Seq(Slot) /\ pool \in Seq(Slot)
    BY <2>3, SeqOfSet DEF Slot
  <2>5. IsInjective(list \o pool)
    <3>1. PICK e : e = list \o pool
      OBVIOUS
    <3>2. e \in Seq(Nat) /\ Once(e)
      BY <2>3, <3>1, ConcatOf
    <3> QED BY <3>1, <3>2 DEF IsInjective, Once
  <2>6. mem \in Seq([cb : Callback, of : Nat, peer : Slot \cup {None},
                     removed : BOOLEAN, reaped : BOOLEAN, stage : 0 .. 3,
                     timer : {"off", "set", "due", "read"}])
    <3> DEFINE R == [cb : Callback, of : Nat, peer : Slot \cup {None},
                     removed : BOOLEAN, reaped : BOOLEAN, stage : 0 .. 3,
                     timer : {"off", "set", "due", "read"}]
    <3>1. \A s \in DOMAIN mem : mem[s] \in R
      <4>1. SUFFICES ASSUME NEW s \in DOMAIN mem PROVE mem[s] \in R
        OBVIOUS
      <4>2. mem[s].peer \in Slot \cup {None}
        BY <2>2 DEF Sound, Refs, Slot
      <4>3. mem[s] \in SrcRec
        BY MemIs
      <4>4. PICK r : r = mem[s]
        OBVIOUS
      <4>5. r \in R
        BY <4>2, <4>3, <4>4 DEF SrcRec
      <4> QED BY <4>4, <4>5
    <3> HIDE DEF R
    <3>2. mem \in Seq(R)
      <4>1. mem \in [1 .. Len(mem) -> R] /\ Len(mem) \in Nat
        BY <2>3, <3>1
      <4> QED BY <4>1
    <3> QED BY <3>2 DEF R
  <2>7. /\ batches \in Seq(Seq(Slot \cup {Input})) /\ Len(batches) <= 2
    <3>1. PICK b \in Seq(Seq(Nat)) : b = batches
      BY DEF IInv, Pending
    <3>2. \A d \in 1 .. Len(b) : b[d] \in Seq(Slot \cup {Input})
      <4>1. SUFFICES ASSUME NEW d \in 1 .. Len(b) PROVE b[d] \in Seq(Slot \cup {Input})
        OBVIOUS
      <4>2. b[d] \in Seq(Nat) /\ ToSet(b[d]) \subseteq Slot \cup {Input}
        BY <2>3, <3>1 DEF IInv, Pending, Slot
      <4> QED BY <4>2, SeqOfSet
    <3>3. b \in [1 .. Len(b) -> Seq(Slot \cup {Input})] /\ Len(b) \in Nat
      BY <3>2
    <3>4. b \in Seq(Seq(Slot \cup {Input}))
      <4>1. PICK T : T = Seq(Slot \cup {Input})
        OBVIOUS
      <4>2. b \in [1 .. Len(b) -> T] /\ Len(b) \in Nat
        BY <3>3, <4>1
      <4>3. b \in Seq(T)
        BY <4>2, FunctionIsSeq
      <4> QED BY <4>1, <4>3
    <3> QED BY <3>1, <3>4 DEF IInv, Pending
  <2>8. job \in [Jobs -> [st : {"none", "run", "ended", "waited", "dropped"},
                          csrc : Slot \cup {None}, deadline : Slot \cup {None},
                          stopping : BOOLEAN]]
    <3>1. \A j \in Jobs : job[j].csrc \in Slot \cup {None} /\ job[j].deadline \in Slot \cup {None}
      BY <2>2, <2>3 DEF Sound, Children, Deadlines, Linked, Slot
    <3>2. job \in [Jobs -> JobRec]
      BY <2>2 DEF Worlds
    <3> QED BY <3>1, <3>2 DEF JobRec
  <2>9. /\ proc \in [Jobs -> {"none", "run", "zombie", "gone"}]
        /\ sig \in [Jobs -> {"none", "term", "kill"}]
        /\ heard \in [Jobs -> Nat] /\ dead \in BOOLEAN
    BY <2>2 DEF Worlds
  <2>10. nap \in Slot \cup {None} /\ ops \in 0 .. MaxOps
    BY DEF IInv, Slot
  <2> QED BY <2>4, <2>5, <2>6, <2>7, <2>8, <2>9, <2>10 DEF TypeOK
<1> QED BY <1>1, EventLoopInvariant, PTL

(* No event that is still to be dispatched, by the loop or by the nested    *)
(* loop of a wait, is of a source that was freed (fyai_event_source_remove  *)
(* only flags a source within a dispatch; the outermost end of a batch      *)
(* frees it).                                                               *)
THEOREM NoStaleEvent == Spec => []EventsAreLinked
<1>1. IInv => EventsAreLinked
  BY DEF IInv, Pending, EventsAreLinked, Depth
<1> QED BY <1>1, EventLoopInvariant, PTL

(* The exit of a child is told once, to a job that runs                     *)
(* (fyai_event_dispatch withdraws the source before the callback).          *)
THEOREM ExitOnce == Spec => ExitToldOnce
<1>1. IInv /\ [Next]_vars =>
        [\A j \in Jobs : job[j].st \in {"ended", "waited", "dropped"} =>
            heard'[j] = heard[j]]_vars
  BY NextInv DEF Told
<1> QED BY <1>1, EventLoopInvariant, PTL DEF Spec, ExitToldOnce
==============================================================================
