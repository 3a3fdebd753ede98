--------------------------- MODULE EventWaitProofs ---------------------------
(***************************************************************************)
(* Proofs about the events and the waits for them.                         *)
(*                                                                         *)
(* The inductive invariant has four parts.  Flow: which callbacks can be    *)
(* queued in which state of the turn, and when a group has waits.  Mail:    *)
(* where each event is.  Wakes: what a waiter has not seen yet is about to  *)
(* be looked at.  Counted: a source has at most one end to report, which    *)
(* bounds the ids of the events.                                            *)
(***************************************************************************)
EXTENDS EventWait, FilterProofs, FiniteSetTheorems

(***************************************************************************)
(* The inductive invariant.                                                *)
(***************************************************************************)
Cb == {<<"kick">>, <<"purge">>, <<"service">>} \cup Finishes
Ev == [id : Nat \ {0}, from : Source, what : {"lines", "input", "end"}, seen : BOOLEAN]
Src == [st : {"off", "on", "ending", "fired"}, stopped : BOOLEAN]
Wtr == [st : {"free", "active", "done", "cut"}, for : SUBSET Source,
        all : BOOLEAN, text : [Source -> Int]]
Used == [news : Nat, rounds : Nat, other : Nat]

Typed ==
    /\ src \in [Source -> Src] /\ queue \subseteq Ev /\ nextId \in Nat \ {0}
    /\ waiters \in [Waiter -> Wtr]
    /\ nap \in {"no", "sleeping", "woken"} /\ kick \in BOOLEAN
    /\ deferred \in Seq(Cb) /\ batch \in Seq(Cb) /\ outer \in Seq(Cb)
    /\ turn \in {"none", "model", "tools", "exclusive", "called", "crashed"}
    /\ answer \in {"", "final", "tools", "failed"}
    /\ job \in BOOLEAN /\ cancel \in BOOLEAN /\ intr \in BOOLEAN /\ wake \in BOOLEAN
    /\ used \in Used /\ used.news <= MaxNews

(* Each source that can still report its end has an id left for it.         *)
Busy == {s \in Source : src[s].st \in {"on", "ending"}}
Counted == nextId - 1 + Cardinality(Busy) <= Cardinality(Source) + used.news

(* Only an answer and its group have waits; a nap is a call of its own.     *)
Turns ==
    /\ turn \in {"none", "exclusive", "called"} => ~HasWaiters
    /\ nap # "no" => turn = "called" /\ outer # <<>>
    /\ nap = "no" => outer = <<>>
    /\ answer # "" => turn \in {"model", "crashed"}

(* The finish of a source is queued once, and only while the source ends;   *)
(* but a call that cancels a monitor leaves it in the batch that runs.      *)
Dying == {s \in Source : src[s].st = "ending"}
Fins(d) == {s \in Source : <<"finish", s>> \in ToSet(d)}
Settled == turn \in {"tools", "exclusive"} \/ (turn = "model" /\ answer # "") \/ nap # "no"
Finishing ==
    /\ Once(deferred) /\ Once(batch) /\ Once(outer)
    /\ Fins(deferred) \subseteq Dying
    /\ Fins(deferred) \cap (Fins(batch) \cup Fins(outer)) = {}
    /\ Fins(batch) \cap Fins(outer) = {}
    /\ Settled => Fins(batch) \cup Fins(outer) \subseteq Dying

Flow == Turns /\ Finishing

(* An event is seen once a wait reads it, and then it is in one place.      *)
EventOK(e) ==
    /\ e.id < nextId
    /\ e.what = "input" => e.from \in Agents
    /\ e.seen => e.id \in Held \cup returned \cup gone
    /\ e.id \in Held \cup returned => e.seen
TextsOK ==
    \A w \in Waiter : \A s \in Source :
        /\ waiters[w].text[s] \in -1 .. nextId - 1
        /\ waiters[w].text[s] # 0 => s \in waiters[w].for
Mail ==
    /\ \A e, f \in queue : e.id = f.id => e = f
    /\ \A e \in queue : EventOK(e)
    /\ TextsOK
    /\ told \subseteq 1 .. nextId - 1 /\ returned \subseteq 1 .. nextId - 1
    /\ gone \subseteq 1 .. nextId - 1
    /\ GivenOnce /\ NothingVanishes

(* The end of a target is queued before the target ends, and what a waiter  *)
(* has not seen sets the kick.                                              *)
Watched(w, s) ==
    waiters[w].text[s] = 0 /\ ~Running(s) => Pending(s) # {} \/ SilentEnd(s)
Noticed(w, s) == Unreported(w, s) => kick \/ SilentEnd(s)
KickOK == kick => <<"kick">> \in ToSet(deferred) \cup ToSet(batch) \cup ToSet(outer)
Wakes ==
    /\ \A w \in Active : \A s \in waiters[w].for : Watched(w, s) /\ Noticed(w, s)
    /\ KickOK

IInv == Typed /\ Counted /\ Flow /\ Mail /\ Wakes

(***************************************************************************)
(* The lists of callbacks.                                                 *)
(***************************************************************************)
(* The callbacks are told apart.                                            *)
LEMMA CbFacts ==
    /\ <<"kick">> \in Cb /\ <<"purge">> \in Cb /\ <<"service">> \in Cb
    /\ \A s \in Source : <<"finish", s>> \in Cb
    /\ \A s : /\ <<"finish", s>> # <<"kick">> /\ <<"finish", s>> # <<"purge">>
             /\ <<"finish", s>> # <<"service">>
    /\ \A s, t : <<"finish", s>> = <<"finish", t>> => s = t
    /\ <<"kick">> # <<"purge">> /\ <<"kick">> # <<"service">> /\ <<"purge">> # <<"service">>
    /\ \A c \in Cb : \/ c = <<"kick">> \/ c = <<"purge">> \/ c = <<"service">>
                     \/ \E s \in Source : c = <<"finish", s>>
BY DEF Cb, Finishes

(* Put adds the callback, once.                                             *)
LEMMA PutIs ==
    ASSUME NEW d \in Seq(Cb), NEW c \in Cb
    PROVE  /\ Put(d, c) \in Seq(Cb)
           /\ ToSet(Put(d, c)) = ToSet(d) \cup {c}
           /\ Once(d) => Once(Put(d, c))
<1>1. CASE c \in ToSet(d)
  BY <1>1 DEF Put
<1>2. CASE c \notin ToSet(d)
  <2> DEFINE e == Append(d, c)
  <2>1. Put(d, c) = e
    BY <1>2 DEF Put
  <2>2. /\ e \in Seq(Cb) /\ Len(d) \in Nat /\ Len(e) = Len(d) + 1
        /\ DOMAIN e = 1 .. Len(e) /\ DOMAIN d = 1 .. Len(d)
        /\ \A i \in 1 .. Len(d) : e[i] = d[i]
        /\ e[Len(d) + 1] = c
    OBVIOUS
  <2> HIDE DEF e
  <2>3. 1 .. Len(e) = 1 .. Len(d) \cup {Len(d) + 1}
    BY <2>2
  <2>4. ToSet(e) = ToSet(d) \cup {c}
    BY <2>2, <2>3 DEF ToSet
  <2>5. \A i \in 1 .. Len(d) : d[i] # c
    BY <1>2, <2>2 DEF ToSet
  <2>6. Once(d) => Once(e)
    BY <2>2, <2>3, <2>5 DEF Once
  <2> QED BY <2>1, <2>2, <2>4, <2>6
<1> QED BY <1>1, <1>2

(* What runs a list of callbacks: the head leaves it.                       *)
LEMMA TailIs ==
    ASSUME NEW d \in Seq(Cb), d # <<>>
    PROVE  /\ Tail(d) \in Seq(Cb) /\ Head(d) \in Cb
           /\ ToSet(d) = ToSet(Tail(d)) \cup {Head(d)}
           /\ Once(d) => Once(Tail(d)) /\ Head(d) \notin ToSet(Tail(d))
BY TailOf

(* An unlinked callback leaves the list, and no other does.                 *)
LEMMA WithoutIs ==
    ASSUME NEW d \in Seq(Cb), NEW cbs
    PROVE  /\ Without(d, cbs) \in Seq(Cb)
           /\ ToSet(Without(d, cbs)) = ToSet(d) \ cbs
           /\ Once(d) => Once(Without(d, cbs))
<1> DEFINE S == ToSet(d) \ cbs
<1>1. /\ Filter(d, S) \in Seq(Cb \cap S) /\ ToSet(Filter(d, S)) = ToSet(d) \cap S
      /\ Once(d) => Once(Filter(d, S))
  <2> HIDE DEF S
  <2> QED BY FilterIs
<1>2. Filter(d, S) \in Seq(Cb)
  <2> HIDE DEF S
  <2> QED BY <1>1
<1> QED BY <1>1, <1>2 DEF Without

(* No callbacks.                                                            *)
LEMMA EmptyList == <<>> \in Seq(Cb) /\ ToSet(<<>>) = {} /\ Once(<<>>) /\ Fins(<<>>) = {}
BY DEF ToSet, Once, Fins

(* Deferring a kick, a purge or a service leaves the finishes alone.        *)
LEMMA FinsPut ==
    ASSUME NEW d \in Seq(Cb), NEW c \in {<<"kick">>, <<"purge">>, <<"service">>}
    PROVE  /\ Put(d, c) \in Seq(Cb) /\ Fins(Put(d, c)) = Fins(d)
           /\ Once(d) => Once(Put(d, c))
           /\ ToSet(Put(d, c)) = ToSet(d) \cup {c}
<1>1. c \in Cb
  BY DEF Cb
<1>2. ToSet(Put(d, c)) = ToSet(d) \cup {c}
  BY <1>1, PutIs
<1>3. \A s : <<"finish", s>> # c
  BY CbFacts
<1> QED BY <1>1, <1>2, <1>3, PutIs DEF Fins

(* Running the head of a list queues no finish and loses no kick of the     *)
(* rest.                                                                    *)
LEMMA FinsTail ==
    ASSUME NEW d \in Seq(Cb), d # <<>>
    PROVE  /\ Tail(d) \in Seq(Cb) /\ Fins(Tail(d)) \subseteq Fins(d)
           /\ Once(d) => Once(Tail(d))
           /\ Once(d) => \A s \in Source :
                 Head(d) = <<"finish", s>> => s \in Fins(d) /\ s \notin Fins(Tail(d))
           /\ Head(d) # <<"kick">> /\ <<"kick">> \in ToSet(d) => <<"kick">> \in ToSet(Tail(d))
BY TailIs DEF Fins

(***************************************************************************)
(* Events.                                                                 *)
(***************************************************************************)
(* Events that are queued have an oldest one: ids are numbers.              *)
LEMMA OldestIs ==
    ASSUME Typed, NEW evs \in SUBSET queue, evs # {}
    PROVE  Oldest(evs) \in evs /\ \A f \in evs : Oldest(evs).id <= f.id
<1> DEFINE T == {e.id : e \in evs}
<1>1. T \in SUBSET Nat /\ T # {}
  <2>1. \A e \in evs : e \in Ev
    BY DEF Typed
  <2>2. \A e \in evs : e.id \in Nat
    BY <2>1 DEF Ev
  <2> QED BY <2>2
<1>2. \E n \in T : \A m \in T : n <= m
  <2> HIDE DEF T
  <2> QED BY <1>1, LeastNat
<1>3. \E e \in evs : \A f \in evs : e.id <= f.id
  BY <1>2
<1> QED BY <1>3 DEF Oldest

(* What a wait holds is the id of an event that was given out.              *)
LEMMA HeldBound ==
    ASSUME Typed, TextsOK
    PROVE  Held \subseteq 1 .. nextId - 1
<1>1. ASSUME NEW x \in Held PROVE x \in 1 .. nextId - 1
  <2>1. PICK w \in Waiter : x \in TextsOf(w)
    BY <1>1 DEF Held
  <2>2. x # 0 /\ x # -1 /\ \E s \in waiters[w].for : x = waiters[w].text[s]
    BY <2>1 DEF TextsOf, NoReport
  <2>3. \A s \in waiters[w].for : waiters[w].text[s] \in -1 .. nextId - 1
    BY DEF TextsOK, Typed, Wtr
  <2>4. x \in -1 .. nextId - 1
    BY <2>2, <2>3
  <2> QED BY <2>2, <2>4
<1> QED BY <1>1

(* The id of an event in the queue is one that was given out.               *)
LEMMA QueuedId ==
    ASSUME Typed, Mail
    PROVE  \A e \in queue : e.id \in 1 .. nextId - 1
<1>1. ASSUME NEW e \in queue PROVE e.id \in 1 .. nextId - 1
  <2>1. e \in Ev /\ e.id < nextId /\ nextId \in Nat
    BY DEF Typed, Mail, EventOK
  <2>2. e.id \in Nat \ {0}
    BY <2>1 DEF Ev
  <2> QED BY <2>1, <2>2
<1> QED BY <1>1

(* The parts of the invariant that a step leaves alone.                     *)
LEMMA MailKept ==
    ASSUME Mail, UNCHANGED <<queue, nextId, waiters, history>>
    PROVE  Mail'
<1>1. Held' = Held /\ Ids(queue)' = Ids(queue)
  BY DEF Held, TextsOf, Ids, history
<1>2. TextsOK'
  BY DEF Mail, TextsOK
<1>3. GivenOnce' /\ NothingVanishes'
  BY <1>1 DEF Mail, GivenOnce, NothingVanishes, history
<1>4. ASSUME NEW e \in queue PROVE EventOK(e)'
  BY <1>1, <1>4 DEF Mail, EventOK, history
<1> QED BY <1>2, <1>3, <1>4 DEF Mail, history

(* The ends that can still be queued, when no source starts or ends.        *)
LEMMA CountedKept ==
    ASSUME Counted, \A s \in Source : src'[s].st = src[s].st,
           nextId' = nextId, used'.news = used.news
    PROVE  Counted'
<1>1. Busy' = Busy
  BY DEF Busy, Source
<1> QED BY <1>1 DEF Counted, Source

(* Queueing events gives each the next id, and loses none.                  *)
LEMMA InjectMail ==
    ASSUME Typed, Mail, NEW evs \in Seq(Source \X {"lines", "input", "end"}),
           \A i \in 1 .. Len(evs) : evs[i][2] = "input" => evs[i][1] \in Agents,
           Inject(evs), UNCHANGED <<waiters, history>>
    PROVE  Mail' /\ queue' \subseteq Ev /\ nextId' \in Nat \ {0} /\ nextId' = nextId + Len(evs)
<1> DEFINE N == Numbered(evs)
<1>1. /\ queue' = queue \cup N /\ nextId' = nextId + Len(evs)
      /\ Len(evs) \in Nat /\ nextId \in Nat \ {0} /\ nextId' \in Nat \ {0}
  <2>1. Len(evs) \in Nat
    OBVIOUS
  <2>2. queue' = queue \cup N /\ nextId' = nextId + Len(evs)
    BY DEF Inject
  <2>3. nextId \in Nat \ {0}
    BY DEF Typed
  <2> QED BY <2>1, <2>2, <2>3
<1>2. ASSUME NEW e \in N
      PROVE  /\ e \in Ev /\ ~e.seen /\ e.id \in nextId .. nextId' - 1
             /\ e.what = "input" => e.from \in Agents
  <2>1. PICK i \in 1 .. Len(evs) :
           e = [id |-> nextId + i - 1, from |-> evs[i][1], what |-> evs[i][2], seen |-> FALSE]
    BY <1>2 DEF Numbered
  <2>2. evs[i] \in Source \X {"lines", "input", "end"}
    OBVIOUS
  <2>3. evs[i][1] \in Source /\ evs[i][2] \in {"lines", "input", "end"}
    BY <2>2
  <2> QED BY <1>1, <2>1, <2>3 DEF Ev
<1>3. \A k \in nextId .. nextId' - 1 : \E e \in N : e.id = k
  <2> SUFFICES ASSUME NEW k \in nextId .. nextId' - 1 PROVE \E e \in N : e.id = k
    OBVIOUS
  <2> DEFINE i == k - nextId + 1
  <2>1. i \in 1 .. Len(evs) /\ nextId + i - 1 = k
    BY <1>1
  <2> HIDE DEF i
  <2>2. [id |-> nextId + i - 1, from |-> evs[i][1], what |-> evs[i][2], seen |-> FALSE] \in N
    BY <2>1 DEF Numbered
  <2> QED BY <2>1, <2>2
<1>4. \A e, f \in N : e.id = f.id => e = f
  <2> SUFFICES ASSUME NEW e \in N, NEW f \in N, e.id = f.id PROVE e = f
    OBVIOUS
  <2>1. PICK i \in 1 .. Len(evs) :
           e = [id |-> nextId + i - 1, from |-> evs[i][1], what |-> evs[i][2], seen |-> FALSE]
    BY DEF Numbered
  <2>2. PICK j \in 1 .. Len(evs) :
           f = [id |-> nextId + j - 1, from |-> evs[j][1], what |-> evs[j][2], seen |-> FALSE]
    BY DEF Numbered
  <2>3. i = j
    BY <1>1, <2>1, <2>2
  <2> QED BY <2>1, <2>2, <2>3
<1> HIDE DEF N
<1>5. Held' = Held /\ told' = told /\ returned' = returned /\ gone' = gone
  BY DEF Held, TextsOf, history
<1>6. Held \subseteq 1 .. nextId - 1
  BY HeldBound DEF Mail
<1>7. \A e \in queue : e.id < nextId /\ e.id \in Nat
  BY DEF Mail, EventOK, Typed, Ev
<1>8. \A e, f \in queue' : e.id = f.id => e = f
  <2> SUFFICES ASSUME NEW e \in queue', NEW f \in queue', e.id = f.id PROVE e = f
    OBVIOUS
  <2>1. CASE e \in queue /\ f \in queue
    BY <2>1 DEF Mail
  <2>2. CASE e \in N /\ f \in N
    BY <2>2, <1>4
  <2>3. CASE e \in queue /\ f \in N
    BY <2>3, <1>1, <1>2, <1>7
  <2>4. CASE e \in N /\ f \in queue
    BY <2>4, <1>1, <1>2, <1>7
  <2> QED BY <1>1, <2>1, <2>2, <2>3, <2>4
<1>9. ASSUME NEW e \in queue' PROVE EventOK(e)'
  <2>1. CASE e \in queue
    BY <2>1, <1>1, <1>5, <1>7 DEF Mail, EventOK
  <2>2. CASE e \in N
    <3>1. e.id \notin Held \cup returned
      BY <2>2, <1>1, <1>2, <1>6 DEF Mail
    <3> QED BY <2>2, <3>1, <1>1, <1>2, <1>5 DEF EventOK
  <2> QED BY <1>1, <2>1, <2>2
<1>10. TextsOK'
  BY <1>1 DEF Mail, TextsOK
<1>11. Ids(queue') = Ids(queue) \cup nextId .. nextId' - 1
  BY <1>1, <1>2, <1>3 DEF Ids
<1>12. GivenOnce'
  <2>1. told \cap nextId .. nextId' - 1 = {}
    BY <1>1 DEF Mail
  <2> QED BY <2>1, <1>5, <1>11 DEF Mail, GivenOnce
<1>13. NothingVanishes'
  <2>1. 1 .. nextId' - 1 \subseteq 1 .. nextId - 1 \cup nextId .. nextId' - 1
    BY <1>1
  <2> QED BY <2>1, <1>5, <1>11 DEF Mail, NothingVanishes
<1>14. told' \subseteq 1 .. nextId' - 1 /\ returned' \subseteq 1 .. nextId' - 1
       /\ gone' \subseteq 1 .. nextId' - 1
  BY <1>1, <1>5 DEF Mail
<1>15. queue' \subseteq Ev
  BY <1>1, <1>2 DEF Typed
<1> QED BY <1>1, <1>8, <1>9, <1>10, <1>12, <1>13, <1>14, <1>15 DEF Mail

(* What Inject does with the callbacks.                                     *)
LEMMA InjectLists ==
    ASSUME Typed, NEW evs, Inject(evs)
    PROVE  /\ deferred' \in Seq(Cb) /\ Fins(deferred') = Fins(deferred) /\ kick' \in BOOLEAN
           /\ Once(deferred) => Once(deferred')
           /\ ToSet(deferred) \subseteq ToSet(deferred')
           /\ kick => kick'
           /\ evs # <<>> /\ SomeActive => kick'
           /\ kick' => kick \/ <<"kick">> \in ToSet(deferred')
<1>1. CASE evs = <<>> \/ kick \/ ~SomeActive
  BY <1>1 DEF Inject, Typed
<1>2. CASE ~(evs = <<>> \/ kick \/ ~SomeActive)
  BY <1>2, FinsPut DEF Inject, Typed
<1> QED BY <1>1, <1>2

(* A look marks what it reads.                                              *)
LEMMA MarkedMail ==
    ASSUME Typed, Mail, NEW ids,
           queue' = Marked(ids), UNCHANGED <<nextId, history>>,
           TextsOK', Held \subseteq Held', ids \ {0, NoReport} \subseteq Held',
           Held' \ Held \subseteq ids \cap Ids(queue)
    PROVE  Mail' /\ queue' \subseteq Ev
<1>1. \A e \in queue' : \E f \in queue :
         /\ e \in Ev /\ e.id = f.id /\ e.from = f.from /\ e.what = f.what
         /\ e.seen <=> (f.seen \/ f.id \in ids)
         /\ e = IF f.id \in ids THEN [f EXCEPT !.seen = TRUE] ELSE f
  BY DEF Marked, Typed, Ev
<1>2. \A f \in queue : \E e \in queue' : e.id = f.id
  <2> SUFFICES ASSUME NEW f \in queue PROVE \E e \in queue' : e.id = f.id
    OBVIOUS
  <2>1. (IF f.id \in ids THEN [f EXCEPT !.seen = TRUE] ELSE f) \in queue'
    BY DEF Marked
  <2>2. (IF f.id \in ids THEN [f EXCEPT !.seen = TRUE] ELSE f).id = f.id
    BY DEF Typed, Ev
  <2> QED BY <2>1, <2>2
<1>3. Ids(queue') = Ids(queue)
  BY <1>1, <1>2 DEF Ids
<1>4. told' = told /\ returned' = returned /\ gone' = gone /\ nextId' = nextId
  BY DEF history
<1>5. ASSUME NEW e \in queue', NEW f \in queue', e.id = f.id PROVE e = f
  <2>1. PICK a \in queue : e.id = a.id /\ e = IF a.id \in ids THEN [a EXCEPT !.seen = TRUE] ELSE a
    BY <1>1
  <2>2. PICK b \in queue : f.id = b.id /\ f = IF b.id \in ids THEN [b EXCEPT !.seen = TRUE] ELSE b
    BY <1>1
  <2>3. a = b
    BY <1>5, <2>1, <2>2 DEF Mail
  <2> QED BY <2>1, <2>2, <2>3
<1>6. ASSUME NEW e \in queue' PROVE EventOK(e)'
  <2>1. PICK f \in queue : /\ e.id = f.id /\ e.from = f.from /\ e.what = f.what
                           /\ e.seen <=> (f.seen \/ f.id \in ids)
    BY <1>1
  <2>2. EventOK(f) /\ f.id \in Nat \ {0}
    BY DEF Mail, Typed, Ev
  <2>3. f.id \in ids => f.id \in Held'
    BY <2>2 DEF NoReport
  <2> QED BY <1>4, <2>1, <2>2, <2>3 DEF EventOK
<1>7. GivenOnce'
  BY <1>3, <1>4 DEF Mail, GivenOnce
<1>8. NothingVanishes'
  BY <1>3, <1>4 DEF Mail, NothingVanishes
<1> QED BY <1>1, <1>4, <1>5, <1>6, <1>7, <1>8 DEF Mail

(***************************************************************************)
(* Looks.                                                                  *)
(***************************************************************************)
(* What a look finds: what it had, an event, an end without a report, or    *)
(* nothing.                                                                 *)
LEMMA LookIs ==
    ASSUME Typed, Mail, NEW text, NEW s \in Source, text[s] \in -1 .. nextId - 1
    PROVE  /\ Look(text, s) \in -1 .. nextId - 1
           /\ text[s] # 0 => Look(text, s) = text[s]
           /\ text[s] = 0 =>
                 \/ Pending(s) # {} /\ Look(text, s) \in Ids(queue) \ {0, NoReport}
                 \/ Pending(s) = {} /\ ~Running(s) /\ Look(text, s) = NoReport
                 \/ Pending(s) = {} /\ Running(s) /\ Look(text, s) = 0
<1>1. nextId \in Nat \ {0}
  BY DEF Typed
<1>2. CASE text[s] # 0
  BY <1>1, <1>2 DEF Look
<1>3. CASE text[s] = 0 /\ Pending(s) # {}
  <2>1. Pending(s) \in SUBSET queue
    BY DEF Pending
  <2>2. Oldest(Pending(s)) \in queue
    BY <1>3, <2>1, OldestIs
  <2>3. Look(text, s) = Oldest(Pending(s)).id
    BY <1>3 DEF Look
  <2>4. Oldest(Pending(s)).id \in Nat \ {0} /\ Oldest(Pending(s)).id < nextId
    BY <2>2 DEF Mail, EventOK, Typed, Ev
  <2> QED BY <1>1, <1>3, <2>2, <2>3, <2>4 DEF Ids, NoReport
<1>4. CASE text[s] = 0 /\ Pending(s) = {}
  BY <1>1, <1>4 DEF Look, NoReport
<1> QED BY <1>2, <1>3, <1>4

(* The record p is what a look makes of the record r, of the waiter w.      *)
CanLook(w, r) ==
    /\ r \in Wtr /\ r.st = "active"
    /\ r = waiters[w] \/ (waiters[w].st = "free" /\ \A s \in Source : r.text[s] = 0)
Seen(r, p) ==
    /\ p \in Wtr /\ p.for = r.for /\ p.st \in {"active", "done"}
    /\ \A s \in Source : /\ p.text[s] \in -1 .. nextId - 1
                         /\ p.text[s] # 0 => s \in r.for
    /\ \A s \in r.for : p.text[s] = Look(r.text, s)

(* The poll of one waiter is a look at each of its targets.                 *)
LEMMA PolledIs ==
    ASSUME Typed, Mail, NEW w \in Waiter, NEW r, CanLook(w, r), NEW late \in BOOLEAN
    PROVE  Seen(r, Polled(r, late))
<1>0. /\ r \in Wtr /\ r.st = "active"
      /\ \A s \in Source : /\ r.text[s] \in -1 .. nextId - 1
                           /\ r.text[s] # 0 => s \in r.for
  <2>1. nextId \in Nat \ {0}
    BY DEF Typed
  <2> QED BY <2>1 DEF CanLook, Mail, TextsOK
<1> DEFINE q == [r EXCEPT !.text = Looked(r)]
<1>1. nextId \in Nat \ {0}
  BY DEF Typed
<1>2. \A s \in Source : /\ Looked(r)[s] = (IF s \in r.for THEN Look(r.text, s) ELSE 0)
                        /\ Looked(r)[s] \in -1 .. nextId - 1
  BY <1>0, <1>1, LookIs DEF Looked
<1>3. Looked(r) \in [Source -> Int]
  <2>1. Looked(r) = [s \in Source |-> IF s \in r.for THEN Look(r.text, s) ELSE 0]
    BY DEF Looked
  <2>2. \A s \in Source : (IF s \in r.for THEN Look(r.text, s) ELSE 0) \in Int
    BY <1>0, <1>1, LookIs
  <2> QED BY <2>1, <2>2, Zenon
<1>4. q \in Wtr /\ q.text = Looked(r) /\ q.for = r.for /\ q.st = "active"
  BY <1>0, <1>3 DEF Wtr
<1>5. Polled(r, late) = q \/ Polled(r, late) = [q EXCEPT !.st = "done"]
  BY DEF Polled
<1>6. LET d == [q EXCEPT !.st = "done"] IN
      d \in Wtr /\ d.text = Looked(r) /\ d.for = r.for /\ d.st = "done"
  <2> HIDE DEF q
  <2> QED BY <1>4 DEF Wtr
<1> DEFINE p == Polled(r, late)
<1>7. p \in Wtr /\ p.text = Looked(r) /\ p.for = r.for /\ p.st \in {"active", "done"}
  <2> HIDE DEF q
  <2> QED BY <1>4, <1>5, <1>6
<1>8. r.for \subseteq Source
  BY <1>0 DEF Wtr
<1> HIDE DEF p
<1>9. \A s \in Source : /\ p.text[s] \in -1 .. nextId - 1
                        /\ p.text[s] # 0 => s \in r.for
  BY <1>2, <1>7
<1>10. \A s \in r.for : p.text[s] = Look(r.text, s)
  BY <1>2, <1>7, <1>8
<1> QED BY <1>7, <1>9, <1>10 DEF p, Seen

(* The waiters W look at their targets, as the records R, and get ids.      *)
Looking(W, R, ids) ==
    /\ W \subseteq Waiter
    /\ \A w \in W : CanLook(w, R[w]) /\ Seen(R[w], waiters'[w])
    /\ \A w \in (Waiter \ W) : waiters'[w] = waiters[w]
    /\ \A x : x \in ids <=> \E w \in W : \E s \in R[w].for : x = waiters'[w].text[s]

(* Looks lose no event: what is read is held by the waiter that read it.    *)
LEMMA LookMail ==
    ASSUME Typed, Mail, NEW W, NEW R, NEW ids, Looking(W, R, ids), queue' = Marked(ids),
           UNCHANGED <<nextId, history>>
    PROVE  /\ Mail' /\ queue' \subseteq Ev
           /\ \A w \in Waiter : waiters'[w] \in Wtr
<1>0. /\ W \subseteq Waiter
      /\ \A w \in W : CanLook(w, R[w]) /\ Seen(R[w], waiters'[w])
      /\ \A w \in (Waiter \ W) : waiters'[w] = waiters[w]
      /\ \A x : x \in ids <=> \E w \in W : \E s \in R[w].for : x = waiters'[w].text[s]
  BY DEF Looking
<1>1. nextId \in Nat \ {0} /\ nextId' = nextId
  BY DEF Typed
<1>2. \A w \in W :
         /\ R[w] \in Wtr /\ R[w].st = "active"
         /\ R[w] = waiters[w] \/ (waiters[w].st = "free" /\ \A s \in Source : R[w].text[s] = 0)
         /\ \A s \in Source : /\ R[w].text[s] \in -1 .. nextId - 1
                              /\ R[w].text[s] # 0 => s \in R[w].for
  BY <1>0, <1>1 DEF CanLook, Mail, TextsOK
<1>3. \A w \in W :
         /\ waiters'[w] \in Wtr /\ waiters'[w].for = R[w].for
         /\ waiters'[w].st \in {"active", "done"}
         /\ \A s \in Source : /\ waiters'[w].text[s] \in -1 .. nextId - 1
                              /\ waiters'[w].text[s] # 0 => s \in R[w].for
         /\ \A s \in R[w].for : waiters'[w].text[s] = Look(R[w].text, s)
  BY <1>0 DEF Seen
<1>4. \A w \in Waiter : waiters'[w] \in Wtr
  <2>1. \A w \in Waiter : waiters[w] \in Wtr
    BY DEF Typed
  <2> QED BY <1>0, <1>3, <2>1
<1>5. TextsOK'
  BY <1>0, <1>1, <1>3 DEF Mail, TextsOK
<1>6. ASSUME NEW x \in Held PROVE x \in Held'
  <2>1. PICK w \in Waiter : waiters[w].st \in {"active", "done"} /\ x \in TextsOf(w)
    BY <1>6 DEF Held
  <2>2. CASE w \in W
    <3>1. R[w] = waiters[w]
      BY <1>2, <2>1, <2>2
    <3>2. PICK s \in R[w].for : x = R[w].text[s] /\ x \notin {0, NoReport}
      BY <2>1, <3>1 DEF TextsOf
    <3>3. s \in Source
      BY <1>2, <2>2, <3>2 DEF Wtr
    <3>4. waiters'[w].text[s] = x
      BY <1>2, <1>3, <2>2, <3>2, <3>3, LookIs
    <3>5. x \in TextsOf(w)'
      BY <1>3, <2>2, <3>2, <3>4 DEF TextsOf
    <3> QED BY <1>0, <1>3, <2>2, <3>5 DEF Held
  <2>3. CASE w \notin W
    BY <1>0, <2>1, <2>3 DEF Held, TextsOf
  <2> QED BY <2>2, <2>3
<1>7. ids \ {0, NoReport} \subseteq Held'
  <2> SUFFICES ASSUME NEW x \in ids, x \notin {0, NoReport} PROVE x \in Held'
    OBVIOUS
  <2>1. PICK w \in W : \E s \in R[w].for : x = waiters'[w].text[s]
    BY <1>0
  <2>2. x \in TextsOf(w)'
    BY <1>3, <2>1 DEF TextsOf
  <2> QED BY <1>0, <1>3, <2>2 DEF Held
<1>8. ASSUME NEW x \in Held', x \notin Held PROVE x \in ids /\ x \in Ids(queue)
  <2>1. PICK w \in Waiter : waiters'[w].st \in {"active", "done"} /\ x \in TextsOf(w)'
    BY <1>8 DEF Held
  <2>2. w \in W
    BY <1>0, <1>8, <2>1 DEF Held, TextsOf
  <2>3. PICK s \in R[w].for : x = waiters'[w].text[s] /\ x \notin {0, NoReport}
    BY <1>3, <2>1, <2>2 DEF TextsOf
  <2>4. s \in Source
    BY <1>2, <2>2, <2>3 DEF Wtr
  <2>5. CASE R[w].text[s] # 0
    <3>1. waiters'[w].text[s] = R[w].text[s] /\ R[w] = waiters[w]
      BY <1>2, <1>3, <2>2, <2>3, <2>4, <2>5, LookIs
    <3>2. x \in TextsOf(w) /\ waiters[w].st = "active"
      BY <1>2, <2>2, <2>3, <3>1 DEF TextsOf
    <3> QED BY <1>8, <3>2 DEF Held
  <2>6. CASE R[w].text[s] = 0
    <3>1. waiters'[w].text[s] \in Ids(queue)
      BY <1>2, <1>3, <2>2, <2>3, <2>4, <2>6, LookIs
    <3> QED BY <1>0, <2>2, <2>3, <3>1
  <2> QED BY <2>5, <2>6
<1>9. Held \subseteq Held' /\ Held' \ Held \subseteq ids \cap Ids(queue)
  BY <1>6, <1>8
<1>10. Mail' /\ queue' \subseteq Ev
  BY <1>5, <1>7, <1>9, MarkedMail
<1> QED BY <1>3, <1>4, <1>10

(* Marks and reaps leave what is pending and what runs.                     *)
LEMMA MarkedPending ==
    ASSUME Typed, NEW ids, queue' = Marked(ids), NEW s \in Source,
           \A t \in Source : src'[t].st = "on" <=> src[t].st = "on"
    PROVE  Pending(s)' # {} <=> Pending(s) # {}
<1>1. \A e \in queue' : \E f \in queue : e.from = f.from /\ e.what = f.what
  BY DEF Marked, Typed, Ev
<1>2. \A f \in queue : \E e \in queue' : e.from = f.from /\ e.what = f.what
  <2> SUFFICES ASSUME NEW f \in queue
               PROVE  \E e \in queue' : e.from = f.from /\ e.what = f.what
    OBVIOUS
  <2> DEFINE e == IF f.id \in ids THEN [f EXCEPT !.seen = TRUE] ELSE f
  <2>1. e \in queue'
    BY DEF Marked
  <2>2. e.from = f.from /\ e.what = f.what
    BY DEF Typed, Ev
  <2> HIDE DEF e
  <2> QED BY <2>1, <2>2
<1>3. ASSUME NEW e, NEW f, e.from = f.from, e.what = f.what, e.from = s
      PROVE  Live(e)' <=> Live(f)
  BY <1>3 DEF Live
<1> QED BY <1>1, <1>2, <1>3 DEF Pending

(* Dropping the waits that fired leaves what runs alone.                    *)
LEMMA ReapedIs ==
    ASSUME src \in [Source -> Src]
    PROVE  /\ Reaped(src) \in [Source -> Src]
           /\ \A s \in Source :
                 /\ Reaped(src)[s].st = "on" <=> src[s].st = "on"
                 /\ Reaped(src)[s].st = "ending" <=> src[s].st = "ending"
                 /\ s \notin Timers => Reaped(src)[s] = src[s]
BY DEF Reaped, Off, Src

(* Every look of the waiters: those that still wait have seen all there is. *)
LEMMA PollIs ==
    ASSUME Typed, Mail, NEW late, NEW napLate, Poll(deferred, late, napLate),
           UNCHANGED <<nextId, history>>
    PROVE  /\ Mail' /\ waiters' \in [Waiter -> Wtr] /\ queue' \subseteq Ev
           /\ src' \in [Source -> Src]
           /\ \A s \in Source : /\ src'[s].st = "on" <=> src[s].st = "on"
                                /\ src'[s].st = "ending" <=> src[s].st = "ending"
           /\ nap' \in {"no", "sleeping", "woken"} /\ (nap' = "no" <=> nap = "no")
           /\ deferred' \in Seq(Cb) /\ Fins(deferred') = Fins(deferred)
           /\ Once(deferred) => Once(deferred')
           /\ ToSet(deferred) \subseteq ToSet(deferred')
           /\ HasWaiters' <=> HasWaiters
           /\ \A w \in Active' : \A s \in waiters'[w].for : ~Unreported(w, s)'
           /\ \A w \in Active : CanLook(w, waiters[w]) /\ Seen(waiters[w], waiters'[w])
           /\ \A w \in (Waiter \ Active) : waiters'[w] = waiters[w]
<1> DEFINE ws == [w \in Waiter |->
                    IF w \in Active THEN Polled(waiters[w], w \in late) ELSE waiters[w]]
<1> DEFINE ids == UNION {{ws[w].text[s] : s \in ws[w].for} : w \in Active}
<1>1. /\ waiters' = ws /\ queue' = Marked(ids)
      /\ src' = IF AsksForWait({waiters[w] : w \in Active}) THEN Reaped(src) ELSE src
      /\ nap' = IF nap = "sleeping" /\ NapEnds(napLate) THEN "woken" ELSE nap
      /\ \E d : /\ d = deferred \/ d = Put(deferred, <<"service">>)
                /\ deferred' = d \/ deferred' = Put(d, <<"purge">>)
  <2>1. /\ waiters' = ws /\ queue' = Marked(ids)
        /\ src' = IF AsksForWait({waiters[w] : w \in Active}) THEN Reaped(src) ELSE src
        /\ nap' = IF nap = "sleeping" /\ NapEnds(napLate) THEN "woken" ELSE nap
    BY DEF Poll
  <2>2. \E np : deferred' =
           Armed(IF Active # {} THEN Notified(deferred, ws, job) ELSE deferred, ws, np)
    BY DEF Poll
  <2> HIDE DEF ws
  <2>3. PICK np : deferred' =
           Armed(IF Active # {} THEN Notified(deferred, ws, job) ELSE deferred, ws, np)
    BY <2>2
  <2> DEFINE d == IF Active # {} THEN Notified(deferred, ws, job) ELSE deferred
  <2>4. d = deferred \/ d = Put(deferred, <<"service">>)
    BY DEF Notified
  <2>5. deferred' = d \/ deferred' = Put(d, <<"purge">>)
    BY <2>3 DEF Armed
  <2> HIDE DEF d
  <2>6. \E e : /\ e = deferred \/ e = Put(deferred, <<"service">>)
               /\ deferred' = e \/ deferred' = Put(e, <<"purge">>)
    BY <2>4, <2>5
  <2> QED BY <2>1, <2>6
<1>2. /\ Mail' /\ waiters' \in [Waiter -> Wtr] /\ queue' \subseteq Ev
      /\ \A w \in Active : /\ waiters'[w].for = waiters[w].for
                           /\ waiters'[w].st \in {"active", "done"}
                           /\ \A s \in waiters[w].for :
                                 waiters'[w].text[s] = Look(waiters[w].text, s)
      /\ \A w \in Active : CanLook(w, waiters[w]) /\ Seen(waiters[w], waiters'[w])
      /\ \A w \in (Waiter \ Active) : waiters'[w] = waiters[w]
  <2> DEFINE W == Active
  <2>1. W \in SUBSET Waiter
    BY DEF Active
  <2>2. \A w \in W : waiters[w] \in Wtr /\ waiters[w].st = "active"
    BY DEF Active, Typed
  <2>3. \A w \in W : waiters'[w] = Polled(waiters[w], w \in late)
    BY <1>1, <2>1
  <2>4. \A w \in W : CanLook(w, waiters[w]) /\ Seen(waiters[w], waiters'[w])
    <3> SUFFICES ASSUME NEW w \in W
                 PROVE  CanLook(w, waiters[w]) /\ Seen(waiters[w], waiters'[w])
      OBVIOUS
    <3>1. CanLook(w, waiters[w])
      BY <2>2 DEF CanLook
    <3>2. PICK b \in BOOLEAN : waiters'[w] = Polled(waiters[w], b)
      <4>1. (w \in late) \in BOOLEAN
        OBVIOUS
      <4> QED BY <2>3, <4>1, Zenon
    <3>3. w \in Waiter
      BY <2>1
    <3> QED BY <3>1, <3>2, <3>3, PolledIs
  <2>5. \A w \in (Waiter \ W) : waiters'[w] = waiters[w]
    BY <1>1
  <2>6. waiters' = [w \in Waiter |-> waiters'[w]]
    BY <1>1
  <2>7. \A w \in W : waiters'[w].for = waiters[w].for
    BY <2>4 DEF Seen
  <2>8. \A x : x \in ids <=>
                \E w \in W : \E s \in waiters[w].for : x = waiters'[w].text[s]
    <3>1. waiters' = ws
      BY <1>1
    <3> HIDE DEF ws
    <3>2. \A x : x \in ids <=> \E w \in W : \E s \in ws[w].for : x = ws[w].text[s]
      OBVIOUS
    <3> QED BY <3>1, <3>2, <2>7
  <2>9. queue' = Marked(ids)
    BY <1>1
  <2> HIDE DEF W, ws, ids
  <2>10. PICK R : R = waiters
    OBVIOUS
  <2>11. \A w \in W : CanLook(w, R[w]) /\ Seen(R[w], waiters'[w])
    BY <2>4, <2>10
  <2>12. \A x : x \in ids <=> \E w \in W : \E s \in R[w].for : x = waiters'[w].text[s]
    BY <2>8, <2>10
  <2>13. /\ Mail' /\ queue' \subseteq Ev
         /\ \A w \in Waiter : waiters'[w] \in Wtr
    <3>1. Looking(W, R, ids)
      BY <2>1, <2>5, <2>11, <2>12 DEF Looking
    <3> QED BY <2>9, <3>1, LookMail
  <2> QED BY <2>4, <2>5, <2>6, <2>13 DEF W, Seen
<1>3. /\ src' \in [Source -> Src]
      /\ \A s \in Source : /\ src'[s].st = "on" <=> src[s].st = "on"
                           /\ src'[s].st = "ending" <=> src[s].st = "ending"
  BY <1>1, ReapedIs DEF Typed
<1>4. nap' \in {"no", "sleeping", "woken"} /\ (nap' = "no" <=> nap = "no")
  BY <1>1 DEF Typed
<1>5. /\ deferred' \in Seq(Cb) /\ Fins(deferred') = Fins(deferred)
      /\ Once(deferred) => Once(deferred')
      /\ ToSet(deferred) \subseteq ToSet(deferred')
  <2>1. PICK d : /\ d = deferred \/ d = Put(deferred, <<"service">>)
                 /\ deferred' = d \/ deferred' = Put(d, <<"purge">>)
    BY <1>1
  <2>2. deferred \in Seq(Cb)
    BY DEF Typed
  <2>3. /\ d \in Seq(Cb) /\ Fins(d) = Fins(deferred) /\ (Once(deferred) => Once(d))
        /\ ToSet(deferred) \subseteq ToSet(d)
    BY <2>1, <2>2, FinsPut
  <2>4. /\ deferred' \in Seq(Cb) /\ Fins(deferred') = Fins(d) /\ (Once(d) => Once(deferred'))
        /\ ToSet(d) \subseteq ToSet(deferred')
    BY <2>1, <2>3, FinsPut
  <2> QED BY <2>3, <2>4
<1>6. \A w \in Waiter : waiters'[w].st = "free" <=> waiters[w].st = "free"
  BY <1>1, <1>2 DEF Active
<1>7. HasWaiters' <=> HasWaiters
  BY <1>6 DEF HasWaiters
<1>8. ASSUME NEW w \in Active', NEW s \in waiters'[w].for PROVE ~Unreported(w, s)'
  <2>1. w \in Active
    BY <1>1 DEF Active
  <2>2. /\ s \in waiters[w].for /\ s \in Source /\ w \in Waiter
        /\ waiters'[w].text[s] = Look(waiters[w].text, s)
    BY <1>2, <2>1 DEF Active, Typed, Wtr
  <2>3. waiters[w].text[s] \in -1 .. nextId - 1
    BY <2>2 DEF Mail, TextsOK
  <2>4. waiters'[w].text[s] = 0 => Pending(s) = {} /\ Running(s)
    <3> DEFINE t == waiters[w].text
    <3>1. s \in Source /\ t[s] \in -1 .. nextId - 1
      BY <2>2, <2>3
    <3> HIDE DEF t
    <3>2. Look(t, s) = 0 => Pending(s) = {} /\ Running(s)
      BY <3>1, LookIs DEF NoReport
    <3> QED BY <2>2, <3>2 DEF t
  <2>5. Pending(s)' # {} <=> Pending(s) # {}
    <3> HIDE DEF ids
    <3> QED BY <1>1, <1>3, <2>2, MarkedPending
  <2>6. Running(s)' <=> Running(s)
    BY <1>3, <2>2 DEF Running
  <2> QED BY <2>4, <2>5, <2>6 DEF Unreported
<1> QED BY <1>2, <1>3, <1>4, <1>5, <1>7, <1>8

(***************************************************************************)
(* What a step leaves alone.                                               *)
(***************************************************************************)
(* Flow, when the turn and the batch stay as they are.                      *)
LEMMA FlowKept ==
    ASSUME Flow, UNCHANGED <<turn, answer, batch, outer>>, nap' = "no" <=> nap = "no",
           HasWaiters' => HasWaiters, Dying' = Dying,
           Once(deferred'), Fins(deferred') = Fins(deferred)
    PROVE  Flow'
<1>1. Turns'
  BY DEF Flow, Turns
<1>2. Fins(deferred)' = Fins(deferred) /\ Fins(batch)' = Fins(batch) /\ Fins(outer)' = Fins(outer)
  BY DEF Fins
<1>3. Settled' => Settled
  BY DEF Settled
<1>4. Finishing'
  BY <1>2, <1>3 DEF Flow, Finishing
<1> QED BY <1>1, <1>4 DEF Flow

(* A kick stays queued.                                                     *)
LEMMA KickKept ==
    ASSUME KickOK, kick' => kick \/ <<"kick">> \in ToSet(deferred'),
           ToSet(deferred) \subseteq ToSet(deferred'), UNCHANGED <<batch, outer>>
    PROVE  KickOK'
BY DEF KickOK

(* What a waiter has to see is no more than before.                         *)
LEMMA WakesKept ==
    ASSUME Wakes, KickOK', UNCHANGED <<src, queue>>, kick => kick',
           \A w \in Active' : w \in Active /\ waiters'[w] = waiters[w]
    PROVE  Wakes'
<1>1. \A s : /\ Pending(s)' = Pending(s) /\ Running(s)' = Running(s)
             /\ SilentEnd(s)' = SilentEnd(s)
  BY DEF Pending, Live, Running, SilentEnd, Stopped
<1>2. ASSUME NEW w \in Active', NEW s \in waiters'[w].for PROVE Watched(w, s)' /\ Noticed(w, s)'
  BY <1>1, <1>2 DEF Wakes, Watched, Noticed, Unreported
<1> QED BY <1>2 DEF Wakes

(* Without a group nobody waits.                                            *)
LEMMA WakesNone ==
    ASSUME KickOK', ~HasWaiters'
    PROVE  Wakes'
BY DEF Wakes, HasWaiters, Active

(* A step that concerns one source.                                         *)
LEMMA WakesOfSource ==
    ASSUME Typed, Wakes, KickOK', kick => kick', waiters' = waiters,
           NEW s \in Source, \A t \in (Source \ {s}) : src'[t] = src[t],
           \A e : e.from # s => (e \in queue' <=> e \in queue),
           \A w \in Active : s \in waiters[w].for => Watched(w, s)' /\ Noticed(w, s)'
    PROVE  Wakes'
<1>1. ASSUME NEW t \in Source \ {s}
      PROVE  /\ Pending(t)' = Pending(t) /\ (Running(t)' <=> Running(t))
             /\ SilentEnd(t)' <=> SilentEnd(t)
  <2>1. src'[t] = src[t]
    OBVIOUS
  <2>2. \A e : e.from = t => (Live(e)' <=> Live(e))
    BY <2>1 DEF Live
  <2>3. Pending(t)' = Pending(t)
    BY <2>2 DEF Pending
  <2> QED BY <2>1, <2>3 DEF Running, SilentEnd, Stopped
<1>2. Active' = Active
  BY DEF Active
<1>3. ASSUME NEW w \in Active, NEW t \in waiters[w].for
      PROVE  Watched(w, t)' /\ Noticed(w, t)'
  <2>1. t \in Source
    BY DEF Active, Typed, Wtr
  <2>2. CASE t = s
    BY <2>2
  <2>3. CASE t # s
    <3>1. Watched(w, t) /\ Noticed(w, t)
      BY DEF Wakes
    <3>2. waiters'[w].text[t] = waiters[w].text[t]
      OBVIOUS
    <3>3. /\ Pending(t)' = Pending(t) /\ (Running(t)' <=> Running(t))
          /\ SilentEnd(t)' <=> SilentEnd(t)
      BY <1>1, <2>1, <2>3
    <3> QED BY <3>1, <3>2, <3>3 DEF Watched, Noticed, Unreported
  <2> QED BY <2>2, <2>3
<1> QED BY <1>2, <1>3 DEF Wakes

From(evs, s) == \A i \in 1 .. Len(evs) : evs[i][1] = s

(* Events of one source are queued beside those of the others.              *)
LEMMA InjectFrom ==
    ASSUME NEW evs, Inject(evs), NEW s, From(evs, s)
    PROVE  \A e : e.from # s => (e \in queue' <=> e \in queue)
<1>1. queue' = queue \cup Numbered(evs)
  BY DEF Inject
<1>2. \A e \in Numbered(evs) : e.from = s
  BY DEF Numbered, From
<1> QED BY <1>1, <1>2

(* The end of a source that is queued can be seen.                          *)
LEMMA EndIsPending ==
    ASSUME NEW evs, Inject(evs), NEW s, NEW i \in 1 .. Len(evs), evs[i] = <<s, "end">>
    PROVE  Pending(s)' # {}
<1> DEFINE e == [id |-> nextId + i - 1, from |-> evs[i][1], what |-> evs[i][2], seen |-> FALSE]
<1>1. e \in queue'
  BY DEF Inject, Numbered
<1>2. e.from = s /\ e.what = "end"
  OBVIOUS
<1> HIDE DEF e
<1>3. e \in Pending(s)'
  BY <1>1, <1>2 DEF Pending, Live
<1> QED BY <1>3

(* The sources are finitely many.                                           *)
LEMMA BusyFinite ==
    /\ IsFiniteSet(Source) /\ IsFiniteSet(Busy) /\ Cardinality(Busy) \in Nat
    /\ Cardinality(Busy) <= Cardinality(Source) /\ Cardinality(Source) \in Nat
<1>1. IsFiniteSet(Source) /\ Busy \subseteq Source
  BY WaitAssumption DEF Source, Busy
<1> QED BY <1>1, FS_Subset, FS_CardinalityType

(***************************************************************************)
(* The events of sources.                                                  *)
(***************************************************************************)
(* A list of one event.                                                     *)
LEMMA OneEvent ==
    ASSUME NEW s \in Source, NEW x \in {"lines", "input", "end"}
    PROVE  /\ <<<<s, x>>>> \in Seq(Source \X {"lines", "input", "end"})
           /\ Len(<<<<s, x>>>>) = 1 /\ <<<<s, x>>>> # <<>> /\ 1 \in 1 .. Len(<<<<s, x>>>>)
           /\ \A i \in 1 .. Len(<<<<s, x>>>>) : <<<<s, x>>>>[i] = <<s, x>>
OBVIOUS

(* WaitFires keeps the invariant: the end is queued in the step that fires. *)
LEMMA WaitFiresInv ==
    ASSUME IInv, NEW s \in Source, WaitFires(s)
    PROVE  IInv'
<1> DEFINE evs == <<<<s, "end">>>>
<1> USE DEF IInv
<1>1. /\ evs \in Seq(Source \X {"lines", "input", "end"}) /\ Len(evs) = 1 /\ evs # <<>>
      /\ \A i \in 1 .. Len(evs) : evs[i] = <<s, "end">> /\ evs[i][1] = s /\ evs[i][2] = "end"
      /\ 1 \in 1 .. Len(evs)
  BY OneEvent
<1>2. /\ Inject(evs) /\ s \in Timers /\ src[s].st = "on"
      /\ src' = [src EXCEPT ![s].st = "fired"]
      /\ UNCHANGED <<waiters, nap, batch, outer, turn, answer, job, cancel, intr, wake,
                     told, returned, gone, used>>
  BY DEF WaitFires, run, sig, history
<1> HIDE DEF evs
<1>3. Mail' /\ queue' \subseteq Ev /\ nextId' \in Nat \ {0} /\ nextId' = nextId + 1
  <2>1. \A i \in 1 .. Len(evs) : evs[i][2] = "input" => evs[i][1] \in Agents
    BY <1>1
  <2>2. UNCHANGED <<waiters, history>>
    BY <1>2 DEF history
  <2> QED BY <1>1, <1>2, <2>1, <2>2, InjectMail
<1>4. /\ deferred' \in Seq(Cb) /\ Fins(deferred') = Fins(deferred) /\ kick' \in BOOLEAN
      /\ Once(deferred) => Once(deferred')
      /\ ToSet(deferred) \subseteq ToSet(deferred')
      /\ kick => kick'
      /\ SomeActive => kick'
      /\ kick' => kick \/ <<"kick">> \in ToSet(deferred')
  BY <1>1, <1>2, InjectLists
<1>5. /\ src' \in [Source -> Src] /\ src'[s].st = "fired"
      /\ \A t \in (Source \ {s}) : src'[t] = src[t]
  BY <1>2 DEF Typed, Src
<1>6. Typed'
  BY <1>2, <1>3, <1>4, <1>5 DEF Typed
<1>7. Counted'
  <2>1. Busy' = Busy \ {s} /\ s \in Busy
    BY <1>2, <1>5 DEF Busy
  <2>2. Cardinality(Busy') = Cardinality(Busy) - 1
    BY <2>1, BusyFinite, FS_RemoveElement
  <2>3. nextId \in Nat /\ used' = used /\ used.news \in Nat
    BY <1>2 DEF Typed, Used
  <2> QED BY <1>3, <2>2, <2>3, BusyFinite DEF Counted
<1>8. Flow'
  <2>1. Dying' = Dying
    BY <1>2, <1>5 DEF Dying
  <2> QED BY <1>2, <1>4, <2>1, FlowKept DEF Flow, Finishing, HasWaiters
<1>9. Wakes'
  <2>1. KickOK'
    BY <1>2, <1>4, KickKept DEF Wakes
  <2>2. \A e : e.from # s => (e \in queue' <=> e \in queue)
    <3>1. From(evs, s)
      BY <1>1 DEF From
    <3> QED BY <1>2, <3>1, InjectFrom
  <2>3. Pending(s)' # {}
    BY <1>1, <1>2, EndIsPending
  <2>4. ASSUME NEW w \in Active PROVE Watched(w, s)' /\ Noticed(w, s)'
    <3>1. kick'
      BY <1>4, <2>4 DEF SomeActive
    <3> QED BY <2>3, <3>1 DEF Watched, Noticed
  <2> QED BY <1>2, <1>4, <1>5, <2>1, <2>2, <2>4, WakesOfSource
<1> QED BY <1>3, <1>6, <1>7, <1>8, <1>9

(* A source is of one kind.                                                 *)
LEMMA SourceKinds ==
    /\ \A s \in Timers : s \in Source /\ s \notin Monitors /\ s \notin Agents
    /\ \A s \in Monitors : s \in Source /\ s \notin Timers /\ s \notin Agents
    /\ \A s \in Agents : s \in Source /\ s \notin Timers /\ s \notin Monitors
BY WaitAssumption DEF Source

(* Lines of a monitor, or a request of a sub-agent: the source goes on.     *)
LEMMA OutputInv ==
    ASSUME IInv, NEW s \in Monitors \cup Agents, NEW x \in {"lines", "input"},
           x = "input" => s \in Agents, Inject(<<<<s, x>>>>), src[s].st = "on",
           used.news < MaxNews, used' = [used EXCEPT !.news = @ + 1],
           src' \in {src, [src EXCEPT ![s].stopped = TRUE]},
           UNCHANGED <<waiters, nap, batch, outer, run, sig, history>>
    PROVE  IInv'
<1> DEFINE evs == <<<<s, x>>>>
<1> USE DEF IInv
<1>1. /\ evs \in Seq(Source \X {"lines", "input", "end"}) /\ Len(evs) = 1 /\ evs # <<>>
      /\ \A i \in 1 .. Len(evs) : evs[i] = <<s, x>> /\ evs[i][1] = s /\ evs[i][2] = x
  BY OneEvent DEF Source
<1>2. /\ Inject(evs) /\ s \in Source /\ s \notin Timers
      /\ UNCHANGED <<waiters, nap, batch, outer, turn, answer, job, cancel, intr, wake,
                     told, returned, gone>>
  BY SourceKinds DEF run, sig, history
<1> HIDE DEF evs
<1>3. Mail' /\ queue' \subseteq Ev /\ nextId' \in Nat \ {0} /\ nextId' = nextId + 1
  <2>1. \A i \in 1 .. Len(evs) : evs[i][2] = "input" => evs[i][1] \in Agents
    BY <1>1
  <2> QED BY <1>1, <1>2, <2>1, InjectMail
<1>4. /\ deferred' \in Seq(Cb) /\ Fins(deferred') = Fins(deferred) /\ kick' \in BOOLEAN
      /\ Once(deferred) => Once(deferred')
      /\ ToSet(deferred) \subseteq ToSet(deferred')
      /\ kick => kick'
      /\ SomeActive => kick'
      /\ kick' => kick \/ <<"kick">> \in ToSet(deferred')
  BY <1>1, <1>2, InjectLists
<1>5. /\ src' \in [Source -> Src]
      /\ \A t \in (Source \ {s}) : src'[t] = src[t]
      /\ \A t \in Source : src'[t].st = src[t].st
  <2>1. CASE src' = src
    BY <2>1 DEF Typed
  <2>2. CASE src' = [src EXCEPT ![s].stopped = TRUE]
    BY <1>2, <2>2 DEF Typed, Src
  <2> QED BY <2>1, <2>2
<1>6. used' \in Used /\ used'.news = used.news + 1 /\ used'.news <= MaxNews
  <2>1. used \in Used /\ used.news \in Nat /\ MaxNews \in Nat
    BY WaitAssumption DEF Typed, Used
  <2>2. used' = [used EXCEPT !.news = used.news + 1]
    OBVIOUS
  <2> QED BY <2>1, <2>2 DEF Used
<1>7. Typed'
  BY <1>2, <1>3, <1>4, <1>5, <1>6 DEF Typed
<1>8. Counted'
  <2>1. Busy' = Busy
    BY <1>5 DEF Busy
  <2>2. nextId \in Nat /\ used.news \in Nat
    BY DEF Typed, Used
  <2> QED BY <1>3, <1>6, <2>1, <2>2, BusyFinite DEF Counted
<1>9. Flow'
  <2>1. Dying' = Dying
    BY <1>2, <1>5 DEF Dying
  <2> QED BY <1>2, <1>4, <2>1, FlowKept DEF Flow, Finishing, HasWaiters
<1>10. Wakes'
  <2>1. KickOK'
    BY <1>2, <1>4, KickKept DEF Wakes
  <2>2. \A e : e.from # s => (e \in queue' <=> e \in queue)
    <3>1. From(evs, s)
      BY <1>1 DEF From
    <3> QED BY <1>2, <3>1, InjectFrom
  <2>3. Running(s)'
    BY <1>2, <1>5 DEF Running
  <2>4. ASSUME NEW w \in Active PROVE Watched(w, s)' /\ Noticed(w, s)'
    <3>1. kick'
      BY <1>4, <2>4 DEF SomeActive
    <3> QED BY <2>3, <3>1 DEF Watched, Noticed
  <2> QED BY <1>2, <1>4, <1>5, <2>1, <2>2, <2>4, WakesOfSource
<1> QED BY <1>3, <1>7, <1>8, <1>9, <1>10

(* JobEnds keeps the invariant: a source that ends still counts as running. *)
LEMMA JobEndsInv ==
    ASSUME IInv, NEW s \in Source, JobEnds(s)
    PROVE  IInv'
<1> USE DEF IInv
<1>1. /\ batch = <<>> /\ s \in Monitors \cup Agents /\ src[s].st = "on" /\ s \notin Timers
      /\ src' = [src EXCEPT ![s].st = "ending"]
      /\ deferred' = Put(deferred, <<"finish", s>>)
      /\ UNCHANGED <<queue, nextId, waiters, nap, kick, batch, outer, turn, answer, job,
                     cancel, intr, wake, history, used>>
  BY SourceKinds DEF JobEnds, Ready, run, sig
<1>2. /\ src' \in [Source -> Src] /\ src'[s].st = "ending"
      /\ \A t \in (Source \ {s}) : src'[t] = src[t]
  BY <1>1 DEF Typed, Src
<1>3. /\ deferred' \in Seq(Cb) /\ ToSet(deferred') = ToSet(deferred) \cup {<<"finish", s>>}
      /\ Once(deferred) => Once(deferred')
  BY <1>1, PutIs, CbFacts DEF Typed
<1>4. Typed'
  BY <1>1, <1>2, <1>3 DEF Typed
<1>5. Counted'
  <2>1. Busy' = Busy
    BY <1>1, <1>2 DEF Busy
  <2> QED BY <1>1, <2>1 DEF Counted
<1>6. Mail'
  BY <1>1, MailKept
<1>7. Flow'
  <2>1. Dying' = Dying \cup {s} /\ s \notin Dying
    BY <1>1, <1>2 DEF Dying
  <2>2. Fins(deferred)' = Fins(deferred) \cup {s}
    BY <1>3, CbFacts DEF Fins
  <2>3. Fins(batch) = {} /\ Fins(batch)' = {} /\ Fins(outer)' = Fins(outer)
    BY <1>1, EmptyList DEF Fins
  <2>4. s \notin Fins(outer)
    <3>1. CASE nap = "no"
      BY <3>1, EmptyList DEF Flow, Turns
    <3>2. CASE nap # "no"
      BY <2>1, <3>2 DEF Flow, Finishing, Settled
    <3> QED BY <3>1, <3>2
  <2>5. Turns'
    BY <1>1 DEF Flow, Turns, HasWaiters
  <2>6. Finishing'
    <3>1. Settled' <=> Settled
      BY <1>1 DEF Settled
    <3>2. Once(deferred)' /\ Once(batch)' /\ Once(outer)'
      BY <1>1, <1>3 DEF Flow, Finishing
    <3> QED BY <2>1, <2>2, <2>3, <2>4, <3>1, <3>2 DEF Flow, Finishing
  <2> QED BY <2>5, <2>6 DEF Flow
<1>8. Wakes'
  <2>1. KickOK'
    BY <1>1, <1>3, KickKept DEF Wakes
  <2>2. Running(s)' /\ Running(s)
    BY <1>1, <1>2 DEF Running
  <2>3. Pending(s)' \subseteq Pending(s)
    BY <1>1 DEF Pending, Live
  <2>4. ~SilentEnd(s)
    BY <1>1 DEF SilentEnd
  <2>5. ASSUME NEW w \in Active, s \in waiters[w].for PROVE Watched(w, s)' /\ Noticed(w, s)'
    <3>1. Noticed(w, s)
      BY <2>5 DEF Wakes
    <3>2. waiters' = waiters /\ kick' = kick
      BY <1>1
    <3> QED BY <2>2, <2>3, <2>4, <3>1, <3>2 DEF Watched, Noticed, Unreported
  <2> QED BY <1>1, <1>2, <2>1, <2>5, WakesOfSource
<1> QED BY <1>4, <1>5, <1>6, <1>7, <1>8

(* What the end of a job queues; nothing only for a monitor that was        *)
(* stopped.                                                                 *)
LEMMA EndEventsAre ==
    ASSUME NEW s \in Source, NEW partial \in BOOLEAN
    PROVE  LET evs == EndEvents(s, partial) IN
           /\ evs \in Seq(Source \X {"lines", "input", "end"})
           /\ \A i \in 1 .. Len(evs) : /\ evs[i][1] = s /\ evs[i][2] # "input"
           /\ Len(evs) <= (IF partial THEN 2 ELSE 1)
           /\ ~Stopped(s) => \E i \in 1 .. Len(evs) : evs[i] = <<s, "end">>
           /\ evs = <<>> => Stopped(s)
<1> DEFINE l == <<s, "lines">>
           e == <<s, "end">>
<1>1. l \in Source \X {"lines", "input", "end"} /\ e \in Source \X {"lines", "input", "end"}
      /\ l[1] = s /\ e[1] = s /\ l[2] = "lines" /\ e[2] = "end"
  OBVIOUS
<1>2. EndEvents(s, partial) = (IF partial THEN <<l>> ELSE <<>>) \o (IF Stopped(s) THEN <<>> ELSE <<e>>)
  BY DEF EndEvents
<1> HIDE DEF l, e
<1>3. PICK evs : evs = EndEvents(s, partial)
  OBVIOUS
<1>4. /\ evs \in Seq(Source \X {"lines", "input", "end"})
      /\ \/ Len(evs) = 2 /\ partial /\ evs[1] = l /\ evs[2] = e
         \/ Len(evs) = 1 /\ partial /\ Stopped(s) /\ evs[1] = l
         \/ Len(evs) = 1 /\ ~partial /\ ~Stopped(s) /\ evs[1] = e
         \/ Len(evs) = 0 /\ ~partial /\ Stopped(s)
  <2>1. CASE partial /\ Stopped(s)
    BY <1>1, <1>2, <1>3, <2>1
  <2>2. CASE partial /\ ~Stopped(s)
    BY <1>1, <1>2, <1>3, <2>2
  <2>3. CASE ~partial /\ Stopped(s)
    <3>1. evs = <<>> \o <<>>
      BY <1>2, <1>3, <2>3
    <3> QED BY <2>3, <3>1
  <2>4. CASE ~partial /\ ~Stopped(s)
    BY <1>1, <1>2, <1>3, <2>4
  <2> QED BY <2>1, <2>2, <2>3, <2>4
<1>n. PICK n \in Nat : n = Len(evs)
  BY <1>4
<1>5. \A i \in 1 .. Len(evs) : evs[i] \in {l, e}
  <2>0. n = 0 \/ n = 1 \/ n = 2
    BY <1>4, <1>n
  <2>1. \A i \in 1 .. n : i = 1 \/ (i = 2 /\ n = 2)
    BY <2>0
  <2> QED BY <1>4, <1>n, <2>0, <2>1
<1>6. \A i \in 1 .. Len(evs) : evs[i][1] = s /\ evs[i][2] # "input"
  BY <1>1, <1>5
<1>7. Len(evs) <= (IF partial THEN 2 ELSE 1) /\ (evs = <<>> => Stopped(s))
  <2>1. CASE partial
    <3>1. n = 1 \/ n = 2
      BY <1>4, <1>n, <2>1
    <3>2. n <= 2 /\ evs # <<>>
      BY <1>n, <3>1
    <3> QED BY <1>n, <2>1, <3>2
  <2>2. CASE ~partial
    <3>1. n = 1 \/ (n = 0 /\ Stopped(s))
      BY <1>4, <1>n, <2>2
    <3>2. n <= 1 /\ (evs = <<>> => Stopped(s))
      BY <1>n, <3>1
    <3> QED BY <1>n, <2>2, <3>2
  <2> QED BY <2>1, <2>2
<1>8. ~Stopped(s) => \E i \in 1 .. Len(evs) : evs[i] = e
  <2>1. ~Stopped(s) => Len(evs) \in 1 .. Len(evs) /\ evs[Len(evs)] = e
    BY <1>4
  <2> QED BY <2>1
<1> QED BY <1>3, <1>4, <1>6, <1>7, <1>8 DEF e

(* Finish keeps the invariant: the end is queued before the source is off.  *)
LEMMA FinishInv ==
    ASSUME IInv, NEW s \in Source, batch # <<>>, Head(batch) = <<"finish", s>>, Finish(s)
    PROVE  IInv'
<1> USE DEF IInv
<1>1. PICK partial \in BOOLEAN :
         /\ partial => used.news < MaxNews
         /\ used' = [used EXCEPT !.news = IF partial THEN @ + 1 ELSE @]
         /\ Inject(EndEvents(s, partial))
  BY DEF Finish
<1>2. PICK evs : evs = EndEvents(s, partial)
  OBVIOUS
<1>3. /\ evs \in Seq(Source \X {"lines", "input", "end"})
      /\ \A i \in 1 .. Len(evs) : /\ evs[i][1] = s /\ evs[i][2] # "input"
      /\ Len(evs) <= (IF partial THEN 2 ELSE 1) /\ Len(evs) \in Nat
      /\ ~Stopped(s) => \E i \in 1 .. Len(evs) : evs[i] = <<s, "end">>
      /\ evs = <<>> => Stopped(s)
  BY <1>2, EndEventsAre
<1>4. /\ Inject(evs) /\ src[s].st = "ending"
      /\ src' = [src EXCEPT ![s].st = "off"] /\ batch' = Tail(batch)
      /\ UNCHANGED <<waiters, nap, outer, turn, answer, job, cancel, intr, wake,
                     told, returned, gone>>
  BY <1>1, <1>2 DEF Finish, run, sig, history
<1>5. Mail' /\ queue' \subseteq Ev /\ nextId' \in Nat \ {0} /\ nextId' = nextId + Len(evs)
  <2>1. \A i \in 1 .. Len(evs) : evs[i][2] = "input" => evs[i][1] \in Agents
    BY <1>3
  <2>2. UNCHANGED <<waiters, history>>
    BY <1>4 DEF history
  <2> QED BY <1>3, <1>4, <2>1, <2>2, InjectMail
<1>6. /\ deferred' \in Seq(Cb) /\ Fins(deferred') = Fins(deferred) /\ kick' \in BOOLEAN
      /\ Once(deferred) => Once(deferred')
      /\ ToSet(deferred) \subseteq ToSet(deferred')
      /\ kick => kick'
      /\ evs # <<>> /\ SomeActive => kick'
      /\ kick' => kick \/ <<"kick">> \in ToSet(deferred')
  BY <1>4, InjectLists
<1>7. /\ src' \in [Source -> Src] /\ src'[s].st = "off" /\ src'[s].stopped = src[s].stopped
      /\ \A t \in (Source \ {s}) : src'[t] = src[t]
  BY <1>4 DEF Typed, Src
<1>8. /\ used' \in Used /\ used'.news <= MaxNews
      /\ used'.news = (IF partial THEN used.news + 1 ELSE used.news)
  <2>1. used \in Used /\ used.news \in Nat /\ used.news <= MaxNews /\ MaxNews \in Nat
    BY WaitAssumption DEF Typed, Used
  <2>2. CASE partial
    <3>1. used' = [used EXCEPT !.news = used.news + 1]
      BY <1>1, <2>2
    <3> QED BY <1>1, <2>1, <2>2, <3>1 DEF Used
  <2>3. CASE ~partial
    <3>1. used' = [used EXCEPT !.news = used.news]
      BY <1>1, <2>3
    <3>2. used' = used
      BY <2>1, <3>1 DEF Used
    <3> QED BY <2>1, <2>3, <3>2
  <2> QED BY <2>2, <2>3
<1>9. /\ batch' \in Seq(Cb) /\ Fins(batch') \subseteq Fins(batch)
      /\ Once(batch') /\ s \in Fins(batch) /\ s \notin Fins(batch')
      /\ <<"kick">> \in ToSet(batch) => <<"kick">> \in ToSet(batch')
  <2>1. batch \in Seq(Cb) /\ Once(batch) /\ Head(batch) # <<"kick">>
    BY CbFacts DEF Typed, Flow, Finishing
  <2> QED BY <1>4, <2>1, FinsTail
<1>10. Typed'
  BY <1>4, <1>5, <1>6, <1>7, <1>8, <1>9 DEF Typed
<1>11. Counted'
  <2>1. Busy' = Busy \ {s} /\ s \in Busy
    BY <1>4, <1>7 DEF Busy
  <2>2. Cardinality(Busy') = Cardinality(Busy) - 1
    BY <2>1, BusyFinite, FS_RemoveElement
  <2>3. nextId \in Nat /\ used.news \in Nat
    BY DEF Typed, Used
  <2>4. Len(evs) <= 1 + used'.news - used.news
    BY <1>3, <1>8, <2>3
  <2>5. used'.news \in Nat
    BY <1>8, <2>3
  <2> QED BY <1>3, <1>5, <2>2, <2>3, <2>4, <2>5, BusyFinite DEF Counted
<1>12. Flow'
  <2>1. Dying' = Dying \ {s}
    BY <1>4, <1>7 DEF Dying
  <2>2. Turns'
    BY <1>4 DEF Flow, Turns, HasWaiters
  <2>3. Fins(deferred)' = Fins(deferred) /\ Fins(outer)' = Fins(outer)
    BY <1>4, <1>6 DEF Fins
  <2>4. Fins(batch)' \subseteq Fins(batch) /\ s \notin Fins(batch)' /\ s \in Fins(batch)
    BY <1>9 DEF Fins
  <2>5. Settled' => Settled
    BY <1>4 DEF Settled
  <2>6. Once(deferred)' /\ Once(batch)' /\ Once(outer)'
    BY <1>4, <1>6, <1>9 DEF Flow, Finishing
  <2>7. Finishing'
    BY <2>1, <2>3, <2>4, <2>5, <2>6 DEF Flow, Finishing
  <2> QED BY <2>2, <2>7 DEF Flow
<1>13. Wakes'
  <2>1. KickOK'
    BY <1>4, <1>6, <1>9 DEF Wakes, KickOK
  <2>2. \A e : e.from # s => (e \in queue' <=> e \in queue)
    <3>1. From(evs, s)
      BY <1>3 DEF From
    <3> QED BY <1>4, <3>1, InjectFrom
  <2>3. queue \subseteq queue'
    BY <1>4 DEF Inject
  <2>4. ~Stopped(s) => Pending(s)' # {}
    BY <1>3, <1>4, EndIsPending
  <2>5. Stopped(s) => SilentEnd(s)' \/ Pending(s)' # {}
    BY <1>7 DEF SilentEnd, Stopped
  <2>6. evs = <<>> => Pending(s)' \subseteq Pending(s)
    <3>1. evs = <<>> => queue' = queue
      BY <1>4 DEF Inject, Numbered
    <3>2. \A e : e.from = s /\ Live(e)' => Live(e)
      BY <1>4, <1>7 DEF Live
    <3> QED BY <3>1, <3>2 DEF Pending
  <2>7. ASSUME NEW w \in Active, s \in waiters[w].for PROVE Watched(w, s)' /\ Noticed(w, s)'
    <3>1. Watched(w, s)'
      BY <2>4, <2>5 DEF Watched
    <3>2. CASE evs # <<>>
      <4>1. kick'
        BY <1>6, <2>7, <3>2 DEF SomeActive
      <4> QED BY <3>1, <4>1 DEF Noticed
    <3>3. CASE evs = <<>>
      <4>1. SUFFICES ASSUME Unreported(w, s)', ~SilentEnd(s)' PROVE kick'
        BY <3>1 DEF Noticed
      <4>2. Pending(s) # {}
        BY <1>3, <2>5, <2>6, <3>3, <4>1
      <4>3. Unreported(w, s)
        BY <1>4, <4>1, <4>2 DEF Unreported
      <4>4. ~SilentEnd(s)
        BY <1>4 DEF SilentEnd
      <4> QED BY <1>6, <2>7, <4>3, <4>4 DEF Wakes, Noticed
    <3> QED BY <3>2, <3>3
  <2> QED BY <1>4, <1>6, <1>7, <2>1, <2>2, <2>7, WakesOfSource
<1> QED BY <1>5, <1>10, <1>11, <1>12, <1>13

(* FinishFreed keeps the invariant: nothing runs after it.                  *)
LEMMA FinishFreedInv ==
    ASSUME IInv, NEW s \in Source, batch # <<>>, Head(batch) = <<"finish", s>>, FinishFreed(s)
    PROVE  IInv'
<1> USE DEF IInv
<1>1. /\ src[s].st # "ending" /\ turn' = "crashed"
      /\ UNCHANGED <<src, queue, nextId, waiters, nap, kick, deferred, batch, outer, answer,
                     job, cancel, intr, wake, history, used>>
  BY DEF FinishFreed, loop, sig
<1>2. s \in Fins(batch) /\ s \notin Dying
  BY <1>1, FinsTail DEF Flow, Finishing, Typed, Dying
<1>3. ~Settled
  BY <1>2 DEF Flow, Finishing
<1>4. nap = "no" /\ ~Settled'
  BY <1>1, <1>3 DEF Settled
<1>5. Typed'
  BY <1>1 DEF Typed, history
<1>6. Counted'
  BY <1>1, CountedKept
<1>7. Mail'
  BY <1>1, MailKept
<1>8. Flow'
  <2>1. Turns'
    BY <1>1, <1>4 DEF Flow, Turns
  <2>2. /\ Fins(deferred)' = Fins(deferred) /\ Fins(batch)' = Fins(batch)
        /\ Fins(outer)' = Fins(outer) /\ Dying' = Dying
    BY <1>1 DEF Fins, Dying
  <2>3. Finishing'
    BY <1>1, <1>4, <2>2 DEF Flow, Finishing
  <2> QED BY <2>1, <2>3 DEF Flow
<1>9. Wakes'
  <2>1. KickOK'
    BY <1>1, KickKept DEF Wakes
  <2> QED BY <1>1, <2>1, WakesKept DEF Active
<1> QED BY <1>5, <1>6, <1>7, <1>8, <1>9

(***************************************************************************)
(* Looks.                                                                  *)
(***************************************************************************)
(* A look, alone or as the callback that a kick asked for.                  *)
LEMMA LookInv ==
    ASSUME IInv, NEW late, NEW napLate, Poll(deferred, late, napLate),
           UNCHANGED <<nextId, outer, run, sig, history, used>>,
           \/ UNCHANGED <<kick, batch>>
           \/ /\ batch # <<>> /\ kick' = FALSE /\ batch' = Tail(batch)
    PROVE  IInv'
<1> USE DEF IInv
<1>1. UNCHANGED <<nextId, outer, turn, answer, job, cancel, intr, wake, history, used>>
  BY DEF run, sig
<1>2. /\ Mail' /\ waiters' \in [Waiter -> Wtr] /\ queue' \subseteq Ev
      /\ src' \in [Source -> Src]
      /\ \A s \in Source : /\ src'[s].st = "on" <=> src[s].st = "on"
                           /\ src'[s].st = "ending" <=> src[s].st = "ending"
      /\ nap' \in {"no", "sleeping", "woken"} /\ (nap' = "no" <=> nap = "no")
      /\ deferred' \in Seq(Cb) /\ Fins(deferred') = Fins(deferred)
      /\ Once(deferred) => Once(deferred')
      /\ ToSet(deferred) \subseteq ToSet(deferred')
      /\ HasWaiters' <=> HasWaiters
      /\ \A w \in Active' : \A s \in waiters'[w].for : ~Unreported(w, s)'
  BY <1>1, PollIs
<1>3. /\ batch' \in Seq(Cb) /\ Fins(batch') \subseteq Fins(batch) /\ Once(batch')
      /\ kick' \in BOOLEAN
  <2>1. batch \in Seq(Cb) /\ Once(batch) /\ kick \in BOOLEAN
    BY DEF Typed, Flow, Finishing
  <2> QED BY <2>1, FinsTail
<1>4. Typed'
  BY <1>1, <1>2, <1>3 DEF Typed
<1>5. Counted'
  <2>1. Busy' = Busy
    BY <1>2 DEF Busy
  <2> QED BY <1>1, <2>1 DEF Counted
<1>6. Flow'
  <2>1. Turns'
    BY <1>1, <1>2 DEF Flow, Turns
  <2>2. /\ Fins(deferred)' = Fins(deferred) /\ Fins(batch)' \subseteq Fins(batch)
        /\ Fins(outer)' = Fins(outer)
    BY <1>1, <1>2, <1>3 DEF Fins
  <2>3. Dying' = Dying
    BY <1>2 DEF Dying
  <2>4. Settled' => Settled
    BY <1>1, <1>2 DEF Settled
  <2>5. Once(deferred)' /\ Once(batch)' /\ Once(outer)'
    BY <1>1, <1>2, <1>3 DEF Flow, Finishing
  <2>6. Finishing'
    BY <2>2, <2>3, <2>4, <2>5 DEF Flow, Finishing
  <2> QED BY <2>1, <2>6 DEF Flow
<1>7. Wakes'
  <2>1. KickOK'
    BY <1>1, <1>2 DEF Wakes, KickOK
  <2>2. ASSUME NEW w \in Active', NEW s \in waiters'[w].for
        PROVE  Watched(w, s)' /\ Noticed(w, s)'
    BY <1>2 DEF Watched, Noticed, Unreported
  <2> QED BY <2>1, <2>2 DEF Wakes
<1> QED BY <1>2, <1>4, <1>5, <1>6, <1>7

(***************************************************************************)
(* Events leave the queue, and waits go: what a wait had read is returned   *)
(* or gone, and what a request takes no wait has read.                      *)
(***************************************************************************)
Leaves ==
    /\ queue' \subseteq queue /\ nextId' = nextId /\ TextsOK'
    /\ told' \subseteq 1 .. nextId - 1 /\ returned' \subseteq 1 .. nextId - 1
    /\ gone' \subseteq 1 .. nextId - 1
    /\ Held' \subseteq Held /\ Held \subseteq Held' \cup returned' \cup gone'
    /\ returned \subseteq returned' /\ returned' \subseteq returned \cup Held
    /\ gone \subseteq gone' /\ told \subseteq told'
    /\ \A k \in told' : k \in told \/ \E e \in queue \ queue' : e.id = k /\ ~e.seen
    /\ \A e \in queue \ queue' : e.id \in Held' \cup told' \cup returned' \cup gone'

(* Events that leave the queue so are not lost and not given again.         *)
LEMMA LeavesMail ==
    ASSUME Typed, Mail, Leaves
    PROVE  Mail'
<1>1. \A e, f \in queue' : e.id = f.id => e = f
  BY DEF Leaves, Mail
<1>2. ASSUME NEW e \in queue' PROVE EventOK(e)'
  <2>1. EventOK(e)
    BY DEF Leaves, Mail
  <2> QED BY <2>1 DEF Leaves, EventOK
<1>3. GivenOnce'
  <2>1. ASSUME NEW k \in told', k \in returned' \cup Held' PROVE FALSE
    <3>1. k \in returned \cup Held
      BY <2>1 DEF Leaves
    <3>2. k \notin told
      BY <3>1 DEF Mail, GivenOnce
    <3>3. PICK e \in queue : e.id = k /\ ~e.seen
      BY <2>1, <3>2 DEF Leaves
    <3> QED BY <3>1, <3>3 DEF Mail, EventOK
  <2>2. ASSUME NEW k \in told', NEW f \in queue', f.id = k PROVE FALSE
    <3>1. k \notin told
      BY <2>2 DEF Leaves, Mail, GivenOnce, Ids
    <3>2. PICK e \in queue \ queue' : e.id = k
      BY <2>2, <3>1 DEF Leaves
    <3> QED BY <2>2, <3>2 DEF Leaves, Mail
  <2> QED BY <2>1, <2>2 DEF GivenOnce, Ids
<1>4. NothingVanishes'
  <2>1. ASSUME NEW k \in 1 .. nextId - 1
        PROVE  k \in Ids(queue') \cup Held' \cup told' \cup returned' \cup gone'
    <3>1. k \in Ids(queue) \cup Held \cup told \cup returned \cup gone
      BY DEF Mail, NothingVanishes
    <3>2. CASE k \in Ids(queue)
      <4>1. PICK e \in queue : e.id = k
        BY <3>2 DEF Ids
      <4> QED BY <4>1 DEF Leaves, Ids
    <3>3. CASE k \in Held \cup told \cup returned \cup gone
      BY <3>3 DEF Leaves
    <3> QED BY <3>1, <3>2, <3>3
  <2> QED BY <2>1 DEF Leaves, NothingVanishes
<1> QED BY <1>1, <1>2, <1>3, <1>4 DEF Mail, Leaves

(* The batch without its head, or with it.                                  *)
LEMMA Popped ==
    ASSUME Typed, Finishing, batch # <<>>, Head(batch) # <<"kick">>,
           batch' = Tail(batch) \/ batch' = batch
    PROVE  /\ batch' \in Seq(Cb) /\ Fins(batch') \subseteq Fins(batch) /\ Once(batch')
           /\ <<"kick">> \in ToSet(batch) => <<"kick">> \in ToSet(batch')
<1>1. batch \in Seq(Cb) /\ Once(batch)
  BY DEF Typed, Finishing
<1>2. CASE batch' = batch
  BY <1>1, <1>2
<1>3. CASE batch' = Tail(batch)
  BY <1>1, <1>3, FinsTail
<1> QED BY <1>2, <1>3

(* Without active waiters nothing has to be seen.                           *)
LEMMA WakesIdle ==
    ASSUME KickOK', Active' = {}
    PROVE  Wakes'
BY DEF Wakes

(* Purge keeps the invariant: only what a wait has read leaves the queue.   *)
LEMMA PurgeInv ==
    ASSUME IInv, batch # <<>>, Head(batch) = <<"purge">>, Purge
    PROVE  IInv'
<1> USE DEF IInv
<1>1. /\ queue' = IF SomeActive THEN queue ELSE Unseen
      /\ batch' = Tail(batch)
      /\ UNCHANGED <<src, nextId, waiters, nap, kick, deferred, outer, turn, answer, job,
                     cancel, intr, wake, told, returned, gone, used>>
  BY DEF Purge, run, sig, history
<1>2. Held' = Held /\ Active' = Active
  BY <1>1 DEF Held, TextsOf, Active
<1>3. queue' \subseteq queue /\ \A e \in queue \ queue' : e.seen
  BY <1>1 DEF Unseen
<1>4. Leaves
  <2>1. TextsOK'
    BY <1>1 DEF Mail, TextsOK
  <2>2. \A e \in queue \ queue' : e.id \in Held \cup returned \cup gone
    BY <1>3 DEF Mail, EventOK
  <2> QED BY <1>1, <1>2, <1>3, <2>1, <2>2 DEF Leaves, Mail
<1>5. Mail'
  BY <1>4, LeavesMail
<1>6. /\ batch' \in Seq(Cb) /\ Fins(batch') \subseteq Fins(batch) /\ Once(batch')
      /\ <<"kick">> \in ToSet(batch) => <<"kick">> \in ToSet(batch')
  BY <1>1, CbFacts, Popped DEF Flow
<1>7. Typed'
  BY <1>1, <1>3, <1>6 DEF Typed
<1>8. Counted'
  BY <1>1, CountedKept
<1>9. Flow'
  <2>1. Turns'
    BY <1>1 DEF Flow, Turns, HasWaiters
  <2>2. /\ Fins(deferred)' = Fins(deferred) /\ Fins(batch)' \subseteq Fins(batch)
        /\ Fins(outer)' = Fins(outer) /\ Dying' = Dying /\ Settled' = Settled
    BY <1>1, <1>6 DEF Fins, Dying, Settled
  <2>3. Finishing'
    BY <1>1, <1>6, <2>2 DEF Flow, Finishing
  <2> QED BY <2>1, <2>3 DEF Flow
<1>10. Wakes'
  <2>1. KickOK'
    BY <1>1, <1>6 DEF Wakes, KickOK
  <2>2. CASE SomeActive
    <3>1. UNCHANGED <<src, queue>> /\ (kick => kick')
          /\ \A w \in Active' : w \in Active /\ waiters'[w] = waiters[w]
      BY <1>1, <1>2, <2>2
    <3> QED BY <2>1, <3>1, WakesKept
  <2>3. CASE ~SomeActive
    BY <1>2, <2>1, <2>3, WakesIdle DEF SomeActive
  <2> QED BY <2>2, <2>3
<1> QED BY <1>5, <1>7, <1>8, <1>9, <1>10

(***************************************************************************)
(* Calls while an answer arrives.                                          *)
(***************************************************************************)
(* The bound of what is started and of the news.                            *)
LEMMA NewsUsed ==
    ASSUME Typed, used.news < MaxNews, used' = [used EXCEPT !.news = @ + 1]
    PROVE  used' \in Used /\ used'.news = used.news + 1 /\ used'.news <= MaxNews
           /\ used.news \in Nat
<1>1. used \in Used /\ used.news \in Nat /\ MaxNews \in Nat
  BY WaitAssumption DEF Typed, Used
<1>2. used' = [used EXCEPT !.news = used.news + 1]
  OBVIOUS
<1> QED BY <1>1, <1>2 DEF Used

(* A source that starts takes one of the ids that are left.                 *)
LEMMA StartedCounted ==
    ASSUME Typed, Counted, NEW s \in Source, src[s].st \notin {"on", "ending"},
           src'[s] = On, \A t \in (Source \ {s}) : src'[t] = src[t],
           nextId' = nextId, used'.news = used.news + 1
    PROVE  Counted'
<1>1. Busy' = Busy \cup {s} /\ s \notin Busy
  BY DEF Busy, On
<1>2. Cardinality(Busy') = Cardinality(Busy) + 1
  BY <1>1, BusyFinite, FS_AddElement
<1>3. nextId \in Nat /\ used.news \in Nat
  BY DEF Typed, Used
<1> QED BY <1>2, <1>3, BusyFinite DEF Counted

(* CallStart keeps the invariant.                                           *)
LEMMA CallStartInv ==
    ASSUME IInv, NEW s \in Source, CallStart(s)
    PROVE  IInv'
<1> USE DEF IInv
<1>1. /\ src[s].st = "off" /\ src' = [src EXCEPT ![s] = On]
      /\ used.news < MaxNews /\ used' = [used EXCEPT !.news = @ + 1]
      /\ UNCHANGED <<queue, nextId, waiters, nap, kick, deferred, batch, outer, turn, answer,
                     job, cancel, intr, wake, history>>
  BY DEF CallStart, loop, run, sig
<1>2. /\ src' \in [Source -> Src] /\ src'[s] = On /\ src'[s].st = "on"
      /\ \A t \in (Source \ {s}) : src'[t] = src[t]
  BY <1>1 DEF Typed, Src, On
<1>3. Typed'
  <2>1. used' \in Used /\ used'.news <= MaxNews
    BY <1>1, NewsUsed
  <2> QED BY <1>1, <1>2, <2>1 DEF Typed
<1>4. Counted'
  BY <1>1, <1>2, NewsUsed, StartedCounted
<1>5. Mail'
  BY <1>1, MailKept
<1>6. Flow'
  <2>1. Dying' = Dying
    BY <1>1, <1>2 DEF Dying
  <2> QED BY <1>1, <2>1, FlowKept DEF Flow, Finishing, HasWaiters
<1>7. Wakes'
  <2>1. KickOK'
    BY <1>1, KickKept DEF Wakes
  <2>2. Running(s)' /\ ~Running(s)
    BY <1>1, <1>2 DEF Running
  <2>3. s \in Monitors => Pending(s)' = Pending(s)
    <3>1. ASSUME s \in Monitors, NEW e \in queue, e.from = s PROVE e.what # "input"
      BY <3>1, SourceKinds DEF Mail, EventOK
    <3> QED BY <1>1, <3>1 DEF Pending, Live
  <2>4. ASSUME NEW w \in Active, s \in waiters[w].for PROVE Watched(w, s)' /\ Noticed(w, s)'
    <3>1. Noticed(w, s)
      BY <2>4 DEF Wakes
    <3>2. waiters' = waiters /\ kick' = kick
      BY <1>1
    <3>3. SilentEnd(s) => s \in Monitors /\ Pending(s) = {}
      BY DEF SilentEnd, Stopped
    <3> QED BY <2>2, <2>3, <3>1, <3>2, <3>3 DEF Watched, Noticed, Unreported
  <2> QED BY <1>1, <1>2, <2>1, <2>4, WakesOfSource
<1> QED BY <1>3, <1>4, <1>5, <1>6, <1>7

(* CallJob keeps the invariant.                                             *)
LEMMA CallJobInv ==
    ASSUME IInv, CallJob
    PROVE  IInv'
<1> USE DEF IInv
<1>1. /\ job' = TRUE
      /\ UNCHANGED <<src, queue, nextId, waiters, nap, kick, deferred, batch, outer, turn,
                     answer, cancel, intr, wake, history, used>>
  BY DEF CallJob, loop, sig
<1>2. Typed'
  BY <1>1 DEF Typed
<1>3. Counted'
  BY <1>1, CountedKept
<1>4. Mail'
  BY <1>1, MailKept
<1>5. Flow'
  BY <1>1, FlowKept DEF Flow, Finishing, HasWaiters, Dying
<1>6. Wakes'
  BY <1>1, KickKept, WakesKept DEF Wakes, Active
<1> QED BY <1>2, <1>3, <1>4, <1>5, <1>6

(* What a step that only defers a callback leaves of the invariant.         *)
LEMMA DeferInv ==
    ASSUME IInv, \/ deferred' = deferred
                 \/ deferred' = Put(deferred, <<"service">>)
                 \/ deferred' = Put(deferred, <<"purge">>)
    PROVE  /\ deferred' \in Seq(Cb) /\ Fins(deferred') = Fins(deferred)
           /\ Once(deferred') /\ ToSet(deferred) \subseteq ToSet(deferred')
<1>1. deferred \in Seq(Cb) /\ Once(deferred)
  BY DEF IInv, Typed, Flow, Finishing
<1> QED BY <1>1, FinsPut

(* JobOfGroupEnds keeps the invariant.                                      *)
LEMMA JobOfGroupEndsInv ==
    ASSUME IInv, JobOfGroupEnds
    PROVE  IInv'
<1> USE DEF IInv
<1>1. /\ job' = FALSE /\ deferred' = Notified(deferred, waiters, FALSE)
      /\ UNCHANGED <<src, queue, nextId, waiters, nap, kick, batch, outer, turn,
                     answer, cancel, intr, wake, history, used>>
  BY DEF JobOfGroupEnds, sig
<1>2. /\ deferred' \in Seq(Cb) /\ Fins(deferred') = Fins(deferred)
      /\ Once(deferred') /\ ToSet(deferred) \subseteq ToSet(deferred')
  BY <1>1, DeferInv DEF Notified
<1>3. Typed'
  BY <1>1, <1>2 DEF Typed
<1>4. Counted'
  BY <1>1, CountedKept
<1>5. Mail'
  BY <1>1, MailKept
<1>6. Flow'
  BY <1>1, <1>2, FlowKept DEF Flow, Finishing, HasWaiters, Dying
<1>7. Wakes'
  BY <1>1, <1>2, KickKept, WakesKept DEF Wakes, Active
<1> QED BY <1>3, <1>4, <1>5, <1>6, <1>7

(* ModelEnds keeps the invariant: between callbacks, so no finish is in a   *)
(* batch.                                                                   *)
LEMMA ModelEndsInv ==
    ASSUME IInv, NEW a \in {"final", "tools", "failed"}, ModelEnds(a)
    PROVE  IInv'
<1> USE DEF IInv
<1>1. /\ batch = <<>> /\ turn = "model" /\ answer' = a
      /\ used' = [used EXCEPT !.rounds = IF a = "tools" THEN @ + 1 ELSE @]
      /\ deferred' = Put(deferred, <<"service">>)
      /\ UNCHANGED <<src, queue, nextId, waiters, nap, kick, batch, outer, turn,
                     job, cancel, intr, wake, history>>
  BY DEF ModelEnds, Ready, sig
<1>2. /\ deferred' \in Seq(Cb) /\ Fins(deferred') = Fins(deferred)
      /\ Once(deferred') /\ ToSet(deferred) \subseteq ToSet(deferred')
  BY <1>1, DeferInv
<1>3. used' \in Used /\ used'.news = used.news
  <2>1. used \in Used
    BY DEF Typed
  <2>2. used' = [used EXCEPT !.rounds = used.rounds + 1] \/ used' = [used EXCEPT !.rounds = used.rounds]
    BY <1>1
  <2> QED BY <2>1, <2>2 DEF Used
<1>4. Typed'
  BY <1>1, <1>2, <1>3 DEF Typed
<1>5. Counted'
  BY <1>1, <1>3, CountedKept
<1>6. Mail'
  BY <1>1, MailKept
<1>7. Flow'
  <2>1. nap = "no" /\ outer = <<>>
    BY <1>1 DEF Flow, Turns
  <2>2. Turns'
    BY <1>1 DEF Flow, Turns, HasWaiters
  <2>3. Fins(batch)' = {} /\ Fins(outer)' = {}
    BY <1>1, <2>1, EmptyList
  <2>4. Fins(deferred)' = Fins(deferred) /\ Dying' = Dying
    BY <1>1, <1>2 DEF Fins, Dying
  <2>5. Finishing'
    BY <1>1, <1>2, <2>3, <2>4 DEF Flow, Finishing
  <2> QED BY <2>2, <2>5 DEF Flow
<1>8. Wakes'
  BY <1>1, <1>2, KickKept, WakesKept DEF Wakes, Active
<1> QED BY <1>4, <1>5, <1>6, <1>7, <1>8

(* The record of a wait that is called.                                     *)
LEMMA CalledIs ==
    ASSUME NEW targets \in SUBSET Source, NEW all \in BOOLEAN
    PROVE  LET q == [Free EXCEPT !.st = "active", !.for = targets, !.all = all] IN
           q \in Wtr /\ q.st = "active" /\ q.for = targets /\ \A s \in Source : q.text[s] = 0
<1> DEFINE q == [Free EXCEPT !.st = "active", !.for = targets, !.all = all]
<1> DEFINE z == [s \in Source |-> 0]
<1>1. z \in [Source -> Int] /\ \A s \in Source : z[s] = 0
  OBVIOUS
<1> DEFINE y == [st |-> "free", for |-> {}, all |-> FALSE, text |-> z]
<1>2. q = [y EXCEPT !.st = "active", !.for = targets, !.all = all]
  BY Zenon DEF Free
<1> HIDE DEF z
<1>3. y = [st |-> "free", for |-> {}, all |-> FALSE, text |-> z]
  OBVIOUS
<1> HIDE DEF y, q
<1>4. q = [st |-> "active", for |-> targets, all |-> all, text |-> z]
  BY <1>2, <1>3
<1>5. q \in Wtr /\ q.st = "active" /\ q.for = targets /\ \A s \in Source : q.text[s] = 0
  BY <1>1, <1>4 DEF Wtr
<1> QED BY <1>5, Zenon DEF q

(* A call of `wait` with `for`, which looks at once.                        *)
LEMMA CallWaitInv ==
    ASSUME IInv, NEW w \in Waiter, NEW targets \in SUBSET Source,
           NEW all \in BOOLEAN, NEW poll \in BOOLEAN, CallWait(w, targets, all, poll)
    PROVE  IInv'
<1> USE DEF IInv
<1> DEFINE q == [Free EXCEPT !.st = "active", !.for = targets, !.all = all]
<1> DEFINE r == Polled(q, poll)
<1> DEFINE ws == [waiters EXCEPT ![w] = r]
<1>1. /\ batch = <<>> /\ turn = "model" /\ waiters[w].st = "free"
      /\ waiters' = ws /\ queue' = Marked({r.text[s] : s \in targets})
      /\ deferred' = Armed(deferred, ws, nap)
      /\ src' = (IF targets \cap Timers # {} THEN Reaped(src) ELSE src)
      /\ UNCHANGED <<nextId, nap, kick, batch, outer, turn, answer, job, cancel, intr, wake,
                     history, used>>
  BY DEF CallWait, Streaming, Ready, run, sig
<1>2. q \in Wtr /\ q.st = "active" /\ q.for = targets /\ \A s \in Source : q.text[s] = 0
  BY CalledIs
<1> HIDE DEF q
<1>3. CanLook(w, q) /\ Seen(q, r)
  <2>1. CanLook(w, q)
    BY <1>1, <1>2 DEF CanLook
  <2> QED BY <2>1, PolledIs
<1> HIDE DEF r
<1>4. waiters'[w] = r /\ \A v \in (Waiter \ {w}) : waiters'[v] = waiters[v]
  BY <1>1 DEF Typed
<1> HIDE DEF ws
<1>5. /\ Mail' /\ queue' \subseteq Ev
      /\ \A v \in Waiter : waiters'[v] \in Wtr
  <2> DEFINE R == [v \in {w} |-> q]
             ids == {r.text[s] : s \in targets}
  <2>1. R[w] = q
    OBVIOUS
  <2>2. \A x : x \in ids <=> \E s \in targets : x = r.text[s]
    OBVIOUS
  <2>3. queue' = Marked(ids)
    BY <1>1
  <2> HIDE DEF R, ids
  <2>4. \A x : x \in ids <=> \E v \in {w} : \E s \in R[v].for : x = waiters'[v].text[s]
    BY <1>2, <1>4, <2>1, <2>2
  <2>5. \A v \in {w} : CanLook(v, R[v]) /\ Seen(R[v], waiters'[v])
    BY <1>3, <1>4, <2>1
  <2>6. Looking({w}, R, ids)
    BY <1>4, <2>4, <2>5 DEF Looking
  <2> QED BY <1>1, <2>3, <2>6, LookMail
<1>6. waiters' \in [Waiter -> Wtr]
  BY <1>1, <1>5 DEF ws, Typed
<1>7. /\ src' \in [Source -> Src]
      /\ \A s \in Source : /\ src'[s].st = "on" <=> src[s].st = "on"
                           /\ src'[s].st = "ending" <=> src[s].st = "ending"
                           /\ s \notin Timers => src'[s] = src[s]
  BY <1>1, ReapedIs DEF Typed
<1>8. /\ deferred' \in Seq(Cb) /\ Fins(deferred') = Fins(deferred)
      /\ Once(deferred') /\ ToSet(deferred) \subseteq ToSet(deferred')
  BY <1>1, DeferInv DEF Armed
<1>9. Typed'
  BY <1>1, <1>5, <1>6, <1>7, <1>8 DEF Typed
<1>10. Counted'
  <2>1. Busy' = Busy
    BY <1>7 DEF Busy
  <2> QED BY <1>1, <2>1 DEF Counted
<1>11. Flow'
  <2>1. Turns'
    BY <1>1 DEF Flow, Turns
  <2>2. /\ Fins(deferred)' = Fins(deferred) /\ Fins(batch)' = Fins(batch)
        /\ Fins(outer)' = Fins(outer) /\ Settled' = Settled
    BY <1>1, <1>8 DEF Fins, Settled
  <2>3. Dying' = Dying
    BY <1>7 DEF Dying
  <2>4. Finishing'
    BY <1>1, <1>8, <2>2, <2>3 DEF Flow, Finishing
  <2> QED BY <2>1, <2>4 DEF Flow
<1>12. Wakes'
  <2>1. KickOK'
    BY <1>1, <1>8, KickKept DEF Wakes
  <2>2. ASSUME NEW s \in Source
        PROVE  /\ Pending(s)' # {} <=> Pending(s) # {}
               /\ Running(s)' <=> Running(s)
               /\ SilentEnd(s) => SilentEnd(s)'
    <3>1. Pending(s)' # {} <=> Pending(s) # {}
      BY <1>1, <1>7, MarkedPending
    <3>2. Running(s)' <=> Running(s)
      BY <1>7 DEF Running
    <3>3. SilentEnd(s) => SilentEnd(s)'
      BY <1>7, <3>1, SourceKinds DEF SilentEnd, Stopped
    <3> QED BY <3>1, <3>2, <3>3
  <2>3. ASSUME NEW v \in Active', NEW s \in waiters'[v].for
        PROVE  Watched(v, s)' /\ Noticed(v, s)'
    <3>1. v \in Waiter /\ s \in Source
      BY <1>6 DEF Active, Wtr
    <3>2. CASE v = w
      <4>1. s \in targets /\ waiters'[w].text[s] = Look(q.text, s) /\ q.text[s] = 0
        BY <1>2, <1>3, <1>4, <3>1, <3>2 DEF Seen
      <4>2. nextId \in Nat \ {0}
        BY DEF Typed
      <4>3. waiters'[w].text[s] = 0 => Pending(s) = {} /\ Running(s)
        <5> DEFINE t == q.text
        <5>1. t[s] = 0 /\ t[s] \in -1 .. nextId - 1
          BY <4>1, <4>2
        <5> HIDE DEF t
        <5>2. Look(t, s) = 0 => Pending(s) = {} /\ Running(s)
          BY <3>1, <5>1, LookIs DEF NoReport
        <5> QED BY <4>1, <5>2 DEF t
      <4> QED BY <2>2, <3>1, <3>2, <4>3 DEF Watched, Noticed, Unreported
    <3>3. CASE v # w
      <4>1. waiters'[v] = waiters[v] /\ v \in Active
        BY <1>4, <3>1, <3>3 DEF Active
      <4>2. Watched(v, s) /\ Noticed(v, s)
        BY <4>1 DEF Wakes
      <4>3. kick' = kick
        BY <1>1
      <4> QED BY <2>2, <3>1, <4>1, <4>2, <4>3 DEF Watched, Noticed, Unreported
    <3> QED BY <3>2, <3>3
  <2> QED BY <2>1, <2>3 DEF Wakes
<1> QED BY <1>5, <1>9, <1>10, <1>11, <1>12

(***************************************************************************)
(* The service of the turn.                                                *)
(***************************************************************************)
(* No waits: no reports that wait for the turn.                             *)
LEMMA NoGroupIs ==
    ASSUME Typed, waiters' = NoGroup, nextId' = nextId
    PROVE  waiters' \in [Waiter -> Wtr] /\ ~HasWaiters' /\ Held' = {} /\ TextsOK'
<1> DEFINE z == [s \in Source |-> 0]
<1>1. z \in [Source -> Int] /\ \A s \in Source : z[s] = 0
  OBVIOUS
<1>2. Free = [st |-> "free", for |-> {}, all |-> FALSE, text |-> z]
  BY DEF Free
<1> HIDE DEF z
<1>3. Free \in Wtr /\ Free.st = "free" /\ \A s \in Source : Free.text[s] = 0
  BY <1>1, <1>2 DEF Wtr
<1>4. \A w \in Waiter : waiters'[w] = Free
  BY DEF NoGroup
<1>5. waiters' \in [Waiter -> Wtr]
  BY <1>3 DEF NoGroup
<1>6. ~HasWaiters'
  BY <1>3, <1>4 DEF HasWaiters
<1>7. Held' = {}
  BY <1>3, <1>4 DEF Held
<1>8. nextId' \in Nat \ {0}
  BY DEF Typed
<1>9. TextsOK'
  BY <1>3, <1>4, <1>8 DEF TextsOK
<1> QED BY <1>5, <1>6, <1>7, <1>9

(* A service of the turn that leaves the sources and the kick alone.        *)
LEMMA ServiceKept ==
    ASSUME IInv, batch # <<>>, Head(batch) = <<"service">>,
           batch' = Tail(batch) \/ batch' = batch,
           deferred' = deferred \/ deferred' = Put(deferred, <<"purge">>),
           UNCHANGED <<src, nextId, nap, kick, outer, wake, used>>,
           queue' \subseteq queue, waiters' \in [Waiter -> Wtr],
           turn' \in {"none", "model", "tools", "exclusive", "called"},
           answer' \in {"", "final", "tools", "failed"},
           job' \in BOOLEAN, cancel' \in BOOLEAN, intr' \in BOOLEAN,
           Mail', Turns', Settled' => Settled,
           \/ queue' = queue /\ waiters' = waiters
           \/ ~HasWaiters'
    PROVE  IInv'
<1> USE DEF IInv
<1>1. /\ batch' \in Seq(Cb) /\ Fins(batch') \subseteq Fins(batch) /\ Once(batch')
      /\ <<"kick">> \in ToSet(batch) => <<"kick">> \in ToSet(batch')
  <2>1. <<"service">> # <<"kick">>
    BY CbFacts
  <2> QED BY <2>1, Popped DEF Flow
<1>2. /\ deferred' \in Seq(Cb) /\ Fins(deferred') = Fins(deferred)
      /\ Once(deferred') /\ ToSet(deferred) \subseteq ToSet(deferred')
  BY DeferInv
<1>3. Typed'
  BY <1>1, <1>2 DEF Typed
<1>4. Counted'
  BY CountedKept
<1>5. Flow'
  <2>1. /\ Fins(deferred)' = Fins(deferred) /\ Fins(batch)' \subseteq Fins(batch)
        /\ Fins(outer)' = Fins(outer) /\ Dying' = Dying
    BY <1>1, <1>2 DEF Fins, Dying
  <2>2. Finishing'
    BY <1>1, <1>2, <2>1 DEF Flow, Finishing
  <2> QED BY <2>2 DEF Flow
<1>6. Wakes'
  <2>1. KickOK'
    BY <1>1, <1>2 DEF Wakes, KickOK
  <2>2. CASE queue' = queue /\ waiters' = waiters
    BY <2>1, <2>2, WakesKept DEF Active
  <2>3. CASE ~HasWaiters'
    BY <2>1, <2>3, WakesNone
  <2> QED BY <2>2, <2>3
<1> QED BY <1>3, <1>4, <1>5, <1>6

(* ServiceNothing keeps the invariant.                                      *)
LEMMA ServiceNothingInv ==
    ASSUME IInv, batch # <<>>, Head(batch) = <<"service">>, ServiceNothing, turn # "crashed"
    PROVE  IInv'
<1> USE DEF IInv
<1>1. /\ batch' = Tail(batch)
      /\ UNCHANGED <<src, queue, nextId, waiters, nap, kick, deferred, outer, turn, answer, job,
                     cancel, intr, wake, history, used>>
  BY DEF ServiceNothing, run, sig
<1>2. Mail'
  BY <1>1, MailKept
<1>3. Turns' /\ (Settled' => Settled)
  BY <1>1 DEF Flow, Turns, HasWaiters, Settled
<1>4. waiters' \in [Waiter -> Wtr] /\ queue' \subseteq queue
      /\ turn' \in {"none", "model", "tools", "exclusive", "called"}
      /\ answer' \in {"", "final", "tools", "failed"}
      /\ job' \in BOOLEAN /\ cancel' \in BOOLEAN /\ intr' \in BOOLEAN
  BY <1>1 DEF Typed
<1> QED BY <1>1, <1>2, <1>3, <1>4, ServiceKept

(* ServiceEnd keeps the invariant: what the waits held is gone.             *)
LEMMA ServiceEndInv ==
    ASSUME IInv, batch # <<>>, Head(batch) = <<"service">>, ServiceEnd
    PROVE  IInv'
<1> USE DEF IInv
<1>1. /\ waiters' = NoGroup /\ gone' = gone \cup Held
      /\ deferred' = (IF HasWaiters THEN Put(deferred, <<"purge">>) ELSE deferred)
      /\ turn = "model" /\ turn' = "none" /\ answer' = "" /\ job' = FALSE /\ cancel' = FALSE
      /\ batch' = Tail(batch)
      /\ UNCHANGED <<src, queue, nextId, nap, kick, outer, intr, wake, told, returned, used>>
  BY DEF ServiceEnd, AnswerIsIn, sig
<1>2. waiters' \in [Waiter -> Wtr] /\ ~HasWaiters' /\ Held' = {} /\ TextsOK'
  BY <1>1, NoGroupIs
<1>3. Mail'
  <2>1. Leaves
    BY <1>1, <1>2, HeldBound DEF Leaves, Mail
  <2> QED BY <2>1, LeavesMail
<1>4. Turns' /\ (Settled' => Settled)
  BY <1>1, <1>2 DEF Flow, Turns, Settled
<1>5. intr' \in BOOLEAN
  BY <1>1 DEF Typed
<1> QED BY <1>1, <1>2, <1>3, <1>4, <1>5, ServiceKept

(* ServiceSeal keeps the invariant.                                         *)
LEMMA ServiceSealInv ==
    ASSUME IInv, batch # <<>>, Head(batch) = <<"service">>, ServiceSeal
    PROVE  IInv'
<1> USE DEF IInv
<1>1. /\ turn = "model" /\ answer = "tools" /\ turn' = "tools" /\ answer' = ""
      /\ batch' = Tail(batch) \/ batch' = batch
      /\ UNCHANGED <<src, queue, nextId, waiters, nap, kick, deferred, outer, job,
                     cancel, intr, wake, history, used>>
  BY DEF ServiceSeal, AnswerIsIn, sig
<1>2. Mail'
  BY <1>1, MailKept
<1>3. Turns' /\ (Settled' => Settled)
  BY <1>1 DEF Flow, Turns, HasWaiters, Settled
<1>4. waiters' \in [Waiter -> Wtr] /\ queue' \subseteq queue
      /\ job' \in BOOLEAN /\ cancel' \in BOOLEAN /\ intr' \in BOOLEAN
  BY <1>1 DEF Typed
<1> QED BY <1>1, <1>2, <1>3, <1>4, ServiceKept

(* ServiceCollect keeps the invariant: what the waits held is returned.     *)
LEMMA ServiceCollectInv ==
    ASSUME IInv, batch # <<>>, Head(batch) = <<"service">>, ServiceCollect
    PROVE  IInv'
<1> USE DEF IInv
<1>1. /\ waiters' = NoGroup /\ returned' = returned \cup Held
      /\ deferred' = (IF HasWaiters THEN Put(deferred, <<"purge">>) ELSE deferred)
      /\ turn = "tools" /\ turn' \in {"none", "exclusive"} /\ intr' = FALSE
      /\ cancel' = FALSE \/ cancel' = cancel
      /\ batch' = Tail(batch) \/ batch' = batch
      /\ UNCHANGED <<src, queue, nextId, nap, kick, outer, answer, job, wake, told, gone, used>>
  BY DEF ServiceCollect, ToolsAreIn
<1>2. waiters' \in [Waiter -> Wtr] /\ ~HasWaiters' /\ Held' = {} /\ TextsOK'
  BY <1>1, NoGroupIs
<1>3. Mail'
  <2>1. Leaves
    BY <1>1, <1>2, HeldBound DEF Leaves, Mail
  <2> QED BY <2>1, LeavesMail
<1>4. Turns' /\ (Settled' => Settled)
  BY <1>1, <1>2 DEF Flow, Turns, Settled
<1>5. answer' \in {"", "final", "tools", "failed"} /\ job' \in BOOLEAN /\ cancel' \in BOOLEAN
      /\ turn' \in {"none", "model", "tools", "exclusive", "called"}
  BY <1>1 DEF Typed
<1> QED BY <1>1, <1>2, <1>3, <1>4, <1>5, ServiceKept

(* ServiceInterrupted keeps the invariant.                                  *)
LEMMA ServiceInterruptedInv ==
    ASSUME IInv, batch # <<>>, Head(batch) = <<"service">>, CallIsIn, ServiceInterrupted
    PROVE  IInv'
<1> USE DEF IInv
<1>1. /\ turn = "called" /\ nap = "no" /\ turn' = "none" /\ intr' = FALSE
      /\ batch' = Tail(batch)
      /\ UNCHANGED <<src, queue, nextId, waiters, nap, kick, deferred, outer, answer, job,
                     cancel, wake, history, used>>
  BY DEF ServiceInterrupted, CallIsIn
<1>2. Mail'
  BY <1>1, MailKept
<1>3. Turns' /\ (Settled' => Settled)
  BY <1>1 DEF Flow, Turns, HasWaiters, Settled
<1>4. waiters' \in [Waiter -> Wtr] /\ queue' \subseteq queue
      /\ answer' \in {"", "final", "tools", "failed"}
      /\ job' \in BOOLEAN /\ cancel' \in BOOLEAN
  BY <1>1 DEF Typed
<1> QED BY <1>1, <1>2, <1>3, <1>4, ServiceKept

(* ServiceRequest keeps the invariant: a request takes what no wait has     *)
(* read.                                                                    *)
LEMMA ServiceRequestInv ==
    ASSUME IInv, batch # <<>>, Head(batch) = <<"service">>, CallIsIn, ServiceRequest
    PROVE  IInv'
<1> USE DEF IInv
<1> DEFINE taken == {e \in Unseen : Live(e)}
<1>1. /\ turn \in {"exclusive", "called"} /\ nap = "no" /\ turn' = "model"
      /\ told' = told \cup Ids(taken) /\ gone' = gone \cup Ids(Unseen \ taken)
      /\ queue' = queue \ Unseen /\ batch' = Tail(batch)
      /\ UNCHANGED <<src, nextId, waiters, nap, kick, deferred, outer, answer, job,
                     cancel, intr, wake, returned, used>>
  BY DEF ServiceRequest, CallIsIn, sig
<1>2. /\ taken \subseteq Unseen /\ Unseen \subseteq queue /\ \A e \in Unseen : ~e.seen
      /\ queue \ queue' = Unseen
  BY <1>1 DEF Unseen
<1> HIDE DEF taken
<1>3. \A e \in Unseen : e.id \in 1 .. nextId - 1
  BY <1>2, QueuedId
<1>4. Mail'
  <2>1. Held' = Held
    BY <1>1 DEF Held, TextsOf
  <2>2. TextsOK'
    BY <1>1 DEF Mail, TextsOK
  <2>3. Leaves
    BY <1>1, <1>2, <1>3, <2>1, <2>2 DEF Leaves, Mail, Ids
  <2> QED BY <2>3, LeavesMail
<1>5. ~HasWaiters' /\ answer = ""
  BY <1>1 DEF Flow, Turns, HasWaiters
<1>6. Turns' /\ (Settled' => Settled)
  BY <1>1, <1>5 DEF Flow, Turns, Settled
<1>7. waiters' \in [Waiter -> Wtr] /\ queue' \subseteq queue
      /\ answer' \in {"", "final", "tools", "failed"}
      /\ job' \in BOOLEAN /\ cancel' \in BOOLEAN /\ intr' \in BOOLEAN
  BY <1>1 DEF Typed
<1> QED BY <1>1, <1>4, <1>5, <1>6, <1>7, ServiceKept

(* CallNamedWait keeps the invariant.                                       *)
LEMMA CallNamedWaitInv ==
    ASSUME IInv, NEW s \in Source, CallIsIn, CallNamedWait(s)
    PROVE  IInv'
<1> USE DEF IInv
<1>1. /\ nap = "no" /\ turn = "exclusive" /\ src[s].st = "off"
      /\ used.news < MaxNews /\ used' = [used EXCEPT !.news = @ + 1]
      /\ src' = [src EXCEPT ![s] = On] /\ turn' = "called"
      /\ UNCHANGED <<queue, nextId, waiters, nap, kick, deferred, batch, outer, answer, job,
                     cancel, intr, wake, history>>
  BY DEF CallNamedWait, CallIsIn, loop, sig
<1>2. used' \in Used /\ used'.news = used.news + 1 /\ used'.news <= MaxNews
  BY <1>1, NewsUsed
<1>3. /\ src \in [Source -> Src] /\ On \in Src /\ src' \in [Source -> Src]
      /\ src'[s] = On /\ \A t \in (Source \ {s}) : src'[t] = src[t]
  <2>1. src \in [Source -> Src] /\ On \in Src
    BY DEF Typed, On, Src
  <2> HIDE DEF On
  <2> QED BY <1>1, <2>1
<1>4. Typed'
  BY <1>1, <1>2, <1>3 DEF Typed
<1>5. Counted'
  BY <1>1, <1>2, <1>3, StartedCounted
<1>6. Mail'
  BY <1>1, MailKept
<1>7. ~HasWaiters'
  BY <1>1 DEF Flow, Turns, HasWaiters
<1>8. Flow'
  <2>1. Turns'
    BY <1>1, <1>7 DEF Flow, Turns
  <2>2. /\ Fins(deferred)' = Fins(deferred) /\ Fins(batch)' = Fins(batch)
        /\ Fins(outer)' = Fins(outer) /\ ~Settled'
    BY <1>1 DEF Fins, Settled
  <2>3. Dying' = Dying
    <3>1. src'[s].st # "ending" /\ src[s].st # "ending"
      BY <1>1, <1>3 DEF On
    <3> QED BY <1>3, <3>1 DEF Dying
  <2>4. Finishing'
    BY <1>1, <2>2, <2>3 DEF Flow, Finishing
  <2> QED BY <2>1, <2>4 DEF Flow
<1>9. Wakes'
  <2>1. KickOK'
    BY <1>1 DEF Wakes, KickOK
  <2> QED BY <1>7, <2>1, WakesNone
<1> QED BY <1>4, <1>5, <1>6, <1>8, <1>9

(* CallCancel keeps the invariant: from here a finish may be in the batch   *)
(* whose source is off.                                                     *)
LEMMA CallCancelInv ==
    ASSUME IInv, NEW s \in Source, CallIsIn, CallCancel(s)
    PROVE  IInv'
<1> USE DEF IInv
<1>1. /\ nap = "no" /\ turn = "exclusive" /\ turn' = "called"
      /\ src' = [Reaped(src) EXCEPT ![s] = Off]
      /\ deferred' = Without(deferred, {<<"finish", s>>})
      /\ UNCHANGED <<queue, nextId, waiters, nap, kick, batch, outer, answer, job, cancel,
                     intr, wake, history, used>>
  BY DEF CallCancel, CallIsIn, sig
<1>2. /\ src' \in [Source -> Src] /\ src'[s] = Off
      /\ \A t \in (Source \ {s}) : src'[t] = Reaped(src)[t]
  <2>1. Reaped(src) \in [Source -> Src] /\ Off \in Src
    BY ReapedIs DEF Typed, Off, Src
  <2> HIDE DEF Off
  <2> QED BY <1>1, <2>1
<1>3. src'[s].st = "off" /\ \A t \in (Source \ {s}) :
        /\ src'[t].st = "on" <=> src[t].st = "on"
        /\ src'[t].st = "ending" <=> src[t].st = "ending"
  <2>1. src \in [Source -> Src]
    BY DEF Typed
  <2>2. Off.st = "off"
    BY DEF Off
  <2> HIDE DEF Off
  <2> QED BY <1>2, <2>1, <2>2, ReapedIs
<1>4. /\ deferred' \in Seq(Cb) /\ Once(deferred') /\ Fins(deferred') = Fins(deferred) \ {s}
      /\ <<"kick">> \in ToSet(deferred) => <<"kick">> \in ToSet(deferred')
  <2>1. deferred \in Seq(Cb) /\ Once(deferred)
    BY DEF Typed, Flow, Finishing
  <2>2. /\ deferred' \in Seq(Cb) /\ Once(deferred')
        /\ ToSet(deferred') = ToSet(deferred) \ {<<"finish", s>>}
    BY <1>1, <2>1, WithoutIs
  <2>3. \A t \in Source : <<"finish", t>> = <<"finish", s>> <=> t = s
    OBVIOUS
  <2>4. Fins(deferred') = Fins(deferred) \ {s}
    BY <2>2, <2>3 DEF Fins
  <2> QED BY <2>2, <2>4, CbFacts
<1>5. Typed'
  BY <1>1, <1>2, <1>4 DEF Typed
<1>6. Counted'
  <2>1. Busy' \subseteq Busy
    BY <1>3 DEF Busy
  <2>2. Cardinality(Busy') <= Cardinality(Busy) /\ Cardinality(Busy') \in Nat
    BY <2>1, BusyFinite, FS_Subset, FS_CardinalityType
  <2>3. nextId \in Nat /\ used.news \in Nat
    BY DEF Typed, Used
  <2> QED BY <1>1, <2>2, <2>3, BusyFinite DEF Counted
<1>7. Mail'
  BY <1>1, MailKept
<1>8. ~HasWaiters'
  BY <1>1 DEF Flow, Turns, HasWaiters
<1>9. Flow'
  <2>1. Turns'
    BY <1>1, <1>8 DEF Flow, Turns
  <2>2. /\ Fins(deferred)' = Fins(deferred) \ {s} /\ Fins(batch)' = Fins(batch)
        /\ Fins(outer)' = Fins(outer) /\ ~Settled'
    BY <1>1, <1>4 DEF Fins, Settled
  <2>3. Dying' = Dying \ {s}
    BY <1>3 DEF Dying
  <2>4. Finishing'
    BY <1>1, <1>4, <2>2, <2>3 DEF Flow, Finishing
  <2> QED BY <2>1, <2>4 DEF Flow
<1>10. Wakes'
  <2>1. KickOK'
    BY <1>1, <1>4 DEF Wakes, KickOK
  <2> QED BY <1>8, <2>1, WakesNone
<1> QED BY <1>5, <1>6, <1>7, <1>9, <1>10

(* The nested loop suspends the batch, which still has the service.         *)
LEMMA CallNapInv ==
    ASSUME IInv, batch # <<>>, CallIsIn, CallNap
    PROVE  IInv'
<1> USE DEF IInv
<1>1. /\ nap = "no" /\ turn = "exclusive" /\ turn' = "called"
      /\ \/ /\ deferred' = Put(deferred, <<"purge">>)
            /\ UNCHANGED <<nap, batch, outer>>
         \/ /\ nap' = "sleeping" /\ outer' = batch /\ batch' = <<>> /\ deferred' = deferred
      /\ UNCHANGED <<src, queue, nextId, waiters, kick, answer, job, cancel,
                     intr, wake, history, used>>
  BY DEF CallNap, CallIsIn, sig
<1>2. /\ deferred' \in Seq(Cb) /\ Fins(deferred') = Fins(deferred)
      /\ Once(deferred') /\ ToSet(deferred) \subseteq ToSet(deferred')
  BY <1>1, DeferInv
<1>3. Typed'
  BY <1>1, <1>2, EmptyList DEF Typed
<1>4. Counted'
  BY <1>1, CountedKept
<1>5. Mail'
  BY <1>1, MailKept
<1>6. ~HasWaiters' /\ outer = <<>>
  BY <1>1 DEF Flow, Turns, HasWaiters
<1>7. Flow'
  <2>1. Turns'
    BY <1>1, <1>6 DEF Flow, Turns
  <2>2. Fins(outer) = {} /\ Fins(deferred)' = Fins(deferred) /\ Dying' = Dying
    BY <1>1, <1>2, <1>6, EmptyList DEF Fins, Dying
  <2>3. Fins(batch) \subseteq Dying
    BY <1>1 DEF Flow, Finishing, Settled
  <2>4. \/ Fins(batch)' = Fins(batch) /\ Fins(outer)' = {}
        \/ Fins(batch)' = {} /\ Fins(outer)' = Fins(batch)
    BY <1>1, <2>2, EmptyList DEF Fins
  <2>5. Once(batch)' /\ Once(outer)'
    BY <1>1, EmptyList DEF Flow, Finishing
  <2>6. Finishing'
    BY <1>2, <2>2, <2>3, <2>4, <2>5 DEF Flow, Finishing
  <2> QED BY <2>1, <2>6 DEF Flow
<1>8. Wakes'
  <2>1. KickOK'
    <3>1. kick => <<"kick">> \in ToSet(deferred) \cup ToSet(batch)
      BY <1>6, EmptyList DEF Wakes, KickOK
    <3>2. ToSet(batch) \subseteq ToSet(batch') \cup ToSet(outer')
      BY <1>1
    <3> QED BY <1>1, <1>2, <3>1, <3>2 DEF KickOK
  <2> QED BY <1>6, <2>1, WakesNone
<1> QED BY <1>3, <1>4, <1>5, <1>7, <1>8

(***************************************************************************)
(* The event loop.                                                         *)
(***************************************************************************)
(* RunDeferred keeps the invariant: the deferred callbacks are the batch.   *)
LEMMA RunDeferredInv ==
    ASSUME IInv, RunDeferred
    PROVE  IInv'
<1> USE DEF IInv
<1>1. /\ batch = <<>> /\ batch' = deferred /\ deferred' = <<>>
      /\ UNCHANGED <<src, queue, nextId, waiters, nap, kick, outer, turn, answer, job, cancel,
                     intr, wake, history, used>>
  BY DEF RunDeferred, Ready, run, sig
<1>2. Typed'
  BY <1>1, EmptyList DEF Typed
<1>3. Counted'
  BY <1>1, CountedKept
<1>4. Mail'
  BY <1>1, MailKept
<1>5. Flow'
  <2>1. Turns'
    BY <1>1 DEF Flow, Turns, HasWaiters
  <2>2. Fins(deferred)' = {} /\ Fins(batch)' = Fins(deferred) /\ Fins(outer)' = Fins(outer)
        /\ Dying' = Dying /\ Settled' = Settled
    BY <1>1, EmptyList DEF Fins, Dying, Settled
  <2>3. Finishing'
    BY <1>1, <2>2, EmptyList DEF Flow, Finishing
  <2> QED BY <2>1, <2>3 DEF Flow
<1>6. Wakes'
  <2>1. KickOK'
    BY <1>1, EmptyList DEF Wakes, KickOK
  <2> QED BY <1>1, <2>1, WakesKept DEF Active
<1> QED BY <1>2, <1>3, <1>4, <1>5, <1>6

(* NapOver keeps the invariant: the suspended batch goes on.                *)
LEMMA NapOverInv ==
    ASSUME IInv, NapOver
    PROVE  IInv'
<1> USE DEF IInv
<1>1. /\ batch = <<>> /\ nap = "woken" /\ nap' = "no"
      /\ deferred' = Put(deferred, <<"purge">>)
      /\ batch' = outer /\ outer' = <<>>
      /\ UNCHANGED <<src, queue, nextId, waiters, kick, turn, answer, job, cancel,
                     intr, wake, history, used>>
  BY DEF NapOver, Ready, run, sig
<1>2. /\ deferred' \in Seq(Cb) /\ Fins(deferred') = Fins(deferred)
      /\ Once(deferred') /\ ToSet(deferred) \subseteq ToSet(deferred')
  BY <1>1, DeferInv
<1>3. Typed'
  BY <1>1, <1>2, EmptyList DEF Typed
<1>4. Counted'
  BY <1>1, CountedKept
<1>5. Mail'
  BY <1>1, MailKept
<1>6. turn = "called" /\ ~HasWaiters'
  BY <1>1 DEF Flow, Turns, HasWaiters
<1>7. Flow'
  <2>1. Turns'
    BY <1>1, <1>6 DEF Flow, Turns
  <2>2. Fins(deferred)' = Fins(deferred) /\ Fins(batch)' = Fins(outer) /\ Fins(outer)' = {}
        /\ Dying' = Dying /\ ~Settled'
    BY <1>1, <1>2, <1>6, EmptyList DEF Fins, Dying, Settled
  <2>3. Finishing'
    BY <1>1, <1>2, <2>2, EmptyList DEF Flow, Finishing
  <2> QED BY <2>1, <2>3 DEF Flow
<1>8. Wakes'
  <2>1. KickOK'
    BY <1>1, <1>2, EmptyList DEF Wakes, KickOK
  <2> QED BY <1>6, <2>1, WakesNone
<1> QED BY <1>3, <1>4, <1>5, <1>7, <1>8

(* The bound of the interrupts and the lines of the user.                   *)
LEMMA OtherUsed ==
    ASSUME Typed, used' = [used EXCEPT !.other = @ + 1]
    PROVE  used' \in Used /\ used'.news = used.news
<1>1. used \in Used
  BY DEF Typed
<1>2. used' = [used EXCEPT !.other = used.other + 1]
  OBVIOUS
<1> QED BY <1>1, <1>2 DEF Used

(* No group and no nap outlives a turn, so the next finds none.             *)
LEMMA TurnStarts ==
    ASSUME IInv, batch = <<>>, nap = "no", turn = "none", turn' \in {"none", "model"},
           queue' \subseteq queue, Mail', intr' \in BOOLEAN,
           used' \in Used, used'.news = used.news,
           UNCHANGED <<src, nextId, waiters, nap, kick, deferred, batch, outer, answer, job,
                       cancel, wake>>
    PROVE  IInv'
<1> USE DEF IInv
<1>1. Typed'
  BY DEF Typed
<1>2. Counted'
  BY CountedKept
<1>3. ~HasWaiters' /\ answer = "" /\ outer = <<>>
  BY DEF Flow, Turns, HasWaiters
<1>4. Flow'
  <2>1. Turns'
    BY <1>3 DEF Flow, Turns
  <2>2. Fins(deferred)' = Fins(deferred) /\ Fins(batch)' = {} /\ Fins(outer)' = {}
        /\ Dying' = Dying
    BY <1>3, EmptyList DEF Fins, Dying
  <2>3. Finishing'
    BY <2>2 DEF Flow, Finishing
  <2> QED BY <2>1, <2>3 DEF Flow
<1>5. Wakes'
  <2>1. KickOK'
    BY DEF Wakes, KickOK
  <2> QED BY <1>3, <2>1, WakesNone
<1> QED BY <1>1, <1>2, <1>4, <1>5

(* Interrupt keeps the invariant.                                           *)
LEMMA InterruptInv ==
    ASSUME IInv, Interrupt
    PROVE  IInv'
<1> USE DEF IInv
<1>1. /\ used' = [used EXCEPT !.other = @ + 1] /\ intr' = TRUE /\ wake' = TRUE
      /\ UNCHANGED <<src, queue, nextId, waiters, nap, kick, deferred, batch, outer, turn,
                     answer, job, cancel, history>>
  BY DEF Interrupt, loop, run
<1>2. used' \in Used /\ used'.news = used.news
  BY <1>1, OtherUsed
<1>3. Typed'
  BY <1>1, <1>2 DEF Typed
<1>4. Counted'
  BY <1>1, <1>2, CountedKept
<1>5. Mail'
  BY <1>1, MailKept
<1>6. Flow'
  BY <1>1, FlowKept DEF Flow, Finishing, HasWaiters, Dying
<1>7. Wakes'
  BY <1>1, KickKept, WakesKept DEF Wakes, Active
<1> QED BY <1>3, <1>4, <1>5, <1>6, <1>7

(* WakePipe keeps the invariant.                                            *)
LEMMA WakePipeInv ==
    ASSUME IInv, WakePipe
    PROVE  IInv'
<1> USE DEF IInv
<1>1. /\ wake' = FALSE
      /\ \/ kick' = TRUE /\ deferred' = Put(deferred, <<"kick">>)
         \/ UNCHANGED <<kick, deferred>>
      /\ UNCHANGED <<src, queue, nextId, waiters, nap, batch, outer, turn, answer, job,
                     cancel, intr, history, used>>
  BY DEF WakePipe, run
<1>2. /\ deferred' \in Seq(Cb) /\ Fins(deferred') = Fins(deferred)
      /\ Once(deferred') /\ ToSet(deferred) \subseteq ToSet(deferred')
      /\ kick => kick'
      /\ kick' => kick \/ <<"kick">> \in ToSet(deferred')
  <2>1. deferred \in Seq(Cb) /\ Once(deferred)
    BY DEF Typed, Flow, Finishing
  <2> QED BY <1>1, <2>1, FinsPut
<1>3. Typed'
  BY <1>1, <1>2 DEF Typed
<1>4. Counted'
  BY <1>1, CountedKept
<1>5. Mail'
  BY <1>1, MailKept
<1>6. Flow'
  BY <1>1, <1>2, FlowKept DEF Flow, Finishing, HasWaiters, Dying
<1>7. Wakes'
  BY <1>1, <1>2, KickKept, WakesKept DEF Wakes, Active
<1> QED BY <1>3, <1>4, <1>5, <1>6, <1>7

(***************************************************************************)
(* The owner of the loop.                                                  *)
(***************************************************************************)
(* A wait that is cut leaves what it had read.                              *)
LEMMA CutMail ==
    ASSUME Typed, Mail,
           waiters' = [w \in Waiter |-> IF w \in Active THEN [waiters[w] EXCEPT !.st = "cut"]
                                        ELSE waiters[w]],
           gone' = gone \cup UNION {TextsOf(w) : w \in Active},
           UNCHANGED <<queue, nextId, told, returned>>
    PROVE  Mail' /\ waiters' \in [Waiter -> Wtr] /\ Active' = {} /\ (HasWaiters' => HasWaiters)
<1>1. ASSUME NEW w \in Waiter
      PROVE  /\ waiters'[w] \in Wtr /\ waiters'[w].for = waiters[w].for
             /\ waiters'[w].text = waiters[w].text
             /\ w \in Active => waiters'[w].st = "cut"
             /\ w \notin Active => waiters'[w].st = waiters[w].st
  <2>1. waiters[w] \in Wtr
    BY DEF Typed
  <2>2. CASE w \in Active
    <3>1. waiters'[w] = [waiters[w] EXCEPT !.st = "cut"]
      BY <2>2
    <3> QED BY <2>1, <2>2, <3>1 DEF Wtr
  <2>3. CASE w \notin Active
    BY <2>1, <2>3
  <2> QED BY <2>2, <2>3
<1>2. waiters' \in [Waiter -> Wtr]
  <2>1. \E f : waiters' = [w \in Waiter |-> f[w]]
    <3>1. waiters' = [w \in Waiter |-> waiters'[w]]
      OBVIOUS
    <3> QED BY <3>1
  <2> QED BY <1>1, <2>1
<1>3. \A w \in Waiter : TextsOf(w)' = TextsOf(w)
  BY <1>1 DEF TextsOf
<1>4. \A w \in Active : w \in Waiter /\ waiters[w].st = "active"
  BY DEF Active
<1>5. Active' = {}
  <2>1. ASSUME NEW w \in Waiter, waiters'[w].st = "active" PROVE FALSE
    <3>1. w \notin Active
      BY <1>1, <2>1
    <3>2. waiters[w].st = "active"
      BY <1>1, <2>1, <3>1
    <3> QED BY <3>1, <3>2 DEF Active
  <2> QED BY <2>1 DEF Active
<1>6. Held' \subseteq Held
  <2>1. ASSUME NEW x \in Held' PROVE x \in Held
    <3>1. PICK w \in Waiter : waiters'[w].st \in {"active", "done"} /\ x \in TextsOf(w)'
      BY <2>1 DEF Held
    <3>2. waiters[w].st \in {"active", "done"} /\ x \in TextsOf(w)
      BY <1>1, <1>3, <1>4, <3>1
    <3> QED BY <3>2 DEF Held
  <2> QED BY <2>1
<1>7. Held \subseteq Held' \cup gone'
  <2>1. ASSUME NEW x \in Held PROVE x \in Held' \cup gone'
    <3>1. PICK w \in Waiter : waiters[w].st \in {"active", "done"} /\ x \in TextsOf(w)
      BY <2>1 DEF Held
    <3>2. CASE w \in Active
      BY <3>1, <3>2
    <3>3. CASE w \notin Active
      <4>1. waiters'[w].st \in {"active", "done"} /\ x \in TextsOf(w)'
        BY <1>1, <1>3, <3>1, <3>3
      <4> QED BY <4>1 DEF Held
    <3> QED BY <3>2, <3>3
  <2> QED BY <2>1
<1>8. UNION {TextsOf(w) : w \in Active} \subseteq Held
  BY <1>4 DEF Held
<1>9. TextsOK'
  BY <1>1 DEF Mail, TextsOK
<1>10. Leaves
  BY <1>6, <1>7, <1>8, <1>9, HeldBound DEF Leaves, Mail
<1>11. Mail'
  BY <1>10, LeavesMail
<1>12. HasWaiters' => HasWaiters
  BY <1>1, <1>4 DEF HasWaiters
<1> QED BY <1>2, <1>5, <1>11, <1>12

(* TakeInterrupt keeps the invariant: a wait that is cut wakes for nothing  *)
(* more.                                                                    *)
LEMMA TakeInterruptInv ==
    ASSUME IInv, TakeInterrupt
    PROVE  IInv'
<1> USE DEF IInv
<1>1. /\ batch = <<>> /\ intr' = FALSE
      /\ UNCHANGED <<src, queue, nextId, nap, kick, batch, outer, turn, answer, job, wake,
                     told, returned, used>>
  BY DEF TakeInterrupt, Owner, Ready
<1>2. CASE UNCHANGED <<waiters, gone, cancel, deferred>>
  <2>1. Typed'
    BY <1>1, <1>2 DEF Typed
  <2>2. Counted'
    BY <1>1, CountedKept
  <2>3. Mail'
    BY <1>1, <1>2, MailKept DEF history
  <2>4. Flow'
    BY <1>1, <1>2, FlowKept DEF Flow, Finishing, HasWaiters, Dying
  <2>5. Wakes'
    BY <1>1, <1>2, KickKept, WakesKept DEF Wakes, Active
  <2> QED BY <2>1, <2>2, <2>3, <2>4, <2>5
<1>3. CASE ~(turn = "none" \/ cancel)
  <2> DEFINE ws == [w \in Waiter |-> IF w \in Active THEN [waiters[w] EXCEPT !.st = "cut"]
                                     ELSE waiters[w]]
  <2>1. /\ waiters' = ws /\ cancel' = TRUE
        /\ gone' = gone \cup UNION {TextsOf(w) : w \in Active}
        /\ deferred' = Notified(deferred, ws, job)
    BY <1>3 DEF TakeInterrupt
  <2>2. Mail' /\ waiters' \in [Waiter -> Wtr] /\ Active' = {} /\ (HasWaiters' => HasWaiters)
    BY <1>1, <2>1, CutMail
  <2> HIDE DEF ws
  <2>3. /\ deferred' \in Seq(Cb) /\ Fins(deferred') = Fins(deferred)
        /\ Once(deferred') /\ ToSet(deferred) \subseteq ToSet(deferred')
    BY <2>1, DeferInv DEF Notified
  <2>4. Typed'
    BY <1>1, <2>1, <2>2, <2>3 DEF Typed
  <2>5. Counted'
    BY <1>1, CountedKept
  <2>6. Flow'
    BY <1>1, <2>2, <2>3, FlowKept DEF Dying
  <2>7. Wakes'
    <3>1. KickOK'
      BY <1>1, <2>3, KickKept DEF Wakes
    <3> QED BY <2>2, <3>1, WakesIdle
  <2> QED BY <2>2, <2>4, <2>5, <2>6, <2>7
<1>4. UNCHANGED <<waiters, gone, cancel, deferred>> \/ ~(turn = "none" \/ cancel)
  BY DEF TakeInterrupt
<1> QED BY <1>2, <1>3, <1>4

(* EventTurn keeps the invariant.                                           *)
LEMMA EventTurnInv ==
    ASSUME IInv, EventTurn
    PROVE  IInv'
<1> USE DEF IInv
<1>1. PICK live : live = {e \in Unseen : Live(e)}
  OBVIOUS
<1>2. PICK out : out = {e \in Unseen : live # {} => e.id <= Oldest(live).id}
  OBVIOUS
<1>3. /\ batch = <<>> /\ nap = "no" /\ turn = "none" /\ turn' \in {"none", "model"}
      /\ told' = told \cup Ids(out \cap live) /\ gone' = gone \cup Ids(out \ live)
      /\ queue' = queue \ out /\ intr' \in {intr, FALSE}
      /\ UNCHANGED <<src, nextId, waiters, nap, kick, deferred, batch, outer, answer, job,
                     cancel, wake, returned, used>>
  BY <1>1, <1>2 DEF EventTurn, Owner, Ready, loop
<1>4. out \subseteq queue /\ (\A e \in out : ~e.seen) /\ queue \ queue' = out
  BY <1>2, <1>3 DEF Unseen
<1>5. \A e \in out : e.id \in 1 .. nextId - 1
  BY <1>4, QueuedId
<1>6. Mail'
  <2>1. Held' = Held
    BY <1>3 DEF Held, TextsOf
  <2>2. TextsOK'
    BY <1>3 DEF Mail, TextsOK
  <2>3. Leaves
    BY <1>3, <1>4, <1>5, <2>1, <2>2 DEF Leaves, Mail, Ids
  <2> QED BY <2>3, LeavesMail
<1>7. queue' \subseteq queue /\ intr' \in BOOLEAN /\ used' \in Used /\ used'.news = used.news
  BY <1>3 DEF Typed
<1> QED BY <1>3, <1>6, <1>7, TurnStarts

(* UserTurn keeps the invariant.                                            *)
LEMMA UserTurnInv ==
    ASSUME IInv, UserTurn
    PROVE  IInv'
<1>1. /\ batch = <<>> /\ nap = "no" /\ turn = "none" /\ turn' = "model"
      /\ used' = [used EXCEPT !.other = @ + 1] /\ intr' = FALSE
      /\ UNCHANGED <<src, queue, nextId, waiters, nap, kick, deferred, batch, outer, answer,
                     job, cancel, wake, history>>
  BY DEF UserTurn, Owner, Ready, loop
<1>2. used' \in Used /\ used'.news = used.news
  BY <1>1, OtherUsed DEF IInv
<1>3. Mail'
  BY <1>1, MailKept DEF IInv
<1> QED BY <1>1, <1>2, <1>3, TurnStarts DEF IInv

(* Reset keeps the invariant: what was queued goes with the conversation.   *)
LEMMA ResetInv ==
    ASSUME IInv, Reset
    PROVE  IInv'
<1> USE DEF IInv
<1>1. /\ batch = <<>> /\ nap = "no" /\ turn = "none"
      /\ used' = [used EXCEPT !.other = @ + 1]
      /\ src' = [s \in Source |-> Off] /\ queue' = {}
      /\ gone' = gone \cup (Ids(queue) \ returned)
      /\ deferred' = Without(deferred, Finishes)
      /\ UNCHANGED <<nextId, waiters, nap, kick, batch, outer, turn, answer, job, cancel,
                     intr, wake, told, returned>>
  BY DEF Reset, Owner, Ready, run, sig
<1>2. used' \in Used /\ used'.news = used.news
  BY <1>1, OtherUsed
<1>3. src' \in [Source -> Src] /\ \A s \in Source : src'[s].st = "off"
  <2>1. Off \in Src /\ Off.st = "off"
    BY DEF Off, Src
  <2> HIDE DEF Off
  <2> QED BY <1>1, <2>1
<1>4. /\ deferred' \in Seq(Cb) /\ Once(deferred') /\ Fins(deferred') = {}
      /\ <<"kick">> \in ToSet(deferred) => <<"kick">> \in ToSet(deferred')
  <2>1. deferred \in Seq(Cb) /\ Once(deferred)
    BY DEF Typed, Flow, Finishing
  <2>2. /\ deferred' \in Seq(Cb) /\ Once(deferred')
        /\ ToSet(deferred') = ToSet(deferred) \ Finishes
    BY <1>1, <2>1, WithoutIs
  <2>3. Fins(deferred') = {}
    BY <2>2 DEF Fins, Finishes
  <2>4. <<"kick">> \notin Finishes
    BY CbFacts DEF Finishes
  <2> QED BY <2>2, <2>3, <2>4
<1>5. Typed'
  BY <1>1, <1>2, <1>3, <1>4 DEF Typed
<1>6. Counted'
  <2>1. Busy' = {}
    BY <1>3 DEF Busy
  <2>2. Cardinality(Busy') = 0
    BY <2>1, FS_EmptySet
  <2>3. nextId \in Nat /\ used.news \in Nat
    BY DEF Typed, Used
  <2> QED BY <1>1, <1>2, <2>2, <2>3, BusyFinite DEF Counted
<1>7. Mail'
  <2>1. Held' = Held
    BY <1>1 DEF Held, TextsOf
  <2>2. TextsOK'
    BY <1>1 DEF Mail, TextsOK
  <2>3. Leaves
    BY <1>1, <2>1, <2>2, QueuedId DEF Leaves, Mail, Ids
  <2> QED BY <2>3, LeavesMail
<1>8. ~HasWaiters' /\ outer = <<>>
  BY <1>1 DEF Flow, Turns, HasWaiters
<1>9. Flow'
  <2>1. Turns'
    BY <1>1, <1>8 DEF Flow, Turns
  <2>2. Fins(deferred)' = {} /\ Fins(batch)' = {} /\ Fins(outer)' = {}
    BY <1>1, <1>4, <1>8, EmptyList DEF Fins
  <2>3. Finishing'
    BY <1>1, <1>4, <2>2 DEF Flow, Finishing
  <2> QED BY <2>1, <2>3 DEF Flow
<1>10. Wakes'
  <2>1. KickOK'
    BY <1>1, <1>4 DEF Wakes, KickOK
  <2> QED BY <1>8, <2>1, WakesNone
<1> QED BY <1>5, <1>6, <1>7, <1>9, <1>10

(***************************************************************************)
(* Every step.                                                             *)
(***************************************************************************)
(* The invariant holds at the start.                                        *)
LEMMA InitInv == Init => IInv
<1> SUFFICES ASSUME Init PROVE IInv
  OBVIOUS
<1>1. /\ \E started \in Started : src = [s \in Source |-> IF s \in started THEN On ELSE Off]
      /\ queue = {} /\ nextId = 1 /\ waiters = NoGroup /\ nap = "no" /\ kick = FALSE
      /\ deferred = <<>> /\ batch = <<>> /\ outer = <<>>
      /\ turn = "none" /\ answer = "" /\ job = FALSE /\ cancel = FALSE
      /\ intr = FALSE /\ wake = FALSE /\ told = {} /\ returned = {} /\ gone = {}
      /\ used = [news |-> 0, rounds |-> 0, other |-> 0]
  BY DEF Init
<1>0. nextId = 1 /\ queue = {} /\ used = [news |-> 0, rounds |-> 0, other |-> 0]
  BY <1>1
<1>2. src \in [Source -> Src]
  <2>1. On \in Src /\ Off \in Src
    BY DEF On, Off, Src
  <2>2. PICK started : src = [s \in Source |-> IF s \in started THEN On ELSE Off]
    BY <1>1
  <2> HIDE DEF On, Off
  <2> QED BY <2>1, <2>2
<1> DEFINE z == [s \in Source |-> 0]
<1>3. z \in [Source -> Int] /\ \A s \in Source : z[s] = 0
  OBVIOUS
<1>4. Free = [st |-> "free", for |-> {}, all |-> FALSE, text |-> z]
  BY DEF Free
<1> HIDE DEF z
<1>5. Free \in Wtr /\ Free.st = "free" /\ \A s \in Source : Free.text[s] = 0
  BY <1>3, <1>4 DEF Wtr
<1>6. waiters \in [Waiter -> Wtr] /\ \A w \in Waiter : waiters[w] = Free
  BY <1>1, <1>5 DEF NoGroup
<1>7. used \in Used /\ used.news = 0 /\ used.news <= MaxNews
  <2>1. MaxNews \in Nat
    BY WaitAssumption
  <2>2. [news |-> 0, rounds |-> 0, other |-> 0] \in Used
    BY DEF Used
  <2>3. used.news = 0
    BY <1>0
  <2>4. used.news <= MaxNews
    BY <2>1, <2>3
  <2>5. used \in Used
    BY <1>0, <2>2
  <2> QED BY <2>3, <2>4, <2>5
<1>8. Typed
  <2>1. nextId \in Nat \ {0} /\ queue \subseteq Ev
    BY <1>0
  <2> QED BY <1>1, <1>2, <1>6, <1>7, <2>1, EmptyList DEF Typed
<1>9. Counted
  <2>1. nextId - 1 = 0
    BY <1>0
  <2> QED BY <1>7, <2>1, BusyFinite DEF Counted
<1>10. ~HasWaiters /\ Active = {} /\ Held = {}
  BY <1>5, <1>6 DEF HasWaiters, Active, Held
<1>11. Flow
  BY <1>1, <1>10, EmptyList DEF Flow, Turns, Finishing
<1>12. Mail
  <2>1. TextsOK
    <3>1. \A w \in Waiter : \A s \in Source : waiters[w].text[s] = 0
      BY <1>5, <1>6
    <3>2. 0 \in -1 .. nextId - 1
      BY <1>0
    <3> QED BY <3>1, <3>2 DEF TextsOK
  <2>2. GivenOnce /\ NothingVanishes
    <3>1. 1 .. nextId - 1 = {}
      BY <1>0
    <3> QED BY <1>1, <3>1 DEF GivenOnce, NothingVanishes
  <2> QED BY <1>1, <2>1, <2>2 DEF Mail
<1>13. Wakes
  BY <1>1, <1>10 DEF Wakes, KickOK
<1> QED BY <1>8, <1>9, <1>11, <1>12, <1>13 DEF IInv

(* Every service of the turn keeps the invariant.                           *)
LEMMA ServiceInv ==
    ASSUME IInv, batch # <<>>, turn # "crashed", Head(batch) = <<"service">>, Service
    PROVE  IInv'
<1>1. CASE ServiceNothing
  BY <1>1, ServiceNothingInv
<1>2. CASE ServiceEnd
  BY <1>2, ServiceEndInv
<1>3. CASE ServiceSeal
  BY <1>3, ServiceSealInv
<1>4. CASE ServiceCollect
  BY <1>4, ServiceCollectInv
<1>5. ASSUME NEW s \in Source, CallIsIn, CallNamedWait(s) PROVE IInv'
  BY <1>5, CallNamedWaitInv
<1>6. ASSUME NEW s \in Source, CallIsIn, CallCancel(s) PROVE IInv'
  BY <1>6, CallCancelInv
<1>7. CASE CallIsIn /\ CallNap
  BY <1>7, CallNapInv
<1>8. CASE CallIsIn /\ ServiceInterrupted
  BY <1>8, ServiceInterruptedInv
<1>9. CASE CallIsIn /\ ServiceRequest
  BY <1>9, ServiceRequestInv
<1> QED BY <1>1, <1>2, <1>3, <1>4, <1>5, <1>6, <1>7, <1>8, <1>9 DEF Service

(* Kicked keeps the invariant.                                              *)
LEMMA KickedInv ==
    ASSUME IInv, batch # <<>>, Kicked
    PROVE  IInv'
<1>1. /\ Poll(deferred, {}, FALSE) /\ UNCHANGED <<nextId, outer, run, sig, history, used>>
      /\ kick' = FALSE /\ batch' = Tail(batch)
  BY DEF Kicked
<1> QED BY <1>1, LookInv

(* Every callback of the batch keeps the invariant.                         *)
LEMMA CallbackInv ==
    ASSUME IInv, Callback
    PROVE  IInv'
<1>1. batch # <<>> /\ turn # "crashed"
  BY DEF Callback
<1>2. Head(batch) \in Cb
  BY <1>1, TailIs DEF IInv, Typed
<1>3. CASE Head(batch) = <<"kick">>
  <2>1. Kicked
    BY <1>3 DEF Callback
  <2> QED BY <1>1, <2>1, KickedInv
<1>4. CASE Head(batch) = <<"purge">>
  <2>1. Purge
    BY <1>4, CbFacts DEF Callback
  <2> QED BY <1>1, <1>4, <2>1, PurgeInv
<1>5. CASE Head(batch) = <<"service">>
  <2>1. Service
    BY <1>5, CbFacts DEF Callback
  <2> QED BY <1>1, <1>5, <2>1, ServiceInv
<1>6. ASSUME NEW s \in Source, Head(batch) = <<"finish", s>> PROVE IInv'
  <2>1. Head(batch)[2] = s
    BY <1>6
  <2>2. Finish(s) \/ FinishFreed(s)
    BY <1>6, <2>1, CbFacts DEF Callback
  <2> QED BY <1>1, <1>6, <2>2, FinishInv, FinishFreedInv
<1> QED BY <1>2, <1>3, <1>4, <1>5, <1>6, CbFacts

(* The timers of the waits keep the invariant.                              *)
LEMMA TimeInv ==
    ASSUME IInv, Time
    PROVE  IInv'
<1>1. ASSUME NEW w \in Waiter, WaiterLate(w) PROVE IInv'
  <2>1. /\ Poll(deferred, {w}, FALSE) /\ UNCHANGED <<nextId, outer, run, sig, history, used>>
        /\ UNCHANGED <<kick, batch>>
    BY <1>1 DEF WaiterLate
  <2> QED BY <2>1, LookInv
<1>2. CASE NapLate
  <2>1. /\ Poll(deferred, {}, TRUE) /\ UNCHANGED <<nextId, outer, run, sig, history, used>>
        /\ UNCHANGED <<kick, batch>>
    BY <1>2 DEF NapLate
  <2> QED BY <2>1, LookInv
<1> QED BY <1>1, <1>2 DEF Time

(* News of monitors and sub-agents keep the invariant.                      *)
LEMMA NewsInv ==
    ASSUME IInv, NEW s \in Source, MonitorOutput(s) \/ AgentWaits(s)
    PROVE  IInv'
<1>1. CASE MonitorOutput(s)
  <2>1. /\ s \in Monitors /\ src[s].st = "on" /\ used.news < MaxNews
        /\ used' = [used EXCEPT !.news = @ + 1]
        /\ src' \in {src, [src EXCEPT ![s].stopped = TRUE]} /\ Inject(<<<<s, "lines">>>>)
        /\ UNCHANGED <<waiters, nap, batch, outer, run, sig, history>>
    BY <1>1 DEF MonitorOutput
  <2> QED BY <2>1, OutputInv
<1>2. CASE AgentWaits(s)
  <2>1. /\ s \in Agents /\ src[s].st = "on" /\ used.news < MaxNews
        /\ used' = [used EXCEPT !.news = @ + 1]
        /\ src' \in {src, [src EXCEPT ![s].stopped = TRUE]} /\ Inject(<<<<s, "input">>>>)
        /\ UNCHANGED <<waiters, nap, batch, outer, run, sig, history>>
    BY <1>2 DEF AgentWaits
  <2> QED BY <2>1, OutputInv
<1> QED BY <1>1, <1>2

(* The calls of an answer keep the invariant.                               *)
LEMMA CallInv ==
    ASSUME IInv, Call
    PROVE  IInv'
<1>1. ASSUME NEW s \in Source, CallStart(s) PROVE IInv'
  BY <1>1, CallStartInv
<1>2. CASE CallJob
  BY <1>2, CallJobInv
<1>3. ASSUME NEW w \in Waiter, NEW targets \in SUBSET Source \ {{}},
             NEW all \in BOOLEAN, NEW poll \in BOOLEAN, CallWait(w, targets, all, poll)
      PROVE  IInv'
  BY <1>3, CallWaitInv
<1> QED BY <1>1, <1>2, <1>3 DEF Call

(* The invariant depends on the variables alone.                            *)
LEMMA StutterInv ==
    ASSUME IInv, UNCHANGED vars
    PROVE  IInv'
<1> USE DEF IInv
<1>1. UNCHANGED <<src, queue, nextId, waiters, nap, kick, deferred, batch, outer, turn, answer,
                  job, cancel, intr, wake, told, returned, gone, used>>
  BY DEF vars, loop, run, sig, history
<1>2. Typed'
  BY <1>1 DEF Typed
<1>3. Counted'
  BY <1>1, CountedKept
<1>4. Mail'
  BY <1>1, MailKept DEF history
<1>5. Flow'
  BY <1>1, FlowKept DEF Flow, Finishing, HasWaiters, Dying
<1>6. Wakes'
  BY <1>1, KickKept, WakesKept DEF Wakes, Active
<1> QED BY <1>2, <1>3, <1>4, <1>5, <1>6

(* Every step keeps the invariant.                                          *)
LEMMA NextInv == IInv /\ [Next]_vars => IInv'
<1> SUFFICES ASSUME IInv, [Next]_vars PROVE IInv'
  OBVIOUS
<1>1. ASSUME NEW s \in Source, WaitFires(s) \/ JobEnds(s) PROVE IInv'
  BY <1>1, WaitFiresInv, JobEndsInv
<1>2. CASE Time
  BY <1>2, TimeInv
<1>3. CASE Call
  BY <1>3, CallInv
<1>4. ASSUME NEW s \in Source, MonitorOutput(s) \/ AgentWaits(s) PROVE IInv'
  BY <1>4, NewsInv
<1>5. CASE JobOfGroupEnds
  BY <1>5, JobOfGroupEndsInv
<1>6. ASSUME NEW a \in {"final", "tools", "failed"}, ModelEnds(a) PROVE IInv'
  BY <1>6, ModelEndsInv
<1>7. CASE RunDeferred
  BY <1>7, RunDeferredInv
<1>8. CASE Callback
  BY <1>8, CallbackInv
<1>9. CASE NapOver
  BY <1>9, NapOverInv
<1>10. CASE Interrupt
  BY <1>10, InterruptInv
<1>11. CASE WakePipe
  BY <1>11, WakePipeInv
<1>12. CASE TakeInterrupt
  BY <1>12, TakeInterruptInv
<1>13. CASE EventTurn
  BY <1>13, EventTurnInv
<1>14. CASE UserTurn
  BY <1>14, UserTurnInv
<1>15. CASE Reset
  BY <1>15, ResetInv
<1>16. CASE UNCHANGED vars
  BY <1>16, StutterInv
<1> QED BY <1>1, <1>2, <1>3, <1>4, <1>5, <1>6, <1>7, <1>8, <1>9, <1>10, <1>11, <1>12, <1>13,
           <1>14, <1>15, <1>16 DEF Next, Ends

(* The four parts of the invariant hold in every state.                     *)
THEOREM EventWaitInvariant == Spec => []IInv
BY InitInv, NextInv, PTL DEF Spec

(***************************************************************************)
(* What follows.                                                           *)
(***************************************************************************)
(* No id is given beyond the ends and the news there can be.                *)
LEMMA IdBound ==
    ASSUME IInv
    PROVE  nextId \in 1 .. MaxId + 1 /\ MaxId \in Nat /\ nextId - 1 \in 0 .. MaxId
<1>1. nextId \in Nat \ {0} /\ used.news \in Nat /\ used.news <= MaxNews /\ MaxNews \in Nat
  BY WaitAssumption DEF IInv, Typed, Used
<1>2. nextId - 1 + Cardinality(Busy) <= Cardinality(Source) + used.news
  BY DEF IInv, Counted
<1> QED BY <1>1, <1>2, BusyFinite DEF MaxId

(* The types follow: each event that was queued took one of the ids there   *)
(* are.                                                                     *)
LEMMA InvType == IInv => TypeOK
<1> SUFFICES ASSUME IInv PROVE TypeOK
  OBVIOUS
<1>1. nextId \in 1 .. MaxId + 1 /\ MaxId \in Nat /\ nextId - 1 \in 0 .. MaxId
  BY IdBound
<1>2. queue \subseteq [id : 1 .. MaxId, from : Source, what : {"lines", "input", "end"},
                       seen : BOOLEAN]
  <2>1. ASSUME NEW e \in queue
        PROVE  e \in [id : 1 .. MaxId, from : Source, what : {"lines", "input", "end"},
                      seen : BOOLEAN]
    <3>1. e \in Ev
      BY DEF IInv, Typed
    <3>2. e.id \in 1 .. nextId - 1
      BY QueuedId DEF IInv
    <3>3. e.id \in 1 .. MaxId
      BY <1>1, <3>2
    <3> QED BY <3>1, <3>3 DEF Ev
  <2> QED BY <2>1
<1>3. waiters \in [Waiter -> [st : {"free", "active", "done", "cut"}, for : SUBSET Source,
                              all : BOOLEAN, text : [Source -> NoReport .. MaxId]]]
  <2>1. ASSUME NEW w \in Waiter
        PROVE  waiters[w] \in [st : {"free", "active", "done", "cut"}, for : SUBSET Source,
                               all : BOOLEAN, text : [Source -> NoReport .. MaxId]]
    <3>1. waiters[w] \in Wtr
      BY DEF IInv, Typed
    <3>2. ASSUME NEW s \in Source PROVE waiters[w].text[s] \in NoReport .. MaxId
      <4>1. waiters[w].text[s] \in -1 .. nextId - 1
        BY DEF IInv, Mail, TextsOK
      <4> QED BY <1>1, <4>1 DEF NoReport
    <3>3. waiters[w].text \in [Source -> NoReport .. MaxId]
      BY <3>1, <3>2 DEF Wtr
    <3> QED BY <3>1, <3>3 DEF Wtr
  <2>2. waiters = [w \in Waiter |-> waiters[w]]
    BY DEF IInv, Typed
  <2> QED BY <2>1, <2>2
<1>4. \A cb \in ToSet(deferred) \cup ToSet(batch) \cup ToSet(outer) : cb \in Cb
  <2>1. \A d \in Seq(Cb) : \A cb \in ToSet(d) : cb \in Cb
    BY DEF ToSet
  <2> QED BY <2>1 DEF IInv, Typed
<1>5. told \cup returned \cup gone \subseteq 1 .. MaxId
  BY <1>1 DEF IInv, Mail
<1>6. nap # "no" => turn = "called" /\ ~HasWaiters /\ outer # <<>>
  BY DEF IInv, Flow, Turns
<1> QED BY <1>1, <1>2, <1>3, <1>4, <1>5, <1>6 DEF IInv, Typed, TypeOK, Src, Cb

(* The types of EventWait, with the ids within the bound.                   *)
THEOREM TypeCorrect == Spec => []TypeOK
BY EventWaitInvariant, InvType, PTL

(* The turn loop and the waits never both have an event.                    *)
THEOREM EventsGivenOnce == Spec => []GivenOnce
<1>1. IInv => GivenOnce
  BY DEF IInv, Mail
<1> QED BY <1>1, EventWaitInvariant, PTL

(* No order of looks, purges, requests and ends loses an event.             *)
THEOREM NoEventVanishes == Spec => []NothingVanishes
<1>1. IInv => NothingVanishes
  BY DEF IInv, Mail
<1> QED BY <1>1, EventWaitInvariant, PTL

(* What a waiter has to see, and was not the silent end of a monitor that   *)
(* was stopped, has set the kick, and the kick is queued.                   *)
THEOREM NoWakeIsMissed == Spec => []NoMissedWake
<1>1. IInv => NoMissedWake
  <2> SUFFICES ASSUME IInv, NEW w \in Active, NEW s \in waiters[w].for, Unreported(w, s),
                      ~SilentEnd(s)
               PROVE  LookIsDue
    BY DEF NoMissedWake
  <2>1. Noticed(w, s)
    BY DEF IInv, Wakes
  <2>2. kick
    BY <2>1 DEF Noticed
  <2>3. HasWaiters
    BY DEF Active, HasWaiters
  <2>4. ToSet(outer) = {}
    BY <2>3, EmptyList DEF IInv, Flow, Turns
  <2> QED BY <2>2, <2>4 DEF IInv, Wakes, KickOK, LookIsDue
<1> QED BY <1>1, EventWaitInvariant, PTL

(***************************************************************************)
(* A wait says of no target wrongly that it ended without a report.         *)
(***************************************************************************)
FalseEnd(w, s) ==
    waiters'[w].text[s] = NoReport /\ waiters[w].text[s] # NoReport /\ ~Stopped(s)

(* A look says so only of a target that has ended and queued nothing.       *)
LEMMA SeenEnd ==
    ASSUME Typed, Mail, NEW w \in Waiter, NEW r, NEW p, CanLook(w, r), Seen(r, p),
           NEW s \in Source, p.text[s] = NoReport
    PROVE  \/ r.text[s] = NoReport
           \/ s \in r.for /\ r.text[s] = 0 /\ Pending(s) = {} /\ ~Running(s)
<1>1. p.text[s] # 0
  BY DEF NoReport
<1>2. s \in r.for /\ p.text[s] = Look(r.text, s)
  BY <1>1 DEF Seen
<1>3. nextId \in Nat \ {0}
  BY DEF Typed
<1> DEFINE t == r.text
<1>4. t[s] \in -1 .. nextId - 1
  BY <1>3 DEF CanLook, Mail, TextsOK
<1> HIDE DEF t
<1>5. /\ t[s] # 0 => Look(t, s) = t[s]
      /\ t[s] = 0 => \/ Look(t, s) \in Ids(queue) \ {0, NoReport}
                     \/ Pending(s) = {} /\ ~Running(s)
                     \/ Look(t, s) = 0
  BY <1>4, LookIs
<1>6. Look(t, s) = NoReport
  BY <1>2 DEF t
<1>7. t[s] = NoReport \/ (t[s] = 0 /\ Pending(s) = {} /\ ~Running(s))
  BY <1>5, <1>6 DEF NoReport
<1> QED BY <1>2, <1>7 DEF t

(* A poll says it of no other target: the end of each was queued.           *)
LEMMA PollEnds ==
    ASSUME IInv, NEW late, NEW napLate, Poll(deferred, late, napLate),
           UNCHANGED <<nextId, history>>, NEW w \in Waiter, NEW s \in Source
    PROVE  ~FalseEnd(w, s)
<1> USE DEF IInv
<1>1. /\ \A v \in Active : CanLook(v, waiters[v]) /\ Seen(waiters[v], waiters'[v])
      /\ \A v \in (Waiter \ Active) : waiters'[v] = waiters[v]
  BY PollIs
<1>2. CASE w \notin Active
  BY <1>1, <1>2 DEF FalseEnd
<1>3. CASE w \in Active
  <2> SUFFICES ASSUME waiters'[w].text[s] = NoReport, waiters[w].text[s] # NoReport
               PROVE  Stopped(s)
    BY DEF FalseEnd
  <2>1. CanLook(w, waiters[w]) /\ Seen(waiters[w], waiters'[w])
    BY <1>1, <1>3
  <2>2. s \in waiters[w].for /\ waiters[w].text[s] = 0 /\ Pending(s) = {} /\ ~Running(s)
    BY <2>1, SeenEnd
  <2>3. Watched(w, s)
    BY <1>3, <2>2 DEF Wakes
  <2> QED BY <2>2, <2>3 DEF Watched, SilentEnd
<1> QED BY <1>2, <1>3

(* A new wait says it of no target: one without a report is refused.        *)
LEMMA CallWaitEnds ==
    ASSUME IInv, NEW v \in Waiter, NEW targets \in SUBSET Source,
           NEW all \in BOOLEAN, NEW poll \in BOOLEAN, CallWait(v, targets, all, poll),
           NEW w \in Waiter, NEW s \in Source
    PROVE  ~FalseEnd(w, s)
<1> USE DEF IInv
<1> DEFINE q == [Free EXCEPT !.st = "active", !.for = targets, !.all = all]
<1>1. /\ waiters[v].st = "free" /\ \A t \in targets : Running(t) \/ Pending(t) # {}
      /\ waiters' = [waiters EXCEPT ![v] = Polled(q, poll)]
  BY DEF CallWait
<1>2. q \in Wtr /\ q.st = "active" /\ q.for = targets /\ \A t \in Source : q.text[t] = 0
  BY CalledIs
<1> HIDE DEF q
<1>3. waiters \in [Waiter -> Wtr]
  BY DEF Typed
<1>4. CASE w # v
  BY <1>1, <1>3, <1>4 DEF FalseEnd
<1>5. CASE w = v
  <2>1. CanLook(w, q) /\ waiters'[w] = Polled(q, poll)
    BY <1>1, <1>2, <1>3, <1>5 DEF CanLook
  <2>2. Seen(q, waiters'[w])
    BY <2>1, PolledIs
  <2>3. q.text[s] # NoReport
    BY <1>2 DEF NoReport
  <2> QED BY <1>1, <1>2, <2>1, <2>2, <2>3, SeenEnd DEF FalseEnd
<1> QED BY <1>4, <1>5

(* The actions by which no wait comes to say it.                            *)
LEMMA QuietEnds ==
    ASSUME IInv, NEW w \in Waiter, NEW s \in Source,
           \/ waiters' = waiters
           \/ waiters' = NoGroup
           \/ TakeInterrupt
    PROVE  ~FalseEnd(w, s)
<1>1. CASE waiters' = waiters
  BY <1>1 DEF FalseEnd
<1>2. CASE waiters' = NoGroup
  <2>1. waiters'[w].text[s] = 0
    <3>1. waiters'[w] = Free
      BY <1>2 DEF NoGroup
    <3>2. Free.text[s] = 0
      BY DEF Free
    <3> QED BY <3>1, <3>2
  <2> QED BY <2>1 DEF FalseEnd, NoReport
<1>3. CASE TakeInterrupt
  <2>1. waiters[w] \in Wtr
    BY DEF IInv, Typed
  <2>2. waiters'[w] = waiters[w] \/ waiters'[w] = [waiters[w] EXCEPT !.st = "cut"]
    BY <1>3 DEF TakeInterrupt
  <2>3. waiters'[w].text = waiters[w].text
    BY <2>1, <2>2 DEF Wtr
  <2> QED BY <2>3 DEF FalseEnd
<1> QED BY <1>1, <1>2, <1>3

(* The service of the turn keeps the waits or drops them all.               *)
LEMMA ServiceWaiters ==
    ASSUME Service
    PROVE  waiters' = waiters \/ waiters' = NoGroup
BY DEF Service, ServiceNothing, ServiceEnd, ServiceSeal, ServiceCollect, CallNamedWait,
       CallCancel, CallNap, ServiceInterrupted, ServiceRequest

(* No callback says it wrongly.                                             *)
LEMMA CallbackEnds ==
    ASSUME IInv, Callback, NEW w \in Waiter, NEW s \in Source
    PROVE  ~FalseEnd(w, s)
<1>1. CASE Kicked
  <2>1. Poll(deferred, {}, FALSE) /\ UNCHANGED <<nextId, history>>
    BY <1>1 DEF Kicked
  <2> QED BY <2>1, PollEnds
<1>2. CASE Purge
  BY <1>2, QuietEnds DEF Purge
<1>3. CASE Service
  BY <1>3, ServiceWaiters, QuietEnds
<1>4. CASE Finish(Head(batch)[2]) \/ FinishFreed(Head(batch)[2])
  BY <1>4, QuietEnds DEF Finish, FinishFreed
<1> QED BY <1>1, <1>2, <1>3, <1>4 DEF Callback

(* No step says it wrongly.                                                 *)
LEMMA NextEnds ==
    ASSUME IInv, Next, NEW w \in Waiter, NEW s \in Source
    PROVE  ~FalseEnd(w, s)
<1>1. ASSUME NEW t \in Source, WaitFires(t) \/ JobEnds(t) \/ MonitorOutput(t) \/ AgentWaits(t)
      PROVE  ~FalseEnd(w, s)
  BY <1>1, QuietEnds DEF WaitFires, JobEnds, MonitorOutput, AgentWaits
<1>2. CASE Time
  <2>1. PICK late, napLate : /\ Poll(deferred, late, napLate)
                             /\ UNCHANGED <<nextId, history>>
    BY <1>2 DEF Time, WaiterLate, NapLate
  <2> QED BY <2>1, PollEnds
<1>3. CASE Call
  <2>1. ASSUME NEW t \in Source, CallStart(t) PROVE ~FalseEnd(w, s)
    BY <2>1, QuietEnds DEF CallStart
  <2>2. CASE CallJob
    BY <2>2, QuietEnds DEF CallJob
  <2>3. ASSUME NEW v \in Waiter, NEW targets \in SUBSET Source \ {{}},
               NEW all \in BOOLEAN, NEW poll \in BOOLEAN, CallWait(v, targets, all, poll)
        PROVE  ~FalseEnd(w, s)
    BY <2>3, CallWaitEnds
  <2> QED BY <1>3, <2>1, <2>2, <2>3 DEF Call
<1>4. CASE JobOfGroupEnds \/ \E a \in {"final", "tools", "failed"} : ModelEnds(a)
  BY <1>4, QuietEnds DEF JobOfGroupEnds, ModelEnds
<1>5. CASE RunDeferred \/ NapOver \/ Interrupt \/ WakePipe
  BY <1>5, QuietEnds DEF RunDeferred, NapOver, Interrupt, WakePipe
<1>6. CASE Callback
  BY <1>6, CallbackEnds
<1>7. CASE TakeInterrupt
  BY <1>7, QuietEnds
<1>8. CASE EventTurn \/ UserTurn \/ Reset
  BY <1>8, QuietEnds DEF EventTurn, UserTurn, Reset
<1> QED BY <1>1, <1>2, <1>3, <1>4, <1>5, <1>6, <1>7, <1>8 DEF Next, Ends

(* A wait says "ended without a report" only of a monitor that was stopped: *)
(* of all others the end was queued before a look could find them gone.     *)
THEOREM NoEndIsFalse == Spec => NoFalseEnd
<1> DEFINE A == \A w \in Waiter : \A s \in Source :
                   waiters'[w].text[s] = NoReport =>
                       waiters[w].text[s] = NoReport \/ Stopped(s)
<1>1. IInv /\ [Next]_vars => [A]_vars
  <2>1. ASSUME IInv, Next PROVE A
    BY <2>1, NextEnds DEF FalseEnd
  <2> QED BY <2>1
<1> QED BY <1>1, EventWaitInvariant, PTL DEF Spec, NoFalseEnd
==============================================================================
