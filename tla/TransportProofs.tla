-------------------------- MODULE TransportProofs --------------------------
(***************************************************************************)
(* The credential transport, for any number of calls, any window, step     *)
(* and socket: a request that is parked waits for a refresh that is under  *)
(* way; a transfer that is paused is resumed by room in a socket that is   *)
(* watched or by credit that the agent owes; no credit is lost; and the    *)
(* owner of a call gets one answer, in order, each piece one time.         *)
(*                                                                         *)
(* IInv is the inductive invariant of the wake-ups: types, and of each     *)
(* request what it waits for.  A handler of the transport changes one      *)
(* request; each has a lemma that says what it leaves of that request      *)
(* (Settled) and that it takes nothing from the others (Touches).          *)
(*                                                                         *)
(* Whole, in the second half, is that of the answers: what is on the way   *)
(* to a call goes on where its owner is (Chain) and ends where the         *)
(* transfer is (Tip).  Each handler has a lemma that says that it sends    *)
(* frames of its own request alone (Adds) and leaves that request so       *)
(* (Serving); each step of the agent has one that says that a call still   *)
(* fits what is left on the way (Flow).                                    *)
(***************************************************************************)
EXTENDS Transport, FilterProofs

(* The types, without the bounds that TypeOK has.                          *)
Reqs == [phase : {"none", "parked", "running", "done", "over"}, seq : Nat,
         credit : Int, started : BOOLEAN, paused : BOOLEAN,
         cancelled : BOOLEAN, finished : BOOLEAN, rejected : BOOLEAN,
         held : BOOLEAN, retry : BOOLEAN, retried : BOOLEAN, tag : Nat,
         pending : Seq(Frames), result : {"none", "ok", "failed"},
         try : Nat, status : Status, len : Nat, pos : Nat]

Server == [chan : {"open", "doomed", "closed"}, reset : BOOLEAN, want : BOOLEAN,
           refresh : BOOLEAN,
           work : [op : {"none", "resume", "run"}, left : SUBSET Call],
           down : Seq(Frames), req : [Call -> Reqs]]

Serves(s) == s \in Server /\ Len(s.down) <= Room

Made == [st : ErrorKind \cup {"idle", "open", "unsent", "freed", "ok", "lost", "aborted"},
         started : BOOLEAN, cancelSent : BOOLEAN, next : Nat, unreported : Nat,
         got : [try : Nat, n : Nat, torn : BOOLEAN]]

Client == [open : BOOLEAN, src : BOOLEAN, lost : BOOLEAN, call : [Call -> Made]]

Asks == {f \in Frames : f.kind \in {"request", "cancel", "credit"}}

Typed ==
    /\ agent \in Client /\ Serves(srv) /\ up \in Seq(Asks)
    /\ login \in [tag : Nat, age : {"fresh", "due", "expired"}]

(* The handler under way still comes to the request c.                     *)
Mine(s, c, op) == s.work.op = op /\ c \in s.work.left

(* What is queued of a request is its end, sent once and for all; and a    *)
(* request that waits for the login has nothing else to wait for.          *)
Shape(r) ==
    /\ r.pending # <<>> => r.finished
    /\ r.finished => r.phase = "over"
    /\ r.phase = "parked" => ~r.paused
    /\ r.phase = "done" => r.result # "none"

(* What the request c waits for is to come.  o is whether the agent still  *)
(* has the channel.                                                        *)
Wakes(s, c, o) ==
    LET r == s.req[c] IN
    s.chan = "open" =>
        /\ r.phase = "parked" => s.refresh \/ Mine(s, c, "run")
        /\ o /\ r.phase = "running" /\ r.paused =>
              s.want \/ r.credit < Chunk \/ Mine(s, c, "resume")
        /\ o /\ r.pending # <<>> => s.want \/ Mine(s, c, "resume")

Waits ==
    /\ srv.work.op = "none" => srv.work.left = {}
    /\ \A c \in Call :
          /\ Shape(srv.req[c]) /\ Wakes(srv, c, agent.open)
          /\ Mine(srv, c, "run") => srv.req[c].phase = "parked"

IInv == Typed /\ Waits

-------------------------------------------------------------------------------
(* Handlers of the transport.                                              *)

(* A handler of the request c takes nothing from the others.               *)
Touches(s, t, c) ==
    /\ Serves(t) /\ t.work = s.work
    /\ t.chan = s.chan \/ (s.chan = "open" /\ t.chan = "doomed")
    /\ s.want => t.want
    /\ s.refresh => t.refresh
    /\ \A d \in Call : d # c => t.req[d] = s.req[d]

Settled(t, c) == Shape(t.req[c]) /\ Wakes(t, c, agent.open)

(* What follows one handler follows the two of them.                       *)
LEMMA TouchesOn ==
    ASSUME NEW s, NEW t, NEW u, NEW c, Touches(s, t, c), Touches(t, u, c)
    PROVE  Touches(s, u, c)
BY DEF Touches

(* A request that is replaced by r, while the rest stays.                  *)
LEMMA WithReq ==
    ASSUME NEW s, Serves(s), NEW c \in Call, NEW r \in Reqs
    PROVE  /\ Touches(s, [s EXCEPT !.req[c] = r], c)
           /\ [s EXCEPT !.req[c] = r].req[c] = r
           /\ [s EXCEPT !.req[c] = r].chan = s.chan
           /\ [s EXCEPT !.req[c] = r].want = s.want
           /\ [s EXCEPT !.req[c] = r].refresh = s.refresh
           /\ [s EXCEPT !.req[c] = r].down = s.down
<1> DEFINE t == [s EXCEPT !.req[c] = r]
<1>1. /\ t.chan = s.chan /\ t.reset = s.reset /\ t.want = s.want /\ t.refresh = s.refresh
      /\ t.work = s.work /\ t.down = s.down /\ t.req = [s.req EXCEPT ![c] = r]
  BY DEF Serves, Server
<1>2. t \in Server
  BY DEF Serves, Server
<1>3. t.req[c] = r /\ \A d \in Call : d # c => t.req[d] = s.req[d]
  BY <1>1 DEF Serves, Server
<1> QED
  BY <1>1, <1>2, <1>3 DEF Touches, Serves

(* The same, with d on the way to the agent.                               *)
Sends(s, c, r, d) == [s EXCEPT !.down = d, !.req[c] = r]

(* It changes the request and what is sent.                                *)
LEMMA WithSend ==
    ASSUME NEW s, Serves(s), NEW c \in Call, NEW r \in Reqs, NEW d \in Seq(Frames), Len(d) <= Room
    PROVE  /\ Touches(s, Sends(s, c, r, d), c)
           /\ Sends(s, c, r, d).req[c] = r
           /\ Sends(s, c, r, d).down = d
           /\ Sends(s, c, r, d).chan = s.chan
           /\ Sends(s, c, r, d).want = s.want
           /\ Sends(s, c, r, d).refresh = s.refresh
<1> DEFINE t == [s EXCEPT !.down = d, !.req[c] = r]
<1>1. /\ t.chan = s.chan /\ t.reset = s.reset /\ t.want = s.want /\ t.refresh = s.refresh
      /\ t.work = s.work /\ t.down = d /\ t.req = [s.req EXCEPT ![c] = r]
  BY DEF Serves, Server
<1>2. t \in Server
  BY DEF Serves, Server
<1>3. t.req[c] = r /\ \A e \in Call : e # c => t.req[e] = s.req[e]
  BY <1>1 DEF Serves, Server
<1> QED
  BY <1>1, <1>2, <1>3 DEF Touches, Serves, Sends

(* A watch on the socket.                                                  *)
LEMMA WithWant ==
    ASSUME NEW s, Serves(s), NEW c
    PROVE  /\ Touches(s, [s EXCEPT !.want = TRUE], c)
           /\ [s EXCEPT !.want = TRUE].req = s.req /\ [s EXCEPT !.want = TRUE].want
BY DEF Serves, Server, Touches

(* A request that is not there.                                            *)
LEMMA NoReqFacts ==
    /\ NoReq \in Reqs /\ NoReq.phase = "none" /\ NoReq.pending = <<>> /\ ~NoReq.finished
    /\ ~NoReq.paused /\ Shape(NoReq)
<1>1. <<>> \in Seq(Frames)
  OBVIOUS
<1> QED
  BY <1>1 DEF NoReq, Reqs, Status, Shape

(* chan_doom.                                                              *)
LEMMA ChanDoomTouches ==
    ASSUME NEW s, Serves(s), NEW c
    PROVE  Touches(s, ChanDoom(s), c) /\ ChanDoom(s).req = s.req /\ ChanDoom(s).chan # "open"
BY DEF Serves, Server, ChanDoom, Touches

(* What is sent of the frames p, and what is left of them, when the socket *)
(* holds d and takes n.                                                    *)
LEMMA SendFacts ==
    ASSUME NEW S, NEW d \in Seq(S), NEW p \in Seq(S), NEW n \in Nat, Len(d) <= n,
           NEW k, k = IF Len(p) <= n - Len(d) THEN Len(p) ELSE n - Len(d)
    PROVE  /\ d \o SubSeq(p, 1, k) \in Seq(S) /\ Len(d \o SubSeq(p, 1, k)) <= n
           /\ SubSeq(p, k + 1, Len(p)) \in Seq(S)
           /\ ~(k < Len(p)) => SubSeq(p, k + 1, Len(p)) = <<>>
<1>1. k \in 0 .. Len(p) /\ k <= n - Len(d) /\ Len(p) \in Nat /\ Len(d) \in Nat
  OBVIOUS
<1>2. SubSeq(p, 1, k) \in Seq(S) /\ Len(SubSeq(p, 1, k)) = k
  BY <1>1, SubSeqProperties
<1>3. d \o SubSeq(p, 1, k) \in Seq(S) /\ Len(d \o SubSeq(p, 1, k)) = Len(d) + k
  BY <1>2, ConcatProperties
<1>4. SubSeq(p, k + 1, Len(p)) \in Seq(S)
  BY <1>1, SubSeqProperties
<1>5. k = Len(p) => Len(SubSeq(p, k + 1, Len(p))) = 0
  BY <1>1, SubSeqProperties
<1>6. k = Len(p) => SubSeq(p, k + 1, Len(p)) = <<>>
  BY <1>4, <1>5, EmptySeq
<1>7. Len(d \o SubSeq(p, 1, k)) <= n
  <2> DEFINE a == Len(d)
             b == Len(d \o SubSeq(p, 1, k))
  <2>1. a \in Nat /\ b = a + k /\ k <= n - a /\ k \in Nat
    BY <1>1, <1>3
  <2> HIDE DEF a, b
  <2>2. b <= n
    BY <2>1
  <2> QED
    BY <2>2 DEF b
<1>8. ~(k < Len(p)) => k = Len(p)
  BY <1>1
<1> QED
  BY <1>3, <1>4, <1>6, <1>7, <1>8

(* req_flush of a request that has ended: what the socket did not take is  *)
(* watched for.                                                            *)
LEMMA ReqFlushSettles ==
    ASSUME NEW s, Serves(s), NEW c \in Call, s.req[c].finished, s.req[c].phase = "over"
    PROVE  Touches(s, ReqFlush(s, c), c) /\ Settled(ReqFlush(s, c), c)
<1> DEFINE p == s.req[c].pending
           room == Room - Len(s.down)
           k == IF Len(p) <= room THEN Len(p) ELSE room
           d == s.down \o SubSeq(p, 1, k)
           rest == SubSeq(p, k + 1, Len(p))
           r == [s.req[c] EXCEPT !.pending = rest]
           t == Sends(s, c, r, d)
           none == [s.req[c] EXCEPT !.pending = <<>>]
<1>1. s \in Server /\ s.req[c] \in Reqs /\ s.down \in Seq(Frames) /\ p \in Seq(Frames)
  BY DEF Serves, Server, Reqs
<1>2. /\ d \in Seq(Frames) /\ Len(d) <= Room
      /\ rest \in Seq(Frames) /\ (~(k < Len(p)) => rest = <<>>)
  <2> HIDE DEF p
  <2> QED
    BY <1>1, SendFacts, TransportAssumption DEF Serves
<1>3. r \in Reqs /\ r.pending = rest /\ r.phase = "over" /\ r.finished
  <2> HIDE DEF p, k, d, rest
  <2> QED
    BY <1>1, <1>2 DEF Reqs
<1>4. none \in Reqs /\ none.pending = <<>> /\ none.phase = "over" /\ none.finished
  <2>1. <<>> \in Seq(Frames)
    OBVIOUS
  <2> HIDE DEF p
  <2> QED
    BY <1>1, <2>1 DEF Reqs
<1>5. ReqFlush(s, c) = IF p # <<>> /\ ~agent.open
                       THEN ChanDoom([s EXCEPT !.req[c] = none])
                       ELSE IF k < Len(p) THEN [t EXCEPT !.want = TRUE]
                       ELSE [t EXCEPT !.req[c] = NoReq]
  BY DEF ReqFlush, Sends
<1> HIDE DEF p, k, d, rest, r
<1>6. Touches(s, t, c) /\ t.req[c] = r
  BY <1>2, <1>3, WithSend
<1> HIDE DEF t, none
<1>7. CASE p # <<>> /\ ~agent.open
  <2> DEFINE u == [s EXCEPT !.req[c] = none]
  <2>1. Touches(s, u, c) /\ u.req[c] = none
    BY <1>4, WithReq
  <2> HIDE DEF u
  <2>2. Touches(u, ChanDoom(u), c) /\ ChanDoom(u).req[c] = none
    BY <2>1, ChanDoomTouches DEF Touches
  <2>3. Settled(ChanDoom(u), c)
    BY <1>4, <1>7, <2>1, <2>2, ChanDoomTouches DEF Settled, Shape, Wakes, Touches
  <2> QED
    BY <1>5, <1>7, <2>1, <2>2, <2>3, TouchesOn DEF u
<1>8. CASE ~(p # <<>> /\ ~agent.open) /\ k < Len(p)
  <2>1. /\ Touches(t, [t EXCEPT !.want = TRUE], c) /\ [t EXCEPT !.want = TRUE].req[c] = r
        /\ [t EXCEPT !.want = TRUE].want
    BY <1>6, WithWant DEF Touches
  <2> DEFINE u == [t EXCEPT !.want = TRUE]
  <2> HIDE DEF u
  <2>2. Settled(u, c)
    BY <1>3, <2>1 DEF Settled, Shape, Wakes, u
  <2> QED
    BY <1>5, <1>6, <1>8, <2>1, <2>2, TouchesOn DEF u
<1>9. CASE ~(p # <<>> /\ ~agent.open) /\ ~(k < Len(p))
  <2> DEFINE u == [t EXCEPT !.req[c] = NoReq]
  <2>1. Touches(t, u, c) /\ u.req[c] = NoReq
    BY <1>6, WithReq, NoReqFacts DEF Touches
  <2> HIDE DEF u
  <2>2. Settled(u, c)
    BY <2>1, NoReqFacts DEF Settled, Shape, Wakes
  <2> QED
    BY <1>5, <1>6, <1>9, <2>1, <2>2, TouchesOn DEF u
<1> QED
  BY <1>7, <1>8, <1>9

(* A frame of a request.                                                   *)
Data == [try : Nat, from : Nat, n : Nat]
Kinds == ErrorKind \cup {"request", "cancel", "credit", "start", "body", "end"}

(* What Frame and DataOf make is a frame of its call and kind.             *)
LEMMA FrameFacts ==
    /\ \A c \in Call, kind \in Kinds, seq \in Nat, data \in Data :
          /\ Frame(c, kind, seq, data) \in Frames
          /\ Frame(c, kind, seq, data).id = c /\ Frame(c, kind, seq, data).kind = kind
    /\ \A try, from, n \in Nat : DataOf(try, from, n) \in Data
    /\ NoData \in Data
BY DEF Frame, Frames, Data, Kinds, DataOf, NoData

(* req_queue.                                                              *)
LEMMA ReqQueueTouches ==
    ASSUME NEW s, Serves(s), NEW c \in Call, NEW kind \in Kinds, NEW data \in Data
    PROVE  /\ Touches(s, ReqQueue(s, c, kind, data), c)
           /\ ReqQueue(s, c, kind, data).req[c].phase = s.req[c].phase
           /\ ReqQueue(s, c, kind, data).req[c].finished = s.req[c].finished
<1> DEFINE f == Frame(c, kind, s.req[c].seq, data)
           p == Append(s.req[c].pending, f)
           r == [s.req[c] EXCEPT !.pending = p, !.seq = @ + 1]
<1>1. s.req[c] \in Reqs
  BY DEF Serves, Server
<1>2. s.req[c].seq \in Nat /\ s.req[c].seq + 1 \in Nat /\ s.req[c].pending \in Seq(Frames)
  BY <1>1 DEF Reqs
<1>3. f \in Frames
  BY <1>2, FrameFacts
<1> HIDE DEF f
<1>4. p \in Seq(Frames)
  BY <1>2, <1>3, AppendProperties
<1> HIDE DEF p
<1>5. r \in Reqs /\ r.phase = s.req[c].phase /\ r.finished = s.req[c].finished
  <2> DEFINE q == s.req[c]
             n == s.req[c].seq + 1
  <2> HIDE DEF q, n
  <2>1. q \in Reqs /\ n \in Nat
    BY <1>1, <1>2 DEF q, n
  <2>2. r = [q EXCEPT !.pending = p, !.seq = n]
    BY DEF q, n
  <2>3. [q EXCEPT !.pending = p, !.seq = n] \in Reqs
    BY <1>4, <2>1 DEF Reqs
  <2>4. /\ [q EXCEPT !.pending = p, !.seq = n].phase = q.phase
        /\ [q EXCEPT !.pending = p, !.seq = n].finished = q.finished
    BY <2>1 DEF Reqs
  <2> QED
    BY <2>2, <2>3, <2>4 DEF q
<1>6. ReqQueue(s, c, kind, data) = [s EXCEPT !.req[c] = r]
  BY <1>1 DEF ReqQueue, p, f
<1> HIDE DEF r
<1> QED
  BY <1>5, <1>6, WithReq

(* The end of a request is queued and sent.                                *)
LEMMA EndSettles ==
    ASSUME NEW s, Serves(s), NEW c \in Call, NEW kind \in Kinds, NEW data \in Data
    PROVE  LET e == [ReqQueue(s, c, kind, data) EXCEPT !.req[c].finished = TRUE,
                                                       !.req[c].phase = "over"]
           IN Touches(s, ReqFlush(e, c), c) /\ Settled(ReqFlush(e, c), c)
<1> DEFINE q == ReqQueue(s, c, kind, data)
           r == [q.req[c] EXCEPT !.finished = TRUE, !.phase = "over"]
           e == [q EXCEPT !.req[c] = r]
<1>1. Touches(s, q, c)
  BY ReqQueueTouches
<1> HIDE DEF q
<1>2. q.req[c] \in Reqs /\ Serves(q) /\ q \in Server
  BY <1>1 DEF Touches, Serves, Server
<1>3. r \in Reqs /\ r.finished /\ r.phase = "over"
  BY <1>2 DEF Reqs
<1>4. [q EXCEPT !.req[c].finished = TRUE, !.req[c].phase = "over"] = e
  BY <1>2 DEF Server
<1> HIDE DEF r
<1>5. Touches(q, e, c) /\ e.req[c] = r
  BY <1>2, <1>3, WithReq
<1> HIDE DEF e
<1>6. Touches(e, ReqFlush(e, c), c) /\ Settled(ReqFlush(e, c), c)
  BY <1>3, <1>5, ReqFlushSettles DEF Touches
<1> QED
  BY <1>1, <1>4, <1>5, <1>6, TouchesOn DEF q

(* req_fail.                                                               *)
LEMMA ReqFailSettles ==
    ASSUME NEW s, Serves(s), NEW c \in Call, NEW kind \in ErrorKind, ~s.req[c].finished
    PROVE  Touches(s, ReqFail(s, c, kind), c) /\ Settled(ReqFail(s, c, kind), c)
<1>1. kind \in Kinds /\ NoData \in Data
  BY FrameFacts DEF Kinds
<1> QED
  BY <1>1, EndSettles DEF ReqFail

-------------------------------------------------------------------------------
(* The login.                                                              *)

(* What the credential source answers: a request that is to wait waits for *)
(* a refresh.                                                              *)
Answer(s, a) ==
    /\ a.rc \in {"ready", "refused", "wait"}
    /\ a.s.req = s.req /\ a.s.want = s.want /\ a.s.work = s.work /\ a.s.chan = s.chan
    /\ a.s.down = s.down
    /\ s.refresh => a.s.refresh
    /\ Serves(a.s)
    /\ a.rc = "wait" => a.s.refresh

(* The start of a refresh changes nothing else of the server.              *)
LEMMA RefreshFacts ==
    ASSUME NEW s, Serves(s)
    PROVE  LET t == [s EXCEPT !.refresh = TRUE] IN
           /\ t.req = s.req /\ t.want = s.want /\ t.work = s.work /\ t.chan = s.chan
           /\ t.down = s.down /\ t.refresh /\ Serves(t)
BY DEF Serves, Server

(* The login source answers prepare ready or refused, or waits.            *)
LEMMA VerbPrepareAnswers ==
    ASSUME NEW s, Serves(s), NEW resumed \in BOOLEAN, NEW a \in VerbPrepare(s, resumed)
    PROVE  Answer(s, a)
<1> DEFINE t == [s EXCEPT !.refresh = TRUE]
<1>1. \/ a \in {[rc |-> rc, s |-> s] : rc \in {"ready", "refused"}}
      \/ a = [rc |-> "wait", s |-> t]
  BY DEF VerbPrepare
<1>2. /\ t.req = s.req /\ t.want = s.want /\ t.work = s.work /\ t.chan = s.chan
      /\ t.down = s.down /\ t.refresh /\ Serves(t)
  BY RefreshFacts
<1> HIDE DEF t
<1> QED
  BY <1>1, <1>2 DEF Answer

(* The login source answers reject ready or refused, or waits.             *)
LEMMA VerbRejectAnswers ==
    ASSUME NEW s, Serves(s), NEW tag, NEW a \in VerbReject(s, tag)
    PROVE  Answer(s, a)
<1> DEFINE t == [s EXCEPT !.refresh = TRUE]
<1>1. \/ a \in {[rc |-> rc, s |-> s] : rc \in {"ready", "refused"}}
      \/ a = [rc |-> "wait", s |-> t]
  BY DEF VerbReject
<1>2. /\ t.req = s.req /\ t.want = s.want /\ t.work = s.work /\ t.chan = s.chan
      /\ t.down = s.down /\ t.refresh /\ Serves(t)
  BY RefreshFacts
<1> HIDE DEF t
<1> QED
  BY <1>1, <1>2 DEF Answer

(* An answer of the login source takes nothing from any request.           *)
LEMMA AnswerTouches ==
    ASSUME NEW s, NEW a, Answer(s, a), NEW c
    PROVE  Touches(s, a.s, c)
BY DEF Answer, Touches

(* A request that can run, or wait to.                                     *)
Runnable(r) == ~r.paused /\ ~r.finished /\ r.pending = <<>>

Parks(s, c) == [s EXCEPT !.req[c].phase = "parked"]

(* It waits for the refresh that the source has answered with.             *)
LEMMA ParksSettles ==
    ASSUME NEW s, Serves(s), NEW c \in Call, Runnable(s.req[c]), s.refresh
    PROVE  Touches(s, Parks(s, c), c) /\ Settled(Parks(s, c), c)
<1> DEFINE r == [s.req[c] EXCEPT !.phase = "parked"]
           t == [s EXCEPT !.req[c] = r]
<1>1. s.req[c] \in Reqs
  BY DEF Serves, Server
<1>2. r \in Reqs /\ Shape(r) /\ ~r.paused /\ r.pending = <<>> /\ r.phase = "parked"
  BY <1>1 DEF Reqs, Runnable, Shape
<1>3. Parks(s, c) = t
  BY DEF Parks
<1> HIDE DEF r
<1>4. Touches(s, t, c) /\ t.req[c] = r /\ t.refresh = s.refresh
  BY <1>2, WithReq
<1> HIDE DEF t
<1>5. Settled(t, c)
  BY <1>2, <1>4 DEF Settled, Wakes
<1> QED
  BY <1>3, <1>4, <1>5

(* It is handed to curl.                                                   *)
LEMMA SubmittedSettles ==
    ASSUME NEW s, Serves(s), NEW c \in Call, Runnable(s.req[c]), login.tag \in Nat,
           NEW u \in Submitted(s, c)
    PROVE  Touches(s, u, c) /\ Settled(u, c)
<1>0. PICK answer \in [status : Status, len : Lengths] :
        u = [s EXCEPT !.req[c] = [s.req[c] EXCEPT
                !.phase = "running", !.result = "none", !.tag = login.tag,
                !.retry = ~s.req[c].retried, !.try = @ + 1,
                !.status = answer.status, !.len = answer.len, !.pos = 0]]
  BY DEF Submitted
<1> DEFINE q == s.req[c]
           tag == login.tag
           retry == ~s.req[c].retried
           try == s.req[c].try + 1
           status == answer.status
           len == answer.len
           r == [q EXCEPT !.phase = "running", !.result = "none", !.tag = tag, !.retry = retry,
                          !.try = try, !.status = status, !.len = len, !.pos = 0]
           t == [s EXCEPT !.req[c] = r]
<1>1. q \in Reqs
  BY DEF Serves, Server
<1>9. [q EXCEPT !.phase = "running", !.result = "none", !.tag = tag, !.retry = retry].try = q.try
  BY <1>1 DEF Reqs
<1>2. tag \in Nat /\ retry \in BOOLEAN /\ try \in Nat /\ len \in Nat /\ status \in Status
  <2>1. q.try \in Nat
    BY <1>1 DEF Reqs
  <2>2. answer.len \in Lengths /\ answer.status \in Status
    OBVIOUS
  <2>3. retry \in BOOLEAN
    BY Zenon
  <2>4. try \in Nat
    BY <2>1
  <2>5. len \in Nat
    BY <2>2, TransportAssumption
  <2> QED
    BY <2>2, <2>3, <2>4, <2>5
<1>3. u = t
  BY <1>0, <1>9
<1> HIDE DEF q, tag, retry, try, status, len
<1>4. r \in Reqs
  BY <1>1, <1>2 DEF Reqs
<1>5. r.phase = "running" /\ r.paused = q.paused /\ r.finished = q.finished /\ r.pending = q.pending
  BY <1>1 DEF Reqs
<1>6. Runnable(q)
  BY DEF q
<1> HIDE DEF r
<1>7. Touches(s, t, c) /\ t.req[c] = r
  BY <1>4, WithReq
<1> HIDE DEF t
<1>8. Settled(t, c)
  BY <1>5, <1>6, <1>7 DEF Settled, Shape, Wakes, Runnable
<1> QED
  BY <1>3, <1>7, <1>8

(* What is done with the answer of the source, when going on settles it.   *)
LEMMA AnsweredSettles ==
    ASSUME NEW s, Serves(s), NEW c \in Call, Runnable(s.req[c]),
           NEW a, Answer(s, a), NEW goesOn,
           a.rc = "ready" => \A u \in goesOn : Touches(a.s, u, c) /\ Settled(u, c),
           NEW t \in Answered(a, c, goesOn)
    PROVE  Touches(s, t, c) /\ Settled(t, c)
<1>1. Touches(s, a.s, c) /\ Serves(a.s) /\ Runnable(a.s.req[c]) /\ ~a.s.req[c].finished
  BY AnswerTouches DEF Answer, Runnable
<1>2. Touches(a.s, t, c) /\ Settled(t, c)
  <2>1. CASE a.rc = "wait"
    <3>1. t = Parks(a.s, c)
      BY <2>1 DEF Answered, Parks
    <3> QED
      BY <1>1, <2>1, <3>1, ParksSettles DEF Answer
  <2>2. CASE a.rc = "refused"
    <3>1. t = ReqFail(a.s, c, "refused")
      BY <2>2 DEF Answered
    <3> QED
      BY <1>1, <3>1, ReqFailSettles DEF ErrorKind
  <2>3. CASE a.rc = "ready"
    BY <2>3 DEF Answered
  <2> QED
    BY <2>1, <2>2, <2>3 DEF Answer
<1> QED
  BY <1>1, <1>2, TouchesOn

(* req_run.                                                                *)
LEMMA ReqRunSettles ==
    ASSUME NEW s, Serves(s), NEW c \in Call, Runnable(s.req[c]), login.tag \in Nat,
           NEW resumed \in BOOLEAN, NEW t \in ReqRun(s, c, resumed)
    PROVE  Touches(s, t, c) /\ Settled(t, c)
<1>1. CASE t = ReqFail(s, c, "refused")
  BY <1>1, ReqFailSettles DEF ErrorKind, Runnable
<1>2. CASE t # ReqFail(s, c, "refused")
  <2>1. PICK a \in VerbPrepare(s, resumed) : t \in Answered(a, c, Submitted(a.s, c))
    BY <1>2 DEF ReqRun
  <2>2. Answer(s, a)
    BY VerbPrepareAnswers
  <2>3. \A u \in Submitted(a.s, c) : Touches(a.s, u, c) /\ Settled(u, c)
    BY <2>2, SubmittedSettles DEF Answer
  <2> QED
    BY <2>1, <2>2, <2>3, AnsweredSettles
<1> QED
  BY <1>1, <1>2

-------------------------------------------------------------------------------
(* The end of a transfer.                                                  *)

(* r is q, for what the wake-ups are about.                                *)
Alike(r, q) ==
    /\ r.phase = q.phase /\ r.paused = q.paused /\ r.finished = q.finished
    /\ r.pending = q.pending /\ r.credit = q.credit

(* req_rejected asks the source and remembers what it has answered.        *)
LEMMA ReqRejectedTouches ==
    ASSUME NEW s, Serves(s), NEW c \in Call, NEW u \in ReqRejected(s, c)
    PROVE  Touches(s, u, c) /\ Alike(u.req[c], s.req[c]) /\ u.want = s.want
<1>1. CASE u = s
  BY <1>1 DEF Touches, Alike
<1>2. ASSUME NEW a \in VerbReject(s, s.req[c].tag),
             u = [a.s EXCEPT !.req[c].rejected = TRUE, !.req[c].held = a.rc # "refused"]
      PROVE  Touches(s, u, c) /\ Alike(u.req[c], s.req[c]) /\ u.want = s.want
  <2> DEFINE q == a.s.req[c]
             held == a.rc # "refused"
             r == [q EXCEPT !.rejected = TRUE, !.held = held]
             t == [a.s EXCEPT !.req[c] = r]
  <2>1. Answer(s, a)
    BY VerbRejectAnswers
  <2>2. a.s \in Server /\ Serves(a.s) /\ q \in Reqs /\ q = s.req[c]
    BY <2>1 DEF Answer, Serves, Server
  <2>3. held \in BOOLEAN
    BY Zenon
  <2>4. u = t
    BY <1>2, <2>2 DEF Server
  <2> HIDE DEF q, held
  <2>5. r \in Reqs /\ Alike(r, q)
    BY <2>2, <2>3 DEF Reqs, Alike
  <2> HIDE DEF r
  <2>6. Touches(a.s, t, c) /\ t.req[c] = r /\ t.want = a.s.want
    BY <2>2, <2>5, WithReq
  <2> HIDE DEF t
  <2>7. Touches(s, a.s, c) /\ a.s.want = s.want
    BY <2>1, AnswerTouches DEF Answer
  <2> QED
    BY <2>2, <2>4, <2>5, <2>6, <2>7, TouchesOn
<1> QED
  BY <1>1, <1>2 DEF ReqRejected

(* req_retry: it runs, waits for the refresh under way, or fails.          *)
LEMMA ReqRetrySettles ==
    ASSUME NEW s, Serves(s), NEW c \in Call, Runnable(s.req[c]), login.tag \in Nat,
           NEW u \in ReqRetry(s, c)
    PROVE  Touches(s, u, c) /\ Settled(u, c)
<1> DEFINE r == [s.req[c] EXCEPT !.retry = FALSE, !.retried = TRUE]
           t == [s EXCEPT !.req[c] = r]
<1>1. s \in Server /\ s.req[c] \in Reqs
  BY DEF Serves, Server
<1>2. r \in Reqs /\ Runnable(r)
  BY <1>1 DEF Reqs, Runnable
<1>3. [s EXCEPT !.req[c].retry = FALSE, !.req[c].retried = TRUE] = t
  BY <1>1 DEF Server
<1>4. PICK a \in VerbReject(t, s.req[c].tag) : u \in Answered(a, c, ReqRun(a.s, c, TRUE))
  BY <1>3 DEF ReqRetry
<1> HIDE DEF r
<1>5. Touches(s, t, c) /\ t.req[c] = r /\ Serves(t)
  BY <1>2, WithReq DEF Touches
<1> HIDE DEF t
<1>6. Answer(t, a)
  BY <1>4, <1>5, VerbRejectAnswers
<1>7. Serves(a.s) /\ Runnable(a.s.req[c])
  BY <1>2, <1>5, <1>6 DEF Answer
<1>8. \A v \in ReqRun(a.s, c, TRUE) : Touches(a.s, v, c) /\ Settled(v, c)
  BY <1>7, ReqRunSettles
<1>9. Touches(t, u, c) /\ Settled(u, c)
  BY <1>2, <1>4, <1>5, <1>6, <1>8, AnsweredSettles
<1> QED
  BY <1>5, <1>9, TouchesOn

(* req_complete_cb reports the end.                                        *)
LEMMA ReqReportSettles ==
    ASSUME NEW s, Serves(s), NEW c \in Call
    PROVE  Touches(s, ReqReport(s, c), c) /\ Settled(ReqReport(s, c), c)
<1> DEFINE begin == DataOf(s.req[c].try, 0, 0)
           whole == DataOf(s.req[c].try, s.req[c].len, 0)
           q == ReqQueue(s, c, "start", begin)
           r == [q.req[c] EXCEPT !.started = TRUE, !.retry = FALSE]
           t == [q EXCEPT !.req[c] = r]
           b == IF s.req[c].started THEN s ELSE t
           e == [ReqQueue(b, c, "end", whole) EXCEPT !.req[c].finished = TRUE,
                                                     !.req[c].phase = "over"]
<1>1. s.req[c] \in Reqs
  BY DEF Serves, Server
<1>2. s.req[c].try \in Nat /\ s.req[c].len \in Nat
  BY <1>1 DEF Reqs
<1>3. begin \in Data /\ whole \in Data /\ "start" \in Kinds /\ "end" \in Kinds
  BY <1>2, FrameFacts DEF Kinds
<1> HIDE DEF begin, whole
<1>4. Touches(s, q, c)
  BY <1>3, ReqQueueTouches
<1> HIDE DEF q
<1>5. q \in Server /\ q.req[c] \in Reqs /\ Serves(q)
  BY <1>4 DEF Touches, Serves, Server
<1>6. r \in Reqs
  BY <1>5 DEF Reqs
<1>7. [q EXCEPT !.req[c].started = TRUE, !.req[c].retry = FALSE] = t
  BY <1>5 DEF Server
<1>8. ReqReport(s, c) = ReqFlush(e, c)
  BY <1>7 DEF ReqReport, begin, whole, q
<1> HIDE DEF r
<1>9. Touches(q, t, c)
  BY <1>5, <1>6, WithReq
<1> HIDE DEF t
<1>10. Touches(s, b, c) /\ Serves(b)
  <2>1. CASE s.req[c].started
    BY <2>1 DEF Touches
  <2>2. CASE ~s.req[c].started
    BY <1>4, <1>9, <2>2, TouchesOn DEF Touches
  <2> QED
    BY <2>1, <2>2
<1> HIDE DEF b
<1>11. Touches(b, ReqFlush(e, c), c) /\ Settled(ReqFlush(e, c), c)
  BY <1>3, <1>10, EndSettles
<1> QED
  BY <1>8, <1>10, <1>11, TouchesOn

(* fyai_curl_notify, req_complete_cb.                                      *)
LEMMA ReqCompleteSettles ==
    ASSUME NEW s, Serves(s), NEW c \in Call, login.tag \in Nat,
           s.req[c].phase = "done", Shape(s.req[c]), NEW u \in ReqComplete(s, c)
    PROVE  Touches(s, u, c) /\ Settled(u, c)
<1> DEFINE r == [s.req[c] EXCEPT !.paused = FALSE]
           t == [s EXCEPT !.req[c] = r]
           answers == IF r.started THEN {t} ELSE ReqRejected(t, c)
           answered(v) == IF ~r.started /\ IsHeld(v.req[c]) THEN ReqRetry(v, c) ELSE {ReqReport(v, c)}
<1>1. s \in Server /\ s.req[c] \in Reqs
  BY DEF Serves, Server
<1>2. r \in Reqs /\ r.phase = "done" /\ r.result \in {"ok", "failed"} /\ Runnable(r)
  BY <1>1 DEF Reqs, Runnable, Shape
<1>3. [s EXCEPT !.req[c].paused = FALSE] = t
  BY <1>1 DEF Server
<1>4. t.req[c] = r
  BY <1>1 DEF Server
<1>5. \/ u = ReqFail(t, c, "cancelled") \/ u = ReqFail(t, c, "failed")
      \/ \E v \in answers : u \in answered(v)
  <2>1. CASE r.cancelled
    BY <1>3, <1>4, <2>1 DEF ReqComplete
  <2>2. CASE ~r.cancelled /\ r.result = "failed"
    BY <1>3, <1>4, <2>2 DEF ReqComplete
  <2>3. CASE ~r.cancelled /\ r.result = "ok"
    <3>1. ReqComplete(s, c) = UNION {answered(v) : v \in answers}
      BY <1>3, <1>4, <2>3 DEF ReqComplete
    <3> HIDE DEF answers, answered
    <3> QED
      BY <3>1
  <2> QED
    BY <1>2, <2>1, <2>2, <2>3
<1> HIDE DEF r
<1>6. Touches(s, t, c) /\ Serves(t)
  BY <1>2, WithReq DEF Touches
<1> HIDE DEF t
<1>7. Touches(t, u, c) /\ Settled(u, c)
  <2>1. CASE u = ReqFail(t, c, "cancelled") \/ u = ReqFail(t, c, "failed")
    BY <1>2, <1>4, <1>6, <2>1, ReqFailSettles DEF ErrorKind, Runnable
  <2>2. ASSUME NEW v \in answers, u \in answered(v)
        PROVE  Touches(t, u, c) /\ Settled(u, c)
    <3>1. Touches(t, v, c) /\ Alike(v.req[c], r)
      <4>1. CASE v = t
        BY <1>4, <1>6, <4>1 DEF Touches, Alike
      <4>2. CASE v \in ReqRejected(t, c)
        BY <1>4, <1>6, <4>2, ReqRejectedTouches
      <4> QED
        BY <2>2, <4>1, <4>2
    <3>2. Serves(v) /\ Runnable(v.req[c])
      BY <1>2, <3>1 DEF Touches, Alike, Runnable
    <3>3. Touches(v, u, c) /\ Settled(u, c)
      BY <2>2, <3>2, ReqRetrySettles, ReqReportSettles
    <3> QED
      BY <3>1, <3>3, TouchesOn
  <2> QED
    BY <1>5, <2>1, <2>2
<1> QED
  BY <1>6, <1>7, TouchesOn

-------------------------------------------------------------------------------
(* What comes from the agent.                                              *)

(* What a handler that goes on with the request c has of it: it need not   *)
(* be watched for, for the handler looks.                                  *)
Unsettled(s, c) ==
    /\ Shape(s.req[c])
    /\ s.chan = "open" /\ s.req[c].phase = "parked" => s.refresh

(* req_cancel.                                                             *)
LEMMA ReqCancelSettles ==
    ASSUME NEW s, Serves(s), NEW c \in Call, Settled(s, c)
    PROVE  Touches(s, ReqCancel(s, c), c) /\ Settled(ReqCancel(s, c), c)
<1> DEFINE r == [s.req[c] EXCEPT !.cancelled = TRUE]
           q == [s.req[c] EXCEPT !.cancelled = TRUE, !.phase = "done", !.result = "failed"]
           t == [s EXCEPT !.req[c] = r]
           v == [s EXCEPT !.req[c] = q]
<1>1. s \in Server /\ s.req[c] \in Reqs /\ Shape(s.req[c])
  BY DEF Serves, Server, Settled
<1>2. r \in Reqs /\ Alike(r, s.req[c]) /\ Shape(r)
  BY <1>1 DEF Reqs, Alike, Shape
<1>3. q \in Reqs /\ (s.req[c].phase = "running" => Shape(q) /\ q.phase = "done" /\ q.pending = <<>>)
  BY <1>1 DEF Reqs, Shape
<1>4. [s EXCEPT !.req[c].cancelled = TRUE] = t
  BY <1>1 DEF Server
<1>5. [t EXCEPT !.req[c].phase = "done", !.req[c].result = "failed"] = v
  BY <1>1 DEF Server
<1> HIDE DEF r, q
<1>6. Touches(s, t, c) /\ t.req[c] = r /\ t.chan = s.chan /\ t.want = s.want /\ t.refresh = s.refresh
      /\ Serves(t)
  BY <1>2, WithReq DEF Touches
<1>7. Touches(s, v, c) /\ v.req[c] = q
  BY <1>3, WithReq
<1>8. ReqCancel(s, c) = IF s.req[c].cancelled \/ s.req[c].finished THEN s
                        ELSE IF s.req[c].phase = "parked" THEN ReqFail(t, c, "cancelled")
                        ELSE IF s.req[c].phase = "running" THEN v
                        ELSE t
  BY <1>4, <1>5 DEF ReqCancel
<1> HIDE DEF t, v
<1>9. CASE s.req[c].cancelled \/ s.req[c].finished
  BY <1>8, <1>9 DEF Touches
<1>10. CASE ~(s.req[c].cancelled \/ s.req[c].finished)
  <2>1. CASE s.req[c].phase = "parked"
    <3>1. Touches(t, ReqFail(t, c, "cancelled"), c) /\ Settled(ReqFail(t, c, "cancelled"), c)
      BY <1>2, <1>6, <1>10, ReqFailSettles DEF ErrorKind, Alike
    <3> QED
      BY <1>6, <1>8, <1>10, <2>1, <3>1, TouchesOn
  <2>2. CASE s.req[c].phase = "running"
    BY <1>3, <1>7, <1>8, <1>10, <2>2 DEF Settled, Wakes
  <2>3. CASE s.req[c].phase \notin {"parked", "running"}
    <3>1. Settled(t, c)
      BY <1>2, <1>6, <2>3 DEF Settled, Wakes, Alike, Mine, Touches
    <3> QED
      BY <1>6, <1>8, <1>10, <2>3, <3>1
  <2> QED
    BY <2>1, <2>2, <2>3
<1> QED
  BY <1>9, <1>10

(* req_resume.                                                             *)
LEMMA ReqResumeSettles ==
    ASSUME NEW s, Serves(s), NEW c \in Call, Unsettled(s, c)
    PROVE  Touches(s, ReqResume(s, c), c) /\ Settled(ReqResume(s, c), c)
<1> DEFINE r == [s.req[c] EXCEPT !.paused = FALSE]
           t == [s EXCEPT !.req[c] = r]
<1>1. s \in Server /\ s.req[c] \in Reqs /\ Shape(s.req[c]) /\ s.req[c].credit \in Int
  BY DEF Serves, Server, Unsettled, Reqs
<1>2. r \in Reqs /\ Shape(r) /\ ~r.paused /\ r.pending = s.req[c].pending /\ r.phase = s.req[c].phase
  BY <1>1 DEF Reqs, Shape
<1>3. [s EXCEPT !.req[c].paused = FALSE] = t
  BY <1>1 DEF Server
<1> HIDE DEF r
<1>4. Touches(s, t, c) /\ t.req[c] = r /\ t.chan = s.chan /\ t.refresh = s.refresh
  BY <1>2, WithReq
<1> HIDE DEF t
<1>5. CASE s.req[c].pending # <<>>
  BY <1>1, <1>5, ReqFlushSettles DEF ReqResume, Shape
<1>6. CASE s.req[c].pending = <<>> /\ s.req[c].paused /\ ~s.req[c].finished /\ s.req[c].credit > 0
  <2>1. Settled(t, c)
    BY <1>2, <1>4, <1>6 DEF Settled, Wakes, Unsettled
  <2> QED
    BY <1>3, <1>4, <1>6, <2>1 DEF ReqResume
<1>7. CASE /\ s.req[c].pending = <<>>
           /\ ~(s.req[c].paused /\ ~s.req[c].finished /\ s.req[c].credit > 0)
  <2>1. s.req[c].phase = "running" /\ s.req[c].paused => s.req[c].credit < Chunk
    BY <1>1, <1>7, TransportAssumption DEF Shape
  <2>2. Settled(s, c)
    BY <1>1, <1>7, <2>1 DEF Settled, Wakes, Unsettled
  <2> QED
    BY <1>7, <2>2 DEF ReqResume, Touches
<1> QED
  BY <1>5, <1>6, <1>7

(* chan_dispatch.                                                          *)
LEMMA ChanDispatchSettles ==
    ASSUME NEW s, Serves(s), NEW m \in Asks, Settled(s, m.id), m.id \notin s.work.left,
           login.tag \in Nat, NEW u \in ChanDispatch(s, m)
    PROVE  m.id \in Call /\ Touches(s, u, m.id) /\ Settled(u, m.id)
<1> DEFINE c == m.id
           q == [NoReq EXCEPT !.phase = "parked", !.credit = Window]
           v == [s EXCEPT !.req[c] = q]
           credit == s.req[c].credit + m.data.n
           r == [s.req[c] EXCEPT !.credit = credit]
           t == [s EXCEPT !.req[c] = r]
<1>1. c \in Call /\ m.kind \in {"request", "cancel", "credit"} /\ m.data.n \in Nat
  BY DEF Asks, Frames
<1> HIDE DEF c
<1>2. s \in Server /\ s.req[c] \in Reqs /\ Settled(s, c) /\ c \notin s.work.left /\ s.req[c].credit \in Int
  BY <1>1 DEF Serves, Server, Reqs, c
<1>3. CASE m.kind = "request" /\ Present(s, c)
  <2>1. u = ChanDoom(s)
    BY <1>3 DEF ChanDispatch, c
  <2> QED
    BY <1>1, <1>2, <2>1, ChanDoomTouches DEF Settled, Wakes, c
<1>4. CASE m.kind = "request" /\ ~Present(s, c)
  <2>1. u \in ReqRun(v, c, FALSE)
    BY <1>4 DEF ChanDispatch, c
  <2>2. q \in Reqs /\ Runnable(q)
    <3>1. Window \in Int
      BY TransportAssumption
    <3> QED
      BY <3>1, NoReqFacts DEF Reqs, Runnable
  <2> HIDE DEF q
  <2>3. Touches(s, v, c) /\ v.req[c] = q /\ Serves(v)
    BY <1>1, <2>2, WithReq DEF Touches
  <2> HIDE DEF v
  <2>4. Touches(v, u, c) /\ Settled(u, c)
    BY <1>1, <2>1, <2>2, <2>3, ReqRunSettles
  <2> QED
    BY <1>1, <2>3, <2>4, TouchesOn DEF c
<1>5. CASE m.kind = "cancel"
  <2>1. u = IF Present(s, c) THEN ReqCancel(s, c) ELSE s
    BY <1>5 DEF ChanDispatch, c
  <2> QED
    BY <1>1, <1>2, <2>1, ReqCancelSettles DEF Touches, c
<1>6. CASE m.kind = "credit"
  <2>1. u = IF Present(s, c) THEN ReqResume([s EXCEPT !.req[c].credit = @ + m.data.n], c) ELSE s
    BY <1>6 DEF ChanDispatch, c
  <2>2. [s EXCEPT !.req[c].credit = @ + m.data.n] = t
    BY <1>1, <1>2 DEF Server
  <2>3. credit \in Int
    BY <1>1, <1>2
  <2> HIDE DEF credit
  <2>4. r \in Reqs /\ Shape(r) /\ r.phase = s.req[c].phase
    BY <1>2, <2>3 DEF Reqs, Settled, Shape
  <2> HIDE DEF r
  <2>5. Touches(s, t, c) /\ t.req[c] = r /\ t.refresh = s.refresh /\ t.chan = s.chan /\ Serves(t)
    BY <1>1, <2>4, WithReq DEF Touches
  <2> HIDE DEF t
  <2>6. Unsettled(t, c)
    BY <1>2, <2>4, <2>5 DEF Unsettled, Settled, Wakes, Mine
  <2>7. Touches(t, ReqResume(t, c), c) /\ Settled(ReqResume(t, c), c)
    BY <1>1, <2>5, <2>6, ReqResumeSettles
  <2> QED
    BY <1>1, <1>2, <2>1, <2>2, <2>5, <2>7, TouchesOn DEF Touches, c
<1> QED
  BY <1>1, <1>3, <1>4, <1>5, <1>6

-------------------------------------------------------------------------------
(* What curl delivers.                                                     *)

(* A frame that the socket takes.                                          *)
LEMMA AppendFits ==
    ASSUME NEW s, Serves(s), Sendable(s), NEW f \in Frames
    PROVE  Append(s.down, f) \in Seq(Frames) /\ Len(Append(s.down, f)) <= Room
<1>1. s.down \in Seq(Frames)
  BY DEF Serves, Server
<1>2. Append(s.down, f) \in Seq(Frames) /\ Len(Append(s.down, f)) = Len(s.down) + 1
  BY <1>1, AppendProperties
<1>3. Len(s.down) \in Nat /\ Len(s.down) < Room
  BY <1>1 DEF Sendable
<1> QED
  BY <1>2, <1>3, TransportAssumption

(* The head of an answer is sent before its body.                          *)
LEMMA SendStartTouches ==
    ASSUME NEW s, Serves(s), NEW c \in Call
    PROVE  Touches(s, SendStart(s, c), c) /\ Alike(SendStart(s, c).req[c], s.req[c])
<1>1. CASE s.req[c].started \/ ~agent.open \/ ~Sendable(s)
  BY <1>1 DEF SendStart, Touches, Alike
<1>2. CASE ~(s.req[c].started \/ ~agent.open \/ ~Sendable(s))
  <2> DEFINE q == s.req[c]
             seq == s.req[c].seq + 1
             d == Append(s.down, StartFrame(s, c))
             r == [q EXCEPT !.seq = seq, !.started = TRUE, !.retry = FALSE]
  <2>1. s \in Server /\ q \in Reqs
    BY DEF Serves, Server
  <2>2. q.seq \in Nat /\ q.try \in Nat /\ seq \in Nat
    BY <2>1 DEF Reqs
  <2>3. StartFrame(s, c) \in Frames
    BY <2>2, FrameFacts DEF StartFrame, Kinds
  <2>4. d \in Seq(Frames) /\ Len(d) <= Room
    BY <1>2, <2>3, AppendFits
  <2>5. SendStart(s, c) = Sends(s, c, r, d)
    BY <1>2, <2>1 DEF SendStart, Sends, Server
  <2> HIDE DEF q, seq, d
  <2>6. r \in Reqs /\ Alike(r, q)
    BY <2>1, <2>2 DEF Reqs, Alike
  <2> HIDE DEF r
  <2> QED
    BY <2>4, <2>5, <2>6, WithSend DEF q
<1> QED
  BY <1>1, <1>2

(* req_send of a piece of the body.                                        *)
LEMMA SendBodySettles ==
    ASSUME NEW s, Serves(s), NEW c \in Call, NEW n \in Nat,
           s.req[c].phase = "running", ~s.req[c].paused, Shape(s.req[c])
    PROVE  Touches(s, SendBody(s, c, n), c) /\ Settled(SendBody(s, c, n), c)
<1> DEFINE q == s.req[c]
<1>1. s \in Server /\ q \in Reqs
  BY DEF Serves, Server
<1>2. q.seq \in Nat /\ q.try \in Nat /\ q.pos \in Nat /\ q.credit \in Int
  BY <1>1 DEF Reqs
<1>3. q.pending = <<>> /\ ~q.finished
  BY DEF Shape
<1>4. CASE ~agent.open
  <2> DEFINE r == [q EXCEPT !.phase = "done", !.result = "failed"]
  <2>1. r \in Reqs /\ Shape(r) /\ r.phase = "done" /\ r.pending = <<>>
    BY <1>1, <1>3 DEF Reqs, Shape
  <2>2. SendBody(s, c, n) = [s EXCEPT !.req[c] = r]
    BY <1>1, <1>4 DEF SendBody, Server
  <2> HIDE DEF r
  <2> QED
    BY <2>1, <2>2, WithReq DEF Settled, Wakes
<1>5. CASE agent.open /\ ~Sendable(s)
  <2> DEFINE r == [q EXCEPT !.paused = TRUE]
             t == [s EXCEPT !.req[c] = r]
             u == [t EXCEPT !.want = TRUE]
  <2>1. r \in Reqs /\ Shape(r) /\ r.phase = "running"
    BY <1>1, <1>3 DEF Reqs, Shape
  <2>2. SendBody(s, c, n) = u
    BY <1>1, <1>5 DEF SendBody, Server
  <2> HIDE DEF r
  <2>3. Touches(s, t, c) /\ t.req[c] = r /\ Serves(t)
    BY <2>1, WithReq DEF Touches
  <2> HIDE DEF t
  <2>4. Touches(t, u, c) /\ u.req[c] = r /\ u.want
    BY <2>3, WithWant
  <2> HIDE DEF u
  <2> QED
    BY <2>1, <2>2, <2>3, <2>4, TouchesOn DEF Settled, Wakes
<1>6. CASE agent.open /\ Sendable(s)
  <2> DEFINE f == Frame(c, "body", q.seq, DataOf(q.try, q.pos, n))
             d == Append(s.down, f)
             seq == q.seq + 1
             credit == q.credit - n
             pos == q.pos + n
             r == [q EXCEPT !.seq = seq, !.credit = credit, !.pos = pos]
  <2>1. seq \in Nat /\ credit \in Int /\ pos \in Nat
    BY <1>2
  <2>2. f \in Frames
    BY <1>2, FrameFacts DEF Kinds
  <2>3. SendBody(s, c, n) = Sends(s, c, r, d)
    <3>1. /\ [q EXCEPT !.seq = seq].credit = q.credit
          /\ [q EXCEPT !.seq = seq, !.credit = credit].pos = q.pos
      BY <1>1 DEF Reqs
    <3> QED
      BY <1>6, <3>1 DEF SendBody, Sends
  <2> HIDE DEF f
  <2>4. d \in Seq(Frames) /\ Len(d) <= Room
    BY <1>6, <2>2, AppendFits
  <2> HIDE DEF d, seq, credit, pos
  <2>5. r \in Reqs /\ r.phase = q.phase /\ r.paused = q.paused /\ r.finished = q.finished
        /\ r.pending = q.pending
    BY <1>1, <2>1 DEF Reqs
  <2> HIDE DEF r
  <2>6. Touches(s, Sends(s, c, r, d), c) /\ Sends(s, c, r, d).req[c] = r
    BY <2>4, <2>5, WithSend
  <2> QED
    BY <1>3, <2>3, <2>5, <2>6 DEF Settled, Shape, Wakes
<1> QED
  BY <1>4, <1>5, <1>6

(* req_write_cb.                                                           *)
LEMMA ReqWriteSettles ==
    ASSUME NEW s, Serves(s), NEW c \in Call, NEW n \in 1 .. Chunk,
           s.req[c].phase = "running", ~s.req[c].paused, Shape(s.req[c])
    PROVE  Touches(s, ReqWrite(s, c, n), c) /\ Settled(ReqWrite(s, c, n), c)
<1> DEFINE q == s.req[c]
<1>1. s \in Server /\ q \in Reqs /\ n \in Nat /\ n <= Chunk /\ Chunk \in Nat
  BY TransportAssumption DEF Serves, Server
<1>2. q.pos + n \in Nat /\ q.credit \in Int
  BY <1>1 DEF Reqs
<1>3. q.pending = <<>> /\ ~q.finished
  BY DEF Shape
<1>4. CASE ~q.started /\ IsHeld(q)
  <2> DEFINE pos == q.pos + n
             r == [q EXCEPT !.pos = pos]
  <2>1. ReqWrite(s, c, n) = [s EXCEPT !.req[c] = r]
    BY <1>1, <1>4 DEF ReqWrite, Server
  <2>2. pos \in Nat
    BY <1>2
  <2> HIDE DEF pos
  <2>3. r \in Reqs /\ Alike(r, q)
    BY <1>1, <2>2 DEF Reqs, Alike
  <2> HIDE DEF r
  <2> QED
    BY <1>3, <2>1, <2>3, WithReq DEF Settled, Shape, Wakes, Alike
<1>5. CASE ~(~q.started /\ IsHeld(q)) /\ q.credit < n
  <2> DEFINE r == [q EXCEPT !.paused = TRUE]
  <2>1. ReqWrite(s, c, n) = [s EXCEPT !.req[c] = r]
    BY <1>1, <1>5 DEF ReqWrite, Server
  <2>2. r \in Reqs /\ r.phase = "running" /\ ~r.finished /\ r.pending = <<>> /\ r.credit = q.credit
    BY <1>1, <1>3 DEF Reqs
  <2>3. q.credit < Chunk
    BY <1>1, <1>2, <1>5
  <2> HIDE DEF r
  <2> QED
    BY <2>1, <2>2, <2>3, WithReq DEF Settled, Shape, Wakes
<1>6. CASE ~(~q.started /\ IsHeld(q)) /\ ~(q.credit < n)
  <2> DEFINE t == SendStart(s, c)
  <2>1. ReqWrite(s, c, n) = SendBody(t, c, n)
    BY <1>3, <1>6 DEF ReqWrite
  <2>2. Touches(s, t, c) /\ Alike(t.req[c], q) /\ Serves(t)
    BY SendStartTouches DEF Touches
  <2> HIDE DEF t
  <2>3. t.req[c].phase = "running" /\ ~t.req[c].paused /\ Shape(t.req[c])
    BY <1>3, <2>2 DEF Alike, Shape
  <2>4. Touches(t, SendBody(t, c, n), c) /\ Settled(SendBody(t, c, n), c)
    BY <1>1, <2>2, <2>3, SendBodySettles
  <2> QED
    BY <2>1, <2>2, <2>4, TouchesOn
<1> QED
  BY <1>4, <1>5, <1>6

-------------------------------------------------------------------------------
(* Steps of the transport.                                                 *)

(* A handler of one request keeps the invariant.                           *)
LEMMA HandlerKeeps ==
    ASSUME IInv, NEW c \in Call, NEW s, Serves(s),
           s.work.left \subseteq srv.work.left \ {c}, s.work.left # {} => s.work.op = srv.work.op,
           s.chan = srv.chan, s.want = srv.want, s.refresh = srv.refresh, s.req = srv.req,
           Touches(s, srv', c), Settled(srv', c), srv.work.left \ {c} \subseteq s.work.left,
           UNCHANGED <<agent, login>>, up' \in Seq(Asks)
    PROVE  IInv'
<1>1. Typed'
  BY DEF IInv, Typed, Touches
<1>2. \A d \in Call : d # c => \A op \in {"run", "resume"} : Mine(srv', d, op) <=> Mine(srv, d, op)
  BY DEF Mine, Touches
<1>3. ~Mine(srv', c, "run")
  BY DEF Mine, Touches
<1>4. ASSUME NEW d \in Call, d # c
      PROVE  /\ Shape(srv'.req[d]) /\ Wakes(srv', d, agent.open)
             /\ Mine(srv', d, "run") => srv'.req[d].phase = "parked"
  <2>1. srv'.req[d] = srv.req[d]
    BY <1>4 DEF Touches
  <2>2. /\ Shape(srv.req[d]) /\ Wakes(srv, d, agent.open)
        /\ Mine(srv, d, "run") => srv.req[d].phase = "parked"
    BY DEF IInv, Waits
  <2>3. Wakes(srv', d, agent.open)
    BY <1>2, <1>4, <2>1, <2>2 DEF Wakes, Touches
  <2> QED
    BY <1>2, <1>4, <2>1, <2>2, <2>3
<1>5. srv'.work.op = "none" => srv'.work.left = {}
  BY DEF IInv, Waits, Touches
<1>6. Waits'
  BY <1>3, <1>4, <1>5 DEF Waits, Settled
<1> QED
  BY <1>1, <1>6 DEF IInv

(* The same between the handlers that go through the requests.             *)
LEMMA StepKeeps ==
    ASSUME IInv, NEW c \in Call, Between, Touches(srv, srv', c), Settled(srv', c),
           UNCHANGED <<agent, login>>, up' \in Seq(Asks)
    PROVE  IInv'
<1>1. Serves(srv)
  BY DEF IInv, Typed
<1> QED
  BY <1>1, HandlerKeeps DEF Between

(* What holds of a request between handlers.                               *)
LEMMA SettledBetween ==
    ASSUME IInv, NEW c \in Call
    PROVE  Settled(srv, c) /\ Serves(srv) /\ srv.req[c] \in Reqs /\ login.tag \in Nat
BY DEF IInv, Typed, Waits, Settled, Serves, Server

(* chan_readable, one message.                                             *)
LEMMA ChanReadableKeeps ==
    ASSUME IInv, ChanReadable
    PROVE  IInv'
<1> DEFINE m == Head(up)
<1>1. m \in Asks /\ up' \in Seq(Asks)
  BY HeadTailProperties DEF ChanReadable, IInv, Typed
<1>2. m.id \in Call /\ m.id \notin srv.work.left
  BY <1>1 DEF Asks, Frames, ChanReadable, Between
<1>3. Touches(srv, srv', m.id) /\ Settled(srv', m.id)
  BY <1>1, <1>2, SettledBetween, ChanDispatchSettles DEF ChanReadable
<1> QED
  BY <1>1, <1>2, <1>3, StepKeeps DEF ChanReadable

(* curl delivers some of the body.                                         *)
LEMMA CurlWriteKeeps ==
    ASSUME IInv, NEW c \in Call, CurlWrite(c)
    PROVE  IInv'
<1>1. Settled(srv, c) /\ Serves(srv) /\ srv.req[c].phase = "running" /\ ~srv.req[c].paused
  BY SettledBetween DEF CurlWrite
<1>2. PICK n \in 1 .. Chunk :
        srv' \in {ReqWrite(s, c, n) : s \in IF srv.req[c].started THEN {srv} ELSE ReqRejected(srv, c)}
  BY DEF CurlWrite
<1>3. PICK s : /\ srv' = ReqWrite(s, c, n)
               /\ s = srv \/ s \in ReqRejected(srv, c)
  BY <1>2
<1>4. Touches(srv, s, c) /\ Alike(s.req[c], srv.req[c])
  BY <1>1, <1>3, ReqRejectedTouches DEF Touches, Alike
<1>5. Serves(s) /\ s.req[c].phase = "running" /\ ~s.req[c].paused /\ Shape(s.req[c])
  BY <1>1, <1>4 DEF Touches, Alike, Settled, Shape
<1>6. Touches(s, srv', c) /\ Settled(srv', c)
  BY <1>3, <1>5, ReqWriteSettles
<1> QED
  BY <1>4, <1>6, TouchesOn, StepKeeps DEF CurlWrite, IInv, Typed

(* fyai_curl_transfer_finish.                                              *)
LEMMA CurlFinishKeeps ==
    ASSUME IInv, NEW c \in Call, NEW result \in {"ok", "failed"}, CurlFinish(c, result)
    PROVE  IInv'
<1> DEFINE r == [srv.req[c] EXCEPT !.phase = "done", !.result = result]
<1>1. srv.req[c] \in Reqs /\ Serves(srv) /\ Shape(srv.req[c]) /\ srv.req[c].phase = "running"
  BY SettledBetween DEF CurlFinish, Settled
<1>2. r \in Reqs /\ Shape(r) /\ r.phase = "done" /\ r.pending = <<>>
  BY <1>1 DEF Reqs, Shape
<1>3. srv' = [srv EXCEPT !.req[c] = r]
  BY <1>1 DEF CurlFinish, Serves, Server
<1> HIDE DEF r
<1>4. Touches(srv, srv', c) /\ srv'.req[c] = r
  BY <1>1, <1>2, <1>3, WithReq
<1>5. Settled(srv', c)
  BY <1>2, <1>4 DEF Settled, Wakes
<1> QED
  BY <1>4, <1>5, StepKeeps DEF CurlFinish, IInv, Typed

(* fyai_curl_notify.                                                       *)
LEMMA CurlNotifyKeeps ==
    ASSUME IInv, NEW c \in Call, CurlNotify(c)
    PROVE  IInv'
<1>1. Settled(srv, c) /\ Serves(srv) /\ login.tag \in Nat /\ srv.req[c].phase = "done"
  BY SettledBetween DEF CurlNotify
<1>2. Touches(srv, srv', c) /\ Settled(srv', c)
  BY <1>1, ReqCompleteSettles DEF CurlNotify, Settled
<1> QED
  BY <1>2, StepKeeps DEF CurlNotify, IInv, Typed

(* The next request of a handler that goes through them.                   *)
LEMMA WorkOnKeeps ==
    ASSUME IInv, NEW c \in Call, WorkOn(c)
    PROVE  IInv'
<1> DEFINE work == WorkFor(srv.work.op, srv.work.left \ {c})
           s == [srv EXCEPT !.work = work]
<1>1. srv \in Server /\ srv.req[c] \in Reqs /\ Settled(srv, c) /\ Serves(srv) /\ login.tag \in Nat
  BY SettledBetween DEF Serves
<1>2. /\ work \in [op : {"none", "resume", "run"}, left : SUBSET Call]
      /\ work.left = srv.work.left \ {c}
      /\ work.left # {} => work.op = srv.work.op
  BY <1>1 DEF WorkFor, NoWork, Server
<1>3. /\ c \in srv.work.left
      /\ srv.work.op \in {"resume", "run"}
      /\ UNCHANGED <<agent, up, login>>
  BY <1>1 DEF WorkOn, Server, IInv, Waits
<1> HIDE DEF work
<1>4. /\ Serves(s) /\ s.work = work /\ s.chan = srv.chan /\ s.want = srv.want
      /\ s.refresh = srv.refresh /\ s.req = srv.req
  BY <1>1, <1>2 DEF Serves, Server
<1>5. CASE srv.chan # "open"
  <2>1. srv' = [srv EXCEPT !.work = NoWork]
    BY <1>5 DEF WorkOn
  <2>2. Serves(srv') /\ srv'.work.left = {} /\ srv'.chan # "open" /\ srv'.req = srv.req
    BY <1>1, <1>5, <2>1 DEF Serves, Server, NoWork
  <2>3. Waits'
    BY <2>2 DEF IInv, Waits, Wakes, Mine
  <2> QED
    BY <1>3, <2>2, <2>3 DEF IInv, Typed
<1>6. CASE srv.chan = "open" /\ srv.work.op = "resume"
  <2>1. srv' = ReqResume(s, c)
    BY <1>6 DEF WorkOn, s, work
  <2>2. Unsettled(s, c)
    BY <1>1, <1>4, <1>6 DEF Unsettled, Settled, Wakes, Mine
  <2> HIDE DEF s
  <2>3. Touches(s, srv', c) /\ Settled(srv', c)
    BY <1>4, <2>1, <2>2, ReqResumeSettles
  <2> QED
    BY <1>2, <1>3, <1>4, <2>3, HandlerKeeps DEF IInv, Typed
<1>7. CASE srv.chan = "open" /\ srv.work.op = "run"
  <2>1. srv' \in ReqRun(s, c, TRUE)
    BY <1>7 DEF WorkOn, s, work
  <2>2. srv.req[c].phase = "parked"
    BY <1>3, <1>7 DEF IInv, Waits, Mine
  <2>3. Runnable(s.req[c])
    BY <1>1, <1>4, <2>2 DEF Runnable, Settled, Shape
  <2> HIDE DEF s
  <2>4. Touches(s, srv', c) /\ Settled(srv', c)
    BY <1>1, <1>4, <2>1, <2>3, ReqRunSettles
  <2> QED
    BY <1>2, <1>3, <1>4, <2>4, HandlerKeeps DEF IInv, Typed
<1> QED
  BY <1>3, <1>5, <1>6, <1>7

(* chan_readable at the end of the channel.                                *)
LEMMA ChanEofKeeps ==
    ASSUME IInv, ChanEof
    PROVE  IInv'
<1>1. Serves(srv)
  BY DEF IInv, Typed
<1>2. Touches(srv, srv', 1) /\ srv'.req = srv.req /\ srv'.chan # "open" /\ srv'.work = srv.work
  BY <1>1, ChanDoomTouches DEF ChanEof, Touches
<1>3. Waits'
  BY <1>2 DEF IInv, Waits, Wakes, Mine
<1> QED
  BY <1>2, <1>3 DEF IInv, Typed, ChanEof, Touches

(* chan_writable: every request of the channel is looked at.               *)
LEMMA ChanWritableKeeps ==
    ASSUME IInv, ChanWritable
    PROVE  IInv'
<1> DEFINE all == {c \in Call : Present(srv, c)}
           work == WorkFor("resume", all)
<1>1. srv \in Server /\ Serves(srv)
  BY DEF IInv, Typed, Serves
<1>2. /\ work \in [op : {"none", "resume", "run"}, left : SUBSET Call]
      /\ work.op \in {"none", "resume"} /\ (work.op = "none" => work.left = {})
      /\ work.left = all /\ (all # {} => work.op = "resume")
  BY DEF WorkFor, NoWork
<1>3. srv' = [srv EXCEPT !.want = FALSE, !.work = work]
  BY DEF ChanWritable
<1> HIDE DEF work
<1>4. /\ srv' \in Server /\ srv'.work = work /\ srv'.req = srv.req /\ srv'.refresh = srv.refresh
      /\ srv'.chan = srv.chan /\ srv'.down = srv.down
  BY <1>1, <1>2, <1>3 DEF Server
<1>5. Typed'
  BY <1>1, <1>4 DEF IInv, Typed, Serves, ChanWritable
<1>6. ASSUME NEW c \in Call
      PROVE  /\ Shape(srv'.req[c]) /\ Wakes(srv', c, agent.open) /\ ~Mine(srv', c, "run")
  <2>1. Shape(srv.req[c]) /\ Wakes(srv, c, agent.open) /\ ~Mine(srv, c, "run")
    BY DEF IInv, Waits, ChanWritable, Between, Mine
  <2>2. srv.req[c].phase = "running" \/ srv.req[c].pending # <<>> => Mine(srv', c, "resume")
    BY <1>2, <1>4, <2>1 DEF Shape, Mine, Present
  <2>3. ~Mine(srv', c, "run")
    BY <1>2, <1>4 DEF Mine
  <2> QED
    BY <1>4, <2>1, <2>2, <2>3 DEF Wakes
<1>7. Waits'
  BY <1>2, <1>4, <1>6 DEF Waits, ChanWritable
<1> QED
  BY <1>5, <1>7 DEF IInv

(* refresh_done: every parked request is to run.                           *)
LEMMA RefreshDoneKeeps ==
    ASSUME IInv, RefreshDone
    PROVE  IInv'
<1> DEFINE work == WorkFor("run", Parked)
<1>1. srv \in Server /\ Serves(srv)
  BY DEF IInv, Typed, Serves
<1>2. /\ work \in [op : {"none", "resume", "run"}, left : SUBSET Call]
      /\ work.op \in {"none", "run"} /\ (work.op = "none" => work.left = {})
      /\ work.left = Parked /\ (Parked # {} => work.op = "run")
  BY DEF WorkFor, NoWork, Parked
<1>3. srv' = [srv EXCEPT !.refresh = FALSE, !.work = work]
  BY DEF RefreshDone
<1> HIDE DEF work
<1>4. /\ srv' \in Server /\ srv'.work = work /\ srv'.req = srv.req /\ srv'.want = srv.want
      /\ srv'.chan = srv.chan /\ srv'.down = srv.down
  BY <1>1, <1>2, <1>3 DEF Server
<1>5. login' \in [tag : Nat, age : {"fresh", "due", "expired"}]
  BY DEF IInv, Typed, RefreshDone
<1>6. Typed'
  BY <1>1, <1>4, <1>5 DEF IInv, Typed, Serves, RefreshDone
<1>7. ASSUME NEW c \in Call
      PROVE  /\ Shape(srv'.req[c]) /\ Wakes(srv', c, agent.open)
             /\ Mine(srv', c, "run") => srv'.req[c].phase = "parked"
  <2>1. Shape(srv.req[c]) /\ Wakes(srv, c, agent.open) /\ ~Mine(srv, c, "resume")
    BY DEF IInv, Waits, RefreshDone, Mine
  <2>2. Mine(srv', c, "run") <=> c \in Parked
    BY <1>2, <1>4 DEF Mine
  <2> QED
    BY <1>4, <2>1, <2>2 DEF Wakes, Parked
<1>8. Waits'
  BY <1>2, <1>4, <1>7 DEF Waits, RefreshDone
<1> QED
  BY <1>6, <1>8 DEF IInv

(* chan_free, of a channel that is doomed or retired.                      *)
LEMMA ChanFreeKeeps ==
    ASSUME IInv, srv' = ChanFree(srv), up' = <<>>, UNCHANGED <<agent, login>>
    PROVE  IInv'
<1>1. srv \in Server /\ Serves(srv) /\ agent.open \in BOOLEAN
  BY DEF IInv, Typed, Serves, Client
<1> DEFINE reset == up # <<>> /\ agent.open
           req == [c \in Call |-> NoReq]
<1>2. reset \in BOOLEAN /\ req \in [Call -> Reqs] /\ \A c \in Call : req[c] = NoReq
  BY NoReqFacts
<1>3. NoWork \in [op : {"none", "resume", "run"}, left : SUBSET Call] /\ NoWork.left = {}
  BY DEF NoWork
<1>4. srv' = [srv EXCEPT !.chan = "closed", !.want = FALSE, !.reset = reset,
                         !.work = NoWork, !.req = req]
  BY DEF ChanFree
<1> HIDE DEF reset, req
<1>5. /\ srv' \in Server /\ srv'.work = NoWork /\ srv'.req = req /\ srv'.chan = "closed"
      /\ srv'.down = srv.down
  BY <1>1, <1>2, <1>3, <1>4 DEF Server
<1>6. <<>> \in Seq(Asks)
  OBVIOUS
<1>7. Typed'
  BY <1>1, <1>5, <1>6 DEF IInv, Typed, Serves
<1>8. Waits'
  BY <1>2, <1>3, <1>5, NoReqFacts DEF Waits, Wakes, Mine
<1> QED
  BY <1>7, <1>8 DEF IInv

(* The login gets older, or is renewed by another process.                 *)
LEMMA LoginKeeps ==
    ASSUME IInv, LoginAges \/ LoginRenewed
    PROVE  IInv'
<1>1. login' \in [tag : Nat, age : {"fresh", "due", "expired"}]
  BY DEF IInv, Typed, LoginAges, LoginRenewed
<1>2. UNCHANGED <<agent, up, srv>>
  BY DEF LoginAges, LoginRenewed
<1> QED
  BY <1>1, <1>2 DEF IInv, Typed, Waits

-------------------------------------------------------------------------------
(* Steps of the client.                                                    *)

(* A step of the client reads frames, or drops them all; it takes nothing  *)
(* from the requests.                                                      *)
Unread1(s, t) ==
    /\ Serves(t) /\ t.chan = s.chan /\ t.want = s.want /\ t.refresh = s.refresh
    /\ t.work = s.work /\ t.req = s.req

(* A step of the client that keeps the types keeps what requests wait for. *)
LEMMA ClientKeeps ==
    ASSUME IInv, agent' \in Client, agent'.open => agent.open, up' \in Seq(Asks),
           Unread1(srv, srv'), UNCHANGED login
    PROVE  IInv'
<1>1. Typed'
  BY DEF IInv, Typed, Unread1
<1>2. ASSUME NEW c \in Call
      PROVE  /\ Shape(srv'.req[c]) /\ Wakes(srv', c, agent'.open)
             /\ Mine(srv', c, "run") => srv'.req[c].phase = "parked"
  BY DEF IInv, Waits, Wakes, Mine, Unread1
<1>3. Waits'
  BY <1>2 DEF Waits, IInv, Unread1
<1> QED
  BY <1>1, <1>3 DEF IInv

(* What is left of the frames.                                             *)
LEMMA UnreadFacts ==
    ASSUME IInv, NEW k \in {0, 1}, k = 1 => srv.down # <<>>, NEW reset \in BOOLEAN
    PROVE  /\ Unread1(srv, [srv EXCEPT !.down = Unread(k)])
           /\ Unread1(srv, [srv EXCEPT !.down = Unread(k), !.reset = reset])
<1>1. srv \in Server /\ Len(srv.down) <= Room /\ srv.down \in Seq(Frames)
  BY DEF IInv, Typed, Serves, Server
<1>2. Len(srv.down) \in Nat /\ (k = 1 => Len(srv.down) > 0)
  BY <1>1, EmptySeq
<1>3. /\ SubSeq(srv.down, k + 1, Len(srv.down)) \in Seq(Frames)
      /\ Len(SubSeq(srv.down, k + 1, Len(srv.down))) <= Len(srv.down)
  BY <1>1, <1>2, SubSeqProperties
<1>4. Unread(k) \in Seq(Frames) /\ Len(Unread(k)) <= Room
  <2> DEFINE a == Len(srv.down)
             b == Len(SubSeq(srv.down, k + 1, Len(srv.down)))
  <2>1. a \in Nat /\ b \in Nat /\ b <= a /\ a <= Room /\ Room \in Nat
    BY <1>1, <1>2, <1>3, TransportAssumption
  <2> HIDE DEF a, b
  <2>2. b <= Room
    BY <2>1
  <2> QED
    BY <1>3, <2>2 DEF b, Unread
<1> HIDE DEF Unread
<1> QED
  BY <1>1, <1>4 DEF Unread1, Serves, Server

(* The client sends a frame, or is done.                                   *)
LEMMA ClientDoneKeeps ==
    ASSUME IInv, NEW a \in Client, a.open => agent.open, NEW k \in {0, 1},
           k = 1 => srv.down # <<>>, ClientDone(a, k), UNCHANGED login
    PROVE  IInv'
<1>1. Unread1(srv, srv')
  BY UnreadFacts DEF ClientDone
<1> QED
  BY <1>1, ClientKeeps DEF ClientDone, IInv, Typed

(* client_send, after k frames are read; it fails on a closed channel.     *)
LEMMA ClientSendKeeps ==
    ASSUME IInv, NEW a \in Client, a.open => agent.open, NEW k \in {0, 1},
           k = 1 => srv.down # <<>>, NEW m \in Asks, ClientSend(a, k, m), UNCHANGED login
    PROVE  IInv'
<1>1. Unread1(srv, srv')
  BY UnreadFacts DEF ClientSend
<1>2. agent' \in Client /\ (agent'.open => agent.open)
  BY DEF ClientSend, Client
<1>3. up' \in Seq(Asks)
  BY AppendProperties DEF ClientSend, IInv, Typed
<1> QED
  BY <1>1, <1>2, <1>3, ClientKeeps

(* A frame to the transport.                                               *)
LEMMA AskFacts ==
    ASSUME NEW c \in Call, NEW kind \in {"request", "cancel", "credit"}, NEW data \in Data
    PROVE  Frame(c, kind, 0, data) \in Asks
<1>1. kind \in Kinds /\ 0 \in Nat
  BY DEF Kinds
<1>2. Frame(c, kind, 0, data) \in Frames /\ Frame(c, kind, 0, data).kind = kind
  BY <1>1, FrameFacts
<1> QED
  BY <1>2 DEF Asks

(* A call is made, ends, or goes on.                                       *)
Ends == ErrorKind \cup {"idle", "open", "unsent", "freed", "ok", "lost", "aborted"}

(* A call that is replaced by another, while the rest stays.               *)
LEMMA WithCall ==
    ASSUME NEW a \in Client, NEW c \in Call, NEW call \in Made
    PROVE  /\ [a EXCEPT !.call[c] = call] \in Client
           /\ [a EXCEPT !.call[c] = call].open = a.open
           /\ [a EXCEPT !.call[c] = call].call[c] = call
BY DEF Client

(* A call that has ended keeps its types.                                  *)
LEMMA PastFacts ==
    ASSUME NEW call \in Made, NEW how \in Ends
    PROVE  Past(call, how) \in Made
<1>1. call.got.torn \in BOOLEAN
  BY DEF Made
<1>2. NewCall \in Made
  BY DEF NewCall, Made
<1> DEFINE torn == call.got.torn
<1> HIDE DEF torn
<1>3. [NewCall EXCEPT !.st = how, !.got.torn = torn] \in Made
  <2>1. [NewCall.got EXCEPT !.torn = torn] \in [try : Nat, n : Nat, torn : BOOLEAN]
    BY <1>1, <1>2 DEF Made, torn
  <2> QED
    BY <1>2, <2>1 DEF Made, Ends
<1> QED
  BY <1>3 DEF Past, torn

(* tcall_end leaves a client that has the channel as before.               *)
LEMMA TcallEndFacts ==
    ASSUME NEW a \in Client, NEW c \in Call, NEW how \in Ends
    PROVE  TcallEnd(a, c, how) \in Client /\ TcallEnd(a, c, how).open = a.open
<1>1. a.call[c] \in Made
  BY DEF Client
<1>2. Past(a.call[c], how) \in Made
  BY <1>1, PastFacts
<1>3. TcallEnd(a, c, how) = IF Open(a, c) THEN [a EXCEPT !.call[c] = Past(a.call[c], how)] ELSE a
  BY DEF TcallEnd
<1> QED
  BY <1>2, <1>3, WithCall

(* fyai_tclient_submit.                                                    *)
LEMMA SubmitKeeps ==
    ASSUME IInv, NEW c \in Call, Submit(c)
    PROVE  IInv'
<1> DEFINE made == IF srv.chan = "closed" THEN "unsent" ELSE "open"
           call == [agent.call[c] EXCEPT !.st = made]
           a == [agent EXCEPT !.call[c] = call]
           m == Frame(c, "request", 0, NoData)
<1>1. agent \in Client /\ agent.call[c] \in Made
  BY DEF IInv, Typed, Client
<1>2. call \in Made
  BY <1>1 DEF Made
<1>3. m \in Asks
  BY AskFacts, FrameFacts
<1>4. ClientSend(a, 0, m) /\ UNCHANGED login
  BY DEF Submit
<1> HIDE DEF call, m
<1>5. a \in Client /\ a.open = agent.open
  BY <1>1, <1>2, WithCall
<1> HIDE DEF a
<1> QED
  BY <1>3, <1>4, <1>5, ClientSendKeeps

(* fyai_tcall_cancel.                                                      *)
LEMMA CancelKeeps ==
    ASSUME IInv, NEW c \in Call, Cancel(c)
    PROVE  IInv'
<1> DEFINE call == [agent.call[c] EXCEPT !.cancelSent = TRUE]
           a == [agent EXCEPT !.call[c] = call]
           m == Frame(c, "cancel", 0, NoData)
<1>1. agent \in Client /\ agent.call[c] \in Made
  BY DEF IInv, Typed, Client
<1>2. call \in Made
  BY <1>1 DEF Made
<1>3. m \in Asks
  BY AskFacts, FrameFacts
<1>4. ClientSend(a, 0, m) /\ UNCHANGED login
  BY DEF Cancel
<1> HIDE DEF call, m
<1>5. a \in Client /\ a.open = agent.open
  BY <1>1, <1>2, WithCall
<1> HIDE DEF a
<1> QED
  BY <1>3, <1>4, <1>5, ClientSendKeeps

(* fyai_tcall_destroy.                                                     *)
LEMMA DestroyKeeps ==
    ASSUME IInv, NEW c \in Call, Destroy(c)
    PROVE  IInv'
<1> DEFINE a == TcallEnd(agent, c, "freed")
           m == Frame(c, "cancel", 0, NoData)
<1>1. a \in Client /\ a.open = agent.open
  BY TcallEndFacts DEF IInv, Typed, Ends
<1>2. m \in Asks
  BY AskFacts, FrameFacts
<1>3. (ClientDone(a, 0) \/ ClientSend(a, 0, m)) /\ UNCHANGED login
  BY DEF Destroy
<1> HIDE DEF a, m
<1> QED
  BY <1>1, <1>2, <1>3, ClientDoneKeeps, ClientSendKeeps

(* Every call of a client ends in one way.                                 *)
LEMMA EndAllFacts ==
    ASSUME NEW a \in Client, NEW how \in Ends
    PROVE  [c \in Call |-> IF Open(a, c) THEN Past(a.call[c], how) ELSE a.call[c]] \in [Call -> Made]
BY PastFacts DEF Client

(* fyai_tclient_close.                                                     *)
LEMMA ClientCloseKeeps ==
    ASSUME IInv, ClientClose
    PROVE  IInv'
<1> DEFINE calls == [c \in Call |-> IF Open(agent, c) THEN Past(agent.call[c], "freed")
                                                     ELSE agent.call[c]]
<1>1. agent \in Client /\ srv \in Server /\ Serves(srv)
  BY DEF IInv, Typed, Serves
<1>2. calls \in [Call -> Made]
  BY <1>1, EndAllFacts DEF Ends
<1>3. agent' = [agent EXCEPT !.open = FALSE, !.src = FALSE, !.call = calls]
  BY DEF ClientClose
<1> HIDE DEF calls
<1>4. agent' \in Client /\ ~agent'.open
  BY <1>1, <1>2, <1>3 DEF Client
<1>5. <<>> \in Seq(Frames) /\ Len(<<>>) = 0
  OBVIOUS
<1>6. Unread1(srv, srv')
  <2>1. srv' = [srv EXCEPT !.down = <<>>]
    BY DEF ClientClose
  <2>2. /\ srv' \in Server /\ srv'.down = <<>> /\ srv'.chan = srv.chan /\ srv'.want = srv.want
        /\ srv'.refresh = srv.refresh /\ srv'.work = srv.work /\ srv'.req = srv.req
    BY <1>1, <1>5, <2>1 DEF Server
  <2>3. Len(srv'.down) <= Room
    BY <1>5, <2>2, TransportAssumption
  <2> QED
    BY <2>2, <2>3 DEF Unread1, Serves
<1> QED
  BY <1>4, <1>6, ClientKeeps DEF ClientClose, IInv, Typed

(* client_lose, at the end of the channel or with an error.                *)
LEMMA ClientLoseKeeps ==
    ASSUME IInv, ClientEof \/ ClientError
    PROVE  IInv'
<1> DEFINE calls == [c \in Call |-> IF Open(agent, c) THEN Past(agent.call[c], "lost")
                                                     ELSE agent.call[c]]
<1>1. agent \in Client /\ srv \in Server /\ Serves(srv)
  BY DEF IInv, Typed, Serves
<1>2. calls \in [Call -> Made]
  BY <1>1, EndAllFacts DEF Ends
<1>3. agent' = [agent EXCEPT !.lost = TRUE, !.src = FALSE, !.call = calls]
  BY DEF ClientEof, ClientError, ClientLose
<1> HIDE DEF calls
<1>4. agent' \in Client /\ agent'.open = agent.open
  BY <1>1, <1>2, <1>3 DEF Client
<1>5. Unread1(srv, srv')
  BY <1>1 DEF ClientEof, ClientError, Unread1, Serves, Server
<1> QED
  BY <1>4, <1>5, ClientKeeps DEF ClientEof, ClientError, IInv, Typed

(* A call that has taken data of its body is as it was made.               *)
LEMMA TakenFacts ==
    ASSUME NEW call \in Made, NEW d \in Data
    PROVE  Taken(call, d) \in Made
<1> DEFINE torn == call.got.torn \/ d.try # call.got.try \/ d.from # call.got.n
           got == [try |-> call.got.try, n |-> call.got.n + d.n, torn |-> torn]
           n == call.unreported + d.n
           unreported == IF n < CreditStep THEN n ELSE 0
<1>1. n \in Nat /\ call.next + 1 \in Nat /\ call.got.n + d.n \in Nat /\ call.got.try \in Nat
  BY DEF Made, Data
<1>2. unreported \in Nat
  BY <1>1
<1>3. torn \in BOOLEAN
  BY Zenon
<1> HIDE DEF torn
<1>4. got \in [try : Nat, n : Nat, torn : BOOLEAN]
  BY <1>1, <1>3
<1>5. Taken(call, d) = [call EXCEPT !.next = @ + 1, !.got = got, !.unreported = unreported]
  BY DEF Taken, torn
<1> HIDE DEF got, unreported
<1> QED
  BY <1>1, <1>2, <1>4, <1>5 DEF Made

(* call_body, with the credit that it reports.                             *)
LEMMA TakeBodyKeeps ==
    ASSUME IInv, srv.down # <<>>, NEW c \in Call, NEW d \in Data, TakeBody(c, d), UNCHANGED login
    PROVE  IInv'
<1> DEFINE a == [agent EXCEPT !.call[c] = Taken(agent.call[c], d)]
           credit == CallCredit(agent.call[c].unreported + d.n)
           m == Frame(c, "credit", 0, DataOf(0, 0, credit))
<1>1. agent \in Client /\ agent.call[c] \in Made
  BY DEF IInv, Typed, Client
<1>2. credit \in Nat
  <2>1. agent.call[c].unreported + d.n \in Nat
    BY <1>1 DEF Made, Data
  <2> QED
    BY <2>1 DEF CallCredit
<1>3. IF credit = 0 THEN ClientDone(a, 1) ELSE ClientSend(a, 1, m)
  BY DEF TakeBody
<1> HIDE DEF credit
<1>4. DataOf(0, 0, credit) \in Data
  BY <1>2, FrameFacts
<1>5. m \in Asks
  BY <1>4, AskFacts
<1> HIDE DEF m
<1>6. a \in Client /\ a.open = agent.open
  BY <1>1, TakenFacts, WithCall
<1> HIDE DEF a
<1> QED
  BY <1>3, <1>5, <1>6, ClientDoneKeeps, ClientSendKeeps

(* The client gives a call up.                                             *)
LEMMA GiveUpKeeps ==
    ASSUME IInv, srv.down # <<>>, NEW c \in Call, NEW how \in Ends, GiveUp(c, how), UNCHANGED login
    PROVE  IInv'
<1> DEFINE a == TcallEnd(agent, c, how)
           m == Frame(c, "cancel", 0, NoData)
<1>1. a \in Client /\ a.open = agent.open
  BY TcallEndFacts DEF IInv, Typed
<1>2. m \in Asks
  BY AskFacts, FrameFacts
<1>3. ClientSend(a, 1, m)
  BY DEF GiveUp
<1> HIDE DEF a, m
<1> QED
  BY <1>1, <1>2, <1>3, ClientSendKeeps

(* call_frame.                                                             *)
LEMMA CallFrameKeeps ==
    ASSUME IInv, srv.down # <<>>, NEW c \in Call, NEW m \in Frames, CallFrame(c, m), UNCHANGED login
    PROVE  IInv'
<1>1. agent \in Client /\ agent.call[c] \in Made /\ m.data \in Data /\ m.data.try \in Nat
  BY DEF IInv, Typed, Client, Frames, Data
<1>2. ASSUME NEW how \in Ends, ClientDone(TcallEnd(agent, c, how), 1) PROVE IInv'
  <2>1. TcallEnd(agent, c, how) \in Client /\ TcallEnd(agent, c, how).open = agent.open
    BY <1>1, TcallEndFacts
  <2> QED
    BY <1>2, <2>1, ClientDoneKeeps
<1>3. CASE ClientDone([agent EXCEPT !.call[c] =
                [agent.call[c] EXCEPT !.next = @ + 1, !.started = TRUE, !.got.try = m.data.try]], 1)
  <2> DEFINE call == agent.call[c]
             next == call.next + 1
             try == m.data.try
             r == [call EXCEPT !.next = next, !.started = TRUE, !.got.try = try]
             a == [agent EXCEPT !.call[c] = r]
  <2>1. next \in Nat /\ call \in Made /\ try \in Nat
    BY <1>1 DEF Made
  <2>2. ClientDone(a, 1)
    BY <1>3
  <2> HIDE DEF call, next, try
  <2>3. r \in Made
    <3>1. [call.got EXCEPT !.try = try] \in [try : Nat, n : Nat, torn : BOOLEAN]
      BY <2>1 DEF Made
    <3> QED
      BY <2>1, <3>1 DEF Made
  <2> HIDE DEF r
  <2>4. a \in Client /\ a.open = agent.open
    BY <1>1, <2>3, WithCall
  <2> HIDE DEF a
  <2> QED
    BY <2>2, <2>4, ClientDoneKeeps
<1>4. CASE LET whole == m.data = DataOf(agent.call[c].got.try, agent.call[c].got.n, 0) IN
           ClientDone([TcallEnd(agent, c, "ok") EXCEPT !.call[c].got.torn = @ \/ ~whole], 1)
  <2> DEFINE b == TcallEnd(agent, c, "ok")
             torn == b.call[c].got.torn
                     \/ ~(m.data = DataOf(agent.call[c].got.try, agent.call[c].got.n, 0))
             call == b.call[c]
             r == [call EXCEPT !.got.torn = torn]
             a == [b EXCEPT !.call[c] = r]
  <2>1. b \in Client /\ b.open = agent.open
    BY <1>1, TcallEndFacts DEF Ends
  <2>2. ClientDone(a, 1)
    BY <1>4
  <2>3. torn \in BOOLEAN
    BY Zenon
  <2> HIDE DEF b, torn
  <2>4. call \in Made
    BY <2>1 DEF Client
  <2> HIDE DEF call
  <2>5. r \in Made
    <3>1. [call.got EXCEPT !.torn = torn] \in [try : Nat, n : Nat, torn : BOOLEAN]
      BY <2>3, <2>4 DEF Made
    <3> QED
      BY <2>4, <3>1 DEF Made
  <2> HIDE DEF r
  <2>6. a \in Client /\ a.open = b.open
    BY <2>1, <2>5, WithCall
  <2> HIDE DEF a
  <2> QED
    BY <2>1, <2>2, <2>6, ClientDoneKeeps
<1>5. CASE TakeBody(c, m.data)
  BY <1>1, <1>5, TakeBodyKeeps
<1>6. CASE GiveUp(c, "lost") \/ GiveUp(c, "aborted")
  BY <1>6, GiveUpKeeps DEF Ends
<1> QED
  BY <1>2, <1>3, <1>4, <1>5, <1>6 DEF CallFrame, Ends

(* client_readable, one frame.                                             *)
LEMMA ClientReadableKeeps ==
    ASSUME IInv, ClientReadable
    PROVE  IInv'
<1> DEFINE m == Head(srv.down)
<1>1. agent \in Client /\ srv.down \in Seq(Frames) /\ srv.down # <<>>
  BY DEF IInv, Typed, Serves, Server, ClientReadable
<1>2. m \in Frames
  BY <1>1, HeadTailProperties
<1>3. m.id \in Call
  BY <1>2 DEF Frames
<1>4. CallFrame(m.id, m) \/ ClientDone(agent, 1)
  BY DEF ClientReadable
<1> HIDE DEF m
<1> QED
  BY <1>1, <1>2, <1>3, <1>4, CallFrameKeeps, ClientDoneKeeps DEF ClientReadable

-------------------------------------------------------------------------------
(* The theorems.                                                           *)

(* The invariant holds at first.                                           *)
LEMMA InitIInv ==
    ASSUME Init
    PROVE  IInv
<1>1. <<>> \in Seq(Frames) /\ <<>> \in Seq(Asks) /\ Len(<<>>) = 0
  OBVIOUS
<1>2. NewCall \in Made
  BY DEF NewCall, Made
<1>3. NoWork \in [op : {"none", "resume", "run"}, left : SUBSET Call] /\ NoWork.left = {}
  BY DEF NoWork
<1>4. agent \in Client
  BY <1>2 DEF Init, Client
<1>5. srv \in Server
  BY <1>1, <1>3, NoReqFacts DEF Init, Server
<1>6. Serves(srv) /\ up \in Seq(Asks)
  BY <1>1, <1>5, TransportAssumption DEF Init, Serves
<1>7. login \in [tag : Nat, age : {"fresh", "due", "expired"}]
  BY DEF Init
<1>8. srv.work.left = {} /\ \A c \in Call : srv.req[c] = NoReq
  BY <1>3 DEF Init
<1>9. Waits
  BY <1>8, NoReqFacts DEF Waits, Wakes, Mine
<1> QED
  BY <1>4, <1>6, <1>7, <1>9 DEF IInv, Typed

(* Every step keeps it.                                                    *)
LEMMA StepIInv ==
    ASSUME IInv, [Next]_vars
    PROVE  IInv'
<1>1. CASE UNCHANGED vars
  BY <1>1 DEF vars, IInv, Typed, Waits
<1>2. CASE ChanReap \/ Retire
  BY <1>2, ChanFreeKeeps DEF ChanReap, Retire
<1> QED
  BY <1>1, <1>2, SubmitKeeps, CancelKeeps, DestroyKeeps, ClientCloseKeeps, ClientReadableKeeps,
     ClientLoseKeeps, ChanReadableKeeps, ChanEofKeeps, ChanWritableKeeps, RefreshDoneKeeps,
     WorkOnKeeps, CurlWriteKeeps, CurlNotifyKeeps, CurlFinishKeeps, LoginKeeps
  DEF Next

(* The invariant holds in every state: of every request of an open         *)
(* channel, what it waits for is to come.                                  *)
THEOREM AlwaysIInv == Spec => []IInv
<1>1. Init => IInv
  BY InitIInv
<1>2. IInv /\ [Next]_vars => IInv'
  BY StepIInv
<1> QED
  BY <1>1, <1>2, PTL DEF Spec

(* A parked request waits for a refresh that is under way (req_run,        *)
(* req_retry), never for one that has ended.                               *)
THEOREM AlwaysParkedHasRenewal == Spec => []ParkedHasRenewal
<1>1. IInv => ParkedHasRenewal
  BY DEF IInv, Waits, Wakes, Mine, ParkedHasRenewal
<1> QED
  BY <1>1, AlwaysIInv, PTL

(* A transfer that req_write_cb has paused is resumed: the socket is       *)
(* watched, the agent owes credit, or a handler still comes to it.         *)
THEOREM AlwaysPausedHasWaker == Spec => []PausedHasWaker
<1>1. IInv => PausedHasWaker
  BY DEF IInv, Waits, Wakes, Mine, PausedHasWaker
<1> QED
  BY <1>1, AlwaysIInv, PTL

-------------------------------------------------------------------------------
(* Units in a queue.                                                       *)

(* What one frame adds.                                                    *)
Unit(f, c, kind) == IF f.id = c /\ f.kind = kind THEN f.data.n ELSE 0

UnitRecursion(s, c, kind, F) ==
    F = [i \in 0 .. Len(s) |-> IF i = 0 THEN 0
                               ELSE F[i - 1] + (IF s[i].id = c /\ s[i].kind = kind
                                                THEN s[i].data.n ELSE 0)]

UnitsUpTo(s, c, kind, n, G) ==
    /\ DOMAIN G = 0 .. n
    /\ G = [i \in 0 .. n |-> G[i]]
    /\ \A i \in 0 .. n : G[i] = IF i = 0 THEN 0
                                ELSE G[i - 1] + (IF s[i].id = c /\ s[i].kind = kind
                                                 THEN s[i].data.n ELSE 0)

(* The recursion that defines Units has a solution.                        *)
LEMMA UnitsExist ==
    ASSUME NEW s, NEW c, NEW kind, Len(s) \in Nat
    PROVE  UnitRecursion(s, c, kind, Units(s, c, kind))
<1> DEFINE one(i) == IF s[i].id = c /\ s[i].kind = kind THEN s[i].data.n ELSE 0
           T == {n \in 0 .. Len(s) : \E G : UnitsUpTo(s, c, kind, n, G)}
<1>1. 0 \in T
  <2>1. UnitsUpTo(s, c, kind, 0, [i \in 0 .. 0 |-> 0])
    BY DEF UnitsUpTo
  <2> QED BY <2>1
<1>2. ASSUME NEW n \in 0 .. Len(s) - 1, n \in T PROVE n + 1 \in T
  <2>1. PICK G : UnitsUpTo(s, c, kind, n, G)
    BY <1>2
  <2> HIDE DEF one
  <2> DEFINE H == [i \in 0 .. n + 1 |-> IF i <= n THEN G[i] ELSE G[n] + one(n + 1)]
  <2>2. DOMAIN H = 0 .. n + 1 /\ H = [i \in 0 .. n + 1 |-> H[i]]
    OBVIOUS
  <2>3. \A i \in 0 .. n : G[i] = IF i = 0 THEN 0 ELSE G[i - 1] + one(i)
    BY <2>1, Zenon DEF UnitsUpTo, one
  <2>4. ASSUME NEW i \in 0 .. n + 1
        PROVE  H[i] = IF i = 0 THEN 0 ELSE H[i - 1] + one(i)
    <3>1. CASE i <= n
      <4>1. i \in 0 .. n /\ H[i] = G[i] /\ (i # 0 => i - 1 \in 0 .. n + 1 /\ H[i - 1] = G[i - 1])
        BY <3>1
      <4> QED BY <2>3, <4>1
    <3>2. CASE i = n + 1
      BY <3>2
    <3> QED BY <3>1, <3>2
  <2>5. UnitsUpTo(s, c, kind, n + 1, H)
    <3> HIDE DEF H
    <3> QED BY <2>2, <2>4, Zenon DEF UnitsUpTo, one
  <2> HIDE DEF H
  <2> QED BY <2>5
<1>3. Len(s) \in T
  <2>1. \A n \in 0 .. Len(s) - 1 : n \in T => n + 1 \in T
    BY <1>2
  <2> HIDE DEF T
  <2>2. \A i \in 0 .. Len(s) : i \in T
    BY <1>1, <2>1, UpTo, Zenon
  <2> QED BY <2>2
<1>4. PICK G : UnitsUpTo(s, c, kind, Len(s), G)
  BY <1>3
<1>5. UnitRecursion(s, c, kind, G)
  BY <1>4, Zenon DEF UnitsUpTo, UnitRecursion
<1> QED BY <1>5, Zenon DEF Units, UnitRecursion

(* The units of each prefix.                                               *)
LEMMA UnitsOfPrefix ==
    ASSUME NEW s \in Seq(Frames), NEW c, NEW kind
    PROVE  /\ Units(s, c, kind)[0] = 0
           /\ \A i \in 1 .. Len(s) :
                 Units(s, c, kind)[i] = Units(s, c, kind)[i - 1] + Unit(s[i], c, kind)
<1>1. Len(s) \in Nat
  OBVIOUS
<1>2. UnitRecursion(s, c, kind, Units(s, c, kind))
  BY <1>1, UnitsExist
<1> DEFINE K == Units(s, c, kind)
<1> HIDE DEF K
<1>3. \A i \in 0 .. Len(s) : K[i] = IF i = 0 THEN 0 ELSE K[i - 1] + Unit(s[i], c, kind)
  <2>1. K = [i \in 0 .. Len(s) |-> IF i = 0 THEN 0 ELSE K[i - 1] + Unit(s[i], c, kind)]
    BY <1>2, Zenon DEF UnitRecursion, K, Unit
  <2> QED BY <2>1, Zenon
<1>4. K[0] = 0
  BY <1>1, <1>3
<1>5. \A i \in 1 .. Len(s) : i \in 0 .. Len(s) /\ i # 0
  BY <1>1
<1>6. \A i \in 1 .. Len(s) : K[i] = K[i - 1] + Unit(s[i], c, kind)
  BY <1>3, <1>5, Zenon
<1> QED BY <1>4, <1>6, Zenon DEF K

(* A frame has a natural number of units.                                  *)
LEMMA UnitIsNat ==
    ASSUME NEW f \in Frames, NEW c, NEW kind
    PROVE  Unit(f, c, kind) \in Nat
BY DEF Unit, Frames

(* So have the frames of a queue.                                          *)
LEMMA UnitsAreNat ==
    ASSUME NEW s \in Seq(Frames), NEW c, NEW kind
    PROVE  /\ \A i \in 0 .. Len(s) : Units(s, c, kind)[i] \in Nat
           /\ UnitsIn(s, c, kind) \in Nat
<1> DEFINE K == Units(s, c, kind)
           n == Len(s)
<1>1. K[0] = 0 /\ \A i \in 1 .. n : K[i] = K[i - 1] + Unit(s[i], c, kind)
  BY UnitsOfPrefix
<1>2. \A i \in 1 .. n : s[i] \in Frames
  BY ElementOfSeq
<1>3. \A i \in 1 .. n : Unit(s[i], c, kind) \in Nat
  BY <1>2, UnitIsNat
<1>4. n \in Nat
  OBVIOUS
<1>5. UnitsIn(s, c, kind) = K[n]
  BY Zenon DEF UnitsIn
<1> HIDE DEF K, n
<1> DEFINE T == {i \in 0 .. n : K[i] \in Nat}
<1>6. 0 \in T
  BY <1>1, <1>4
<1>7. \A i \in 0 .. n - 1 : i \in T => i + 1 \in T
  <2> SUFFICES ASSUME NEW i \in 0 .. n - 1, K[i] \in Nat PROVE i + 1 \in T
    OBVIOUS
  <2>1. i + 1 \in 1 .. n /\ (i + 1) - 1 = i
    BY <1>4
  <2>2. K[i + 1] = K[i] + Unit(s[i + 1], c, kind) /\ Unit(s[i + 1], c, kind) \in Nat
    BY <1>1, <1>3, <2>1
  <2>3. K[i + 1] \in Nat
    BY <2>2
  <2> QED BY <2>1, <2>3
<1>8. \A i \in 0 .. n : i \in T
  <2> HIDE DEF T
  <2> QED BY <1>4, <1>6, <1>7, UpTo, Zenon
<1>9. K[n] \in Nat
  BY <1>4, <1>8
<1> QED BY <1>5, <1>8, <1>9 DEF K, n

(* The units of two queues, one after the other.                           *)
LEMMA UnitsConcat ==
    ASSUME NEW s \in Seq(Frames), NEW p \in Seq(Frames), NEW c, NEW kind
    PROVE  UnitsIn(s \o p, c, kind) = UnitsIn(s, c, kind) + UnitsIn(p, c, kind)
<1> DEFINE q == s \o p
           K == Units(s, c, kind)
           L == Units(p, c, kind)
           M == Units(q, c, kind)
           n == Len(s)
           m == Len(p)
<1>1. /\ q \in Seq(Frames) /\ Len(q) = n + m /\ n \in Nat /\ m \in Nat
      /\ \A i \in 1 .. n : q[i] = s[i]
      /\ \A i \in 1 .. m : q[n + i] = p[i]
  OBVIOUS
<1>2. /\ K[0] = 0
      /\ \A i \in 1 .. n : K[i] = K[i - 1] + Unit(s[i], c, kind)
  BY UnitsOfPrefix
<1>3. /\ L[0] = 0
      /\ \A i \in 1 .. m : L[i] = L[i - 1] + Unit(p[i], c, kind)
  BY UnitsOfPrefix
<1>4. UnitsIn(s, c, kind) = K[n] /\ UnitsIn(p, c, kind) = L[m] /\ UnitsIn(q, c, kind) = M[Len(q)]
  BY Zenon DEF UnitsIn
<1>5. K[n] \in Nat /\ \A i \in 0 .. m : L[i] \in Nat
  <2>1. /\ \A i \in 0 .. n : K[i] \in Nat
        /\ \A i \in 0 .. m : L[i] \in Nat
    BY UnitsAreNat
  <2> HIDE DEF K, L, n, m
  <2> QED BY <1>1, <2>1
<1>6. \A i \in 1 .. m : Unit(p[i], c, kind) \in Nat
  <2>1. \A i \in 1 .. m : p[i] \in Frames
    BY ElementOfSeq
  <2> QED BY <2>1, UnitIsNat
<1> HIDE DEF q, n, m
<1>7. /\ M[0] = 0
      /\ \A i \in 1 .. n + m : M[i] = M[i - 1] + Unit(q[i], c, kind)
  <2>1. q \in Seq(Frames) /\ Len(q) = n + m
    BY <1>1
  <2> QED BY <2>1, UnitsOfPrefix
<1> HIDE DEF K, L, M
<1>8. n \in Nat /\ m \in Nat
  BY <1>1
<1>9. M[n] = K[n]
  <2> DEFINE T == {i \in 0 .. n : M[i] = K[i]}
  <2>1. 0 \in T
    BY <1>8, <1>2, <1>7
  <2>2. ASSUME NEW i \in 0 .. n - 1, M[i] = K[i] PROVE M[i + 1] = K[i + 1]
    <3>1. i + 1 \in 1 .. n /\ i + 1 \in 1 .. n + m /\ (i + 1) - 1 = i
      BY <1>8
    <3>2. M[i + 1] = M[i] + Unit(q[i + 1], c, kind)
      BY <1>7, <3>1
    <3>3. K[i + 1] = K[i] + Unit(s[i + 1], c, kind)
      BY <1>2, <3>1
    <3>4. q[i + 1] = s[i + 1]
      BY <1>1, <3>1
    <3> QED BY <2>2, <3>2, <3>3, <3>4, Zenon
  <2>3. \A i \in 0 .. n - 1 : i \in T => i + 1 \in T
    BY <1>8, <2>2
  <2> HIDE DEF T
  <2>4. \A i \in 0 .. n : i \in T
    BY <1>8, <2>1, <2>3, UpTo, Zenon
  <2> QED BY <1>8, <2>4 DEF T
<1>10. \A i \in 0 .. m : M[n + i] = K[n] + L[i]
  <2> DEFINE T == {i \in 0 .. m : M[n + i] = K[n] + L[i]}
  <2>1. 0 \in T
    <3>1. n + 0 = n /\ 0 \in 0 .. m /\ K[n] + 0 = K[n]
      BY <1>5, <1>8
    <3> QED BY <1>3, <1>9, <3>1
  <2>2. ASSUME NEW i \in 0 .. m - 1, M[n + i] = K[n] + L[i]
        PROVE  M[n + (i + 1)] = K[n] + L[i + 1]
    <3> DEFINE j == n + (i + 1)
               x == Unit(p[i + 1], c, kind)
               k == K[n]
               l == L[i]
    <3>1. i + 1 \in 1 .. m /\ (i + 1) - 1 = i /\ j \in 1 .. n + m /\ j - 1 = n + i /\ i \in 0 .. m
      BY <1>8
    <3>2. Unit(q[j], c, kind) = x /\ x \in Nat
      BY <1>1, <1>6, <3>1
    <3>3. M[j] = M[n + i] + x
      BY <1>7, <3>1, <3>2
    <3>4. L[i + 1] = l + x
      BY <1>3, <3>1
    <3>5. k \in Nat /\ l \in Nat /\ M[n + i] = k + l
      BY <1>5, <2>2, <3>1
    <3> HIDE DEF j, x, k, l
    <3>6. M[j] = k + L[i + 1]
      BY <3>2, <3>3, <3>4, <3>5
    <3> QED BY <3>6 DEF j, k
  <2>3. \A i \in 0 .. m - 1 : i \in T => i + 1 \in T
    <3>1. \A i \in 0 .. m - 1 : i + 1 \in 0 .. m
      BY <1>8
    <3> QED BY <2>2, <3>1, Zenon
  <2> HIDE DEF T
  <2>4. \A i \in 0 .. m : i \in T
    BY <1>8, <2>1, <2>3, UpTo, Zenon
  <2> QED BY <2>4 DEF T
<1>11. M[n + m] = K[n] + L[m]
  <2>1. m \in 0 .. m
    BY <1>8
  <2> QED BY <1>10, <2>1, Zenon
<1>12. UnitsIn(q, c, kind) = UnitsIn(s, c, kind) + UnitsIn(p, c, kind)
  BY <1>1, <1>4, <1>11, Zenon
<1> QED BY <1>12, Zenon DEF q

(* The units of one frame, and of none.                                    *)
LEMMA UnitsOfOne ==
    ASSUME NEW f \in Frames, NEW c, NEW kind
    PROVE  UnitsIn(<<f>>, c, kind) = Unit(f, c, kind) /\ UnitsIn(<<>>, c, kind) = 0
<1> DEFINE e == <<f>>
           o == <<>>
           K == Units(e, c, kind)
           L == Units(o, c, kind)
<1>1. e \in Seq(Frames) /\ Len(e) = 1 /\ e[1] = f /\ o \in Seq(Frames) /\ Len(o) = 0
  BY OneElement
<1> HIDE DEF e, o
<1>2. L[0] = 0
  <2>1. o \in Seq(Frames)
    BY <1>1
  <2> QED BY <2>1, UnitsOfPrefix
<1>3. K[0] = 0 /\ \A i \in 1 .. Len(e) : K[i] = K[i - 1] + Unit(e[i], c, kind)
  <2>1. e \in Seq(Frames)
    BY <1>1
  <2> QED BY <2>1, UnitsOfPrefix
<1>4. UnitsIn(e, c, kind) = K[Len(e)] /\ UnitsIn(o, c, kind) = L[Len(o)]
  BY Zenon DEF UnitsIn
<1>5. Unit(f, c, kind) \in Nat
  BY UnitIsNat
<1> HIDE DEF K, L
<1>6. K[1] = Unit(f, c, kind)
  <2>1. 1 \in 1 .. Len(e) /\ 1 - 1 = 0 /\ e[1] = f
    BY <1>1
  <2>2. K[1] = K[0] + Unit(f, c, kind)
    BY <1>3, <2>1
  <2> QED BY <1>3, <1>5, <2>2
<1> QED BY <1>1, <1>2, <1>4, <1>6, Zenon DEF e, o

(* One frame more, and one less.                                           *)
LEMMA UnitsAppend ==
    ASSUME NEW s \in Seq(Frames), NEW f \in Frames, NEW c, NEW kind
    PROVE  UnitsIn(Append(s, f), c, kind) = UnitsIn(s, c, kind) + Unit(f, c, kind)
<1> DEFINE e == <<f>>
<1>1. e \in Seq(Frames) /\ Append(s, f) = s \o e
  OBVIOUS
<1>2. UnitsIn(e, c, kind) = Unit(f, c, kind)
  BY UnitsOfOne, Zenon
<1> HIDE DEF e
<1>3. UnitsIn(s \o e, c, kind) = UnitsIn(s, c, kind) + UnitsIn(e, c, kind)
  <2>1. e \in Seq(Frames)
    BY <1>1
  <2> QED BY <2>1, UnitsConcat
<1> QED BY <1>1, <1>2, <1>3, Zenon

(* The units of a queue are those of its head and of the rest.             *)
LEMMA UnitsTail ==
    ASSUME NEW s \in Seq(Frames), s # <<>>, NEW c, NEW kind
    PROVE  UnitsIn(s, c, kind) = Unit(Head(s), c, kind) + UnitsIn(Tail(s), c, kind)
<1> DEFINE f == Head(s)
           e == <<f>>
           t == Tail(s)
<1>1. f \in Frames /\ e \in Seq(Frames) /\ t \in Seq(Frames) /\ s = e \o t
  OBVIOUS
<1> HIDE DEF f, t
<1>2. UnitsIn(e, c, kind) = Unit(f, c, kind)
  BY <1>1, UnitsOfOne, Zenon
<1> HIDE DEF e
<1>3. UnitsIn(e \o t, c, kind) = UnitsIn(e, c, kind) + UnitsIn(t, c, kind)
  <2>1. e \in Seq(Frames) /\ t \in Seq(Frames)
    BY <1>1
  <2> QED BY <2>1, UnitsConcat
<1>4. UnitsIn(s, c, kind) = Unit(f, c, kind) + UnitsIn(t, c, kind)
  BY <1>1, <1>2, <1>3, Zenon
<1> QED BY <1>4 DEF f, t

(* A queue with no frame of that kind of the call has no units.            *)
LEMMA UnitsNone ==
    ASSUME NEW s \in Seq(Frames), NEW c, NEW kind,
           \A i \in 1 .. Len(s) : s[i].id # c \/ s[i].kind # kind
    PROVE  UnitsIn(s, c, kind) = 0
<1> DEFINE K == Units(s, c, kind)
           n == Len(s)
<1>1. K[0] = 0 /\ \A i \in 1 .. n : K[i] = K[i - 1] + Unit(s[i], c, kind)
  BY UnitsOfPrefix
<1>2. UnitsIn(s, c, kind) = K[n]
  BY Zenon DEF UnitsIn
<1>3. n \in Nat /\ \A i \in 1 .. n : Unit(s[i], c, kind) = 0
  BY DEF Unit
<1> HIDE DEF K, n
<1> DEFINE T == {i \in 0 .. n : K[i] = 0}
<1>4. 0 \in T
  BY <1>1, <1>3
<1>5. \A i \in 0 .. n - 1 : i \in T => i + 1 \in T
  <2> SUFFICES ASSUME NEW i \in 0 .. n - 1, K[i] = 0 PROVE i + 1 \in T
    OBVIOUS
  <2>1. i + 1 \in 1 .. n /\ (i + 1) - 1 = i
    BY <1>3
  <2>2. K[i + 1] = K[i] + 0
    BY <1>1, <1>3, <2>1
  <2>3. K[i + 1] = 0
    BY <2>2
  <2> QED BY <2>1, <2>3
<1>6. \A i \in 0 .. n : i \in T
  <2> HIDE DEF T
  <2> QED BY <1>3, <1>4, <1>5, UpTo, Zenon
<1>7. K[n] = 0
  BY <1>3, <1>6
<1> QED BY <1>2, <1>7, Zenon

-------------------------------------------------------------------------------
(* The answer of a call on its way: frames that follow one another.        *)

FramesOf(c) == {f \in Frames : f.id = c}

(* What is on the way to the agent of the call, and waits to be sent.      *)
Stream(s, c) == Filter(s.down, FramesOf(c)) \o s.req[c].pending

(* A frame that others can follow, and all that an answer is made of.      *)
Goes == {"start", "body"}
Whats == ErrorKind \cup {"start", "body", "end"}

(* g follows f: a piece of the same answer that begins where f ends.       *)
Follows(f, g) ==
    /\ f.kind \in Goes /\ g.kind # "start"
    /\ g.kind \in {"body", "end"} =>
          g.data.try = f.data.try /\ g.data.from = f.data.from + f.data.n

(* g is what the call expects next.                                        *)
First(call, g) ==
    /\ g.kind = "start" => ~call.started
    /\ g.kind \in {"body", "end"} =>
          call.started /\ g.data.try = call.got.try /\ g.data.from = call.got.n

Piece(g) ==
    /\ g.kind \in Whats
    /\ g.kind = "start" => g.data.from = 0
    /\ g.kind # "body" => g.data.n = 0

Chain(call, S) ==
    /\ \A i \in 1 .. Len(S) : Piece(S[i])
    /\ S # <<>> => First(call, S[1])
    /\ \A i \in 1 .. Len(S) - 1 : Follows(S[i], S[i + 1])

(* The transfer goes on where the stream, or else the call, has ended.     *)
Tip(call, S, r) ==
    IF S = <<>> THEN call.started /\ call.got.try = r.try /\ call.got.n = r.pos
    ELSE LET l == S[Len(S)] IN
         l.kind \in Goes /\ l.data.try = r.try /\ l.data.from + l.data.n = r.pos

(* Nothing is on the way.                                                  *)
LEMMA ChainOfNone ==
    ASSUME NEW call
    PROVE  Chain(call, <<>>)
<1> DEFINE o == <<>>
<1>1. Len(o) = 0 /\ o = <<>>
  OBVIOUS
<1> HIDE DEF o
<1>2. Chain(call, o)
  BY <1>1 DEF Chain
<1> QED BY <1>1, <1>2

(* A frame that follows the last one.                                      *)
LEMMA ChainAppend ==
    ASSUME NEW call, NEW S \in Seq(Frames), Chain(call, S), NEW f \in Frames, Piece(f),
           IF S = <<>> THEN First(call, f) ELSE Follows(S[Len(S)], f)
    PROVE  Chain(call, Append(S, f))
<1> DEFINE n == Len(S)
           T == Append(S, f)
<1>1. /\ n \in Nat /\ Len(T) = n + 1 /\ T[n + 1] = f /\ \A i \in 1 .. n : T[i] = S[i]
      /\ (S = <<>> <=> n = 0) /\ T # <<>>
  <2>1. T \in Seq(Frames) /\ Len(T) = n + 1 /\ T[n + 1] = f /\ \A i \in 1 .. n : T[i] = S[i]
    BY AppendProperties
  <2>2. n \in Nat /\ (S = <<>> <=> n = 0)
    BY EmptySeq
  <2> HIDE DEF n, T
  <2>3. T # <<>>
    BY <2>1, <2>2, EmptySeq
  <2> QED BY <2>1, <2>2, <2>3
<1> HIDE DEF n, T
<1>2. /\ \A i \in 1 .. n : Piece(S[i])
      /\ n # 0 => First(call, S[1]) /\ Follows(S[n], f)
      /\ n = 0 => First(call, f)
      /\ \A i \in 1 .. n - 1 : Follows(S[i], S[i + 1])
  BY <1>1 DEF Chain, n
<1>3. ASSUME NEW i \in 1 .. n + 1 PROVE Piece(T[i])
  <2>1. i \in 1 .. n \/ i = n + 1
    BY <1>1
  <2> QED BY <1>1, <1>2, <2>1
<1>4. First(call, T[1])
  <2>1. CASE n = 0
    <3>1. T[1] = f
      BY <1>1, <2>1
    <3> QED BY <1>2, <2>1, <3>1
  <2>2. CASE n # 0
    <3>1. T[1] = S[1]
      BY <1>1, <2>2
    <3> QED BY <1>2, <2>2, <3>1
  <2> QED BY <2>1, <2>2
<1>5. ASSUME NEW i \in 1 .. n PROVE Follows(T[i], T[i + 1])
  <2>1. CASE i = n
    <3>1. T[i] = S[n] /\ T[i + 1] = f /\ n # 0
      BY <1>1, <2>1
    <3> QED BY <1>2, <3>1
  <2>2. CASE i # n
    <3>1. i \in 1 .. n - 1 /\ i + 1 \in 1 .. n
      BY <1>1, <2>2
    <3>2. T[i] = S[i] /\ T[i + 1] = S[i + 1]
      BY <1>1, <3>1
    <3> QED BY <1>2, <3>1, <3>2
  <2> QED BY <2>1, <2>2
<1>6. Chain(call, T)
  <2>1. (n + 1) - 1 = n
    BY <1>1
  <2> QED BY <1>1, <1>3, <1>4, <1>5, <2>1 DEF Chain
<1> QED BY <1>6 DEF T

(* The first frame is read, and the rest is what the call expects then.    *)
LEMMA ChainTail ==
    ASSUME NEW call, NEW new, NEW S \in Seq(Frames), S # <<>>, Chain(call, S),
           \A g \in Frames : Follows(S[1], g) => First(new, g)
    PROVE  Chain(new, Tail(S))
<1> DEFINE n == Len(S)
           T == Tail(S)
<1>1. /\ n \in Nat /\ n > 0 /\ T \in Seq(Frames) /\ Len(T) = n - 1
      /\ \A i \in 1 .. n - 1 : T[i] = S[i + 1] /\ T[i] \in Frames
      /\ (T # <<>> => n > 1)
  <2>1. /\ T \in Seq(Frames) /\ Len(T) = n - 1 /\ n \in Nat
        /\ \A i \in 1 .. n - 1 : T[i] = S[i + 1]
    BY HeadTailProperties
  <2>2. n # 0
    OBVIOUS
  <2> HIDE DEF n, T
  <2>3. \A i \in 1 .. n - 1 : T[i] \in Frames
    BY <2>1, ElementOfSeq
  <2>4. T # <<>> => Len(T) # 0
    BY <2>1, EmptySeq
  <2> QED BY <2>1, <2>2, <2>3, <2>4
<1> HIDE DEF n, T
<1>2. /\ \A i \in 1 .. n : Piece(S[i])
      /\ \A i \in 1 .. n - 1 : Follows(S[i], S[i + 1])
  BY DEF Chain, n
<1>3. ASSUME NEW i \in 1 .. n - 1 PROVE Piece(T[i])
  <2>1. i + 1 \in 1 .. n
    BY <1>1
  <2> QED BY <1>1, <1>2, <2>1
<1>4. ASSUME n > 1 PROVE First(new, T[1])
  <2>1. 1 \in 1 .. n - 1
    BY <1>1, <1>4
  <2>2. Follows(S[1], T[1]) /\ T[1] \in Frames
    BY <1>1, <1>2, <2>1
  <2> QED BY <2>2
<1>5. ASSUME NEW i \in 1 .. (n - 1) - 1 PROVE Follows(T[i], T[i + 1])
  <2>1. i \in 1 .. n - 1 /\ i + 1 \in 1 .. n - 1
    BY <1>1
  <2>2. T[i] = S[i + 1] /\ T[i + 1] = S[(i + 1) + 1] /\ Follows(S[i + 1], S[(i + 1) + 1])
    BY <1>1, <1>2, <2>1
  <2> QED BY <2>2
<1>6. Chain(new, T)
  BY <1>1, <1>3, <1>4, <1>5 DEF Chain
<1> QED BY <1>6 DEF T

(* What waits to be sent is dropped.                                       *)
LEMMA ChainPrefix ==
    ASSUME NEW call, NEW S \in Seq(Frames), NEW P \in Seq(Frames), Chain(call, S \o P)
    PROVE  Chain(call, S)
<1> DEFINE T == S \o P
           n == Len(S)
           m == Len(T)
<1>1. /\ n \in Nat /\ m \in Nat /\ n <= m /\ \A i \in 1 .. n : T[i] = S[i]
      /\ (S # <<>> => n > 0 /\ T # <<>>)
  OBVIOUS
<1> HIDE DEF T
<1>2. /\ \A i \in 1 .. m : Piece(T[i])
      /\ T # <<>> => First(call, T[1])
      /\ \A i \in 1 .. m - 1 : Follows(T[i], T[i + 1])
  BY DEF Chain, T
<1> HIDE DEF n, m
<1>3. ASSUME NEW i \in 1 .. n PROVE Piece(S[i])
  <2>1. i \in 1 .. m
    BY <1>1
  <2> QED BY <1>1, <1>2, <2>1
<1>4. S # <<>> => First(call, S[1])
  <2>1. S # <<>> => 1 \in 1 .. n
    BY <1>1
  <2> QED BY <1>1, <1>2, <2>1
<1>5. ASSUME NEW i \in 1 .. n - 1 PROVE Follows(S[i], S[i + 1])
  <2>1. i \in 1 .. m - 1 /\ i \in 1 .. n /\ i + 1 \in 1 .. n
    BY <1>1
  <2>2. T[i] = S[i] /\ T[i + 1] = S[i + 1]
    BY <1>1, <2>1
  <2> QED BY <1>2, <2>1, <2>2
<1> QED BY <1>3, <1>4, <1>5 DEF Chain, n

-------------------------------------------------------------------------------
(* What a handler of the transport does to the answer of a call.           *)

Live == {"parked", "running", "done"}

(* A request that has not run, or not again, and one that has.             *)
Unrun(r) == r.try = (IF r.retried THEN 1 ELSE 0) /\ ~r.started

Ran(r) ==
    /\ r.try = (IF r.retried THEN 2 ELSE 1)
    /\ r.retry => ~r.retried
    /\ ~r.started /\ r.pos > 0 => r.cancelled \/ (IsHeld(r) /\ r.rejected)
    /\ r.phase = "done" /\ r.result = "ok" => r.pos = r.len

(* What waits to be sent of the request c, the end of its answer.          *)
Queued(p, c) ==
    Len(p) <= 2 /\ \A i \in 1 .. Len(p) : p[i].id = c /\ p[i].kind # "body"

Local(r, c) ==
    /\ r.credit >= 0 /\ r.try <= 2 /\ Queued(r.pending, c)
    /\ r.phase = "none" => r = NoReq
    /\ r.finished <=> r.phase = "over"
    /\ r.cancelled => r.phase \in {"done", "over"}
    /\ r.phase = "parked" => Unrun(r)
    /\ r.phase \in {"running", "done"} => Ran(r)

(* The stream S of a request r goes on from what its call was given, and   *)
(* no credit is lost: b units are on the way to the agent, w are with it   *)
(* or on the way back.                                                     *)
Flows(call, S, b, r, w) ==
    /\ call.st = "open" =>
          /\ Chain(call, S)
          /\ r.phase \in Live => IF r.started THEN Tip(call, S, r) ELSE S = <<>> /\ ~call.started
    /\ r.phase # "none" => IF call.st = "open" THEN r.credit + b + w = Window
                                               ELSE r.credit + w <= Window

Flowing(s, c, call, w) == Flows(call, Stream(s, c), UnitsIn(s.down, c, "body"), s.req[c], w)

Serving(s, c, call, w) == Local(s.req[c], c) /\ Flowing(s, c, call, w)

(* The call that a handler serves: none is open when the agent has closed  *)
(* the channel.                                                            *)
Heard(call, w) == call \in Made /\ w \in Nat /\ (~agent.open => call.st # "open")

(* Nothing but frames of c is sent.                                        *)
Adds(s, t, c) ==
    \E m \in Seq(Frames) : /\ \A i \in 1 .. Len(m) : m[i].id = c
                           /\ t.down = s.down \o m

(* Lists of frames, one after the other.                                   *)
LEMMA FrameLists ==
    /\ <<>> \in Seq(Frames) /\ Len(<<>>) = 0
    /\ \A a \in Seq(Frames) : a \o <<>> = a
    /\ \A a, b \in Seq(Frames) : a \o b \in Seq(Frames)
    /\ \A a, b, d \in Seq(Frames) : (a \o b) \o d = a \o (b \o d)
    /\ \A a \in Seq(Frames), e \in Frames : Append(a, e) \in Seq(Frames)
    /\ \A a, b \in Seq(Frames), e \in Frames : Append(a \o b, e) = a \o Append(b, e)
<1>1. <<>> \in Seq(Frames) /\ Len(<<>>) = 0
  OBVIOUS
<1>2. \A a \in Seq(Frames) : a \o <<>> = a
  BY ConcatEmptySeq
<1>3. \A a, b \in Seq(Frames) : a \o b \in Seq(Frames)
  BY ConcatProperties
<1>4. \A a, b, d \in Seq(Frames) : (a \o b) \o d = a \o (b \o d)
  BY ConcatAssociative
<1>5. \A a \in Seq(Frames), e \in Frames : Append(a, e) \in Seq(Frames)
  BY AppendProperties
<1>6. ASSUME NEW a \in Seq(Frames), NEW b \in Seq(Frames), NEW e \in Frames
      PROVE  Append(a \o b, e) = a \o Append(b, e)
  <2> HIDE DEF Frames
  <2> QED OBVIOUS
<1> QED BY <1>1, <1>2, <1>3, <1>4, <1>5, <1>6, Zenon

(* What is kept, and counted, of lists of frames.                          *)
LEMMA FrameCounts ==
    /\ \A a, b \in Seq(Frames) : \A F : Filter(a \o b, F) = Filter(a, F) \o Filter(b, F)
    /\ \A a \in Seq(Frames) : \A F : Filter(a, F) \in Seq(Frames)
    /\ \A a, b \in Seq(Frames) : \A c, kind :
          UnitsIn(a \o b, c, kind) = UnitsIn(a, c, kind) + UnitsIn(b, c, kind)
    /\ \A a \in Seq(Frames) : \A c, kind : UnitsIn(a, c, kind) \in Nat
<1>1. \A a, b \in Seq(Frames) : \A F : Filter(a \o b, F) = Filter(a, F) \o Filter(b, F)
  BY FilterConcat
<1>2. ASSUME NEW a \in Seq(Frames), NEW F PROVE Filter(a, F) \in Seq(Frames)
  <2> DEFINE f == Filter(a, F)
  <2>1. f \in Seq(Frames \cap F)
    BY FilterIs
  <2> HIDE DEF f
  <2>2. f \in Seq(Frames)
    BY <2>1, SeqOfPart
  <2> QED BY <2>2 DEF f
<1>3. \A a, b \in Seq(Frames) : \A c, kind :
        UnitsIn(a \o b, c, kind) = UnitsIn(a, c, kind) + UnitsIn(b, c, kind)
  BY UnitsConcat
<1>4. \A a \in Seq(Frames) : \A c, kind : UnitsIn(a, c, kind) \in Nat
  BY UnitsAreNat
<1> QED BY <1>1, <1>2, <1>3, <1>4, Zenon

(* Nothing, or one frame.                                                  *)
LEMMA AddsNone ==
    ASSUME NEW s, Serves(s), NEW t, t.down = s.down, NEW c
    PROVE  Adds(s, t, c)
<1>1. s.down \in Seq(Frames)
  BY DEF Serves, Server
<1> DEFINE o == <<>>
<1>2. o \in Seq(Frames) /\ Len(o) = 0 /\ t.down = s.down \o o
  BY <1>1, FrameLists, Zenon
<1> HIDE DEF o
<1>3. \A i \in 1 .. Len(o) : o[i].id = c
  BY <1>2
<1> QED BY <1>2, <1>3 DEF Adds

LEMMA AddsOne ==
    ASSUME NEW s, Serves(s), NEW f \in Frames, NEW t, t.down = Append(s.down, f)
    PROVE  Adds(s, t, f.id)
<1> DEFINE e == <<f>>
<1>1. s.down \in Seq(Frames)
  BY DEF Serves, Server
<1>2. e \in Seq(Frames) /\ Len(e) = 1 /\ e[1] = f
  OBVIOUS
<1>3. Append(s.down, f) = s.down \o e
  BY <1>1, AppendIsConcat
<1> HIDE DEF e
<1>4. \A i \in 1 .. Len(e) : e[i].id = f.id
  BY <1>2
<1> QED BY <1>2, <1>3, <1>4 DEF Adds

(* One handler after another.                                              *)
LEMMA AddsOn ==
    ASSUME NEW s, Serves(s), NEW t, NEW u, NEW c, Adds(s, t, c), Adds(t, u, c)
    PROVE  Adds(s, u, c)
<1>1. PICK m \in Seq(Frames) : (\A i \in 1 .. Len(m) : m[i].id = c) /\ t.down = s.down \o m
  BY DEF Adds
<1>2. PICK p \in Seq(Frames) : (\A i \in 1 .. Len(p) : p[i].id = c) /\ u.down = t.down \o p
  BY DEF Adds
<1>3. s.down \in Seq(Frames)
  BY DEF Serves, Server
<1>4. u.down = s.down \o (m \o p)
  <2>1. (s.down \o m) \o p = s.down \o (m \o p)
    BY <1>3, FrameLists, Zenon
  <2> QED BY <1>1, <1>2, <2>1, Zenon
<1> DEFINE q == m \o p
<1>5. q \in Seq(Frames) /\ Len(q) = Len(m) + Len(p)
      /\ \A i \in 1 .. Len(m) + Len(p) : q[i] = IF i <= Len(m) THEN m[i] ELSE p[i - Len(m)]
  BY ConcatProperties
<1>6. Len(m) \in Nat /\ Len(p) \in Nat
  OBVIOUS
<1> HIDE DEF q
<1>7. ASSUME NEW i \in 1 .. Len(q) PROVE q[i].id = c
  <2>1. CASE i <= Len(m)
    <3>1. i \in 1 .. Len(m) /\ q[i] = m[i]
      BY <1>5, <1>6, <2>1
    <3> QED BY <1>1, <3>1
  <2>2. CASE ~(i <= Len(m))
    <3>1. i - Len(m) \in 1 .. Len(p) /\ q[i] = p[i - Len(m)]
      BY <1>5, <1>6, <2>2
    <3> QED BY <1>2, <3>1
  <2> QED BY <2>1, <2>2
<1>8. u.down = s.down \o q
  BY <1>4 DEF q
<1> QED BY <1>5, <1>7, <1>8 DEF Adds

(* The others notice nothing.                                              *)
LEMMA AddsOther ==
    ASSUME NEW s, Serves(s), NEW t, NEW c, Adds(s, t, c), NEW d, d # c
    PROVE  /\ Filter(t.down, FramesOf(d)) = Filter(s.down, FramesOf(d))
           /\ UnitsIn(t.down, d, "body") = UnitsIn(s.down, d, "body")
<1>1. PICK m \in Seq(Frames) : (\A i \in 1 .. Len(m) : m[i].id = c) /\ t.down = s.down \o m
  BY DEF Adds
<1> DEFINE D == s.down
           F == FramesOf(d)
           f == Filter(D, F)
<1>2. D \in Seq(Frames)
  BY DEF Serves, Server
<1>3. \A i \in 1 .. Len(m) : m[i] \notin F /\ m[i].id # d
  BY <1>1 DEF FramesOf
<1> HIDE DEF D, F
<1>4. Filter(m, F) = <<>>
  BY <1>3, FilterNone
<1>5. Filter(D \o m, F) = f \o Filter(m, F)
  BY <1>2, FilterConcat
<1>6. f \in Seq(Frames \cap F)
  BY <1>2, FilterIs
<1> HIDE DEF f
<1>7. f \o <<>> = f
  BY <1>6, ConcatEmptySeq
<1>8. UnitsIn(m, d, "body") = 0
  BY <1>3, UnitsNone
<1>9. UnitsIn(D \o m, d, "body") = UnitsIn(D, d, "body") + UnitsIn(m, d, "body")
  BY <1>2, UnitsConcat
<1>10. UnitsIn(D, d, "body") \in Nat
  BY <1>2, UnitsAreNat
<1>11. UnitsIn(D \o m, d, "body") = UnitsIn(D, d, "body")
  BY <1>8, <1>9, <1>10
<1> QED BY <1>1, <1>4, <1>5, <1>7, <1>11 DEF D, F, f

(* A stream is a list of frames, and its units a number.                   *)
LEMMA StreamIsSeq ==
    ASSUME NEW s, Serves(s), NEW c \in Call
    PROVE  /\ Filter(s.down, FramesOf(c)) \in Seq(Frames) /\ s.req[c].pending \in Seq(Frames)
           /\ Stream(s, c) \in Seq(Frames)
           /\ UnitsIn(s.down, c, "body") \in Nat
<1> DEFINE D == s.down
           p == s.req[c].pending
           F == FramesOf(c)
           f == Filter(D, F)
<1>1. D \in Seq(Frames) /\ p \in Seq(Frames)
  BY DEF Serves, Server, Reqs
<1>2. Stream(s, c) = f \o p
  BY DEF Stream
<1> HIDE DEF D, p, F
<1>3. f \in Seq(Frames \cap F)
  BY <1>1, FilterIs
<1> HIDE DEF f
<1>4. f \in Seq(Frames)
  BY <1>3, SeqOfPart
<1>5. f \o p \in Seq(Frames)
  BY <1>1, <1>4, ConcatProperties
<1>6. UnitsIn(D, c, "body") \in Nat
  BY <1>1, UnitsAreNat
<1> QED BY <1>1, <1>2, <1>4, <1>5, <1>6 DEF f, D, F, p

(* A frame is sent while nothing is queued.                                *)
LEMMA StreamSends ==
    ASSUME NEW s, Serves(s), NEW c \in Call, NEW f \in Frames, f.id = c,
           NEW t, t.down = Append(s.down, f), s.req[c].pending = <<>>, t.req[c].pending = <<>>
    PROVE  /\ Stream(t, c) = Append(Stream(s, c), f)
           /\ UnitsIn(t.down, c, "body") = UnitsIn(s.down, c, "body") + Unit(f, c, "body")
<1> DEFINE D == s.down
           F == FramesOf(c)
           K == Filter(D, F)
<1>1. D \in Seq(Frames) /\ f \in F
  BY DEF Serves, Server, FramesOf
<1>2. K \in Seq(Frames)
  BY StreamIsSeq
<1>3. Stream(s, c) = K \o <<>> /\ Stream(t, c) = Filter(Append(D, f), F) \o <<>>
  BY DEF Stream
<1> HIDE DEF D, F
<1>4. Filter(Append(D, f), F) = Append(K, f)
  BY <1>1, FilterAppend
<1>5. UnitsIn(Append(D, f), c, "body") = UnitsIn(D, c, "body") + Unit(f, c, "body")
  BY <1>1, UnitsAppend
<1> HIDE DEF K
<1>6. K \o <<>> = K /\ Append(K, f) \o <<>> = Append(K, f)
  BY <1>2, AppendProperties, ConcatEmptySeq
<1> QED BY <1>3, <1>4, <1>5, <1>6 DEF D

(* A frame is queued.                                                      *)
LEMMA StreamQueues ==
    ASSUME NEW s, Serves(s), NEW c \in Call, NEW f \in Frames,
           NEW t, t.down = s.down, t.req[c].pending = Append(s.req[c].pending, f)
    PROVE  Stream(t, c) = Append(Stream(s, c), f)
<1> DEFINE K == Filter(s.down, FramesOf(c))
           p == s.req[c].pending
<1>1. K \in Seq(Frames) /\ p \in Seq(Frames)
  BY StreamIsSeq
<1>2. Stream(s, c) = K \o p /\ Stream(t, c) = K \o Append(p, f)
  BY DEF Stream
<1> HIDE DEF K, p
<1>3. Append(K \o p, f) = K \o Append(p, f)
  BY <1>1, FrameLists, Zenon
<1> QED BY <1>2, <1>3

(* The first k of what is queued are sent.                                 *)
LEMMA StreamFlushes ==
    ASSUME NEW s, Serves(s), NEW c \in Call, Queued(s.req[c].pending, c),
           NEW k \in 0 .. Len(s.req[c].pending), NEW t,
           t.down = s.down \o SubSeq(s.req[c].pending, 1, k),
           t.req[c].pending = SubSeq(s.req[c].pending, k + 1, Len(s.req[c].pending))
    PROVE  /\ Stream(t, c) = Stream(s, c) /\ Adds(s, t, c)
           /\ UnitsIn(t.down, c, "body") = UnitsIn(s.down, c, "body")
           /\ Queued(t.req[c].pending, c)
<1> DEFINE D == s.down
           F == FramesOf(c)
           K == Filter(D, F)
           p == s.req[c].pending
           n == Len(p)
           a == SubSeq(p, 1, k)
           b == SubSeq(p, k + 1, n)
<1>1. D \in Seq(Frames) /\ p \in Seq(Frames) /\ K \in Seq(Frames) /\ n \in Nat
  BY StreamIsSeq DEF Serves, Server
<1>2. \A i \in 1 .. n : p[i].id = c /\ p[i].kind # "body" /\ p[i] \in Frames
  BY <1>1, ElementOfSeq DEF Queued
<1>3. n <= 2
  BY DEF Queued
<1>4. t.down = D \o a /\ t.req[c].pending = b /\ Stream(s, c) = K \o p
      /\ Stream(t, c) = Filter(D \o a, F) \o b
  BY DEF Stream
<1>5. k \in 0 .. n
  OBVIOUS
<1>6. a \o b = p
  <2> HIDE DEF p
  <2>1. \A x \in Seq(Frames) : \A j \in 0 .. Len(x) : SubSeq(x, 1, j) \o SubSeq(x, j + 1, Len(x)) = x
    <3> SUFFICES ASSUME NEW x \in Seq(Frames), NEW j \in 0 .. Len(x)
                 PROVE  SubSeq(x, 1, j) \o SubSeq(x, j + 1, Len(x)) = x
      OBVIOUS
    <3>1. SubSeq(x, 1, j) \o SubSeq(x, j + 1, Len(x)) = SubSeq(x, 1, Len(x))
      <4>1. 1 \in 1 .. Len(x) + 1 /\ j \in 1 - 1 .. Len(x) /\ Len(x) \in j .. Len(x)
        OBVIOUS
      <4> QED BY <4>1, ConcatAdjacentSubSeq
    <3>2. SubSeq(x, 1, Len(x)) = x
      BY SubSeqFull
    <3> QED BY <3>1, <3>2
  <2> QED BY <1>1, <1>5, <2>1
<1> HIDE DEF p, n, D, F
<1>7. /\ a \in Seq(Frames) /\ Len(a) = k /\ \A i \in 1 .. k : a[i] = p[i]
      /\ b \in Seq(Frames) /\ Len(b) = n - k /\ \A i \in 1 .. n - k : b[i] = p[k + i]
  <2>1. \A i \in 1 .. k : p[i] \in Frames
    BY <1>1, <1>2, <1>5
  <2>2. \A i \in k + 1 .. n : p[i] \in Frames
    BY <1>1, <1>2, <1>5
  <2>3. a \in Seq(Frames) /\ Len(a) = k /\ \A i \in 1 .. k : a[i] = p[i]
    BY <1>1, <1>5, <2>1, SubSeqProperties
  <2>4. /\ b \in Seq(Frames) /\ Len(b) = (IF k + 1 <= n THEN n - (k + 1) + 1 ELSE 0)
        /\ \A i \in 1 .. n - (k + 1) + 1 : b[i] = p[(k + 1) + i - 1]
    BY <1>1, <1>5, <2>2, SubSeqProperties
  <2> HIDE DEF a, b
  <2>5. Len(b) = n - k /\ \A i \in 1 .. n - k : b[i] = p[k + i]
    BY <1>1, <1>5, <2>4
  <2> QED BY <2>3, <2>4, <2>5
<1> HIDE DEF a, b
<1>8. ASSUME NEW i \in 1 .. Len(a) PROVE a[i].id = c /\ a[i].kind # "body" /\ a[i] \in Frames
  <2>1. i \in 1 .. k /\ i \in 1 .. n
    BY <1>1, <1>5, <1>7
  <2>2. a[i] = p[i]
    BY <1>7, <2>1
  <2> QED BY <1>2, <2>1, <2>2
<1>9. ASSUME NEW i \in 1 .. Len(b) PROVE b[i].id = c /\ b[i].kind # "body"
  <2>1. i \in 1 .. n - k /\ k + i \in 1 .. n
    BY <1>1, <1>5, <1>7
  <2>2. b[i] = p[k + i]
    BY <1>7, <2>1
  <2> QED BY <1>2, <2>1, <2>2
<1>21. a \in Seq(Frames) /\ b \in Seq(Frames) /\ D \in Seq(Frames)
  BY <1>1, <1>7
<1>10. Len(b) <= 2
  BY <1>1, <1>3, <1>5, <1>7
<1>11. \A i \in 1 .. Len(a) : a[i] \in F
  BY <1>8 DEF F, FramesOf
<1>12. Filter(a, F) = a
  <2>1. a \in Seq(Frames)
    BY <1>7
  <2> QED BY <1>11, <2>1, FilterAll
<1>13. Filter(D \o a, F) = K \o Filter(a, F)
  BY <1>21, FrameCounts
<1> HIDE DEF K
<1>14. (K \o a) \o b = K \o (a \o b)
  <2>1. K \in Seq(Frames) /\ a \in Seq(Frames) /\ b \in Seq(Frames)
    BY <1>1, <1>21
  <2>2. \A x, y, z \in Seq(Frames) : (x \o y) \o z = x \o (y \o z)
    BY FrameLists, Zenon
  <2> QED BY <2>1, <2>2, Zenon
<1>15. UnitsIn(a, c, "body") = 0
  BY <1>7, <1>8, UnitsNone
<1>16. UnitsIn(D \o a, c, "body") = UnitsIn(D, c, "body") + UnitsIn(a, c, "body")
  BY <1>21, FrameCounts
<1>17. UnitsIn(D, c, "body") \in Nat
  BY <1>1, UnitsAreNat
<1>18. UnitsIn(D \o a, c, "body") = UnitsIn(D, c, "body")
  BY <1>15, <1>16, <1>17
<1>19. Stream(t, c) = Stream(s, c)
  BY <1>4, <1>6, <1>12, <1>13, <1>14
<1>20. Adds(s, t, c)
  BY <1>4, <1>7, <1>8 DEF Adds, D
<1> QED BY <1>4, <1>9, <1>10, <1>18, <1>19, <1>20 DEF Queued, D

(* A request is replaced by r, and nothing is sent.                        *)
LEMMA ReqServes ==
    ASSUME NEW s, Serves(s), NEW c \in Call, NEW r \in Reqs, r.pending = s.req[c].pending,
           NEW call, NEW w, Local(r, c),
           Flows(call, Stream(s, c), UnitsIn(s.down, c, "body"), r, w)
    PROVE  LET t == [s EXCEPT !.req[c] = r] IN Adds(s, t, c) /\ Serving(t, c, call, w)
<1> DEFINE t == [s EXCEPT !.req[c] = r]
<1>1. t.req[c] = r /\ t.down = s.down
  BY WithReq
<1> HIDE DEF t
<1>2. Stream(t, c) = Stream(s, c)
  BY <1>1 DEF Stream
<1>3. Adds(s, t, c)
  BY <1>1, AddsNone
<1>4. Serving(t, c, call, w)
  BY <1>1, <1>2 DEF Serving, Flowing
<1> QED BY <1>3, <1>4 DEF t

(* What a request that is not there waits to send.                         *)
LEMMA NoReqLocal ==
    ASSUME NEW c
    PROVE  Local(NoReq, c)
<1>1. Len(<<>>) = 0
  OBVIOUS
<1> DEFINE o == <<>>
<1>2. NoReq.pending = o /\ Len(o) = 0
  BY <1>1 DEF NoReq
<1> HIDE DEF o
<1>3. Queued(NoReq.pending, c)
  BY <1>2 DEF Queued
<1>4. NoReq.credit = 0 /\ NoReq.try = 0 /\ NoReq.phase = "none" /\ ~NoReq.finished /\ ~NoReq.cancelled
  BY DEF NoReq
<1> QED BY <1>3, <1>4 DEF Local

(* req_flush of a request that has ended.                                  *)
LEMMA ReqFlushServes ==
    ASSUME NEW s, Serves(s), NEW c \in Call, s.req[c].finished, s.req[c].phase = "over",
           NEW call, NEW w, Heard(call, w), Serving(s, c, call, w)
    PROVE  Adds(s, ReqFlush(s, c), c) /\ Serving(ReqFlush(s, c), c, call, w)
<1> DEFINE p == s.req[c].pending
           room == Room - Len(s.down)
           k == IF Len(p) <= room THEN Len(p) ELSE room
           d == s.down \o SubSeq(p, 1, k)
           rest == SubSeq(p, k + 1, Len(p))
           r == [s.req[c] EXCEPT !.pending = rest]
           t == Sends(s, c, r, d)
           none == [s.req[c] EXCEPT !.pending = <<>>]
           u == ReqFlush(s, c)
<1>1. s \in Server /\ s.req[c] \in Reqs /\ s.down \in Seq(Frames) /\ p \in Seq(Frames)
  BY DEF Serves, Server, Reqs
<1>2. /\ d \in Seq(Frames) /\ Len(d) <= Room
      /\ rest \in Seq(Frames) /\ (~(k < Len(p)) => rest = <<>>)
  <2> HIDE DEF p
  <2> QED
    BY <1>1, SendFacts, TransportAssumption DEF Serves
<1>3. r \in Reqs /\ r.pending = rest /\ r.phase = "over" /\ r.finished /\ r.credit = s.req[c].credit
      /\ r.try = s.req[c].try /\ r.cancelled = s.req[c].cancelled
  <2> HIDE DEF p, k, d, rest
  <2> QED
    BY <1>1, <1>2 DEF Reqs
<1>4. none \in Reqs /\ none.pending = <<>> /\ none.phase = "over" /\ none.finished
      /\ none.credit = s.req[c].credit /\ none.try = s.req[c].try
  <2>1. <<>> \in Seq(Frames)
    OBVIOUS
  <2> HIDE DEF p
  <2> QED
    BY <1>1, <2>1 DEF Reqs
<1>5. k \in 0 .. Len(p)
  <2>1. Len(p) \in Nat /\ Len(s.down) \in Nat /\ Room - Len(s.down) >= 0 /\ Room - Len(s.down) \in Int
    BY <1>1, TransportAssumption DEF Serves
  <2> QED BY <2>1
<1>6. u = IF p # <<>> /\ ~agent.open
          THEN ChanDoom([s EXCEPT !.req[c] = none])
          ELSE IF k < Len(p) THEN [t EXCEPT !.want = TRUE]
          ELSE [t EXCEPT !.req[c] = NoReq]
  BY DEF ReqFlush, Sends
<1>7. /\ Local(s.req[c], c) /\ call \in Made
      /\ Flows(call, Stream(s, c), UnitsIn(s.down, c, "body"), s.req[c], w)
  BY DEF Serving, Flowing, Heard
<1>8. Touches(s, t, c) /\ t.req[c] = r /\ t.down = d /\ Serves(t)
  <2> HIDE DEF p, k, d, rest, r
  <2> QED BY <1>2, <1>3, WithSend DEF Touches
<1>9. /\ Stream(t, c) = Stream(s, c) /\ Adds(s, t, c)
      /\ UnitsIn(t.down, c, "body") = UnitsIn(s.down, c, "body")
      /\ Queued(rest, c)
  <2>1. Queued(p, c)
    BY <1>7 DEF Local
  <2>2. t.req[c].pending = rest
    BY <1>3, <1>8
  <2> HIDE DEF t, k, r
  <2>3. /\ Stream(t, c) = Stream(s, c) /\ Adds(s, t, c)
        /\ UnitsIn(t.down, c, "body") = UnitsIn(s.down, c, "body")
        /\ Queued(t.req[c].pending, c)
    BY <1>5, <1>8, <2>1, <2>2, StreamFlushes
  <2> QED BY <2>2, <2>3
<1> HIDE DEF k, d, rest, r, t, none, u
<1>10. CASE p # <<>> /\ ~agent.open
  <2> DEFINE v == [s EXCEPT !.req[c] = none]
  <2>1. Touches(s, v, c) /\ v.req[c] = none /\ v.down = s.down /\ Serves(v)
    BY <1>4, WithReq DEF Touches
  <2>2. u = ChanDoom(v)
    BY <1>6, <1>10
  <2> HIDE DEF v
  <2>3. u.req = v.req /\ u.down = v.down
    BY <2>1, <2>2 DEF ChanDoom, Serves, Server
  <2>4. Adds(s, u, c)
    BY <2>1, <2>3, AddsNone
  <2>5. Local(none, c)
    <3>1. Queued(<<>>, c)
      BY NoReqLocal, NoReqFacts DEF Local
    <3> QED BY <1>4, <1>7, <3>1 DEF Local
  <2>6. call.st # "open"
    BY <1>10 DEF Heard
  <2>7. Flows(call, Stream(u, c), UnitsIn(u.down, c, "body"), none, w)
    BY <1>4, <1>7, <2>6 DEF Flows
  <2> QED BY <2>1, <2>3, <2>4, <2>5, <2>7 DEF Serving, Flowing, u
<1>11. CASE ~(p # <<>> /\ ~agent.open) /\ k < Len(p)
  <2>1. u = [t EXCEPT !.want = TRUE]
    BY <1>6, <1>11
  <2>2. u.req[c] = r /\ u.down = t.down
    BY <1>8, <2>1 DEF Serves, Server
  <2>3. Stream(u, c) = Stream(t, c)
    BY <1>8, <2>2 DEF Stream
  <2>4. Adds(s, u, c)
    BY <1>9, <2>2 DEF Adds
  <2>5. Local(r, c)
    BY <1>3, <1>7, <1>9 DEF Local
  <2>6. Flows(call, Stream(s, c), UnitsIn(s.down, c, "body"), r, w)
    BY <1>3, <1>7 DEF Flows, Live
  <2> QED BY <1>9, <2>2, <2>3, <2>4, <2>5, <2>6 DEF Serving, Flowing, u
<1>12. CASE ~(p # <<>> /\ ~agent.open) /\ ~(k < Len(p))
  <2>1. u = [t EXCEPT !.req[c] = NoReq]
    BY <1>6, <1>12
  <2>2. u.req[c] = NoReq /\ u.down = t.down
    BY <1>8, <2>1, NoReqFacts, WithReq
  <2>3. Stream(u, c) = Stream(t, c)
    BY <1>2, <1>3, <1>8, <1>12, <2>2, NoReqFacts DEF Stream
  <2>4. Adds(s, u, c)
    BY <1>9, <2>2 DEF Adds
  <2>5. Flows(call, Stream(s, c), UnitsIn(s.down, c, "body"), NoReq, w)
    BY <1>7, NoReqFacts DEF Flows, Live
  <2> QED BY <1>9, <2>2, <2>3, <2>4, <2>5, NoReqLocal DEF Serving, Flowing, u
<1> QED BY <1>10, <1>11, <1>12 DEF u

(* Credit is neither lost nor made.                                        *)
Credited(call, b, r, w) ==
    IF call.st = "open" THEN r.credit + b + w = Window ELSE r.credit + w <= Window

(* The answer is not sent to its end.                                      *)
Underway(r) == r.phase \in Live /\ ~r.finished /\ r.pending = <<>> /\ r.credit >= 0 /\ r.try <= 2

(* The end of an answer is queued and sent.                                *)
LEMMA EndServes ==
    ASSUME NEW s, Serves(s), NEW c \in Call, NEW kind \in Kinds, NEW data \in Data,
           NEW call, NEW w, Heard(call, w), kind # "body",
           s.req[c].credit >= 0, s.req[c].try <= 2,
           Queued(s.req[c].pending, c), Len(s.req[c].pending) <= 1,
           Credited(call, UnitsIn(s.down, c, "body"), s.req[c], w),
           call.st = "open" => Chain(call, Append(Stream(s, c), Frame(c, kind, s.req[c].seq, data)))
    PROVE  LET e == [ReqQueue(s, c, kind, data) EXCEPT !.req[c].finished = TRUE,
                                                       !.req[c].phase = "over"]
           IN Adds(s, ReqFlush(e, c), c) /\ Serving(ReqFlush(e, c), c, call, w)
<1> DEFINE f == Frame(c, kind, s.req[c].seq, data)
           p == Append(s.req[c].pending, f)
           q == s.req[c]
           seq == s.req[c].seq + 1
           o == [q EXCEPT !.pending = p, !.seq = seq]
           r == [o EXCEPT !.finished = TRUE, !.phase = "over"]
           v == [s EXCEPT !.req[c] = o]
           e == [v EXCEPT !.req[c] = r]
<1>1. s \in Server /\ q \in Reqs
  BY DEF Serves, Server
<1>2. q.seq \in Nat /\ seq \in Nat /\ q.pending \in Seq(Frames)
  BY <1>1 DEF Reqs
<1>3. f \in Frames /\ f.id = c /\ f.kind = kind
  <2> DEFINE n == s.req[c].seq
  <2>1. n \in Nat
    BY <1>2
  <2> HIDE DEF n
  <2>2. Frame(c, kind, n, data) \in Frames /\ Frame(c, kind, n, data).id = c
        /\ Frame(c, kind, n, data).kind = kind
    BY <2>1, FrameFacts
  <2> QED BY <2>2 DEF n
<1>4. ReqQueue(s, c, kind, data) = v
  BY <1>1 DEF ReqQueue
<1> HIDE DEF f
<1>5. p \in Seq(Frames) /\ Queued(p, c)
  <2> DEFINE a == s.req[c].pending
  <2>1. a \in Seq(Frames) /\ Len(a) <= 1 /\ \A i \in 1 .. Len(a) : a[i].id = c /\ a[i].kind # "body"
    BY <1>2 DEF Queued
  <2>2. p = Append(a, f)
    OBVIOUS
  <2> HIDE DEF a, p
  <2>3. /\ p \in Seq(Frames) /\ Len(p) = Len(a) + 1 /\ p[Len(a) + 1] = f
        /\ \A i \in 1 .. Len(a) : p[i] = a[i]
    BY <1>3, <2>1, <2>2, AppendProperties
  <2>4. Len(a) \in Nat
    BY <2>1
  <2>5. ASSUME NEW i \in 1 .. Len(p) PROVE p[i].id = c /\ p[i].kind # "body"
    <3>1. i \in 1 .. Len(a) \/ i = Len(a) + 1
      BY <2>3, <2>4
    <3> QED BY <1>3, <2>1, <2>3, <3>1
  <2> QED BY <2>1, <2>3, <2>4, <2>5 DEF Queued
<1>6. q.pending = s.req[c].pending
  OBVIOUS
<1> HIDE DEF p, seq, q
<1>16. o \in Reqs /\ o.pending = p /\ o.credit = q.credit /\ o.try = q.try
  BY <1>1, <1>2, <1>5 DEF Reqs
<1> HIDE DEF o
<1>7. /\ r \in Reqs /\ r.pending = p /\ r.finished /\ r.phase = "over" /\ r.credit = q.credit
      /\ r.try = q.try
  BY <1>16 DEF Reqs
<1>17. v.req[c] = o /\ v.down = s.down /\ Serves(v) /\ v \in Server
  BY <1>16, WithReq DEF Touches, Serves
<1> HIDE DEF v
<1>18. [v EXCEPT !.req[c].finished = TRUE, !.req[c].phase = "over"] = e
  BY <1>17 DEF Server
<1> HIDE DEF r
<1>8. e.req[c] = r /\ e.down = s.down /\ Serves(e)
  BY <1>7, <1>17, WithReq DEF Touches
<1> HIDE DEF e
<1>9. Adds(s, e, c)
  BY <1>8, AddsNone
<1>10. Stream(e, c) = Append(Stream(s, c), f)
  BY <1>3, <1>7, <1>8, StreamQueues DEF p
<1>11. Local(r, c)
  BY <1>5, <1>7 DEF Local, q
<1>12. Flows(call, Stream(e, c), UnitsIn(e.down, c, "body"), r, w)
  BY <1>7, <1>8, <1>10 DEF Flows, Live, Credited, q, f
<1>13. Serving(e, c, call, w)
  BY <1>8, <1>11, <1>12 DEF Serving, Flowing
<1>14. Adds(e, ReqFlush(e, c), c) /\ Serving(ReqFlush(e, c), c, call, w)
  BY <1>7, <1>8, <1>13, ReqFlushServes
<1>15. Adds(s, ReqFlush(e, c), c)
  BY <1>9, <1>14, AddsOn
<1> QED BY <1>4, <1>14, <1>15, <1>18

(* An end that is not an answer, after what was sent.                      *)
LEMMA ChainEnds ==
    ASSUME NEW call, NEW S \in Seq(Frames), Chain(call, S), NEW r, Tip(call, S, r) \/ S = <<>>,
           NEW f \in Frames, f.kind \in ErrorKind, f.data = NoData
    PROVE  Chain(call, Append(S, f))
<1>1. Piece(f)
  BY DEF Piece, Whats, ErrorKind, NoData, DataOf
<1>2. f.kind \notin {"start", "body", "end"}
  BY DEF ErrorKind
<1>3. S = <<>> => First(call, f)
  BY <1>2 DEF First
<1>4. S # <<>> => Follows(S[Len(S)], f)
  BY <1>2 DEF Tip, Follows
<1> QED BY <1>1, <1>3, <1>4, ChainAppend

(* req_fail.                                                               *)
LEMMA ReqFailServes ==
    ASSUME NEW s, Serves(s), NEW c \in Call, NEW kind \in ErrorKind, Underway(s.req[c]),
           NEW call, NEW w, Heard(call, w), Flowing(s, c, call, w)
    PROVE  Adds(s, ReqFail(s, c, kind), c) /\ Serving(ReqFail(s, c, kind), c, call, w)
<1> DEFINE f == Frame(c, kind, s.req[c].seq, NoData)
           S == Stream(s, c)
<1>1. kind \in Kinds /\ NoData \in Data /\ kind # "body"
  BY FrameFacts DEF Kinds, ErrorKind
<1>2. s.req[c].seq \in Nat
  BY DEF Serves, Server, Reqs
<1>3. f \in Frames /\ f.kind = kind /\ f.data = NoData
  BY <1>1, <1>2, FrameFacts DEF Frame
<1>4. S \in Seq(Frames)
  BY StreamIsSeq
<1> HIDE DEF f, S
<1>5. call.st = "open" => Chain(call, Append(S, f))
  <2>1. SUFFICES ASSUME call.st = "open" PROVE Chain(call, Append(S, f))
    OBVIOUS
  <2>2. Chain(call, S) /\ (Tip(call, S, s.req[c]) \/ S = <<>>)
    BY <2>1 DEF Flowing, Flows, Underway, S
  <2> QED BY <1>3, <1>4, <2>2, ChainEnds
<1>6. Credited(call, UnitsIn(s.down, c, "body"), s.req[c], w)
  BY DEF Flowing, Flows, Underway, Live, Credited
<1>7. Queued(s.req[c].pending, c) /\ Len(s.req[c].pending) <= 1
  BY NoReqLocal, NoReqFacts, FrameLists DEF Local, Underway
<1>8. ReqFail(s, c, kind) = ReqFlush([ReqQueue(s, c, kind, NoData) EXCEPT !.req[c].finished = TRUE,
                                                                         !.req[c].phase = "over"], c)
  BY DEF ReqFail, Underway
<1>9. s.req[c].credit >= 0 /\ s.req[c].try <= 2
  BY DEF Underway
<1> DEFINE e == [ReqQueue(s, c, kind, NoData) EXCEPT !.req[c].finished = TRUE, !.req[c].phase = "over"]
<1>10. call.st = "open" => Chain(call, Append(Stream(s, c), Frame(c, kind, s.req[c].seq, NoData)))
  BY <1>5, Zenon DEF f, S
<1>11. Adds(s, ReqFlush(e, c), c) /\ Serving(ReqFlush(e, c), c, call, w)
  BY <1>1, <1>6, <1>7, <1>9, <1>10, EndServes
<1> QED BY <1>8, <1>11, Zenon

(* A request that can be handed to curl, again or for the first time.      *)
Fresh(r) == Underway(r) /\ Unrun(r) /\ ~r.cancelled

(* Nothing is queued.                                                      *)
LEMMA QueuedNone ==
    ASSUME NEW c
    PROVE  Queued(<<>>, c)
BY NoReqLocal, NoReqFacts DEF Local

(* It waits for the refresh.                                               *)
LEMMA ParksServes ==
    ASSUME NEW s, Serves(s), NEW c \in Call, Fresh(s.req[c]),
           NEW call, NEW w, Flowing(s, c, call, w)
    PROVE  Adds(s, Parks(s, c), c) /\ Serving(Parks(s, c), c, call, w)
<1> DEFINE q == s.req[c]
           r == [q EXCEPT !.phase = "parked"]
<1>1. q \in Reqs
  BY DEF Serves, Server
<1>2. /\ r \in Reqs /\ r.pending = q.pending /\ r.phase = "parked" /\ r.finished = q.finished
      /\ r.credit = q.credit /\ r.try = q.try /\ r.retried = q.retried /\ r.started = q.started
      /\ r.cancelled = q.cancelled
  BY <1>1 DEF Reqs
<1>3. Parks(s, c) = [s EXCEPT !.req[c] = r]
  BY DEF Parks
<1>4. Fresh(q) /\ Flows(call, Stream(s, c), UnitsIn(s.down, c, "body"), q, w)
  BY DEF Flowing
<1>5. r.pending = s.req[c].pending
  BY <1>2
<1> HIDE DEF q, r
<1>6. Local(r, c)
  BY <1>2, <1>4, QueuedNone DEF Local, Fresh, Underway, Unrun
<1>7. Flows(call, Stream(s, c), UnitsIn(s.down, c, "body"), r, w)
  BY <1>2, <1>4 DEF Flows, Fresh, Underway, Unrun, Live
<1> QED BY <1>2, <1>3, <1>5, <1>6, <1>7, ReqServes

(* It is handed to curl.                                                   *)
LEMMA SubmittedServes ==
    ASSUME NEW s, Serves(s), NEW c \in Call, Fresh(s.req[c]), login.tag \in Nat,
           NEW call, NEW w, Flowing(s, c, call, w), NEW u \in Submitted(s, c)
    PROVE  Adds(s, u, c) /\ Serving(u, c, call, w)
<1>0. PICK answer \in [status : Status, len : Lengths] :
        u = [s EXCEPT !.req[c] = [s.req[c] EXCEPT
                !.phase = "running", !.result = "none", !.tag = login.tag,
                !.retry = ~s.req[c].retried, !.try = @ + 1,
                !.status = answer.status, !.len = answer.len, !.pos = 0]]
  BY DEF Submitted
<1> DEFINE q == s.req[c]
           tag == login.tag
           retry == ~s.req[c].retried
           try == s.req[c].try + 1
           status == answer.status
           len == answer.len
           r == [q EXCEPT !.phase = "running", !.result = "none", !.tag = tag, !.retry = retry,
                          !.try = try, !.status = status, !.len = len, !.pos = 0]
           t == [s EXCEPT !.req[c] = r]
<1>1. q \in Reqs
  BY DEF Serves, Server
<1>2. [q EXCEPT !.phase = "running", !.result = "none", !.tag = tag, !.retry = retry].try = q.try
  BY <1>1 DEF Reqs
<1>3. tag \in Nat /\ retry \in BOOLEAN /\ try \in Nat /\ len \in Nat /\ status \in Status
  <2>1. q.try \in Nat
    BY <1>1 DEF Reqs
  <2>2. answer.len \in Lengths /\ answer.status \in Status
    OBVIOUS
  <2>3. retry \in BOOLEAN
    BY Zenon
  <2>4. try \in Nat
    BY <2>1
  <2>5. len \in Nat
    BY <2>2, TransportAssumption
  <2> QED
    BY <2>2, <2>3, <2>4, <2>5
<1>4. u = t
  BY <1>0, <1>2
<1>5. Fresh(q) /\ Flows(call, Stream(s, c), UnitsIn(s.down, c, "body"), q, w)
      /\ try = q.try + 1 /\ (retry <=> ~q.retried)
  BY DEF Flowing
<1> HIDE DEF tag, retry, try, status, len
<1>6. /\ r \in Reqs /\ r.pending = q.pending /\ r.phase = "running" /\ r.finished = q.finished
      /\ r.credit = q.credit /\ r.try = try /\ r.retried = q.retried /\ r.started = q.started
      /\ r.cancelled = q.cancelled /\ r.pos = 0 /\ (r.retry <=> retry) /\ r.result = "none"
  <2> HIDE DEF q
  <2> QED BY <1>1, <1>3 DEF Reqs
<1>7. r.pending = s.req[c].pending
  BY <1>6
<1> HIDE DEF q, r
<1>8. q.try \in Nat
  BY <1>1 DEF Reqs
<1>9. try = (IF q.retried THEN 2 ELSE 1)
  BY <1>5, <1>8 DEF Fresh, Unrun
<1>10. Ran(r)
  BY <1>5, <1>6, <1>9 DEF Ran
<1>11. Local(r, c)
  BY <1>5, <1>6, <1>9, <1>10, QueuedNone DEF Local, Fresh, Underway
<1>12. Flows(call, Stream(s, c), UnitsIn(s.down, c, "body"), r, w)
  BY <1>5, <1>6 DEF Flows, Fresh, Underway, Unrun, Live
<1> QED BY <1>4, <1>6, <1>7, <1>11, <1>12, ReqServes

(* What is done with the answer of the source.                             *)
LEMMA AnsweredServes ==
    ASSUME NEW s, Serves(s), NEW c \in Call, Fresh(s.req[c]),
           NEW a, Answer(s, a), NEW goesOn,
           NEW call, NEW w, Heard(call, w), Flowing(s, c, call, w),
           a.rc = "ready" => \A u \in goesOn : Adds(a.s, u, c) /\ Serving(u, c, call, w),
           NEW t \in Answered(a, c, goesOn)
    PROVE  Adds(s, t, c) /\ Serving(t, c, call, w)
<1>1. Adds(s, a.s, c)
  BY AddsNone DEF Answer
<1>2. Serves(a.s) /\ Fresh(a.s.req[c]) /\ Flowing(a.s, c, call, w)
  BY DEF Answer, Flowing, Stream
<1>3. Adds(a.s, t, c) /\ Serving(t, c, call, w)
  <2>1. CASE a.rc = "wait"
    <3>1. t = Parks(a.s, c)
      BY <2>1 DEF Answered, Parks
    <3> QED BY <1>2, <3>1, ParksServes
  <2>2. CASE a.rc = "refused"
    <3>1. t = ReqFail(a.s, c, "refused")
      BY <2>2 DEF Answered
    <3>2. Underway(a.s.req[c])
      BY <1>2 DEF Fresh
    <3> QED BY <1>2, <3>1, <3>2, ReqFailServes DEF ErrorKind
  <2>3. CASE a.rc = "ready"
    BY <2>3 DEF Answered
  <2> QED BY <2>1, <2>2, <2>3 DEF Answer
<1> QED BY <1>1, <1>3, AddsOn

(* req_run.                                                                *)
LEMMA ReqRunServes ==
    ASSUME NEW s, Serves(s), NEW c \in Call, Fresh(s.req[c]), login.tag \in Nat,
           NEW call, NEW w, Heard(call, w), Flowing(s, c, call, w),
           NEW resumed \in BOOLEAN, NEW t \in ReqRun(s, c, resumed)
    PROVE  Adds(s, t, c) /\ Serving(t, c, call, w)
<1>1. CASE t = ReqFail(s, c, "refused")
  BY <1>1, ReqFailServes DEF ErrorKind, Fresh
<1>2. CASE t # ReqFail(s, c, "refused")
  <2>1. PICK a \in VerbPrepare(s, resumed) : t \in Answered(a, c, Submitted(a.s, c))
    BY <1>2 DEF ReqRun
  <2>2. Answer(s, a)
    BY VerbPrepareAnswers
  <2>3. Serves(a.s) /\ Fresh(a.s.req[c]) /\ Flowing(a.s, c, call, w)
    BY <2>2 DEF Answer, Flowing, Stream
  <2>4. \A u \in Submitted(a.s, c) : Adds(a.s, u, c) /\ Serving(u, c, call, w)
    BY <2>3, SubmittedServes
  <2> QED BY <2>1, <2>2, <2>4, AnsweredServes
<1> QED BY <1>1, <1>2

(* r is q, but for what the source has answered.                           *)
Asked(r, q) ==
    /\ r.phase = q.phase /\ r.finished = q.finished /\ r.started = q.started
    /\ r.pending = q.pending /\ r.credit = q.credit /\ r.try = q.try /\ r.pos = q.pos
    /\ r.retry = q.retry /\ r.retried = q.retried /\ r.cancelled = q.cancelled
    /\ r.status = q.status /\ r.result = q.result /\ r.len = q.len /\ r.paused = q.paused

(* req_rejected: nothing of the body is delivered when the source is asked. *)
LEMMA ReqRejectedServes ==
    ASSUME NEW s, Serves(s), NEW c \in Call, s.req[c].phase \in {"running", "done"},
           NEW call, NEW w, Serving(s, c, call, w), NEW u \in ReqRejected(s, c)
    PROVE  /\ Adds(s, u, c) /\ Serving(u, c, call, w) /\ Asked(u.req[c], s.req[c])
           /\ AsksRenewal(u.req[c]) => u.req[c].rejected
<1>1. CASE u = s /\ (AsksRenewal(s.req[c]) => s.req[c].rejected)
  BY <1>1, AddsNone DEF Asked
<1>2. ASSUME NEW a \in VerbReject(s, s.req[c].tag), AsksRenewal(s.req[c]), ~s.req[c].rejected,
             u = [a.s EXCEPT !.req[c].rejected = TRUE, !.req[c].held = a.rc # "refused"]
      PROVE  /\ Adds(s, u, c) /\ Serving(u, c, call, w) /\ Asked(u.req[c], s.req[c])
             /\ u.req[c].rejected
  <2> DEFINE q == a.s.req[c]
             held == a.rc # "refused"
             r == [q EXCEPT !.rejected = TRUE, !.held = held]
             t == [a.s EXCEPT !.req[c] = r]
  <2>1. Answer(s, a)
    BY VerbRejectAnswers
  <2>2. a.s \in Server /\ Serves(a.s) /\ q \in Reqs /\ q = s.req[c]
    BY <2>1 DEF Answer, Serves, Server
  <2>3. held \in BOOLEAN
    BY Zenon
  <2>4. u = t
    BY <1>2, <2>2 DEF Server
  <2>5. Adds(s, a.s, c) /\ Serving(a.s, c, call, w)
    BY <2>1, AddsNone DEF Answer, Serving, Flowing, Stream
  <2>6. AsksRenewal(q) /\ ~q.rejected /\ Local(q, c) /\ q.phase \in {"running", "done"}
        /\ Flows(call, Stream(a.s, c), UnitsIn(a.s.down, c, "body"), q, w)
    BY <1>2, <2>2, <2>5 DEF Serving, Flowing
  <2>7. q.pending = a.s.req[c].pending
    OBVIOUS
  <2> HIDE DEF q, held
  <2>8. r \in Reqs /\ Asked(r, q) /\ r.rejected
    BY <2>2, <2>3 DEF Reqs, Asked
  <2> HIDE DEF r
  <2>9. q.pos \in Nat
    BY <2>2 DEF Reqs
  <2>10. ~q.started => ~(q.pos > 0)
    BY <2>6 DEF Local, Ran, AsksRenewal
  <2>11. Ran(r)
    BY <2>6, <2>8, <2>10 DEF Local, Ran, Asked
  <2>12. Local(r, c)
    BY <2>6, <2>8, <2>11 DEF Local, Asked
  <2>13. Flows(call, Stream(a.s, c), UnitsIn(a.s.down, c, "body"), r, w)
    BY <2>6, <2>8 DEF Flows, Asked, Tip
  <2>14. r.pending = a.s.req[c].pending
    BY <2>7, <2>8 DEF Asked
  <2>15. Adds(a.s, t, c) /\ Serving(t, c, call, w)
    BY <2>2, <2>8, <2>12, <2>13, <2>14, ReqServes
  <2>16. t.req[c] = r
    BY <2>2 DEF Server
  <2> HIDE DEF t
  <2>17. Adds(s, t, c)
    BY <2>5, <2>15, AddsOn
  <2> QED BY <2>2, <2>4, <2>8, <2>15, <2>16, <2>17
<1>3. \/ u = s /\ (AsksRenewal(s.req[c]) => s.req[c].rejected)
      \/ /\ AsksRenewal(s.req[c]) /\ ~s.req[c].rejected
         /\ \E a \in VerbReject(s, s.req[c].tag) :
              u = [a.s EXCEPT !.req[c].rejected = TRUE, !.req[c].held = a.rc # "refused"]
  BY DEF ReqRejected
<1> QED BY <1>1, <1>2, <1>3

(* req_retry: the request runs again, waits for the refresh, or fails.     *)
LEMMA ReqRetryServes ==
    ASSUME NEW s, Serves(s), NEW c \in Call, Runnable(s.req[c]), login.tag \in Nat,
           s.req[c].phase = "done", ~s.req[c].started, IsHeld(s.req[c]),
           NEW call, NEW w, Heard(call, w), Serving(s, c, call, w), NEW u \in ReqRetry(s, c)
    PROVE  Adds(s, u, c) /\ Serving(u, c, call, w)
<1> DEFINE q == s.req[c]
           r == [q EXCEPT !.retry = FALSE, !.retried = TRUE]
           t == [s EXCEPT !.req[c] = r]
<1>1. s \in Server /\ q \in Reqs
  BY DEF Serves, Server
<1>2. [s EXCEPT !.req[c].retry = FALSE, !.req[c].retried = TRUE] = t
  BY <1>1 DEF Server
<1>3. PICK a \in VerbReject(t, s.req[c].tag) : u \in Answered(a, c, ReqRun(a.s, c, TRUE))
  BY <1>2 DEF ReqRetry
<1>4. /\ Runnable(q) /\ q.phase = "done" /\ ~q.started /\ ~q.cancelled /\ Local(q, c) /\ ~q.retried
      /\ Flows(call, Stream(s, c), UnitsIn(s.down, c, "body"), q, w)
  BY DEF Serving, Flowing, IsHeld, AsksRenewal, Local, Ran
<1>5. q.try = 1 /\ q.credit >= 0
  BY <1>4 DEF Local, Ran
<1>6. q = s.req[c]
  OBVIOUS
<1> HIDE DEF q
<1>7. /\ r \in Reqs /\ r.phase = "done" /\ ~r.started /\ ~r.cancelled /\ r.retried /\ r.try = 1
      /\ r.credit = q.credit /\ r.pending = q.pending /\ r.finished = q.finished
  BY <1>1, <1>4, <1>5 DEF Reqs
<1> HIDE DEF r
<1>8. Touches(s, t, c) /\ t.req[c] = r /\ t.down = s.down /\ Serves(t)
  BY <1>7, WithReq DEF Touches
<1> HIDE DEF t
<1>9. Fresh(r)
  BY <1>4, <1>5, <1>7 DEF Fresh, Underway, Unrun, Live, Runnable
<1>10. Stream(t, c) = Stream(s, c)
  BY <1>6, <1>7, <1>8 DEF Stream
<1>11. Flowing(t, c, call, w)
  BY <1>4, <1>7, <1>8, <1>10 DEF Flowing, Flows
<1>12. Answer(t, a)
  BY <1>3, <1>8, VerbRejectAnswers
<1>13. Serves(a.s) /\ Fresh(a.s.req[c]) /\ Flowing(a.s, c, call, w)
  BY <1>8, <1>9, <1>11, <1>12 DEF Answer, Flowing, Stream
<1>14. \A v \in ReqRun(a.s, c, TRUE) : Adds(a.s, v, c) /\ Serving(v, c, call, w)
  BY <1>13, ReqRunServes
<1>15. Adds(t, u, c) /\ Serving(u, c, call, w)
  BY <1>3, <1>8, <1>9, <1>11, <1>12, <1>14, AnsweredServes
<1>16. Adds(s, t, c)
  BY <1>8, AddsNone
<1> QED BY <1>15, <1>16, AddsOn

(* A piece of the answer, or its end, from where it has got to.            *)
LEMMA ChainGoesOn ==
    ASSUME NEW call, NEW S \in Seq(Frames), Chain(call, S), NEW r, Tip(call, S, r),
           NEW f \in Frames, f.kind \in {"body", "end"}, f.kind = "end" => f.data.n = 0,
           f.data.try = r.try, f.data.from = r.pos
    PROVE  Chain(call, Append(S, f))
<1>1. Piece(f)
  BY DEF Piece, Whats
<1>2. S = <<>> => First(call, f)
  BY DEF First, Tip
<1>3. S # <<>> => Follows(S[Len(S)], f)
  BY DEF Tip, Follows
<1> QED BY <1>1, <1>2, <1>3, ChainAppend

(* The head of the answer is the first frame of a call.                    *)
LEMMA ChainBegins ==
    ASSUME NEW call, ~call.started, NEW f \in Frames, f.kind = "start",
           f.data.from = 0, f.data.n = 0
    PROVE  Chain(call, Append(<<>>, f))
<1> DEFINE o == <<>>
<1>1. o \in Seq(Frames) /\ o = <<>>
  OBVIOUS
<1>2. Chain(call, o)
  BY ChainOfNone
<1>3. Piece(f)
  BY DEF Piece, Whats
<1>4. First(call, f)
  BY DEF First
<1> HIDE DEF o
<1>5. Chain(call, Append(o, f))
  BY <1>1, <1>2, <1>3, <1>4, ChainAppend
<1> QED BY <1>5 DEF o

(* The answer has got to the end of the frame sent last.                   *)
LEMMA TipOfLast ==
    ASSUME NEW call, NEW S \in Seq(Frames), NEW f \in Frames, f.kind \in Goes, NEW r,
           f.data.try = r.try, f.data.from + f.data.n = r.pos
    PROVE  Tip(call, Append(S, f), r)
<1> DEFINE T == Append(S, f)
<1>1. T \in Seq(Frames) /\ Len(T) = Len(S) + 1 /\ T[Len(S) + 1] = f
  BY AppendProperties
<1>2. Len(S) \in Nat
  OBVIOUS
<1> HIDE DEF T
<1>3. T # <<>> /\ T[Len(T)] = f
  <2>1. Len(T) # 0 /\ T[Len(T)] = f
    BY <1>1, <1>2
  <2> QED BY <1>1, <2>1, EmptySeq
<1>4. Tip(call, T, r)
  BY <1>3 DEF Tip
<1> QED BY <1>4 DEF T

(* The parts of a frame.                                                   *)
LEMMA FrameParts ==
    ASSUME NEW c \in Call, NEW kind \in Kinds, NEW seq \in Nat,
           NEW try \in Nat, NEW from \in Nat, NEW n \in Nat
    PROVE  LET f == Frame(c, kind, seq, DataOf(try, from, n)) IN
           /\ f \in Frames /\ f.id = c /\ f.kind = kind
           /\ f.data.try = try /\ f.data.from = from /\ f.data.n = n
BY FrameFacts DEF Frame, DataOf, Frames, Kinds

(* The head of the answer is queued.                                       *)
Begun(s, c) ==
    [ReqQueue(s, c, "start", DataOf(s.req[c].try, 0, 0)) EXCEPT !.req[c].started = TRUE,
                                                                !.req[c].retry = FALSE]

LEMMA BegunServes ==
    ASSUME NEW s, Serves(s), NEW c \in Call, Underway(s.req[c]), ~s.req[c].started,
           s.req[c].pos = 0, NEW call, NEW w, Flowing(s, c, call, w)
    PROVE  LET t == Begun(s, c)
           IN /\ Serves(t) /\ Adds(s, t, c) /\ Queued(t.req[c].pending, c)
              /\ Len(t.req[c].pending) <= 1 /\ t.req[c].credit = s.req[c].credit
              /\ t.req[c].try = s.req[c].try /\ t.req[c].pos = 0 /\ t.down = s.down
              /\ call.st = "open" => Chain(call, Stream(t, c)) /\ Tip(call, Stream(t, c), t.req[c])
<1> DEFINE q == s.req[c]
           f == Frame(c, "start", q.seq, DataOf(q.try, 0, 0))
           p == Append(q.pending, f)
           seq == q.seq + 1
           o == [q EXCEPT !.pending = p, !.seq = seq]
           v == [s EXCEPT !.req[c] = o]
           r == [o EXCEPT !.started = TRUE, !.retry = FALSE]
           t == [v EXCEPT !.req[c] = r]
           e == <<>>
<1>1. s \in Server /\ q \in Reqs
  BY DEF Serves, Server
<1>2. q.seq \in Nat /\ seq \in Nat /\ q.pending = e /\ q.try \in Nat /\ e \in Seq(Frames) /\ Len(e) = 0
  BY <1>1 DEF Reqs, Underway
<1>3. /\ f \in Frames /\ f.id = c /\ f.kind = "start" /\ f.data.try = q.try
      /\ f.data.from = 0 /\ f.data.n = 0
  <2> DEFINE n == q.seq
             try == q.try
  <2>1. n \in Nat /\ try \in Nat /\ "start" \in Kinds /\ 0 \in Nat
    BY <1>2 DEF Kinds
  <2> HIDE DEF n, try
  <2>2. LET g == Frame(c, "start", n, DataOf(try, 0, 0)) IN
           /\ g \in Frames /\ g.id = c /\ g.kind = "start"
           /\ g.data.try = try /\ g.data.from = 0 /\ g.data.n = 0
    BY <2>1, FrameParts
  <2> QED BY <2>2 DEF n, try
<1>4. ReqQueue(s, c, "start", DataOf(s.req[c].try, 0, 0)) = v
  BY <1>1 DEF ReqQueue
<1> HIDE DEF f
<1>5. p = Append(e, f)
  BY <1>2
<1> HIDE DEF e
<1>6. p \in Seq(Frames) /\ Len(p) = 1 /\ p[1] = f
  <2> HIDE DEF p
  <2>1. p \in Seq(Frames) /\ Len(p) = Len(e) + 1 /\ p[Len(e) + 1] = f
    BY <1>2, <1>3, <1>5, AppendProperties
  <2> QED BY <1>2, <2>1
<1>7. Queued(p, c)
  <2> HIDE DEF p
  <2>1. \A i \in 1 .. Len(p) : p[i] = f
    BY <1>6
  <2> QED BY <1>3, <1>6, <2>1 DEF Queued
<1>8. p = Append(s.req[c].pending, f) /\ q = s.req[c]
  OBVIOUS
<1> HIDE DEF p, seq, q
<1>9. o \in Reqs /\ o.pending = p /\ o.credit = q.credit /\ o.try = q.try /\ o.pos = q.pos
  BY <1>1, <1>2, <1>6 DEF Reqs
<1> HIDE DEF o
<1>10. r \in Reqs /\ r.pending = p /\ r.credit = q.credit /\ r.try = q.try /\ r.pos = q.pos
  BY <1>9 DEF Reqs
<1>11. v.req[c] = o /\ v.down = s.down /\ Serves(v) /\ v \in Server
  BY <1>9, WithReq DEF Touches, Serves
<1> HIDE DEF v
<1>12. Begun(s, c) = t
  <2>1. [v EXCEPT !.req[c].started = TRUE, !.req[c].retry = FALSE] = t
    BY <1>11 DEF Server
  <2> HIDE DEF t
  <2> QED BY <1>4, <2>1 DEF Begun
<1> HIDE DEF r
<1>13. t.req[c] = r /\ t.down = s.down /\ Serves(t)
  BY <1>10, <1>11, WithReq DEF Touches
<1> HIDE DEF t
<1>14. Adds(s, t, c)
  BY <1>13, AddsNone
<1>15. Stream(t, c) = Append(Stream(s, c), f)
  BY <1>3, <1>8, <1>10, <1>13, StreamQueues
<1>16. call.st = "open" => Chain(call, Stream(t, c)) /\ Tip(call, Stream(t, c), r)
  <2>1. SUFFICES ASSUME call.st = "open" PROVE Chain(call, Stream(t, c)) /\ Tip(call, Stream(t, c), r)
    OBVIOUS
  <2>2. Stream(s, c) = e /\ ~call.started
    BY <2>1, <1>8 DEF Flowing, Flows, Underway, e
  <2>3. Stream(t, c) = Append(e, f)
    BY <1>15, <2>2
  <2>4. Chain(call, Append(e, f))
    BY <1>3, <2>2, ChainBegins DEF e
  <2>5. Tip(call, Append(e, f), r)
    <3>1. f.kind \in Goes /\ f.data.try = r.try /\ f.data.from + f.data.n = r.pos
      BY <1>3, <1>8, <1>10 DEF Goes
    <3> QED BY <1>2, <1>3, <3>1, TipOfLast
  <2> QED BY <2>3, <2>4, <2>5
<1>17. /\ Serves(t) /\ Adds(s, t, c) /\ Queued(t.req[c].pending, c)
       /\ Len(t.req[c].pending) <= 1 /\ t.req[c].credit = s.req[c].credit
       /\ t.req[c].try = s.req[c].try /\ t.req[c].pos = 0 /\ t.down = s.down
  <2>1. Len(p) <= 1
    BY <1>6
  <2>2. r.pos = 0
    BY <1>8, <1>10
  <2> QED BY <1>7, <1>8, <1>10, <1>13, <1>14, <2>1, <2>2
<1>18. call.st = "open" => Chain(call, Stream(t, c)) /\ Tip(call, Stream(t, c), t.req[c])
  BY <1>13, <1>16
<1> QED BY <1>12, <1>17, <1>18

(* req_complete_cb reports the end.                                        *)
LEMMA ReqReportServes ==
    ASSUME NEW s, Serves(s), NEW c \in Call, Underway(s.req[c]), s.req[c].pos = s.req[c].len,
           ~s.req[c].started => s.req[c].pos = 0,
           NEW call, NEW w, Heard(call, w), Flowing(s, c, call, w)
    PROVE  Adds(s, ReqReport(s, c), c) /\ Serving(ReqReport(s, c), c, call, w)
<1> DEFINE b == IF s.req[c].started THEN s ELSE Begun(s, c)
           try == s.req[c].try
           len == s.req[c].len
           whole == DataOf(try, len, 0)
           e == [ReqQueue(b, c, "end", whole) EXCEPT !.req[c].finished = TRUE,
                                                     !.req[c].phase = "over"]
<1>1. ReqReport(s, c) = ReqFlush(e, c)
  BY DEF ReqReport, Begun
<1>2. s.req[c] \in Reqs /\ try \in Nat /\ len \in Nat
  BY DEF Serves, Server, Reqs
<1>3. /\ Serves(b) /\ Adds(s, b, c) /\ Queued(b.req[c].pending, c)
      /\ Len(b.req[c].pending) <= 1 /\ b.req[c].credit = s.req[c].credit
      /\ b.req[c].try = try /\ b.req[c].pos = len /\ b.down = s.down
      /\ call.st = "open" => Chain(call, Stream(b, c)) /\ Tip(call, Stream(b, c), b.req[c])
  <2>1. CASE s.req[c].started
    <3>1. Queued(s.req[c].pending, c) /\ Len(s.req[c].pending) <= 1
      BY NoReqLocal, NoReqFacts, FrameLists DEF Local, Underway
    <3>2. Adds(s, s, c)
      BY AddsNone
    <3>3. call.st = "open" => Chain(call, Stream(s, c)) /\ Tip(call, Stream(s, c), s.req[c])
      BY <2>1 DEF Flowing, Flows, Underway
    <3> QED BY <2>1, <3>1, <3>2, <3>3
  <2>2. CASE ~s.req[c].started
    <3>1. s.req[c].pos = 0 /\ len = 0
      BY <2>2
    <3>2. b = Begun(s, c)
      BY <2>2
    <3> HIDE DEF b
    <3> QED BY <2>2, <3>1, <3>2, BegunServes
  <2> QED BY <2>1, <2>2
<1> HIDE DEF b, try, len
<1>4. b.req[c].seq \in Nat /\ whole \in Data /\ "end" \in Kinds /\ 0 \in Nat
  BY <1>2, <1>3, FrameFacts DEF Serves, Server, Reqs, Kinds
<1> DEFINE seq == b.req[c].seq
           f == Frame(c, "end", seq, whole)
<1>5. /\ f \in Frames /\ f.kind = "end" /\ f.data.n = 0 /\ f.data.try = try /\ f.data.from = len
  <2>1. seq \in Nat /\ try \in Nat /\ len \in Nat /\ "end" \in Kinds /\ 0 \in Nat
    BY <1>2, <1>4
  <2> HIDE DEF seq
  <2>2. LET g == Frame(c, "end", seq, DataOf(try, len, 0)) IN
           /\ g \in Frames /\ g.id = c /\ g.kind = "end"
           /\ g.data.try = try /\ g.data.from = len /\ g.data.n = 0
    BY <2>1, FrameParts
  <2> QED BY <2>2
<1> HIDE DEF f
<1>6. call.st = "open" => Chain(call, Append(Stream(b, c), f))
  <2>1. Stream(b, c) \in Seq(Frames)
    BY <1>3, StreamIsSeq
  <2> DEFINE S == Stream(b, c)
  <2> HIDE DEF S
  <2>2. call.st = "open" => Chain(call, S) /\ Tip(call, S, b.req[c])
    BY <1>3 DEF S
  <2>3. S \in Seq(Frames)
    BY <2>1 DEF S
  <2>4. call.st = "open" => Chain(call, Append(S, f))
    BY <1>3, <1>5, <2>2, <2>3, ChainGoesOn
  <2> QED BY <2>4 DEF S
<1>7. Credited(call, UnitsIn(b.down, c, "body"), b.req[c], w)
  BY <1>3 DEF Flowing, Flows, Underway, Live, Credited
<1>8. b.req[c].credit >= 0 /\ b.req[c].try <= 2
  BY <1>3 DEF Underway, try
<1>9. call.st = "open" => Chain(call, Append(Stream(b, c), Frame(c, "end", b.req[c].seq, whole)))
  BY <1>6, Zenon DEF f, seq
<1> HIDE DEF whole
<1>10. Adds(b, ReqFlush(e, c), c) /\ Serving(ReqFlush(e, c), c, call, w)
  BY <1>3, <1>4, <1>7, <1>8, <1>9, EndServes
<1> HIDE DEF e
<1>11. Adds(s, ReqFlush(e, c), c)
  BY <1>3, <1>10, AddsOn
<1> QED BY <1>1, <1>10, <1>11

(* fyai_curl_notify, req_complete_cb.                                      *)
LEMMA ReqCompleteServes ==
    ASSUME NEW s, Serves(s), NEW c \in Call, login.tag \in Nat,
           s.req[c].phase = "done", Shape(s.req[c]), NEW u \in ReqComplete(s, c),
           NEW call, NEW w, Heard(call, w), Serving(s, c, call, w)
    PROVE  Adds(s, u, c) /\ Serving(u, c, call, w)
<1> DEFINE q == s.req[c]
           r == [q EXCEPT !.paused = FALSE]
           t == [s EXCEPT !.req[c] = r]
           answers == IF r.started THEN {t} ELSE ReqRejected(t, c)
           answered(v) == IF ~r.started /\ IsHeld(v.req[c]) THEN ReqRetry(v, c) ELSE {ReqReport(v, c)}
<1>1. s \in Server /\ q \in Reqs
  BY DEF Serves, Server
<1>2. q.phase = "done" /\ Shape(q) /\ Local(q, c) /\ q = s.req[c]
      /\ Flows(call, Stream(s, c), UnitsIn(s.down, c, "body"), q, w)
  BY DEF Serving, Flowing
<1>3. [s EXCEPT !.req[c].paused = FALSE] = t
  BY <1>1 DEF Server
<1>4. t.req[c] = r
  BY <1>1 DEF Server
<1>6. r \in Reqs /\ Asked([r EXCEPT !.paused = q.paused], q) /\ ~r.paused
      /\ r.phase = "done" /\ ~r.finished /\ r.pending = <<>> /\ r.result \in {"ok", "failed"}
      /\ r.started = q.started /\ r.rejected = q.rejected /\ r.held = q.held
  BY <1>1, <1>2 DEF Reqs, Shape, Asked
<1>5. \/ u = ReqFail(t, c, "cancelled") \/ u = ReqFail(t, c, "failed")
      \/ ~r.cancelled /\ r.result = "ok" /\ \E v \in answers : u \in answered(v)
  <2>1. CASE r.cancelled
    BY <1>3, <1>4, <2>1 DEF ReqComplete
  <2>2. CASE ~r.cancelled /\ r.result = "failed"
    BY <1>3, <1>4, <2>2 DEF ReqComplete
  <2>3. CASE ~r.cancelled /\ r.result = "ok"
    <3>1. ReqComplete(s, c) = UNION {answered(v) : v \in answers}
      BY <1>3, <1>4, <2>3 DEF ReqComplete
    <3> HIDE DEF answers, answered
    <3> QED
      BY <2>3, <3>1
  <2> QED
    BY <1>6, <2>1, <2>2, <2>3
<1>7. /\ r.credit = q.credit /\ r.try = q.try /\ r.pos = q.pos /\ r.retry = q.retry
      /\ r.retried = q.retried /\ r.cancelled = q.cancelled /\ r.status = q.status
      /\ r.result = q.result /\ r.len = q.len /\ r.pending = q.pending /\ r.finished = q.finished
  BY <1>1 DEF Reqs
<1> HIDE DEF q, r
<1>8. Local(r, c)
  BY <1>2, <1>6, <1>7 DEF Local, Ran, IsHeld, AsksRenewal
<1>9. Flows(call, Stream(s, c), UnitsIn(s.down, c, "body"), r, w)
  BY <1>2, <1>6, <1>7 DEF Flows, Tip
<1>10. r.pending = s.req[c].pending
  BY <1>2, <1>7
<1>11. Adds(s, t, c) /\ Serving(t, c, call, w) /\ Serves(t)
  BY <1>6, <1>8, <1>9, <1>10, ReqServes, WithReq DEF Touches
<1>12. Underway(r)
  BY <1>6, <1>8 DEF Local, Underway, Live
<1> HIDE DEF t
<1>13. CASE u = ReqFail(t, c, "cancelled") \/ u = ReqFail(t, c, "failed")
  <2>1. Underway(t.req[c]) /\ Flowing(t, c, call, w)
    BY <1>4, <1>11, <1>12 DEF Serving
  <2>2. Adds(t, u, c) /\ Serving(u, c, call, w)
    BY <1>11, <1>13, <2>1, ReqFailServes DEF ErrorKind
  <2> QED BY <1>11, <2>2, AddsOn
<1>14. ASSUME NEW v \in answers, u \in answered(v), ~r.cancelled, r.result = "ok"
       PROVE  Adds(s, u, c) /\ Serving(u, c, call, w)
  <2>1. /\ Serves(v) /\ Adds(t, v, c) /\ Serving(v, c, call, w) /\ Asked(v.req[c], r)
        /\ v.req[c] \in Reqs
    <3>1. CASE v = t
      BY <1>4, <1>11, <3>1, AddsNone DEF Asked, Serves, Server
    <3>2. CASE v \in ReqRejected(t, c)
      <4>1. Adds(t, v, c) /\ Serving(v, c, call, w) /\ Asked(v.req[c], t.req[c])
        BY <1>4, <1>6, <1>11, <3>2, ReqRejectedServes
      <4>2. Serves(v)
        BY <1>11, <3>2, ReqRejectedTouches DEF Touches
      <4> QED BY <1>4, <4>1, <4>2 DEF Serves, Server
    <3> QED BY <1>14, <3>1, <3>2
  <2>2. /\ Runnable(v.req[c]) /\ v.req[c].phase = "done" /\ Underway(v.req[c])
        /\ (v.req[c].started <=> r.started) /\ ~v.req[c].cancelled /\ v.req[c].result = "ok"
    BY <1>6, <1>12, <1>14, <2>1 DEF Asked, Runnable, Underway
  <2>3. Adds(v, u, c) /\ Serving(u, c, call, w)
    <3>1. CASE ~r.started /\ IsHeld(v.req[c])
      <4>1. u \in ReqRetry(v, c)
        BY <1>14, <3>1
      <4> QED BY <2>1, <2>2, <3>1, <4>1, ReqRetryServes
    <3>2. CASE ~(~r.started /\ IsHeld(v.req[c]))
      <4>1. u = ReqReport(v, c)
        BY <1>14, <3>2
      <4>2. v.req[c].pos = v.req[c].len /\ (~v.req[c].started => v.req[c].pos = 0)
        <5>1. v.req[c].pos \in Nat
          BY <2>1 DEF Reqs
        <5>2. Ran(v.req[c])
          BY <2>1, <2>2 DEF Serving, Local
        <5> QED BY <2>2, <3>2, <5>1, <5>2 DEF Ran
      <4>3. Flowing(v, c, call, w)
        BY <2>1 DEF Serving
      <4> QED BY <2>1, <2>2, <4>1, <4>2, <4>3, ReqReportServes
    <3> QED BY <3>1, <3>2
  <2>4. Adds(s, v, c)
    BY <1>11, <2>1, AddsOn
  <2> QED BY <2>3, <2>4, AddsOn
<1> QED BY <1>5, <1>13, <1>14

(* req_cancel.                                                             *)
LEMMA ReqCancelServes ==
    ASSUME NEW s, Serves(s), NEW c \in Call, Present(s, c), Shape(s.req[c]),
           NEW call, NEW w, Heard(call, w), Serving(s, c, call, w)
    PROVE  Adds(s, ReqCancel(s, c), c) /\ Serving(ReqCancel(s, c), c, call, w)
<1> DEFINE q == s.req[c]
           r == [q EXCEPT !.cancelled = TRUE]
           e == [q EXCEPT !.cancelled = TRUE, !.phase = "done", !.result = "failed"]
           t == [s EXCEPT !.req[c] = r]
           v == [s EXCEPT !.req[c] = e]
<1>1. s \in Server /\ q \in Reqs
  BY DEF Serves, Server
<1>2. [s EXCEPT !.req[c].cancelled = TRUE] = t
  BY <1>1 DEF Server
<1>3. [t EXCEPT !.req[c].phase = "done", !.req[c].result = "failed"] = v
  BY <1>1 DEF Server
<1>4. /\ Local(q, c) /\ Shape(q) /\ q.phase # "none" /\ q = s.req[c]
      /\ Flows(call, Stream(s, c), UnitsIn(s.down, c, "body"), q, w)
  BY DEF Serving, Flowing, Present
<1>5. /\ r \in Reqs /\ r.pending = q.pending /\ r.phase = q.phase /\ r.finished = q.finished
      /\ r.credit = q.credit /\ r.try = q.try /\ r.retried = q.retried /\ r.started = q.started
      /\ r.cancelled /\ r.pos = q.pos /\ r.retry = q.retry /\ r.result = q.result /\ r.len = q.len
  BY <1>1 DEF Reqs
<1>6. /\ e \in Reqs /\ e.pending = q.pending /\ e.phase = "done" /\ e.finished = q.finished
      /\ e.credit = q.credit /\ e.try = q.try /\ e.retried = q.retried /\ e.started = q.started
      /\ e.cancelled /\ e.pos = q.pos /\ e.retry = q.retry /\ e.result = "failed"
  BY <1>1 DEF Reqs
<1>7. ReqCancel(s, c) = IF s.req[c].cancelled \/ s.req[c].finished THEN s
                        ELSE IF s.req[c].phase = "parked" THEN ReqFail(t, c, "cancelled")
                        ELSE IF s.req[c].phase = "running" THEN v
                        ELSE t
  BY <1>2, <1>3 DEF ReqCancel
<1> HIDE DEF q, r, e
<1>8. Flows(call, Stream(s, c), UnitsIn(s.down, c, "body"), r, w)
  BY <1>4, <1>5 DEF Flows, Tip
<1>9. r.pending = s.req[c].pending /\ e.pending = s.req[c].pending
  BY <1>4, <1>5, <1>6
<1>10. CASE s.req[c].cancelled \/ s.req[c].finished
  BY <1>7, <1>10, AddsNone
<1>11. CASE ~(s.req[c].cancelled \/ s.req[c].finished) /\ s.req[c].phase = "parked"
  <2>1. ReqCancel(s, c) = ReqFail(t, c, "cancelled")
    BY <1>7, <1>11
  <2>2. t.req[c] = r /\ t.down = s.down /\ Serves(t)
    BY <1>5, WithReq DEF Touches
  <2> HIDE DEF t
  <2>3. Stream(t, c) = Stream(s, c)
    BY <1>9, <2>2 DEF Stream
  <2>4. Underway(r)
    BY <1>4, <1>5, <1>11 DEF Underway, Live, Local, Shape
  <2>5. Flowing(t, c, call, w)
    BY <1>8, <2>2, <2>3 DEF Flowing
  <2>6. Adds(t, ReqFail(t, c, "cancelled"), c) /\ Serving(ReqFail(t, c, "cancelled"), c, call, w)
    BY <2>2, <2>4, <2>5, ReqFailServes DEF ErrorKind
  <2>7. Adds(s, t, c)
    BY <2>2, AddsNone
  <2> QED BY <2>1, <2>6, <2>7, AddsOn
<1>12. CASE ~(s.req[c].cancelled \/ s.req[c].finished) /\ s.req[c].phase = "running"
  <2>1. ReqCancel(s, c) = v
    BY <1>7, <1>12
  <2>2. q.phase = "running" /\ ~q.finished /\ Ran(q)
    BY <1>4, <1>12 DEF Local
  <2>3. Ran(e)
    BY <1>6, <2>2 DEF Ran
  <2>4. Local(e, c)
    BY <1>4, <1>6, <2>2, <2>3 DEF Local
  <2>5. Flows(call, Stream(s, c), UnitsIn(s.down, c, "body"), e, w)
    BY <1>4, <1>6, <2>2 DEF Flows, Tip, Live
  <2> QED BY <1>6, <1>9, <2>1, <2>4, <2>5, ReqServes
<1>13. CASE ~(s.req[c].cancelled \/ s.req[c].finished) /\ s.req[c].phase \notin {"parked", "running"}
  <2>1. ReqCancel(s, c) = t
    BY <1>7, <1>13
  <2>2. q.phase = "done" /\ ~q.finished /\ Ran(q)
    BY <1>1, <1>4, <1>13 DEF Local, Reqs
  <2>3. Ran(r)
    BY <1>5, <2>2 DEF Ran
  <2>4. Local(r, c)
    BY <1>4, <1>5, <2>2, <2>3 DEF Local
  <2> QED BY <1>5, <1>8, <1>9, <2>1, <2>4, ReqServes
<1> QED BY <1>10, <1>11, <1>12, <1>13

(* req_resume.                                                             *)
LEMMA ReqResumeServes ==
    ASSUME NEW s, Serves(s), NEW c \in Call, Shape(s.req[c]),
           NEW call, NEW w, Heard(call, w), Serving(s, c, call, w)
    PROVE  Adds(s, ReqResume(s, c), c) /\ Serving(ReqResume(s, c), c, call, w)
<1> DEFINE q == s.req[c]
           r == [q EXCEPT !.paused = FALSE]
           t == [s EXCEPT !.req[c] = r]
<1>1. s \in Server /\ q \in Reqs
  BY DEF Serves, Server
<1>2. /\ Local(q, c) /\ Shape(q) /\ q = s.req[c]
      /\ Flows(call, Stream(s, c), UnitsIn(s.down, c, "body"), q, w)
  BY DEF Serving, Flowing
<1>3. [s EXCEPT !.req[c].paused = FALSE] = t
  BY <1>1 DEF Server
<1>4. /\ r \in Reqs /\ r.pending = q.pending /\ r.phase = q.phase /\ r.finished = q.finished
      /\ r.credit = q.credit /\ r.try = q.try /\ r.retried = q.retried /\ r.started = q.started
      /\ r.cancelled = q.cancelled /\ r.pos = q.pos /\ r.retry = q.retry /\ r.result = q.result
      /\ r.len = q.len /\ r.rejected = q.rejected /\ r.held = q.held /\ r.status = q.status
  BY <1>1 DEF Reqs
<1>5. CASE q.pending # <<>>
  <2>1. ReqResume(s, c) = ReqFlush(s, c) /\ s.req[c].finished /\ s.req[c].phase = "over"
    BY <1>5 DEF ReqResume, Shape
  <2> QED BY <2>1, ReqFlushServes
<1>6. CASE q.pending = <<>> /\ q.paused /\ ~q.finished /\ q.credit > 0
  <2>1. ReqResume(s, c) = t
    BY <1>3, <1>6 DEF ReqResume
  <2>2. q.phase # "none"
    BY <1>2, <1>6, NoReqFacts DEF Local
  <2> HIDE DEF q, r
  <2>3. Local(r, c)
    BY <1>2, <1>4, <2>2 DEF Local, Ran, IsHeld, AsksRenewal, Unrun
  <2>4. Flows(call, Stream(s, c), UnitsIn(s.down, c, "body"), r, w)
    BY <1>2, <1>4 DEF Flows, Tip
  <2>5. r.pending = s.req[c].pending
    BY <1>2, <1>4
  <2> QED BY <1>4, <2>1, <2>3, <2>4, <2>5, ReqServes
<1>7. CASE q.pending = <<>> /\ ~(q.paused /\ ~q.finished /\ q.credit > 0)
  <2>1. ReqResume(s, c) = s
    BY <1>7 DEF ReqResume
  <2> QED BY <2>1, AddsNone
<1> QED BY <1>5, <1>6, <1>7

(* With nothing on the way, no units are.                                  *)
LEMMA NoUnits ==
    ASSUME NEW D \in Seq(Frames), NEW c, Filter(D, FramesOf(c)) = <<>>, NEW kind
    PROVE  UnitsIn(D, c, kind) = 0
<1> DEFINE F == FramesOf(c)
           e == <<>>
<1>1. ToSet(Filter(D, F)) = ToSet(D) \cap F
  BY FilterIs, Zenon
<1>2. ToSet(e) = {}
  BY DEF ToSet
<1> HIDE DEF e
<1>3. ToSet(D) \cap F = {}
  BY <1>1, <1>2 DEF e
<1>4. ASSUME NEW i \in 1 .. Len(D) PROVE D[i].id # c
  <2>1. D[i] \in ToSet(D) /\ D[i] \in Frames
    BY ElementOfSeq DEF ToSet
  <2> QED BY <1>3, <2>1 DEF FramesOf
<1> QED BY <1>4, UnitsNone

LEMMA StreamNone ==
    ASSUME NEW s, Serves(s), NEW c \in Call, Stream(s, c) = <<>>
    PROVE  Filter(s.down, FramesOf(c)) = <<>> /\ UnitsIn(s.down, c, "body") = 0
<1> DEFINE f == Filter(s.down, FramesOf(c))
           p == s.req[c].pending
<1>1. f \in Seq(Frames) /\ p \in Seq(Frames) /\ s.down \in Seq(Frames)
  BY StreamIsSeq DEF Serves, Server
<1>2. f \o p = <<>>
  BY DEF Stream
<1> HIDE DEF f, p
<1>3. f = <<>>
  BY <1>1, <1>2
<1> QED BY <1>1, <1>3, NoUnits DEF f

(* A request that is replaced by r, and one frame sent.                    *)
LEMMA SendsServes ==
    ASSUME NEW s, Serves(s), NEW c \in Call, NEW r \in Reqs, r.pending = <<>>, s.req[c].pending = <<>>,
           NEW f \in Frames, f.id = c, NEW d, d = Append(s.down, f), d \in Seq(Frames), Len(d) <= Room,
           NEW call, NEW w, Local(r, c),
           Flows(call, Append(Stream(s, c), f), UnitsIn(s.down, c, "body") + Unit(f, c, "body"), r, w)
    PROVE  LET t == Sends(s, c, r, d) IN Adds(s, t, c) /\ Serving(t, c, call, w)
<1> DEFINE t == Sends(s, c, r, d)
<1>1. t.req[c] = r /\ t.down = d
  BY DEF Serves, Server, Sends
<1> HIDE DEF t
<1>2. t.down = Append(s.down, f) /\ t.req[c].pending = <<>>
  BY <1>1
<1>3. /\ Stream(t, c) = Append(Stream(s, c), f)
      /\ UnitsIn(t.down, c, "body") = UnitsIn(s.down, c, "body") + Unit(f, c, "body")
  BY <1>2, StreamSends
<1>4. Adds(s, t, c)
  BY <1>1, AddsOne
<1>5. Serving(t, c, call, w)
  BY <1>1, <1>3 DEF Serving, Flowing
<1> QED BY <1>4, <1>5 DEF t

(* The head of an answer is sent before its body.                          *)
LEMMA SendStartServes ==
    ASSUME NEW s, Serves(s), NEW c \in Call, Underway(s.req[c]), s.req[c].phase = "running",
           s.req[c].started \/ s.req[c].pos = 0, NEW call, NEW w, Serving(s, c, call, w)
    PROVE  LET t == SendStart(s, c) IN
           /\ Adds(s, t, c) /\ Serving(t, c, call, w) /\ Underway(t.req[c])
           /\ agent.open /\ Sendable(t) => t.req[c].started
<1>1. CASE s.req[c].started \/ ~agent.open \/ ~Sendable(s)
  BY <1>1, AddsNone DEF SendStart
<1>2. CASE ~(s.req[c].started \/ ~agent.open \/ ~Sendable(s))
  <2> DEFINE q == s.req[c]
             seq == q.seq + 1
             f == Frame(c, "start", q.seq, DataOf(q.try, 0, 0))
             d == Append(s.down, f)
             r == [q EXCEPT !.seq = seq, !.started = TRUE, !.retry = FALSE]
             t == Sends(s, c, r, d)
  <2>1. s \in Server /\ q \in Reqs
    BY DEF Serves, Server
  <2>2. q.seq \in Nat /\ q.try \in Nat /\ seq \in Nat /\ 0 \in Nat /\ "start" \in Kinds
    BY <2>1 DEF Reqs, Kinds
  <2>3. /\ f \in Frames /\ f.id = c /\ f.kind = "start" /\ f.data.try = q.try
        /\ f.data.from = 0 /\ f.data.n = 0
    <3> DEFINE n == q.seq
               try == q.try
    <3>1. n \in Nat /\ try \in Nat /\ 0 \in Nat /\ "start" \in Kinds
      BY <2>2
    <3> HIDE DEF n, try
    <3>2. LET g == Frame(c, "start", n, DataOf(try, 0, 0)) IN
             /\ g \in Frames /\ g.id = c /\ g.kind = "start"
             /\ g.data.try = try /\ g.data.from = 0 /\ g.data.n = 0
      BY <3>1, FrameParts
    <3> QED BY <3>2 DEF n, try
  <2>4. SendStart(s, c) = t
    <3>1. StartFrame(s, c) = f
      BY DEF StartFrame
    <3> HIDE DEF f
    <3>2. SendStart(s, c) = [s EXCEPT !.down = d, !.req[c].seq = seq,
                                      !.req[c].started = TRUE, !.req[c].retry = FALSE]
      BY <1>2, <3>1 DEF SendStart
    <3> HIDE DEF d
    <3>3. [s EXCEPT !.down = d, !.req[c].seq = seq,
                    !.req[c].started = TRUE, !.req[c].retry = FALSE]
          = [s EXCEPT !.down = d, !.req[c] = r]
      BY <2>1 DEF Server
    <3> QED BY <3>2, <3>3 DEF Sends
  <2>5. d \in Seq(Frames) /\ Len(d) <= Room
    <3> HIDE DEF f
    <3> QED BY <1>2, <2>3, AppendFits
  <2>6. /\ Local(q, c) /\ Underway(q) /\ q.phase = "running" /\ ~q.started /\ q.pos = 0 /\ q = s.req[c]
        /\ Flows(call, Stream(s, c), UnitsIn(s.down, c, "body"), q, w)
    BY <1>2 DEF Serving, Flowing
  <2>7. d = Append(s.down, f)
    OBVIOUS
  <2> HIDE DEF q, seq, f, d
  <2>8. /\ r \in Reqs /\ r.pending = q.pending /\ r.phase = q.phase /\ r.finished = q.finished
        /\ r.credit = q.credit /\ r.try = q.try /\ r.retried = q.retried /\ r.started
        /\ r.cancelled = q.cancelled /\ r.pos = q.pos /\ ~r.retry
    BY <2>1, <2>2 DEF Reqs
  <2> HIDE DEF r
  <2>9. Local(r, c)
    BY <2>6, <2>8 DEF Local, Ran
  <2>10. Unit(f, c, "body") = 0 /\ UnitsIn(s.down, c, "body") + 0 = UnitsIn(s.down, c, "body")
    BY <2>3, StreamIsSeq DEF Unit
  <2>11. Flows(call, Append(Stream(s, c), f), UnitsIn(s.down, c, "body") + Unit(f, c, "body"), r, w)
    <3>1. ASSUME call.st = "open"
          PROVE  Chain(call, Append(Stream(s, c), f)) /\ Tip(call, Append(Stream(s, c), f), r)
      <4>1. Stream(s, c) = <<>> /\ ~call.started
        BY <2>6, <3>1 DEF Flows, Live
      <4>2. Chain(call, Append(<<>>, f))
        BY <2>3, <4>1, ChainBegins
      <4>3. Tip(call, Append(Stream(s, c), f), r)
        <5>1. Stream(s, c) \in Seq(Frames)
          BY StreamIsSeq
        <5>2. f.kind \in Goes /\ f.data.try = r.try /\ f.data.from + f.data.n = r.pos
          BY <2>3, <2>6, <2>8 DEF Goes
        <5> QED BY <2>3, <5>1, <5>2, TipOfLast
      <4> QED BY <4>1, <4>2, <4>3
    <3> QED BY <2>6, <2>8, <2>10, <3>1 DEF Flows
  <2>12. r.pending = <<>> /\ s.req[c].pending = <<>>
    BY <2>6, <2>8 DEF Underway
  <2>13. Adds(s, t, c) /\ Serving(t, c, call, w)
    BY <2>3, <2>5, <2>7, <2>8, <2>9, <2>11, <2>12, SendsServes
  <2>14. t.req[c] = r
    BY <2>5, <2>8, WithSend
  <2> HIDE DEF t
  <2>15. Underway(t.req[c]) /\ t.req[c].started
    BY <2>6, <2>8, <2>14 DEF Underway
  <2> QED BY <2>4, <2>13, <2>15
<1> QED BY <1>1, <1>2

(* req_send of a piece of the body: what is sent is taken from the credit. *)
LEMMA SendBodyServes ==
    ASSUME NEW s, Serves(s), NEW c \in Call, NEW n \in Nat, Underway(s.req[c]),
           s.req[c].phase = "running", s.req[c].credit >= n,
           agent.open /\ Sendable(s) => s.req[c].started,
           NEW call, NEW w, Heard(call, w), Serving(s, c, call, w)
    PROVE  Adds(s, SendBody(s, c, n), c) /\ Serving(SendBody(s, c, n), c, call, w)
<1> DEFINE q == s.req[c]
<1>1. s \in Server /\ q \in Reqs /\ q = s.req[c]
  BY DEF Serves, Server
<1>2. q.seq \in Nat /\ q.try \in Nat /\ q.pos \in Nat /\ q.credit \in Int
  BY <1>1 DEF Reqs
<1>3. /\ Local(q, c) /\ Underway(q) /\ q.phase = "running" /\ q.credit >= n
      /\ Flows(call, Stream(s, c), UnitsIn(s.down, c, "body"), q, w)
  BY DEF Serving, Flowing
<1>4. CASE ~agent.open
  <2> DEFINE r == [q EXCEPT !.phase = "done", !.result = "failed"]
  <2>1. SendBody(s, c, n) = [s EXCEPT !.req[c] = r]
    BY <1>1, <1>4 DEF SendBody, Server
  <2>2. /\ r \in Reqs /\ r.pending = q.pending /\ r.phase = "done" /\ r.finished = q.finished
        /\ r.credit = q.credit /\ r.try = q.try /\ r.retried = q.retried /\ r.started = q.started
        /\ r.cancelled = q.cancelled /\ r.pos = q.pos /\ r.retry = q.retry /\ r.result = "failed"
        /\ r.rejected = q.rejected /\ r.held = q.held /\ r.status = q.status
    BY <1>1 DEF Reqs
  <2> HIDE DEF q, r
  <2>3. Ran(r)
    BY <1>3, <2>2 DEF Local, Ran, IsHeld, AsksRenewal
  <2>4. Local(r, c)
    BY <1>3, <2>2, <2>3 DEF Local
  <2>5. Flows(call, Stream(s, c), UnitsIn(s.down, c, "body"), r, w)
    BY <1>3, <2>2 DEF Flows, Tip, Live
  <2>6. r.pending = s.req[c].pending
    BY <1>1, <2>2
  <2> QED BY <2>1, <2>2, <2>4, <2>5, <2>6, ReqServes
<1>5. CASE agent.open /\ ~Sendable(s)
  <2> DEFINE r == [q EXCEPT !.paused = TRUE]
             t == [s EXCEPT !.req[c] = r]
             u == [t EXCEPT !.want = TRUE]
  <2>1. SendBody(s, c, n) = u
    BY <1>1, <1>5 DEF SendBody, Server
  <2>2. /\ r \in Reqs /\ r.pending = q.pending /\ r.phase = q.phase /\ r.finished = q.finished
        /\ r.credit = q.credit /\ r.try = q.try /\ r.retried = q.retried /\ r.started = q.started
        /\ r.cancelled = q.cancelled /\ r.pos = q.pos /\ r.retry = q.retry /\ r.result = q.result
        /\ r.rejected = q.rejected /\ r.held = q.held /\ r.status = q.status
    BY <1>1 DEF Reqs
  <2> HIDE DEF q, r
  <2>3. Ran(r)
    BY <1>3, <2>2 DEF Local, Ran, IsHeld, AsksRenewal
  <2>4. Local(r, c)
    BY <1>3, <2>2, <2>3 DEF Local
  <2>5. Flows(call, Stream(s, c), UnitsIn(s.down, c, "body"), r, w)
    BY <1>3, <2>2 DEF Flows, Tip, Live
  <2>6. r.pending = s.req[c].pending
    BY <1>1, <2>2
  <2>7. Adds(s, t, c) /\ Serving(t, c, call, w) /\ Serves(t)
    BY <2>2, <2>4, <2>5, <2>6, ReqServes, WithReq DEF Touches
  <2> HIDE DEF t
  <2>8. u.req = t.req /\ u.down = t.down
    BY <2>7 DEF Serves, Server
  <2>9. Adds(s, u, c) /\ Serving(u, c, call, w)
    BY <2>7, <2>8 DEF Adds, Serving, Flowing, Stream
  <2> QED BY <2>1, <2>9
<1>6. CASE agent.open /\ Sendable(s)
  <2> DEFINE f == Frame(c, "body", q.seq, DataOf(q.try, q.pos, n))
             d == Append(s.down, f)
             seq == q.seq + 1
             credit == q.credit - n
             pos == q.pos + n
             r == [q EXCEPT !.seq = seq, !.credit = credit, !.pos = pos]
             b == UnitsIn(s.down, c, "body")
             S == Stream(s, c)
  <2>1. seq \in Nat /\ credit \in Int /\ pos \in Nat /\ credit >= 0
    BY <1>2, <1>3
  <2>2. /\ f \in Frames /\ f.id = c /\ f.kind = "body" /\ f.data.try = q.try
        /\ f.data.from = q.pos /\ f.data.n = n
    <3> DEFINE k == q.seq
               try == q.try
               from == q.pos
    <3>1. k \in Nat /\ try \in Nat /\ from \in Nat /\ "body" \in Kinds
      BY <1>2 DEF Kinds
    <3> HIDE DEF k, try, from
    <3>2. LET g == Frame(c, "body", k, DataOf(try, from, n)) IN
             /\ g \in Frames /\ g.id = c /\ g.kind = "body"
             /\ g.data.try = try /\ g.data.from = from /\ g.data.n = n
      BY <3>1, FrameParts
    <3> QED BY <3>2 DEF k, try, from
  <2>3. SendBody(s, c, n) = Sends(s, c, r, d)
    <3>1. /\ [q EXCEPT !.seq = seq].credit = q.credit
          /\ [q EXCEPT !.seq = seq, !.credit = credit].pos = q.pos
      BY <1>1 DEF Reqs
    <3> QED
      BY <1>6, <3>1 DEF SendBody, Sends
  <2>4. q.started
    BY <1>6
  <2> HIDE DEF f
  <2>5. d \in Seq(Frames) /\ Len(d) <= Room /\ d = Append(s.down, f)
    BY <1>6, <2>2, AppendFits
  <2>6. credit + n = q.credit /\ pos = q.pos + n
    BY <1>2
  <2> HIDE DEF d, seq, credit, pos, q
  <2>7. /\ r \in Reqs /\ r.pending = q.pending /\ r.phase = q.phase /\ r.finished = q.finished
        /\ r.credit = credit /\ r.try = q.try /\ r.retried = q.retried /\ r.started = q.started
        /\ r.cancelled = q.cancelled /\ r.pos = pos /\ r.retry = q.retry
    BY <1>1, <2>1 DEF Reqs
  <2> HIDE DEF r
  <2>8. Local(r, c)
    BY <1>3, <2>1, <2>4, <2>7 DEF Local, Ran
  <2>9. Unit(f, c, "body") = n /\ b \in Nat /\ S \in Seq(Frames)
    BY <2>2, StreamIsSeq DEF Unit
  <2>10. ASSUME call.st = "open" PROVE Chain(call, S) /\ Tip(call, S, q) /\ q.credit + b + w = Window
    BY <1>3, <2>4, <2>10 DEF Flows, Live
  <2>11. call.st # "open" => q.credit + w <= Window
    BY <1>3 DEF Flows
  <2> HIDE DEF b, S
  <2>12. ASSUME call.st = "open"
         PROVE  Chain(call, Append(S, f)) /\ Tip(call, Append(S, f), r) /\ r.credit + (b + n) + w = Window
    <3>1. Chain(call, Append(S, f))
      BY <2>2, <2>9, <2>10, <2>12, ChainGoesOn
    <3>2. f.kind \in Goes /\ f.data.try = r.try /\ f.data.from + f.data.n = r.pos
      BY <2>2, <2>6, <2>7 DEF Goes
    <3>3. Tip(call, Append(S, f), r)
      BY <2>2, <2>9, <3>2, TipOfLast
    <3>4. r.credit + (b + n) + w = Window
      <4>1. r.credit = credit /\ r.credit \in Int /\ q.credit \in Int /\ q.credit = r.credit + n
        BY <1>2, <2>1, <2>6, <2>7
      <4>2. r.credit + (b + n) = q.credit + b
        BY <2>9, <4>1
      <4> QED BY <2>10, <2>12, <4>2
    <3> QED BY <3>1, <3>3, <3>4
  <2>13. call.st # "open" => r.credit + w <= Window
    <3>1. w \in Nat /\ Window \in Nat
      BY TransportAssumption DEF Heard
    <3> QED BY <1>2, <2>1, <2>6, <2>7, <2>11, <3>1
  <2>14. Flows(call, Append(S, f), b + Unit(f, c, "body"), r, w)
    BY <1>3, <2>4, <2>7, <2>9, <2>12, <2>13 DEF Flows
  <2>15. r.pending = <<>> /\ s.req[c].pending = <<>>
    BY <1>1, <1>3, <2>7 DEF Underway
  <2>16. Adds(s, Sends(s, c, r, d), c) /\ Serving(Sends(s, c, r, d), c, call, w)
    BY <2>2, <2>5, <2>7, <2>8, <2>14, <2>15, SendsServes DEF b, S
  <2> QED BY <2>3, <2>16
<1> QED BY <1>4, <1>5, <1>6

(* req_write_cb.                                                           *)
LEMMA ReqWriteServes ==
    ASSUME NEW s, Serves(s), NEW c \in Call, NEW n \in 1 .. Chunk,
           s.req[c].phase = "running", Shape(s.req[c]),
           AsksRenewal(s.req[c]) => s.req[c].rejected \/ s.req[c].started,
           NEW call, NEW w, Heard(call, w), Serving(s, c, call, w)
    PROVE  Adds(s, ReqWrite(s, c, n), c) /\ Serving(ReqWrite(s, c, n), c, call, w)
<1> DEFINE q == s.req[c]
<1>1. s \in Server /\ q \in Reqs /\ n \in Nat /\ q = s.req[c]
  BY TransportAssumption DEF Serves, Server
<1>2. q.pos + n \in Nat /\ q.pos \in Nat /\ q.credit \in Int
  BY <1>1 DEF Reqs
<1>3. /\ q.pending = <<>> /\ ~q.finished /\ ~q.cancelled /\ Ran(q) /\ Local(q, c)
      /\ q.phase = "running" /\ Flows(call, Stream(s, c), UnitsIn(s.down, c, "body"), q, w)
  BY DEF Shape, Local, Serving, Flowing
<1>4. Underway(q)
  BY <1>3 DEF Underway, Local, Live
<1>5. CASE ~q.started /\ IsHeld(q)
  <2> DEFINE pos == q.pos + n
             r == [q EXCEPT !.pos = pos]
  <2>1. ReqWrite(s, c, n) = [s EXCEPT !.req[c] = r]
    BY <1>1, <1>5 DEF ReqWrite, Server
  <2>2. pos \in Nat /\ q.rejected /\ ~q.started /\ IsHeld(q)
    BY <1>2, <1>5 DEF IsHeld
  <2> HIDE DEF q, pos
  <2>3. /\ r \in Reqs /\ r.pending = q.pending /\ r.phase = q.phase /\ r.finished = q.finished
        /\ r.credit = q.credit /\ r.try = q.try /\ r.retried = q.retried /\ r.started = q.started
        /\ r.cancelled = q.cancelled /\ r.retry = q.retry /\ r.result = q.result
        /\ r.rejected = q.rejected /\ r.held = q.held /\ r.status = q.status
    BY <1>1, <2>2 DEF Reqs
  <2> HIDE DEF r
  <2>4. Ran(r)
    BY <1>3, <2>2, <2>3 DEF Ran, IsHeld, AsksRenewal
  <2>5. Local(r, c)
    BY <1>3, <2>3, <2>4 DEF Local
  <2>6. Flows(call, Stream(s, c), UnitsIn(s.down, c, "body"), r, w)
    BY <1>3, <2>2, <2>3 DEF Flows
  <2>7. r.pending = s.req[c].pending
    BY <1>1, <2>3
  <2> QED BY <2>1, <2>3, <2>5, <2>6, <2>7, ReqServes
<1>6. CASE ~(~q.started /\ IsHeld(q)) /\ q.credit < n
  <2> DEFINE r == [q EXCEPT !.paused = TRUE]
  <2>1. ReqWrite(s, c, n) = [s EXCEPT !.req[c] = r]
    BY <1>1, <1>6 DEF ReqWrite, Server
  <2> HIDE DEF q
  <2>2. /\ r \in Reqs /\ r.pending = q.pending /\ r.phase = q.phase /\ r.finished = q.finished
        /\ r.credit = q.credit /\ r.try = q.try /\ r.retried = q.retried /\ r.started = q.started
        /\ r.cancelled = q.cancelled /\ r.pos = q.pos /\ r.retry = q.retry /\ r.result = q.result
        /\ r.rejected = q.rejected /\ r.held = q.held /\ r.status = q.status
    BY <1>1 DEF Reqs
  <2> HIDE DEF r
  <2>3. Ran(r)
    BY <1>3, <2>2 DEF Ran, IsHeld, AsksRenewal
  <2>4. Local(r, c)
    BY <1>3, <2>2, <2>3 DEF Local
  <2>5. Flows(call, Stream(s, c), UnitsIn(s.down, c, "body"), r, w)
    BY <1>3, <2>2 DEF Flows, Tip
  <2>6. r.pending = s.req[c].pending
    BY <1>1, <2>2
  <2> QED BY <2>1, <2>2, <2>4, <2>5, <2>6, ReqServes
<1>7. CASE ~(~q.started /\ IsHeld(q)) /\ ~(q.credit < n)
  <2> DEFINE t == SendStart(s, c)
  <2>1. ReqWrite(s, c, n) = SendBody(t, c, n)
    BY <1>3, <1>7 DEF ReqWrite
  <2>2. q.started \/ q.pos = 0
    BY <1>2, <1>3, <1>7 DEF Ran
  <2>3. /\ Adds(s, t, c) /\ Serving(t, c, call, w) /\ Underway(t.req[c])
        /\ agent.open /\ Sendable(t) => t.req[c].started
    BY <1>3, <1>4, <2>2, SendStartServes
  <2>4. Serves(t) /\ Alike(t.req[c], q)
    BY SendStartTouches DEF Touches
  <2> HIDE DEF t
  <2>5. t.req[c].phase = "running" /\ t.req[c].credit >= n
    BY <1>1, <1>2, <1>3, <1>7, <2>4 DEF Alike
  <2>6. Adds(t, SendBody(t, c, n), c) /\ Serving(SendBody(t, c, n), c, call, w)
    BY <1>1, <2>3, <2>4, <2>5, SendBodyServes
  <2>7. Adds(s, SendBody(t, c, n), c)
    BY <2>3, <2>6, AddsOn
  <2> QED BY <2>1, <2>6, <2>7
<1> QED BY <1>5, <1>6, <1>7

(* fyai_curl_transfer_finish.                                              *)
LEMMA FinishServes ==
    ASSUME NEW s, Serves(s), NEW c \in Call, NEW result \in {"ok", "failed"},
           s.req[c].phase = "running", result = "ok" => s.req[c].pos = s.req[c].len,
           NEW call, NEW w, Serving(s, c, call, w)
    PROVE  LET t == [s EXCEPT !.req[c].phase = "done", !.req[c].result = result]
           IN Adds(s, t, c) /\ Serving(t, c, call, w)
<1> DEFINE q == s.req[c]
           r == [q EXCEPT !.phase = "done", !.result = result]
           t == [s EXCEPT !.req[c] = r]
<1>1. s \in Server /\ q \in Reqs /\ q = s.req[c]
  BY DEF Serves, Server
<1>2. /\ Ran(q) /\ Local(q, c) /\ q.phase = "running" /\ (result = "ok" => q.pos = q.len)
      /\ Flows(call, Stream(s, c), UnitsIn(s.down, c, "body"), q, w)
  BY DEF Local, Serving, Flowing
<1>3. [s EXCEPT !.req[c].phase = "done", !.req[c].result = result] = t
  BY <1>1 DEF Server
<1> HIDE DEF q
<1>4. /\ r \in Reqs /\ r.pending = q.pending /\ r.phase = "done" /\ r.finished = q.finished
      /\ r.credit = q.credit /\ r.try = q.try /\ r.retried = q.retried /\ r.started = q.started
      /\ r.cancelled = q.cancelled /\ r.pos = q.pos /\ r.retry = q.retry /\ r.result = result
      /\ r.rejected = q.rejected /\ r.held = q.held /\ r.status = q.status /\ r.len = q.len
  BY <1>1 DEF Reqs
<1> HIDE DEF r
<1>5. Ran(r)
  BY <1>2, <1>4 DEF Ran, IsHeld, AsksRenewal
<1>6. Local(r, c)
  BY <1>2, <1>4, <1>5 DEF Local
<1>7. Flows(call, Stream(s, c), UnitsIn(s.down, c, "body"), r, w)
  BY <1>2, <1>4 DEF Flows, Tip, Live
<1>8. r.pending = s.req[c].pending
  BY <1>1, <1>4
<1>9. Adds(s, t, c) /\ Serving(t, c, call, w)
  BY <1>4, <1>6, <1>7, <1>8, ReqServes
<1> QED BY <1>3, <1>9

(* chan_dispatch.  The credit of the frame m is no longer on the way.      *)
LEMMA ChanDispatchServes ==
    ASSUME NEW s, Serves(s), NEW m \in Asks, Shape(s.req[m.id]), login.tag \in Nat,
           NEW u \in ChanDispatch(s, m), NEW call, NEW w, NEW v, Heard(call, v),
           w = Unit(m, m.id, "credit") + v, Serving(s, m.id, call, w),
           m.kind = "request" =>
               /\ s.req[m.id].phase = "none" /\ Stream(s, m.id) = <<>> /\ v = 0
               /\ call.st = "open" => ~call.started
    PROVE  Adds(s, u, m.id) /\ Serving(u, m.id, call, v)
<1> DEFINE c == m.id
           p == s.req[c]
           n == m.data.n
           q == [NoReq EXCEPT !.phase = "parked", !.credit = Window]
           b == UnitsIn(s.down, c, "body")
<1>1. c \in Call /\ m.kind \in {"request", "cancel", "credit"} /\ n \in Nat /\ c = m.id
  BY DEF Asks, Frames
<1> HIDE DEF c
<1>2. s \in Server /\ p \in Reqs /\ Shape(p) /\ p.credit \in Int /\ p = s.req[c] /\ v \in Nat
  BY <1>1 DEF Serves, Server, Reqs, Heard, c
<1>3. Serving(s, c, call, w) /\ Local(p, c) /\ Flows(call, Stream(s, c), b, p, w)
  BY DEF Serving, Flowing, c
<1>4. b \in Nat /\ Window \in Nat
  BY <1>1, StreamIsSeq, TransportAssumption
<1>5. m.kind # "credit" => w = v
  <2>1. m.kind # "credit" => Unit(m, c, "credit") = 0
    BY DEF Unit
  <2> QED BY <1>2, <2>1 DEF c
<1>6. m.kind = "credit" => w = n + v
  <2>1. m.kind = "credit" => Unit(m, c, "credit") = n
    BY DEF Unit, c
  <2> QED BY <2>1 DEF c
<1>7. CASE m.kind = "request"
  <2> DEFINE t == [s EXCEPT !.req[c] = q]
  <2>1. p.phase = "none" /\ Stream(s, c) = <<>> /\ v = 0 /\ (call.st = "open" => ~call.started)
    BY <1>7 DEF c
  <2>2. u \in ReqRun(t, c, FALSE)
    BY <1>7, <2>1 DEF ChanDispatch, Present, c
  <2>3. /\ q \in Reqs /\ q.phase = "parked" /\ q.credit = Window /\ q.pending = <<>> /\ ~q.finished
        /\ ~q.cancelled /\ ~q.started /\ ~q.retried /\ q.try = 0 /\ q.pending = NoReq.pending
    <3> DEFINE o == NoReq
               k == Window
    <3>1. /\ o \in Reqs /\ o.pending = <<>> /\ ~o.finished /\ ~o.cancelled /\ ~o.started /\ ~o.retried
          /\ o.try = 0
      BY NoReqFacts DEF NoReq
    <3>2. k \in Int
      BY <1>4
    <3> HIDE DEF o, k
    <3>3. /\ q = [o EXCEPT !.phase = "parked", !.credit = k]
          /\ o = NoReq /\ k = Window
      BY DEF o, k
    <3> HIDE DEF q
    <3>4. /\ q \in Reqs /\ q.phase = "parked" /\ q.credit = k /\ q.pending = o.pending /\ ~q.finished
          /\ ~q.cancelled /\ ~q.started /\ ~q.retried /\ q.try = 0
      BY <3>1, <3>2, <3>3 DEF Reqs
    <3> QED BY <3>1, <3>3, <3>4
  <2>4. p = NoReq
    BY <1>3, <2>1 DEF Local
  <2> HIDE DEF q
  <2>5. t.req[c] = q /\ t.down = s.down /\ Serves(t)
    BY <1>1, <2>3, WithReq DEF Touches
  <2> HIDE DEF t
  <2>6. Stream(t, c) = <<>>
    BY <1>2, <2>1, <2>3, <2>4, <2>5 DEF Stream
  <2>7. UnitsIn(t.down, c, "body") = 0
    BY <1>1, <2>5, <2>6, StreamNone
  <2>8. Fresh(q)
    BY <1>4, <2>3 DEF Fresh, Underway, Unrun, Live
  <2>9. Chain(call, <<>>)
    BY ChainOfNone
  <2>10. Flowing(t, c, call, v)
    BY <1>4, <2>1, <2>3, <2>5, <2>6, <2>7, <2>9 DEF Flowing, Flows
  <2>11. Adds(t, u, c) /\ Serving(u, c, call, v)
    BY <1>1, <2>2, <2>5, <2>8, <2>10, ReqRunServes
  <2>12. Adds(s, t, c)
    BY <2>5, AddsNone
  <2>13. Adds(s, u, c)
    BY <2>11, <2>12, AddsOn
  <2> QED BY <2>11, <2>13 DEF c
<1>8. CASE m.kind = "cancel"
  <2>1. u = IF Present(s, c) THEN ReqCancel(s, c) ELSE s
    BY <1>8 DEF ChanDispatch, c
  <2>2. Serving(s, c, call, v)
    BY <1>3, <1>5, <1>8
  <2>3. CASE Present(s, c)
    <3>1. Adds(s, u, c) /\ Serving(u, c, call, v)
      BY <1>1, <1>2, <2>1, <2>2, <2>3, ReqCancelServes
    <3> QED BY <3>1 DEF c
  <2>4. CASE ~Present(s, c)
    BY <2>1, <2>2, <2>4, AddsNone DEF c
  <2> QED BY <2>3, <2>4
<1>9. CASE m.kind = "credit"
  <2> DEFINE credit == p.credit + n
             r == [p EXCEPT !.credit = credit]
             t == [s EXCEPT !.req[c] = r]
  <2>1. u = IF Present(s, c) THEN ReqResume([s EXCEPT !.req[c].credit = @ + m.data.n], c) ELSE s
    BY <1>9 DEF ChanDispatch, c
  <2>2. [s EXCEPT !.req[c].credit = @ + m.data.n] = t
    BY <1>1, <1>2 DEF Server
  <2>3. credit \in Int /\ credit = p.credit + n
    BY <1>1, <1>2
  <2>4. CASE ~Present(s, c)
    <3>1. u = s /\ p.phase = "none"
      BY <2>1, <2>4 DEF Present
    <3>2. Flows(call, Stream(s, c), b, p, v)
      BY <1>3, <3>1 DEF Flows, Live
    <3>3. Adds(s, u, c) /\ Serving(u, c, call, v)
      BY <1>3, <3>1, <3>2, AddsNone DEF Serving, Flowing
    <3> QED BY <3>3 DEF c
  <2>5. CASE Present(s, c)
    <3>1. p.phase # "none" /\ u = ReqResume(t, c)
      BY <2>1, <2>2, <2>5 DEF Present
    <3> HIDE DEF credit, p
    <3>2. /\ r \in Reqs /\ r.pending = p.pending /\ r.phase = p.phase /\ r.finished = p.finished
          /\ r.credit = credit /\ r.try = p.try /\ r.retried = p.retried /\ r.started = p.started
          /\ r.cancelled = p.cancelled /\ r.pos = p.pos /\ r.retry = p.retry /\ r.result = p.result
          /\ r.rejected = p.rejected /\ r.held = p.held /\ r.status = p.status /\ r.len = p.len
          /\ r.paused = p.paused
      BY <1>2, <2>3 DEF Reqs
    <3> HIDE DEF r
    <3>3. Local(r, c)
      <4>1. credit >= 0
        BY <1>1, <1>2, <1>3, <2>3 DEF Local
      <4>2. p.phase \in {"running", "done"} => Ran(r)
        BY <1>3, <3>2 DEF Local, Ran, IsHeld, AsksRenewal
      <4>3. p.phase = "parked" => Unrun(r)
        BY <1>3, <3>2 DEF Local, Unrun
      <4> QED BY <1>3, <3>1, <3>2, <4>1, <4>2, <4>3 DEF Local
    <3>4. Flows(call, Stream(s, c), b, r, v)
      <4>1. w = n + v
        BY <1>6, <1>9
      <4>2. credit + b + v = p.credit + b + w /\ credit + v = p.credit + w
        <5> HIDE DEF n, b
        <5> DEFINE k == p.credit
        <5>1. k \in Int /\ n \in Nat /\ b \in Nat /\ v \in Nat
          BY <1>1, <1>2, <1>4
        <5>2. credit = k + n
          BY <2>3
        <5> HIDE DEF k
        <5>3. (k + n) + b + v = k + b + (n + v) /\ (k + n) + v = k + (n + v)
          BY <5>1
        <5>4. credit + b + v = k + b + w /\ credit + v = k + w
          BY <4>1, <5>2, <5>3
        <5> QED BY <5>4 DEF k
      <4> QED BY <1>3, <3>1, <3>2, <4>2 DEF Flows, Tip
    <3>5. r.pending = s.req[c].pending
      BY <1>2, <3>2
    <3>6. Adds(s, t, c) /\ Serving(t, c, call, v)
      BY <1>1, <3>2, <3>3, <3>4, <3>5, ReqServes
    <3>7. Serves(t) /\ t.req[c] = r
      BY <1>1, <3>2, WithReq DEF Touches
    <3>8. Shape(r)
      BY <1>2, <3>2 DEF Shape
    <3> HIDE DEF t
    <3>9. Adds(t, u, c) /\ Serving(u, c, call, v)
      BY <1>1, <3>1, <3>6, <3>7, <3>8, ReqResumeServes
    <3>10. Adds(s, u, c)
      BY <3>6, <3>9, AddsOn
    <3> QED BY <3>9, <3>10 DEF c
  <2> QED BY <2>4, <2>5
<1> QED BY <1>1, <1>7, <1>8, <1>9

-------------------------------------------------------------------------------
(* The answers of all calls.                                               *)

Requested(u, c) == \E i \in 1 .. Len(u) : u[i].kind = "request" /\ u[i].id = c

OneRequest(u, c) ==
    \A i, j \in 1 .. Len(u) :
       u[i].kind = "request" /\ u[i].id = c /\ u[j].kind = "request" /\ u[j].id = c => i = j

(* The credit that the agent has or has sent.                              *)
Carried(call, u, c) == call.unreported + UnitsIn(u, c, "credit")

(* Nothing has come of a call whose request is not read.                   *)
Unborn(call, u, s, c) ==
    /\ s.req[c].phase = "none" /\ Stream(s, c) = <<>>
    /\ Carried(call, u, c) = 0
    /\ call.st = "open" => ~call.started

Flow(a, u, s, c) ==
    LET call == a.call[c] IN
    /\ ~call.got.torn
    /\ call.unreported < CreditStep
    /\ call.st # "open" => call.unreported = 0
    /\ ~a.open => call.st # "open"
    /\ call.st = "open" /\ ~call.started => call.got.n = 0
    /\ call.st = "idle" => call = NewCall /\ ~Requested(u, c)
    /\ call.st = "idle" \/ Requested(u, c) => Unborn(call, u, s, c)
    /\ OneRequest(u, c)
    /\ Serving(s, c, call, Carried(call, u, c))

Whole ==
    /\ \A c \in Call : Flow(agent, up, srv, c)
    /\ srv.chan = "closed" => up = <<>> /\ \A c \in Call : srv.req[c] = NoReq
    /\ login.tag \in 1 .. MaxTag

(* For the call c, u is v.                                                 *)
Same(u, v, c) ==
    /\ UnitsIn(u, c, "credit") = UnitsIn(v, c, "credit")
    /\ Requested(u, c) => Requested(v, c)
    /\ OneRequest(v, c) => OneRequest(u, c)

(* The frames of the agent are frames.                                     *)
LEMMA AsksAreFrames ==
    ASSUME NEW u \in Seq(Asks)
    PROVE  u \in Seq(Frames)
<1>1. Asks = Frames \cap {f \in Frames : f.kind \in {"request", "cancel", "credit"}}
  BY DEF Asks
<1> QED BY <1>1, SeqOfPart

(* The first frame is read.                                                *)
LEMMA ReadFacts ==
    ASSUME NEW u \in Seq(Asks), u # <<>>, NEW c
    PROVE  /\ UnitsIn(u, c, "credit") = Unit(Head(u), c, "credit") + UnitsIn(Tail(u), c, "credit")
           /\ Requested(Tail(u), c) => Requested(u, c)
           /\ OneRequest(u, c) => OneRequest(Tail(u), c)
           /\ Head(u).kind = "request" /\ Head(u).id = c =>
                 Requested(u, c) /\ (OneRequest(u, c) => ~Requested(Tail(u), c))
           /\ UnitsIn(Tail(u), c, "credit") \in Nat
<1> DEFINE n == Len(u)
           t == Tail(u)
           m == Head(u)
<1>1. u \in Seq(Frames)
  BY AsksAreFrames
<1>2. UnitsIn(u, c, "credit") = Unit(m, c, "credit") + UnitsIn(t, c, "credit")
  BY <1>1, UnitsTail
<1>3. /\ n \in Nat /\ n > 0 /\ t \in Seq(Frames) /\ Len(t) = n - 1 /\ m = u[1]
      /\ \A i \in 1 .. n - 1 : t[i] = u[i + 1]
  BY <1>1
<1> HIDE DEF n, t, m
<1>4. UnitsIn(t, c, "credit") \in Nat
  BY <1>3, UnitsAreNat
<1>5. ASSUME NEW i \in 1 .. Len(t) PROVE i + 1 \in 1 .. n /\ i + 1 # 1 /\ t[i] = u[i + 1]
  BY <1>3
<1>6. 1 \in 1 .. n
  BY <1>3
<1>7. Requested(t, c) => Requested(u, c)
  BY <1>5 DEF Requested, n
<1>8. ASSUME OneRequest(u, c) PROVE OneRequest(t, c)
  <2> SUFFICES ASSUME NEW i \in 1 .. Len(t), NEW j \in 1 .. Len(t),
                      t[i].kind = "request", t[i].id = c, t[j].kind = "request", t[j].id = c
               PROVE  i = j
    BY DEF OneRequest
  <2>1. i + 1 = j + 1
    BY <1>5, <1>8 DEF OneRequest, n
  <2> QED BY <1>3, <2>1
<1>9. ASSUME m.kind = "request", m.id = c
      PROVE  Requested(u, c) /\ (OneRequest(u, c) => ~Requested(t, c))
  <2>1. Requested(u, c)
    BY <1>3, <1>6, <1>9 DEF Requested, n
  <2>2. ASSUME OneRequest(u, c), Requested(t, c) PROVE FALSE
    <3>1. PICK i \in 1 .. Len(t) : t[i].kind = "request" /\ t[i].id = c
      BY <2>2 DEF Requested
    <3> QED BY <1>3, <1>5, <1>6, <1>9, <2>2, <3>1 DEF OneRequest, n
  <2> QED BY <2>1, <2>2
<1> QED BY <1>2, <1>4, <1>7, <1>8, <1>9 DEF t, m

(* A frame is added.                                                       *)
LEMMA AskedFacts ==
    ASSUME NEW u \in Seq(Asks), NEW m \in Asks, NEW c
    PROVE  /\ UnitsIn(Append(u, m), c, "credit") = UnitsIn(u, c, "credit") + Unit(m, c, "credit")
           /\ m.id # c \/ m.kind # "request" =>
                 /\ Requested(Append(u, m), c) => Requested(u, c)
                 /\ OneRequest(u, c) => OneRequest(Append(u, m), c)
           /\ ~Requested(u, c) => OneRequest(Append(u, m), c)
           /\ UnitsIn(u, c, "credit") \in Nat
<1> DEFINE n == Len(u)
           t == Append(u, m)
<1>1. u \in Seq(Frames) /\ m \in Frames
  BY AsksAreFrames DEF Asks
<1>2. UnitsIn(t, c, "credit") = UnitsIn(u, c, "credit") + Unit(m, c, "credit")
  BY <1>1, UnitsAppend
<1>3. /\ n \in Nat /\ Len(t) = n + 1 /\ t[n + 1] = m /\ \A i \in 1 .. n : t[i] = u[i]
  BY AppendProperties
<1> HIDE DEF n, t
<1>4. UnitsIn(u, c, "credit") \in Nat
  BY <1>1, UnitsAreNat
<1>5. ASSUME NEW i \in 1 .. Len(t) PROVE (i \in 1 .. n /\ t[i] = u[i]) \/ (i = n + 1 /\ t[i] = m)
  BY <1>3
<1>6. ASSUME m.id # c \/ m.kind # "request" PROVE Requested(t, c) => Requested(u, c)
  BY <1>5, <1>6 DEF Requested, n
<1>7. ASSUME m.id # c \/ m.kind # "request" PROVE OneRequest(u, c) => OneRequest(t, c)
  BY <1>5, <1>7 DEF OneRequest, n
<1>8. ASSUME ~Requested(u, c) PROVE OneRequest(t, c)
  BY <1>5, <1>8 DEF Requested, OneRequest, n
<1> QED BY <1>2, <1>4, <1>6, <1>7, <1>8 DEF t

-------------------------------------------------------------------------------
(* Steps of the transport.                                                 *)

(* A call that a step leaves alone.                                        *)
LEMMA FlowStays ==
    ASSUME NEW a, NEW u, NEW s, NEW c, Flow(a, u, s, c),
           NEW b, NEW v, NEW t, b.call[c] = a.call[c], b.open = a.open, Same(v, u, c),
           t.req[c] = s.req[c], Filter(t.down, FramesOf(c)) = Filter(s.down, FramesOf(c)),
           UnitsIn(t.down, c, "body") = UnitsIn(s.down, c, "body")
    PROVE  Flow(b, v, t, c)
<1> DEFINE call == a.call[c]
<1>1. Stream(t, c) = Stream(s, c)
  BY DEF Stream
<1>2. Carried(call, v, c) = Carried(call, u, c)
  BY DEF Carried, Same
<1>3. Serving(t, c, call, Carried(call, v, c))
  BY <1>1, <1>2 DEF Flow, Serving, Flowing
<1>4. Unborn(call, u, s, c) => Unborn(call, v, t, c)
  BY <1>1, <1>2 DEF Unborn
<1> HIDE DEF call
<1>5. b.call[c] = call /\ a.call[c] = call
  BY DEF call
<1> QED BY <1>3, <1>4, <1>5 DEF Flow, Same

(* A call is heard as long as it has a channel.                            *)
LEMMA FlowHeard ==
    ASSUME IInv, Whole, NEW c \in Call
    PROVE  LET call == agent.call[c] IN
           /\ Heard(call, Carried(call, up, c)) /\ Flow(agent, up, srv, c)
           /\ Serving(srv, c, call, Carried(call, up, c))
           /\ UnitsIn(up, c, "credit") \in Nat /\ call.unreported \in Nat
<1> DEFINE call == agent.call[c]
<1>1. call \in Made /\ up \in Seq(Asks)
  BY DEF IInv, Typed, Client
<1>2. up \in Seq(Frames)
  BY <1>1, AsksAreFrames
<1>3. UnitsIn(up, c, "credit") \in Nat
  BY <1>2, UnitsAreNat
<1>4. call.unreported \in Nat
  BY <1>1 DEF Made
<1>5. Carried(call, up, c) \in Nat
  BY <1>3, <1>4 DEF Carried
<1>6. Flow(agent, up, srv, c)
  BY DEF Whole
<1> QED BY <1>1, <1>3, <1>4, <1>5, <1>6 DEF Flow, Heard

(* A handler of the request c.  A request frame of c is read, or c is      *)
(* there, or nothing is done.                                              *)
LEMMA ServerFlows ==
    ASSUME IInv, Whole, NEW c \in Call, NEW s, Serves(s), s.req = srv.req, s.down = srv.down,
           s.chan = srv.chan, srv.chan # "closed", Touches(s, srv', c), Adds(s, srv', c),
           UNCHANGED <<agent, login>>,
           up' = up \/ (up # <<>> /\ up' = Tail(up) /\ Head(up).id = c),
           Serving(srv', c, agent.call[c], Carried(agent.call[c], up', c)),
           \/ srv.req[c].phase # "none"
           \/ srv'.req = srv.req /\ srv'.down = srv.down
           \/ up # <<>> /\ up' = Tail(up) /\ Head(up).id = c /\ Head(up).kind = "request"
    PROVE  Whole'
<1>1. up \in Seq(Asks)
  BY DEF IInv, Typed
<1>2. ASSUME NEW d \in Call, d # c PROVE Same(up', up, d)
  <2>1. CASE up' = up
    BY <2>1 DEF Same
  <2>2. CASE up # <<>> /\ up' = Tail(up) /\ Head(up).id = c
    <3>1. Unit(Head(up), d, "credit") = 0
      BY <1>2, <2>2 DEF Unit
    <3> DEFINE x == UnitsIn(up, d, "credit")
               y == UnitsIn(Tail(up), d, "credit")
    <3>2. /\ x = Unit(Head(up), d, "credit") + y /\ y \in Nat
          /\ Requested(Tail(up), d) => Requested(up, d)
          /\ OneRequest(up, d) => OneRequest(Tail(up), d)
      BY <1>1, <2>2, ReadFacts
    <3> HIDE DEF x, y
    <3>3. y = x
      BY <3>1, <3>2
    <3> QED BY <2>2, <3>2, <3>3 DEF Same, x, y
  <2> QED BY <2>1, <2>2
<1>3. ASSUME NEW d \in Call, d # c PROVE Flow(agent', up', srv', d)
  <2>1. Flow(agent, up, srv, d)
    BY DEF Whole
  <2>2. srv'.req[d] = srv.req[d]
    BY <1>3 DEF Touches
  <2>3. /\ Filter(srv'.down, FramesOf(d)) = Filter(srv.down, FramesOf(d))
        /\ UnitsIn(srv'.down, d, "body") = UnitsIn(srv.down, d, "body")
    BY <1>3, AddsOther
  <2>4. agent'.call[d] = agent.call[d] /\ agent'.open = agent.open
    OBVIOUS
  <2>5. Same(up', up, d)
    BY <1>2, <1>3
  <2> QED BY <2>1, <2>2, <2>3, <2>4, <2>5, FlowStays
<1>4. Flow(agent', up', srv', c)
  <2> DEFINE call == agent.call[c]
             x == UnitsIn(up, c, "credit")
             y == UnitsIn(up', c, "credit")
  <2>1. Flow(agent, up, srv, c) /\ x \in Nat /\ call.unreported \in Nat
    BY FlowHeard
  <2>2. /\ Requested(up', c) => Requested(up, c)
        /\ OneRequest(up, c) => OneRequest(up', c)
        /\ y \in Nat /\ y <= x
    <3>1. CASE up' = up
      BY <2>1, <3>1
    <3>2. CASE up # <<>> /\ up' = Tail(up) /\ Head(up).id = c
      <4>1. /\ x = Unit(Head(up), c, "credit") + y
            /\ Requested(up', c) => Requested(up, c)
            /\ OneRequest(up, c) => OneRequest(up', c)
            /\ y \in Nat
        BY <1>1, <3>2, ReadFacts
      <4>2. Unit(Head(up), c, "credit") \in Nat
        <5>1. Head(up) \in Frames
          BY <1>1, <3>2, HeadTailProperties DEF Asks
        <5> QED BY <5>1, UnitIsNat
      <4> HIDE DEF x, y
      <4> QED BY <4>1, <4>2
    <3> QED BY <3>1, <3>2
  <2>3. ASSUME call.st = "idle" \/ Requested(up', c) PROVE Unborn(call, up', srv', c)
    <3>1. Unborn(call, up, srv, c)
      BY <2>1, <2>2, <2>3 DEF Flow
    <3>2. ~(up # <<>> /\ up' = Tail(up) /\ Head(up).id = c /\ Head(up).kind = "request")
      <4> SUFFICES ASSUME up # <<>>, up' = Tail(up), Head(up).id = c, Head(up).kind = "request"
                   PROVE  FALSE
        OBVIOUS
      <4>1. Requested(up, c) /\ (OneRequest(up, c) => ~Requested(up', c))
        BY <1>1, ReadFacts
      <4> QED BY <2>1, <2>3, <4>1 DEF Flow
    <3>3. srv'.req = srv.req /\ srv'.down = srv.down
      BY <3>1, <3>2 DEF Unborn
    <3>4. Stream(srv', c) = Stream(srv, c)
      BY <3>3 DEF Stream
    <3>5. Carried(call, up', c) = 0
      <4>1. call.unreported + x = 0
        BY <3>1 DEF Unborn, Carried
      <4> HIDE DEF x, y
      <4>2. call.unreported + y = 0
        BY <2>1, <2>2, <4>1
      <4> QED BY <4>2 DEF Carried, y
    <3> QED BY <3>1, <3>3, <3>4, <3>5 DEF Unborn
  <2>4. agent'.call[c] = call /\ agent'.open = agent.open /\ agent.call[c] = call
    OBVIOUS
  <2>5. Serving(srv', c, call, Carried(call, up', c))
    OBVIOUS
  <2> HIDE DEF call, x, y
  <2> QED BY <2>1, <2>2, <2>3, <2>4, <2>5 DEF Flow
<1>5. srv'.chan # "closed"
  BY DEF Touches
<1>6. \A d \in Call : Flow(agent', up', srv', d)
  BY <1>3, <1>4
<1>7. login'.tag \in 1 .. MaxTag
  BY DEF Whole
<1> QED BY <1>5, <1>6, <1>7 DEF Whole

(* What a channel has, and what is left of it, when c is served.           *)
LEMMA ChanReadableFlows ==
    ASSUME IInv, Whole, ChanReadable
    PROVE  Whole'
<1> DEFINE m == Head(up)
           c == m.id
           call == agent.call[c]
           v == Carried(call, Tail(up), c)
           w == Carried(call, up, c)
<1>1. m \in Asks /\ up \in Seq(Asks) /\ up # <<>> /\ up' = Tail(up) /\ UNCHANGED <<agent, login>>
      /\ srv' \in ChanDispatch(srv, m) /\ srv.chan = "open"
  BY HeadTailProperties DEF ChanReadable, IInv, Typed
<1>2. c \in Call /\ c \notin srv.work.left /\ m.kind \in {"request", "cancel", "credit"}
  BY <1>1 DEF Asks, Frames, ChanReadable, Between
<1>3. Settled(srv, c) /\ Serves(srv) /\ login.tag \in Nat
  BY <1>2, SettledBetween
<1>4. /\ Heard(call, w) /\ Flow(agent, up, srv, c) /\ Serving(srv, c, call, w)
      /\ UnitsIn(up, c, "credit") \in Nat /\ call.unreported \in Nat
  BY <1>2, FlowHeard
<1>5. /\ UnitsIn(up, c, "credit") = Unit(m, c, "credit") + UnitsIn(Tail(up), c, "credit")
      /\ m.kind = "request" => Requested(up, c)
      /\ UnitsIn(Tail(up), c, "credit") \in Nat
  BY <1>1, ReadFacts
<1>6. Unit(m, c, "credit") \in Nat
  BY <1>1, UnitIsNat DEF Asks
<1>7. w = Unit(m, c, "credit") + v /\ v \in Nat
  <2> DEFINE x == UnitsIn(up, c, "credit")
             y == UnitsIn(Tail(up), c, "credit")
             z == Unit(m, c, "credit")
             k == call.unreported
  <2>1. x = z + y /\ x \in Nat /\ y \in Nat /\ z \in Nat /\ k \in Nat /\ w = k + x /\ v = k + y
    BY <1>4, <1>5, <1>6 DEF Carried
  <2> HIDE DEF x, y, z, k, w, v
  <2>2. w = z + v /\ v \in Nat
    BY <2>1
  <2> QED BY <2>2 DEF z
<1>8. Touches(srv, srv', c)
  BY <1>1, <1>2, <1>3, ChanDispatchSettles
<1>9. Unborn(call, up, srv, c) => w = 0 /\ srv.req[c].phase = "none" /\ Stream(srv, c) = <<>>
                                  /\ (call.st = "open" => ~call.started)
  BY DEF Unborn
<1>10. m.kind = "request" => Unborn(call, up, srv, c)
  BY <1>4, <1>5 DEF Flow
<1>11. \/ srv.req[c].phase # "none"
       \/ srv'.req = srv.req /\ srv'.down = srv.down
       \/ m.kind = "request"
  BY <1>1, <1>2 DEF ChanDispatch, Present
<1>12. Heard(call, v)
  BY <1>4, <1>7 DEF Heard
<1> HIDE DEF m, w, v, call
<1>13. m.kind = "request" =>
         /\ srv.req[m.id].phase = "none" /\ Stream(srv, m.id) = <<>> /\ v = 0
         /\ call.st = "open" => ~call.started
  BY <1>6, <1>7, <1>9, <1>10
<1>14. w = Unit(m, m.id, "credit") + v /\ Serving(srv, m.id, call, w) /\ Shape(srv.req[m.id])
  BY <1>3, <1>4, <1>7 DEF Settled
<1>15. Adds(srv, srv', m.id) /\ Serving(srv', m.id, call, v)
  BY <1>1, <1>3, <1>12, <1>13, <1>14, ChanDispatchServes
<1>16. Serving(srv', c, agent.call[c], Carried(agent.call[c], up', c))
  BY <1>1, <1>15 DEF call, v
<1> QED BY <1>1, <1>2, <1>3, <1>8, <1>11, <1>15, <1>16, ServerFlows DEF m

(* The steps in which only the channel, and not its requests, changes.     *)
LEMMA ChanFlows ==
    ASSUME Whole, srv'.req = srv.req, srv'.down = srv.down, UNCHANGED <<agent, up>>,
           srv'.chan = "closed" => srv.chan = "closed", login'.tag \in 1 .. MaxTag
    PROVE  Whole'
<1>1. ASSUME NEW c \in Call PROVE Flow(agent', up', srv', c)
  <2>1. Flow(agent, up, srv, c)
    BY DEF Whole
  <2>2. Same(up', up, c)
    BY DEF Same
  <2> QED BY <2>1, <2>2, FlowStays
<1> QED BY <1>1 DEF Whole

(* curl delivers some of the body.                                         *)
LEMMA CurlWriteFlows ==
    ASSUME IInv, Whole, NEW c \in Call, CurlWrite(c)
    PROVE  Whole'
<1> DEFINE call == agent.call[c]
           w == Carried(call, up, c)
<1>1. Settled(srv, c) /\ Serves(srv) /\ srv.req[c].phase = "running" /\ ~srv.req[c].paused
      /\ UNCHANGED <<agent, up, login>> /\ srv.chan # "closed"
  BY SettledBetween DEF CurlWrite, Between
<1>2. PICK n \in 1 .. Chunk :
        srv' \in {ReqWrite(s, c, n) : s \in IF srv.req[c].started THEN {srv} ELSE ReqRejected(srv, c)}
  BY DEF CurlWrite
<1>3. PICK s : /\ srv' = ReqWrite(s, c, n)
               /\ (s = srv /\ srv.req[c].started) \/ s \in ReqRejected(srv, c)
  BY <1>2
<1>4. Touches(srv, s, c) /\ Alike(s.req[c], srv.req[c])
  BY <1>1, <1>3, ReqRejectedTouches DEF Touches, Alike
<1>5. Serves(s) /\ s.req[c].phase = "running" /\ ~s.req[c].paused /\ Shape(s.req[c])
  BY <1>1, <1>4 DEF Touches, Alike, Settled, Shape
<1>6. Touches(s, srv', c)
  BY <1>3, <1>5, ReqWriteSettles
<1>7. Heard(call, w) /\ Serving(srv, c, call, w)
  BY FlowHeard
<1> HIDE DEF call, w
<1>8. /\ Adds(srv, s, c) /\ Serving(s, c, call, w)
      /\ AsksRenewal(s.req[c]) => s.req[c].rejected \/ s.req[c].started
  <2>1. CASE s = srv /\ srv.req[c].started
    BY <1>1, <1>7, <2>1, AddsNone
  <2>2. CASE s \in ReqRejected(srv, c)
    BY <1>1, <1>7, <2>2, ReqRejectedServes
  <2> QED BY <1>3, <2>1, <2>2
<1>9. Adds(s, srv', c) /\ Serving(srv', c, call, w)
  BY <1>3, <1>5, <1>7, <1>8, ReqWriteServes
<1>10. Adds(srv, srv', c) /\ Touches(srv, srv', c)
  BY <1>1, <1>4, <1>6, <1>8, <1>9, AddsOn, TouchesOn
<1>11. Serving(srv', c, agent.call[c], Carried(agent.call[c], up', c))
  BY <1>1, <1>9 DEF call, w
<1>12. srv.req[c].phase # "none"
  BY <1>1
<1> QED BY <1>1, <1>10, <1>11, <1>12, ServerFlows

(* fyai_curl_transfer_finish.                                              *)
LEMMA CurlFinishFlows ==
    ASSUME IInv, Whole, NEW c \in Call, NEW result \in {"ok", "failed"}, CurlFinish(c, result)
    PROVE  Whole'
<1> DEFINE r == [srv.req[c] EXCEPT !.phase = "done", !.result = result]
           call == agent.call[c]
           w == Carried(call, up, c)
<1>1. srv.req[c] \in Reqs /\ Serves(srv) /\ srv.req[c].phase = "running"
      /\ UNCHANGED <<agent, up, login>> /\ srv.chan # "closed"
      /\ (result = "ok" => srv.req[c].pos = srv.req[c].len)
      /\ srv' = [srv EXCEPT !.req[c].phase = "done", !.req[c].result = result]
  BY SettledBetween DEF CurlFinish, Between
<1>2. r \in Reqs
  BY <1>1 DEF Reqs
<1>3. srv' = [srv EXCEPT !.req[c] = r]
  BY <1>1 DEF Serves, Server
<1> HIDE DEF r, call, w
<1>4. Touches(srv, srv', c)
  <2>1. Serves(srv)
    BY <1>1
  <2>2. Touches(srv, [srv EXCEPT !.req[c] = r], c)
    BY <1>2, <2>1, WithReq
  <2> QED BY <1>3, <2>2
<1>5. Heard(call, w) /\ Serving(srv, c, call, w)
  BY FlowHeard DEF call, w
<1>6. Adds(srv, srv', c) /\ Serving(srv', c, call, w)
  BY <1>1, <1>5, FinishServes
<1>7. Serving(srv', c, agent.call[c], Carried(agent.call[c], up', c))
  BY <1>1, <1>6 DEF call, w
<1>8. srv.req[c].phase # "none"
  BY <1>1
<1> QED BY <1>1, <1>4, <1>6, <1>7, <1>8, ServerFlows

(* fyai_curl_notify.                                                       *)
LEMMA CurlNotifyFlows ==
    ASSUME IInv, Whole, NEW c \in Call, CurlNotify(c)
    PROVE  Whole'
<1> DEFINE call == agent.call[c]
           w == Carried(call, up, c)
<1>1. Settled(srv, c) /\ Serves(srv) /\ login.tag \in Nat /\ srv.req[c].phase = "done"
      /\ UNCHANGED <<agent, up, login>> /\ srv.chan # "closed" /\ srv' \in ReqComplete(srv, c)
  BY SettledBetween DEF CurlNotify, Between
<1>2. Touches(srv, srv', c) /\ Shape(srv.req[c])
  BY <1>1, ReqCompleteSettles DEF Settled
<1>3. Heard(call, w) /\ Serving(srv, c, call, w)
  BY FlowHeard
<1> HIDE DEF call, w
<1>4. Adds(srv, srv', c) /\ Serving(srv', c, call, w)
  BY <1>1, <1>2, <1>3, ReqCompleteServes
<1>5. Serving(srv', c, agent.call[c], Carried(agent.call[c], up', c))
  BY <1>1, <1>4 DEF call, w
<1>6. srv.req[c].phase # "none"
  BY <1>1
<1> QED BY <1>1, <1>2, <1>4, <1>5, <1>6, ServerFlows

(* The next request of a handler that goes through them.                   *)
LEMMA WorkOnFlows ==
    ASSUME IInv, Whole, NEW c \in Call, WorkOn(c)
    PROVE  Whole'
<1> DEFINE work == WorkFor(srv.work.op, srv.work.left \ {c})
           s == [srv EXCEPT !.work = work]
           call == agent.call[c]
           w == Carried(call, up, c)
<1>1. srv \in Server /\ srv.req[c] \in Reqs /\ Settled(srv, c) /\ Serves(srv) /\ login.tag \in Nat
  BY SettledBetween DEF Serves
<1>2. work \in [op : {"none", "resume", "run"}, left : SUBSET Call]
  BY <1>1 DEF WorkFor, NoWork, Server
<1>3. c \in srv.work.left /\ srv.work.op \in {"resume", "run"} /\ UNCHANGED <<agent, up, login>>
  BY <1>1 DEF WorkOn, Server, IInv, Waits
<1> HIDE DEF work
<1>4. /\ Serves(s) /\ s.chan = srv.chan /\ s.want = srv.want /\ s.down = srv.down
      /\ s.refresh = srv.refresh /\ s.req = srv.req
  BY <1>1, <1>2 DEF Serves, Server
<1>5. Heard(call, w) /\ Serving(srv, c, call, w)
  BY FlowHeard
<1>6. Serving(s, c, call, w)
  <2>1. Stream(s, c) = Stream(srv, c)
    BY <1>4 DEF Stream
  <2> HIDE DEF s, call, w
  <2> QED BY <1>4, <1>5, <2>1 DEF Serving, Flowing
<1> HIDE DEF call, w
<1>7. CASE srv.chan # "open"
  <2>1. srv' = [srv EXCEPT !.work = NoWork]
    BY <1>7 DEF WorkOn
  <2>2. srv'.chan = srv.chan /\ srv'.req = srv.req /\ srv'.down = srv.down
    BY <1>1, <2>1 DEF Server
  <2>3. login'.tag \in 1 .. MaxTag
    BY <1>3 DEF Whole
  <2> QED BY <1>3, <2>2, <2>3, ChanFlows
<1>8. CASE srv.chan = "open" /\ srv.work.op = "resume"
  <2>1. srv' = ReqResume(s, c)
    BY <1>8 DEF WorkOn, s, work
  <2>2. Unsettled(s, c) /\ Shape(s.req[c])
    BY <1>1, <1>4, <1>8 DEF Unsettled, Settled, Wakes, Mine
  <2> HIDE DEF s
  <2>3. Touches(s, srv', c)
    BY <1>4, <2>1, <2>2, ReqResumeSettles
  <2>4. Adds(s, srv', c) /\ Serving(srv', c, call, w)
    BY <1>4, <1>5, <1>6, <2>1, <2>2, ReqResumeServes
  <2>5. Serving(srv', c, agent.call[c], Carried(agent.call[c], up', c))
    BY <1>3, <2>4 DEF call, w
  <2>6. \/ srv.req[c].phase # "none"
        \/ srv'.req = srv.req /\ srv'.down = srv.down
    <3>1. srv.req[c].phase = "none" => srv.req[c] = NoReq
      BY <1>5 DEF Serving, Local
    <3>2. s.req[c] = NoReq => srv' = s
      BY <2>1, NoReqFacts DEF ReqResume
    <3> QED BY <1>4, <3>1, <3>2
  <2>7. s.req = srv.req /\ s.down = srv.down /\ Serves(s) /\ s.chan = srv.chan /\ srv.chan # "closed"
    BY <1>4, <1>8
  <2> QED BY <1>3, <2>3, <2>4, <2>5, <2>6, <2>7, ServerFlows
<1>9. CASE srv.chan = "open" /\ srv.work.op = "run"
  <2>1. srv' \in ReqRun(s, c, TRUE)
    BY <1>9 DEF WorkOn, s, work
  <2>2. srv.req[c].phase = "parked"
    BY <1>3, <1>9 DEF IInv, Waits, Mine
  <2>3. Runnable(s.req[c])
    BY <1>1, <1>4, <2>2 DEF Runnable, Settled, Shape
  <2> HIDE DEF s
  <2>4. Touches(s, srv', c)
    BY <1>1, <1>4, <2>1, <2>3, ReqRunSettles
  <2>5. Fresh(s.req[c]) /\ Flowing(s, c, call, w)
    BY <1>4, <1>6, <2>2, <2>3 DEF Serving, Local, Fresh, Underway, Live, Runnable
  <2>6. Adds(s, srv', c) /\ Serving(srv', c, call, w)
    BY <1>1, <1>4, <1>5, <2>1, <2>5, ReqRunServes
  <2>7. Serving(srv', c, agent.call[c], Carried(agent.call[c], up', c))
    BY <1>3, <2>6 DEF call, w
  <2>8. srv.req[c].phase # "none" /\ srv.chan # "closed"
    BY <1>9, <2>2
  <2> QED BY <1>3, <1>4, <2>4, <2>6, <2>7, <2>8, ServerFlows
<1> QED BY <1>3, <1>7, <1>8, <1>9

(* chan_eof, chan_writable and the end of a refresh: no request changes.   *)
LEMMA ChanStepFlows ==
    ASSUME IInv, Whole, ChanEof \/ ChanWritable \/ RefreshDone
    PROVE  Whole'
<1>1. srv \in Server /\ UNCHANGED <<agent, up>>
  BY DEF IInv, Typed, Serves, ChanEof, ChanWritable, RefreshDone
<1>2. login.tag \in 1 .. MaxTag
  BY DEF Whole
<1>3. login'.tag \in 1 .. MaxTag
  BY <1>2, TransportAssumption DEF ChanEof, ChanWritable, RefreshDone
<1>4. srv'.req = srv.req /\ srv'.down = srv.down /\ (srv'.chan = "closed" => srv.chan = "closed")
  BY <1>1 DEF ChanEof, ChanWritable, RefreshDone, ChanDoom, Server
<1> QED BY <1>1, <1>3, <1>4, ChanFlows

(* The login ages, or another process renews it.                           *)
LEMMA LoginFlows ==
    ASSUME IInv, Whole, LoginAges \/ LoginRenewed
    PROVE  Whole'
<1>1. UNCHANGED <<agent, up, srv>>
  BY DEF LoginAges, LoginRenewed
<1>2. login.tag \in 1 .. MaxTag /\ login \in [tag : Nat, age : {"fresh", "due", "expired"}]
  BY DEF Whole, IInv, Typed
<1>3. login'.tag \in 1 .. MaxTag
  BY <1>2, TransportAssumption DEF LoginAges, LoginRenewed
<1> QED BY <1>1, <1>3, ChanFlows

(* chan_free: what the transport has not read, or not sent, is lost.       *)
LEMMA ChanFreeFlows ==
    ASSUME IInv, Whole, srv' = ChanFree(srv), up' = <<>>, UNCHANGED <<agent, login>>
    PROVE  Whole'
<1>1. srv \in Server /\ Serves(srv)
  BY DEF IInv, Typed, Serves
<1>2. srv'.down = srv.down /\ srv'.chan = "closed" /\ \A c \in Call : srv'.req[c] = NoReq
  BY <1>1 DEF ChanFree, Server
<1>3. ASSUME NEW c \in Call PROVE Flow(agent', up', srv', c)
  <2> DEFINE call == agent.call[c]
             F == Filter(srv.down, FramesOf(c))
             P == srv.req[c].pending
             x == UnitsIn(up, c, "credit")
             y == UnitsIn(<<>>, c, "credit")
             k == call.unreported
  <2>1. Flow(agent, up, srv, c) /\ Serving(srv, c, call, Carried(call, up, c)) /\ x \in Nat /\ k \in Nat
    BY FlowHeard
  <2>2. F \in Seq(Frames) /\ P \in Seq(Frames) /\ Stream(srv, c) = F \o P
    BY <1>1, StreamIsSeq DEF Stream
  <2>3. Stream(srv', c) = F
    <3>1. srv'.req[c].pending = <<>> /\ Stream(srv', c) = F \o <<>>
      BY <1>2, NoReqFacts DEF Stream
    <3> HIDE DEF F
    <3> QED BY <2>2, <3>1, FrameLists
  <2>4. y = 0
    <3>1. <<>> \in Seq(Frames) /\ \A i \in 1 .. Len(<<>>) : FALSE
      OBVIOUS
    <3> QED BY <3>1, UnitsNone
  <2>5. Carried(call, <<>>, c) = k
    <3>1. Carried(call, <<>>, c) = k + y
      BY DEF Carried
    <3> HIDE DEF k, y
    <3> QED BY <2>1, <2>4, <3>1
  <2>6. call.st = "open" => Chain(call, F)
    <3>1. call.st = "open" => Chain(call, F \o P)
      BY <2>1, <2>2 DEF Serving, Flowing, Flows
    <3> HIDE DEF F, P, call
    <3> QED BY <2>2, <3>1, ChainPrefix
  <2>7. Serving(srv', c, call, k)
    <3>1. srv'.req[c] = NoReq /\ NoReq.phase = "none"
      BY <1>2, NoReqFacts
    <3> HIDE DEF F, k
    <3> QED BY <2>3, <2>6, <3>1, NoReqLocal DEF Serving, Flowing, Flows, Live
  <2>8. ASSUME Unborn(call, up, srv, c) PROVE Unborn(call, <<>>, srv', c)
    <3>1. F = <<>>
      <4>1. F \o P = <<>>
        BY <2>2, <2>8 DEF Unborn
      <4> HIDE DEF F, P
      <4> QED BY <2>2, <4>1
    <3>2. k = 0
      <4>1. k + x = 0
        BY <2>8 DEF Unborn, Carried
      <4> HIDE DEF k, x
      <4> QED BY <2>1, <4>1
    <3>3. srv'.req[c].phase = "none"
      BY <1>2, NoReqFacts
    <3> QED BY <2>3, <2>5, <2>8, <3>1, <3>2, <3>3 DEF Unborn
  <2>9. ~Requested(<<>>, c) /\ OneRequest(<<>>, c)
    BY DEF Requested, OneRequest
  <2>10. agent'.call[c] = call /\ agent'.open = agent.open /\ agent.call[c] = call
    OBVIOUS
  <2> HIDE DEF call, F, P, x, y, k
  <2> QED BY <2>1, <2>5, <2>7, <2>8, <2>9, <2>10 DEF Flow
<1>4. login'.tag \in 1 .. MaxTag
  BY DEF Whole
<1> QED BY <1>2, <1>3, <1>4 DEF Whole

-------------------------------------------------------------------------------
(* Steps of the agent.                                                     *)

(* The client reads the first frame, which is of the call c.               *)
LEMMA UnreadStream ==
    ASSUME NEW s, Serves(s), NEW t, t.req = s.req, s.down # <<>>, t.down = Tail(s.down),
           NEW c \in Call, Head(s.down).id = c
    PROVE  LET m == Head(s.down) IN
           /\ Stream(s, c) \in Seq(Frames) /\ Stream(s, c) # <<>> /\ Stream(s, c)[1] = m
           /\ Stream(t, c) = Tail(Stream(s, c)) /\ m \in Frames
           /\ UnitsIn(s.down, c, "body") = Unit(m, c, "body") + UnitsIn(t.down, c, "body")
           /\ UnitsIn(t.down, c, "body") \in Nat /\ Unit(m, c, "body") \in Nat
           /\ \A d : d # c =>
                 /\ Filter(t.down, FramesOf(d)) = Filter(s.down, FramesOf(d))
                 /\ UnitsIn(t.down, d, "body") = UnitsIn(s.down, d, "body")
<1> DEFINE m == Head(s.down)
           F == Filter(s.down, FramesOf(c))
           G == Filter(t.down, FramesOf(c))
           P == s.req[c].pending
<1>1. s.down \in Seq(Frames) /\ t.down \in Seq(Frames) /\ m \in Frames
  BY HeadTailProperties DEF Serves, Server
<1>2. Head(s.down) \in FramesOf(c)
  BY <1>1 DEF FramesOf
<1>3. F = <<m>> \o G
  BY <1>1, <1>2, FilterTail
<1>4. F \in Seq(Frames) /\ P \in Seq(Frames) /\ Stream(s, c) = F \o P /\ Stream(s, c) \in Seq(Frames)
  BY StreamIsSeq DEF Stream
<1>5. G \in Seq(Frames) /\ UnitsIn(t.down, c, "body") \in Nat
  BY <1>1, FrameCounts
<1>6. Stream(t, c) = G \o P
  BY DEF Stream
<1>7. UnitsIn(s.down, c, "body") = Unit(m, c, "body") + UnitsIn(t.down, c, "body")
  BY <1>1, UnitsTail
<1>8. Unit(m, c, "body") \in Nat
  BY <1>1, UnitIsNat
<1>9. ASSUME NEW d, d # c
      PROVE  /\ Filter(t.down, FramesOf(d)) = Filter(s.down, FramesOf(d))
             /\ UnitsIn(t.down, d, "body") = UnitsIn(s.down, d, "body")
  <2>1. Head(s.down) \notin FramesOf(d)
    BY <1>9 DEF FramesOf
  <2>2. Filter(t.down, FramesOf(d)) = Filter(s.down, FramesOf(d))
    BY <1>1, <2>1, FilterTail
  <2>3. UnitsIn(s.down, d, "body") = Unit(m, d, "body") + UnitsIn(t.down, d, "body")
    BY <1>1, UnitsTail
  <2>4. Unit(m, d, "body") = 0
    BY <1>9 DEF Unit
  <2> DEFINE x == UnitsIn(t.down, d, "body")
             y == UnitsIn(s.down, d, "body")
             z == Unit(m, d, "body")
  <2>5. x \in Nat
    BY <1>1, FrameCounts
  <2> HIDE DEF x, y, z
  <2>6. y = x
    <3>1. y = z + x /\ z = 0
      BY <2>3, <2>4 DEF x, y, z
    <3> QED BY <2>5, <3>1
  <2> QED BY <2>2, <2>6 DEF x, y
<1> HIDE DEF m, F, G, P
<1>10. Stream(s, c) # <<>> /\ Stream(s, c)[1] = m /\ Stream(t, c) = Tail(Stream(s, c))
  <2>1. F # <<>> /\ F[1] = m /\ Tail(F) = G
    BY <1>1, <1>3, <1>5
  <2>2. F \o P # <<>> /\ (F \o P)[1] = F[1] /\ Tail(F \o P) = Tail(F) \o P
    BY <1>4, <2>1
  <2> QED BY <1>4, <1>6, <2>1, <2>2
<1> QED BY <1>1, <1>4, <1>5, <1>7, <1>8, <1>9, <1>10 DEF m

(* A frame of another call, or one that neither asks nor reports.          *)
LEMMA AsideSame ==
    ASSUME NEW u \in Seq(Asks), NEW m \in Asks, NEW c, m.id # c \/ m.kind = "cancel"
    PROVE  Same(Append(u, m), u, c)
<1> DEFINE x == UnitsIn(Append(u, m), c, "credit")
           y == UnitsIn(u, c, "credit")
           z == Unit(m, c, "credit")
<1>1. /\ x = y + z /\ y \in Nat
      /\ Requested(Append(u, m), c) => Requested(u, c)
      /\ OneRequest(u, c) => OneRequest(Append(u, m), c)
  BY AskedFacts
<1>2. z = 0
  BY DEF Unit
<1> HIDE DEF x, y, z
<1>3. x = y
  BY <1>1, <1>2
<1> QED BY <1>1, <1>3 DEF Same, x, y

(* What a step of the agent for the call c leaves alone.                   *)
LEMMA ClientFlows ==
    ASSUME IInv, Whole, NEW c \in Call,
           agent'.open = agent.open, \A d \in Call : d # c => agent'.call[d] = agent.call[d],
           srv'.req = srv.req, srv'.chan = srv.chan, UNCHANGED login,
           \/ srv'.down = srv.down
           \/ srv.down # <<>> /\ srv'.down = Tail(srv.down) /\ Head(srv.down).id = c,
           \/ up' = up
           \/ srv.chan # "closed" /\ \E m \in Asks : m.id = c /\ up' = Append(up, m),
           Flow(agent', up', srv', c)
    PROVE  Whole'
<1>1. up \in Seq(Asks) /\ Serves(srv)
  BY DEF IInv, Typed
<1>2. ASSUME NEW d \in Call, d # c PROVE Flow(agent', up', srv', d)
  <2>1. Flow(agent, up, srv, d)
    BY DEF Whole
  <2>2. Same(up', up, d)
    <3>1. CASE up' = up
      BY <3>1 DEF Same
    <3>2. CASE \E m \in Asks : m.id = c /\ up' = Append(up, m)
      BY <1>1, <1>2, <3>2, AsideSame
    <3> QED BY <3>1, <3>2
  <2>3. /\ Filter(srv'.down, FramesOf(d)) = Filter(srv.down, FramesOf(d))
        /\ UnitsIn(srv'.down, d, "body") = UnitsIn(srv.down, d, "body")
    <3>1. CASE srv'.down = srv.down
      BY <3>1
    <3>2. CASE srv.down # <<>> /\ srv'.down = Tail(srv.down) /\ Head(srv.down).id = c
      BY <1>1, <1>2, <3>2, UnreadStream
    <3> QED BY <3>1, <3>2
  <2>4. agent'.call[d] = agent.call[d] /\ srv'.req[d] = srv.req[d]
    BY <1>2
  <2> QED BY <2>1, <2>2, <2>3, <2>4, FlowStays
<1>3. \A d \in Call : Flow(agent', up', srv', d)
  BY <1>2
<1>4. srv'.chan = "closed" => up' = <<>> /\ \A d \in Call : srv'.req[d] = NoReq
  BY DEF Whole
<1>5. login'.tag \in 1 .. MaxTag
  BY DEF Whole
<1> QED BY <1>3, <1>4, <1>5 DEF Whole

(* A call that ends, or has ended, owes nothing and is owed nothing.       *)
LEMMA EndedFlow ==
    ASSUME NEW c \in Call, NEW a, NEW u \in Seq(Asks), NEW s, Serves(s), Flow(a, u, s, c),
           a.call[c] \in Made,
           NEW b, b.call[c].st # "open", b.call[c].unreported = 0, ~b.call[c].got.torn,
           b.call[c].st = "idle" => b.call[c] = a.call[c],
           NEW v, Same(v, u, c),
           NEW t, t.req = s.req, Stream(s, c) = <<>> => Stream(t, c) = <<>>
    PROVE  Flow(b, v, t, c)
<1> DEFINE call == a.call[c]
           new == b.call[c]
           x == UnitsIn(u, c, "credit")
           y == UnitsIn(s.down, c, "body")
           z == UnitsIn(t.down, c, "body")
           k == call.unreported
           q == s.req[c].credit
<1>1. x \in Nat /\ y \in Nat /\ k \in Nat /\ q \in Int /\ Window \in Nat /\ CreditStep \in Nat \ {0}
  <2>1. u \in Seq(Frames) /\ s.down \in Seq(Frames) /\ q \in Int
    BY AsksAreFrames DEF Serves, Server, Reqs
  <2>2. x \in Nat /\ y \in Nat
    BY <2>1, FrameCounts
  <2> QED BY <2>1, <2>2, TransportAssumption DEF Made
<1>2. Carried(call, u, c) = k + x /\ UnitsIn(v, c, "credit") = x /\ Carried(new, v, c) = 0 + x
  BY DEF Carried, Same
<1>3. Serving(s, c, call, k + x)
  BY <1>2 DEF Flow
<1>4. Serving(t, c, new, x)
  <2>1. Flows(call, Stream(s, c), y, s.req[c], k + x) /\ Local(s.req[c], c)
    BY <1>3 DEF Serving, Flowing
  <2>2. s.req[c].phase # "none" => IF call.st = "open" THEN q + y + (k + x) = Window
                                                      ELSE q + (k + x) <= Window
    BY <2>1 DEF Flows
  <2> HIDE DEF call, x, y, k, q
  <2>3. s.req[c].phase # "none" => q + x <= Window
    BY <1>1, <2>2
  <2> HIDE DEF new
  <2>4. new.st # "open"
    BY DEF new
  <2>5. Flows(new, Stream(t, c), z, s.req[c], x)
    BY <2>3, <2>4 DEF Flows, q
  <2>6. t.req[c] = s.req[c]
    OBVIOUS
  <2> QED BY <2>1, <2>5, <2>6 DEF Serving, Flowing, z
<1>5. ASSUME Unborn(call, u, s, c) PROVE Unborn(new, v, t, c)
  <2>1. k + x = 0
    BY <1>2, <1>5 DEF Unborn
  <2> HIDE DEF k, x
  <2>2. 0 + x = 0
    BY <1>1, <2>1
  <2> QED BY <1>2, <1>5, <2>2 DEF Unborn
<1>6. Carried(new, v, c) = x
  BY <1>1, <1>2
<1> HIDE DEF call, x, y, z, k, q
<1>7. 0 < CreditStep
  BY <1>1
<1>8. call = a.call[c]
  BY DEF call
<1> HIDE DEF new
<1>9. /\ b.call[c] = new /\ new.st # "open" /\ new.unreported = 0 /\ ~new.got.torn
      /\ new.st = "idle" => new = call
  BY DEF new, call
<1> QED BY <1>4, <1>5, <1>6, <1>7, <1>8, <1>9 DEF Flow, Same

(* The end of a call, as its owner is told it.                             *)
LEMMA PastEnds ==
    ASSUME NEW call \in Made, NEW how \in Ends \ {"idle", "open"}
    PROVE  /\ Past(call, how).st = how /\ Past(call, how).unreported = 0
           /\ Past(call, how).got.torn = call.got.torn
  BY DEF Past, NewCall

(* The client ends the call c, or it has ended: of a frame it has read     *)
(* nothing is used.                                                        *)
LEMMA EndsFlows ==
    ASSUME IInv, Whole, NEW c \in Call, NEW b, b.call[c].st \notin {"open", "idle"},
           b.call[c].unreported = 0, ~b.call[c].got.torn,
           NEW v, Same(v, up, c),
           NEW t, t.req = srv.req,
           \/ t.down = srv.down
           \/ srv.down # <<>> /\ t.down = Tail(srv.down) /\ Head(srv.down).id = c
    PROVE  Flow(b, v, t, c)
<1>1. up \in Seq(Asks) /\ Serves(srv) /\ agent.call[c] \in Made
  BY DEF IInv, Typed, Client
<1>2. Flow(agent, up, srv, c)
  BY DEF Whole
<1>3. Stream(srv, c) = <<>> => Stream(t, c) = <<>>
  <2>1. CASE t.down = srv.down
    BY <2>1 DEF Stream
  <2>2. CASE srv.down # <<>> /\ t.down = Tail(srv.down) /\ Head(srv.down).id = c
    BY <1>1, <2>2, UnreadStream
  <2> QED BY <2>1, <2>2
<1> QED BY <1>1, <1>2, <1>3, EndedFlow

(* The frames that are left when k of them are read.                       *)
LEMMA UnreadLeft ==
    ASSUME IInv
    PROVE  Unread(0) = srv.down /\ (srv.down # <<>> => Unread(1) = Tail(srv.down))
<1>1. srv.down \in Seq(Frames)
  BY DEF IInv, Typed, Serves, Server
<1> QED BY <1>1 DEF Unread

(* What client_send and a handler without one leave to the transport.      *)
LEMMA ClientMoves ==
    ASSUME IInv, NEW c \in Call, NEW a, NEW k \in {0, 1},
           k = 1 => srv.down # <<>> /\ Head(srv.down).id = c, NEW m \in Asks, m.id = c,
           ClientDone(a, k) \/ ClientSend(a, k, m)
    PROVE  /\ srv'.req = srv.req /\ srv'.chan = srv.chan
           /\ \/ srv'.down = srv.down
              \/ srv.down # <<>> /\ srv'.down = Tail(srv.down) /\ Head(srv.down).id = c
           /\ \/ up' = up
              \/ srv.chan # "closed" /\ up' = Append(up, m)
           /\ k = 0 => srv'.down = srv.down
           /\ k = 1 => srv'.down = Tail(srv.down)
<1>1. srv'.req = srv.req /\ srv'.chan = srv.chan /\ srv'.down = Unread(k)
  BY DEF ClientDone, ClientSend, IInv, Typed, Serves, Server
<1>2. \/ up' = up
      \/ srv.chan # "closed" /\ up' = Append(up, m)
  BY DEF ClientDone, ClientSend
<1> QED BY <1>1, <1>2, UnreadLeft

(* What a handler of the client leaves of the agent.                       *)
LEMMA ClientLeaves ==
    ASSUME NEW a \in Client, NEW k, NEW m, ClientDone(a, k) \/ ClientSend(a, k, m)
    PROVE  agent'.call = a.call /\ agent'.open = a.open
  BY DEF ClientDone, ClientSend, Client

(* tcall_end, with a cancel or without.                                    *)
LEMMA EndingFlows ==
    ASSUME IInv, Whole, UNCHANGED login, NEW c \in Call, NEW how \in Ends \ {"idle", "open"},
           Open(agent, c), NEW k \in {0, 1}, k = 1 => srv.down # <<>> /\ Head(srv.down).id = c,
           NEW m \in Asks, m.id = c, m.kind = "cancel",
           LET a == TcallEnd(agent, c, how) IN ClientDone(a, k) \/ ClientSend(a, k, m)
    PROVE  Whole'
<1> DEFINE a == TcallEnd(agent, c, how)
           new == Past(agent.call[c], how)
<1>1. agent \in Client /\ agent.call[c] \in Made /\ up \in Seq(Asks) /\ how \in Ends
  BY DEF IInv, Typed, Client
<1>2. new \in Made
  BY <1>1, PastFacts
<1>3. a = [agent EXCEPT !.call[c] = new]
  BY <1>1 DEF TcallEnd, Client
<1>4. new.st = how /\ new.unreported = 0 /\ new.got.torn = agent.call[c].got.torn
  BY <1>1, PastEnds
<1> HIDE DEF new
<1>5. /\ a \in Client /\ a.open = agent.open /\ a.call[c] = new
      /\ \A d \in Call : d # c => a.call[d] = agent.call[d]
  BY <1>1, <1>2, <1>3 DEF Client
<1> HIDE DEF a
<1>6. ClientDone(a, k) \/ ClientSend(a, k, m)
  BY DEF a
<1>7. agent'.call = a.call /\ agent'.open = a.open
  BY <1>5, <1>6, ClientLeaves
<1>8. /\ srv'.req = srv.req /\ srv'.chan = srv.chan
      /\ \/ srv'.down = srv.down
         \/ srv.down # <<>> /\ srv'.down = Tail(srv.down) /\ Head(srv.down).id = c
      /\ \/ up' = up
         \/ srv.chan # "closed" /\ up' = Append(up, m)
  BY <1>6, ClientMoves
<1>9. Same(up', up, c)
  <2>1. CASE up' = up
    BY <2>1 DEF Same
  <2>2. CASE up' = Append(up, m)
    BY <1>1, <2>2, AsideSame
  <2> QED BY <1>8, <2>1, <2>2
<1>10. ~agent.call[c].got.torn
  BY DEF Whole, Flow
<1>11. Flow(agent', up', srv', c)
  <2>1. /\ agent'.call[c].st \notin {"open", "idle"} /\ agent'.call[c].unreported = 0
        /\ ~agent'.call[c].got.torn
    BY <1>4, <1>5, <1>7, <1>10
  <2> QED BY <1>8, <1>9, <2>1, EndsFlows
<1>12. /\ agent'.open = agent.open
       /\ \A d \in Call : d # c => agent'.call[d] = agent.call[d]
       /\ \/ up' = up
          \/ srv.chan # "closed" /\ \E f \in Asks : f.id = c /\ up' = Append(up, f)
  BY <1>5, <1>7, <1>8
<1> QED BY <1>8, <1>11, <1>12, ClientFlows

(* fyai_tcall_destroy.                                                     *)
LEMMA DestroyFlows ==
    ASSUME IInv, Whole, NEW c \in Call, Destroy(c)
    PROVE  Whole'
<1> DEFINE m == Frame(c, "cancel", 0, NoData)
<1>1. m \in Asks /\ m.id = c /\ m.kind = "cancel"
  <2>1. NoData \in Data
    BY FrameFacts
  <2>2. m \in Asks
    BY <2>1, AskFacts
  <2> QED BY <2>2 DEF Frame
<1>2. LET a == TcallEnd(agent, c, "freed") IN ClientDone(a, 0) \/ ClientSend(a, 0, m)
  BY DEF Destroy
<1>3. Open(agent, c) /\ UNCHANGED login /\ "freed" \in Ends \ {"idle", "open"}
  BY DEF Destroy, Ends
<1> HIDE DEF m
<1> QED BY <1>1, <1>2, <1>3, EndingFlows

(* The channel or the client is closed: every call ends.                   *)
LEMMA AllEndFlows ==
    ASSUME IInv, Whole, UNCHANGED <<up, login>>, NEW how \in Ends \ {"idle", "open"},
           agent'.call = [c \in Call |-> IF Open(agent, c) THEN Past(agent.call[c], how)
                                                            ELSE agent.call[c]],
           srv'.req = srv.req, srv'.chan = srv.chan, srv'.down = srv.down \/ srv'.down = <<>>
    PROVE  Whole'
<1>1. agent \in Client /\ up \in Seq(Asks) /\ Serves(srv)
  BY DEF IInv, Typed
<1>2. ASSUME NEW c \in Call PROVE Flow(agent', up', srv', c)
  <2>1. Flow(agent, up, srv, c) /\ agent.call[c] \in Made
    BY <1>1 DEF Whole, Client
  <2>2. Same(up', up, c)
    BY DEF Same
  <2>3. agent'.call[c] = IF agent.call[c].st = "open" THEN Past(agent.call[c], how) ELSE agent.call[c]
    BY DEF Open
  <2>4. /\ agent'.call[c].st # "open" /\ agent'.call[c].unreported = 0 /\ ~agent'.call[c].got.torn
        /\ agent'.call[c].st = "idle" => agent'.call[c] = agent.call[c]
    <3>1. ~agent.call[c].got.torn /\ (agent.call[c].st # "open" => agent.call[c].unreported = 0)
      BY <2>1 DEF Flow
    <3>2. /\ Past(agent.call[c], how).st = how /\ Past(agent.call[c], how).unreported = 0
          /\ Past(agent.call[c], how).got.torn = agent.call[c].got.torn
      BY <2>1, PastEnds
    <3> QED BY <2>3, <3>1, <3>2
  <2>5. Stream(srv, c) = <<>> => Stream(srv', c) = <<>>
    <3>1. CASE srv'.down = srv.down
      BY <3>1 DEF Stream
    <3>2. CASE srv'.down = <<>>
      <4> DEFINE F == Filter(srv.down, FramesOf(c))
                 P == srv.req[c].pending
                 E == Filter(<<>>, FramesOf(c))
      <4>1. F \in Seq(Frames) /\ P \in Seq(Frames)
        BY <1>1, StreamIsSeq
      <4>2. E = <<>>
        <5>1. <<>> \in Seq(Frames) /\ \A i \in 1 .. Len(<<>>) : FALSE
          OBVIOUS
        <5> QED BY <5>1, FilterNone
      <4>3. Stream(srv, c) = F \o P /\ Stream(srv', c) = E \o P
        BY <3>2 DEF Stream
      <4> HIDE DEF F, P, E
      <4>4. F \o P = <<>> => P = <<>>
        BY <4>1
      <4>5. P = <<>> => E \o P = <<>>
        BY <4>2
      <4> QED BY <4>3, <4>4, <4>5
    <3> QED BY <3>1, <3>2
  <2> QED BY <1>1, <2>1, <2>2, <2>4, <2>5, EndedFlow
<1>3. srv'.chan = "closed" => up' = <<>> /\ \A d \in Call : srv'.req[d] = NoReq
  BY DEF Whole
<1>4. login'.tag \in 1 .. MaxTag
  BY DEF Whole
<1> QED BY <1>2, <1>3, <1>4 DEF Whole

(* fyai_tclient_close and client_lose.                                     *)
LEMMA ClientLoseFlows ==
    ASSUME IInv, Whole, ClientClose \/ ClientEof \/ ClientError
    PROVE  Whole'
<1>1. agent \in Client /\ srv \in Server
  BY DEF IInv, Typed, Serves
<1>2. CASE ClientClose
  <2>1. /\ agent'.call = [c \in Call |-> IF Open(agent, c) THEN Past(agent.call[c], "freed")
                                                            ELSE agent.call[c]]
        /\ srv'.req = srv.req /\ srv'.chan = srv.chan /\ srv'.down = <<>>
        /\ UNCHANGED <<up, login>>
    BY <1>1, <1>2 DEF ClientClose, Client, Server
  <2> QED BY <2>1, AllEndFlows DEF Ends
<1>3. CASE ClientEof \/ ClientError
  <2>1. /\ agent'.call = [c \in Call |-> IF Open(agent, c) THEN Past(agent.call[c], "lost")
                                                            ELSE agent.call[c]]
        /\ srv'.req = srv.req /\ srv'.chan = srv.chan /\ srv'.down = srv.down
        /\ UNCHANGED <<up, login>>
    BY <1>1, <1>3 DEF ClientEof, ClientError, ClientLose, Client, Server
  <2> QED BY <2>1, AllEndFlows DEF Ends
<1> QED BY <1>2, <1>3

(* fyai_tclient_submit of a call that is made: nothing has come of it yet. *)
LEMMA BornFlow ==
    ASSUME IInv, Whole, NEW c \in Call, agent.call[c].st = "idle",
           NEW b, b.open, b.call[c] = [NewCall EXCEPT !.st = "open"],
           NEW m \in Asks, m.kind = "request", NEW t, t.req = srv.req, t.down = srv.down
    PROVE  Flow(b, Append(up, m), t, c)
<1> DEFINE new == [NewCall EXCEPT !.st = "open"]
           v == Append(up, m)
           x == UnitsIn(up, c, "credit")
           y == UnitsIn(v, c, "credit")
           z == Unit(m, c, "credit")
<1>1. up \in Seq(Asks)
  BY DEF IInv, Typed
<1>2. Flow(agent, up, srv, c) /\ Serving(srv, c, agent.call[c], Carried(agent.call[c], up, c))
  BY DEF Whole, Flow
<1>3. agent.call[c] = NewCall /\ ~Requested(up, c) /\ Unborn(agent.call[c], up, srv, c)
  BY <1>2 DEF Flow
<1>4. /\ new.st = "open" /\ ~new.started /\ ~new.got.torn /\ new.got.n = 0 /\ new.unreported = 0
      /\ NewCall.unreported = 0
  BY DEF NewCall
<1>5. x = 0
  <2>1. NewCall.unreported + x = 0
    BY <1>3 DEF Unborn, Carried
  <2> HIDE DEF x
  <2>2. NewCall.unreported = 0 /\ x \in Nat
    BY <1>1, <1>4, AskedFacts DEF x
  <2> QED BY <2>1, <2>2
<1>6. y = 0
  <2>1. y = x + z /\ z = 0
    BY <1>1, AskedFacts DEF Unit
  <2> HIDE DEF x, y, z
  <2> QED BY <1>5, <2>1
<1> HIDE DEF x
<1>7. Carried(new, v, c) = 0
  <2>1. Carried(new, v, c) = new.unreported + y
    BY DEF Carried
  <2> HIDE DEF y, new
  <2> QED BY <1>4, <1>6, <2>1
<1> HIDE DEF y, z
<1>8. OneRequest(v, c)
  BY <1>1, <1>3, AskedFacts
<1>9. srv.req[c].phase = "none" /\ Stream(srv, c) = <<>> /\ Stream(t, c) = <<>> /\ t.req[c] = srv.req[c]
  <2>1. Stream(t, c) = Stream(srv, c)
    BY DEF Stream
  <2> QED BY <1>3, <2>1 DEF Unborn
<1> HIDE DEF new, v
<1>10. Unborn(new, v, t, c)
  BY <1>4, <1>7, <1>9 DEF Unborn
<1>11. Serving(t, c, new, 0)
  <2>1. Local(srv.req[c], c)
    BY <1>2 DEF Serving
  <2>2. Chain(new, <<>>)
    BY ChainOfNone
  <2> QED BY <1>9, <2>1, <2>2 DEF Serving, Flowing, Flows, Live
<1>12. 0 < CreditStep
  BY TransportAssumption
<1>13. b.call[c] = new
  BY DEF new
<1>14. Flow(b, v, t, c)
  BY <1>4, <1>7, <1>8, <1>10, <1>11, <1>12, <1>13 DEF Flow
<1> QED BY <1>14 DEF v

(* fyai_tclient_submit.                                                    *)
LEMMA SubmitFlows ==
    ASSUME IInv, Whole, NEW c \in Call, Submit(c)
    PROVE  Whole'
<1> DEFINE m == Frame(c, "request", 0, NoData)
           made == IF srv.chan = "closed" THEN "unsent" ELSE "open"
           new == [agent.call[c] EXCEPT !.st = made]
           a == [agent EXCEPT !.call[c].st = made]
<1>1. agent \in Client /\ agent.call[c] \in Made /\ up \in Seq(Asks)
  BY DEF IInv, Typed, Client
<1>2. m \in Asks /\ m.id = c /\ m.kind = "request"
  <2>1. NoData \in Data
    BY FrameFacts
  <2>2. m \in Asks
    BY <2>1, AskFacts
  <2> QED BY <2>2 DEF Frame
<1>3. agent.call[c].st = "idle" /\ agent.open /\ ClientSend(a, 0, m) /\ UNCHANGED login
  BY DEF Submit
<1>4. agent.call[c] = NewCall
  BY <1>3 DEF Whole, Flow
<1>5. new \in Made /\ new.st = made /\ new.unreported = 0 /\ ~new.got.torn
  <2>1. made \in {"unsent", "open"}
    OBVIOUS
  <2>2. new.unreported = agent.call[c].unreported /\ new.got = agent.call[c].got /\ new.st = made
    BY <1>1 DEF Made
  <2>3. NewCall.unreported = 0 /\ ~NewCall.got.torn
    BY DEF NewCall
  <2> HIDE DEF made
  <2>4. new \in Made
    BY <1>1, <2>1 DEF Made
  <2> QED BY <1>4, <2>2, <2>3, <2>4
<1>6. a \in Client /\ a.open = agent.open /\ a.call[c] = new
      /\ \A d \in Call : d # c => a.call[d] = agent.call[d]
  BY <1>1, <1>5 DEF Client
<1>7. srv.chan # "closed" => new = [NewCall EXCEPT !.st = "open"] /\ up' = Append(up, m)
  BY <1>3, <1>4 DEF ClientSend
<1>8. srv.chan = "closed" => up' = up /\ new.st = "unsent"
  BY <1>3, <1>5 DEF ClientSend
<1> HIDE DEF m, new, a, made
<1>9. agent'.call = a.call /\ agent'.open = a.open
  BY <1>3, <1>6, ClientLeaves
<1>10. srv'.req = srv.req /\ srv'.chan = srv.chan /\ srv'.down = srv.down
  <2>1. ClientDone(a, 0) \/ ClientSend(a, 0, m)
    BY <1>3
  <2> QED BY <1>2, <2>1, ClientMoves
<1>11. Flow(agent', up', srv', c)
  <2>1. CASE srv.chan # "closed"
    <3>1. agent'.call[c] = [NewCall EXCEPT !.st = "open"] /\ agent'.open
      BY <1>3, <1>6, <1>7, <1>9, <2>1
    <3>2. Flow(agent', Append(up, m), srv', c)
      BY <1>2, <1>3, <1>10, <3>1, BornFlow
    <3> QED BY <1>7, <2>1, <3>2
  <2>2. CASE srv.chan = "closed"
    <3>1. agent'.call[c].st \notin {"open", "idle"} /\ agent'.call[c].unreported = 0
          /\ ~agent'.call[c].got.torn
      BY <1>5, <1>6, <1>8, <1>9, <2>2
    <3>2. Same(up', up, c)
      BY <1>8, <2>2 DEF Same
    <3> QED BY <1>10, <3>1, <3>2, EndsFlows
  <2> QED BY <2>1, <2>2
<1>12. /\ agent'.open = agent.open
       /\ \A d \in Call : d # c => agent'.call[d] = agent.call[d]
       /\ \/ up' = up
          \/ srv.chan # "closed" /\ \E f \in Asks : f.id = c /\ up' = Append(up, f)
  BY <1>2, <1>6, <1>7, <1>8, <1>9
<1> QED BY <1>3, <1>10, <1>11, <1>12, ClientFlows

(* Of a call that has sent its cancel no more changes.                     *)
LEMMA CancelFlow ==
    ASSUME NEW c, NEW a, NEW u, NEW s, Flow(a, u, s, c),
           NEW b, b.open = a.open, a.call[c] \in Made, a.call[c].st = "open",
           b.call[c] = [a.call[c] EXCEPT !.cancelSent = TRUE],
           NEW v, Same(v, u, c), NEW t, t.req = s.req, t.down = s.down
    PROVE  Flow(b, v, t, c)
<1> DEFINE call == a.call[c]
           new == b.call[c]
           w == Carried(call, u, c)
<1>1. /\ new.st = call.st /\ new.started = call.started /\ new.unreported = call.unreported
      /\ new.got = call.got
  BY DEF Made
<1>2. Carried(new, v, c) = w
  BY <1>1 DEF Carried, Same
<1>3. Stream(t, c) = Stream(s, c)
  BY DEF Stream
<1>4. b.call[c] = new /\ a.call[c] = call /\ call.st = "open"
  OBVIOUS
<1> HIDE DEF call, new, w
<1>5. ASSUME NEW S, Chain(call, S) PROVE Chain(new, S)
  BY <1>1, <1>5 DEF Chain, First
<1>6. ASSUME NEW S, NEW r, Tip(call, S, r) PROVE Tip(new, S, r)
  BY <1>1, <1>6 DEF Tip
<1>7. Serving(t, c, new, w)
  <2>1. Local(s.req[c], c) /\ Flows(call, Stream(s, c), UnitsIn(s.down, c, "body"), s.req[c], w)
    BY <1>4 DEF Flow, Serving, Flowing, call, w
  <2>2. Flows(new, Stream(s, c), UnitsIn(s.down, c, "body"), s.req[c], w)
    BY <1>1, <1>5, <1>6, <2>1 DEF Flows
  <2> QED BY <1>3, <2>1, <2>2 DEF Serving, Flowing
<1>8. Unborn(call, u, s, c) => Unborn(new, v, t, c)
  BY <1>1, <1>2, <1>3 DEF Unborn, w
<1> QED BY <1>1, <1>2, <1>4, <1>7, <1>8 DEF Flow, Same

(* fyai_tcall_cancel.                                                      *)
LEMMA CancelFlows ==
    ASSUME IInv, Whole, NEW c \in Call, Cancel(c)
    PROVE  Whole'
<1> DEFINE m == Frame(c, "cancel", 0, NoData)
           new == [agent.call[c] EXCEPT !.cancelSent = TRUE]
           a == [agent EXCEPT !.call[c].cancelSent = TRUE]
<1>1. agent \in Client /\ agent.call[c] \in Made /\ up \in Seq(Asks)
  BY DEF IInv, Typed, Client
<1>2. m \in Asks /\ m.id = c /\ m.kind = "cancel"
  <2>1. NoData \in Data
    BY FrameFacts
  <2>2. m \in Asks
    BY <2>1, AskFacts
  <2> QED BY <2>2 DEF Frame
<1>3. agent.call[c].st = "open" /\ ClientSend(a, 0, m) /\ UNCHANGED login
  BY DEF Cancel, Open
<1>4. new \in Made
  BY <1>1 DEF Made
<1>5. a \in Client /\ a.open = agent.open /\ a.call[c] = new
      /\ \A d \in Call : d # c => a.call[d] = agent.call[d]
  BY <1>1, <1>4 DEF Client
<1> HIDE DEF m, a
<1>6. agent'.call = a.call /\ agent'.open = a.open
  BY <1>3, <1>5, ClientLeaves
<1>7. /\ srv'.req = srv.req /\ srv'.chan = srv.chan /\ srv'.down = srv.down
      /\ \/ up' = up
         \/ srv.chan # "closed" /\ up' = Append(up, m)
  BY <1>2, <1>3, ClientMoves
<1>8. Same(up', up, c)
  <2>1. CASE up' = up
    BY <2>1 DEF Same
  <2>2. CASE up' = Append(up, m)
    BY <1>1, <1>2, <2>2, AsideSame
  <2> QED BY <1>7, <2>1, <2>2
<1>9. Flow(agent', up', srv', c)
  <2>1. Flow(agent, up, srv, c)
    BY DEF Whole
  <2>2. agent'.call[c] = new /\ agent'.open = agent.open
    BY <1>5, <1>6
  <2> QED BY <1>1, <1>3, <1>7, <1>8, <2>1, <2>2, CancelFlow
<1>10. /\ agent'.open = agent.open
       /\ \A d \in Call : d # c => agent'.call[d] = agent.call[d]
       /\ \/ up' = up
          \/ srv.chan # "closed" /\ \E f \in Asks : f.id = c /\ up' = Append(up, f)
  BY <1>2, <1>5, <1>6, <1>7
<1> QED BY <1>3, <1>7, <1>9, <1>10, ClientFlows

(* What the client reads of an open call is what the call expects.         *)
LEMMA HeadFacts ==
    ASSUME IInv, Whole, srv.down # <<>>, NEW c \in Call, Head(srv.down).id = c,
           agent.call[c].st = "open"
    PROVE  LET m == Head(srv.down) IN
           /\ m \in Frames /\ Piece(m) /\ First(agent.call[c], m) /\ ~Requested(up, c)
           /\ Chain(agent.call[c], Stream(srv, c))
<1> DEFINE m == Head(srv.down)
           S == Stream(srv, c)
           call == agent.call[c]
           t == [srv EXCEPT !.down = Tail(srv.down)]
<1>1. Serves(srv) /\ srv \in Server
  BY DEF IInv, Typed, Serves
<1>2. t.req = srv.req /\ t.down = Tail(srv.down)
  BY <1>1 DEF Server
<1> HIDE DEF t
<1>3. S \in Seq(Frames) /\ S # <<>> /\ S[1] = m /\ m \in Frames
  BY <1>1, <1>2, UnreadStream
<1>4. Flow(agent, up, srv, c)
  BY DEF Whole
<1>5. Chain(call, S)
  BY <1>4 DEF Flow, Serving, Flowing, Flows
<1>6. Requested(up, c) => S = <<>>
  BY <1>4 DEF Flow, Unborn
<1> HIDE DEF m, S, call
<1>7. 1 \in 1 .. Len(S)
  BY <1>3
<1>8. Piece(m) /\ First(call, m)
  BY <1>3, <1>5, <1>7 DEF Chain
<1> QED BY <1>3, <1>5, <1>6, <1>8 DEF m, S, call

(* The stream ends where it did, its first frame read.                     *)
LEMMA TipTail ==
    ASSUME NEW call, NEW new, NEW r, NEW S \in Seq(Frames), S # <<>>, Tip(call, S, r), new.started,
           new.got.try = S[1].data.try, new.got.n = S[1].data.from + S[1].data.n
    PROVE  Tip(new, Tail(S), r)
<1> DEFINE n == Len(S)
           T == Tail(S)
<1>1. /\ n \in Nat /\ n > 0 /\ Len(T) = n - 1 /\ T \in Seq(Frames)
      /\ \A i \in 1 .. n - 1 : T[i] = S[i + 1]
  OBVIOUS
<1>2. S[n].data.try = r.try /\ S[n].data.from + S[n].data.n = r.pos /\ S[n].kind \in Goes
  BY DEF Tip
<1> HIDE DEF n, T
<1>3. CASE n = 1
  <2>1. T = <<>>
    BY <1>1, <1>3
  <2> QED BY <1>2, <1>3, <2>1 DEF Tip, T
<1>4. CASE n # 1
  <2>1. n - 1 \in 1 .. n - 1 /\ (n - 1) + 1 = n /\ T # <<>>
    BY <1>1, <1>4
  <2>2. T[Len(T)] = S[n]
    BY <1>1, <2>1
  <2> QED BY <1>2, <2>1, <2>2 DEF Tip, T
<1> QED BY <1>3, <1>4

(* A piece is taken by the call, and the call goes on.                     *)
LEMMA PieceFlow ==
    ASSUME IInv, Whole, srv.down # <<>>, NEW c \in Call, Head(srv.down).id = c,
           agent.call[c].st = "open",
           NEW new, new.st = "open", new.started, ~new.got.torn, new.unreported < CreditStep,
           new.got.try = Head(srv.down).data.try,
           new.got.n = Head(srv.down).data.from + Head(srv.down).data.n,
           \A g \in Frames : Follows(Head(srv.down), g) => First(new, g),
           NEW b, b.call[c] = new, b.open = agent.open,
           NEW v, ~Requested(v, c), OneRequest(v, c),
           srv.chan # "closed" =>
               Carried(new, v, c) = Carried(agent.call[c], up, c) + Unit(Head(srv.down), c, "body"),
           NEW t, t.req = srv.req, t.down = Tail(srv.down)
    PROVE  Flow(b, v, t, c)
<1> DEFINE m == Head(srv.down)
           call == agent.call[c]
           S == Stream(srv, c)
           T == Tail(S)
           w == Carried(call, up, c)
           w2 == Carried(new, v, c)
           x == UnitsIn(srv.down, c, "body")
           y == UnitsIn(t.down, c, "body")
           z == Unit(m, c, "body")
           r == srv.req[c]
           q == r.credit
<1>1. Serves(srv)
  BY DEF IInv, Typed
<1>2. /\ S \in Seq(Frames) /\ S # <<>> /\ S[1] = m /\ Stream(t, c) = T
      /\ x = z + y /\ y \in Nat /\ z \in Nat
  BY <1>1, UnreadStream
<1>3. Flow(agent, up, srv, c) /\ Serving(srv, c, call, w) /\ w \in Nat
  BY FlowHeard DEF Heard
<1>4. q \in Int /\ Window \in Nat
  BY <1>1, TransportAssumption DEF Serves, Server, Reqs
<1>5. Local(r, c) /\ Flows(call, S, x, r, w)
  BY <1>3 DEF Serving, Flowing
<1>6. r.phase # "none" => srv.chan # "closed"
  BY NoReqFacts DEF Whole
<1>7. call.st = "open" /\ b.call[c] = new /\ t.req[c] = r
  OBVIOUS
<1>8. srv.chan # "closed" => w2 = w + z
  OBVIOUS
<1>9. agent.open
  BY <1>3 DEF Flow
<1>10. m \in Frames
  BY <1>1, HeadTailProperties DEF Serves, Server
<1>11. \A g \in Frames : Follows(S[1], g) => First(new, g)
  BY <1>2
<1> HIDE DEF m, call, w2, w, x, y, z
<1>12. Chain(new, T)
  <2>1. Chain(call, S)
    BY <1>5, <1>7 DEF Flows
  <2> HIDE DEF S
  <2> QED BY <1>2, <1>11, <2>1, ChainTail
<1>13. r.phase # "none" => q + y + w2 = Window
  <2>1. r.phase # "none" => q + x + w = Window
    BY <1>5, <1>7 DEF Flows
  <2> HIDE DEF q, r, S
  <2> QED BY <1>2, <1>3, <1>4, <1>6, <1>8, <2>1
<1>14. r.phase \in Live => r.started /\ Tip(call, S, r)
  BY <1>2, <1>5, <1>7 DEF Flows
<1>15. Tip(call, S, r) => Tip(new, T, r)
  <2>1. new.got.try = S[1].data.try /\ new.got.n = S[1].data.from + S[1].data.n
    BY <1>2 DEF m
  <2> HIDE DEF S, r
  <2> QED BY <1>2, <2>1, TipTail
<1> HIDE DEF S, T
<1>16. Flows(new, T, y, r, w2)
  BY <1>12, <1>13, <1>14, <1>15 DEF Flows
<1>17. Serving(t, c, new, w2)
  BY <1>2, <1>5, <1>7, <1>16 DEF Serving, Flowing, y
<1> HIDE DEF r
<1>18. Serving(t, c, b.call[c], Carried(b.call[c], v, c))
  BY <1>17 DEF w2
<1> QED BY <1>9, <1>18 DEF Flow

(* call_start.                                                             *)
LEMMA StartFlows ==
    ASSUME IInv, Whole, srv.down # <<>>, NEW c \in Call, Head(srv.down).id = c,
           Open(agent, c), Head(srv.down).kind = "start", UNCHANGED login,
           ClientDone([agent EXCEPT !.call[c] =
                         [agent.call[c] EXCEPT !.next = @ + 1, !.started = TRUE,
                                               !.got.try = Head(srv.down).data.try]], 1)
    PROVE  Whole'
<1> DEFINE m == Head(srv.down)
           call == agent.call[c]
           new == [call EXCEPT !.next = @ + 1, !.started = TRUE, !.got.try = m.data.try]
           a == [agent EXCEPT !.call[c] = new]
<1>1. agent \in Client /\ call \in Made /\ call.st = "open" /\ Serves(srv)
  BY DEF IInv, Typed, Client, Open
<1>2. /\ m \in Frames /\ Piece(m) /\ First(call, m) /\ ~Requested(up, c)
  BY <1>1, HeadFacts
<1>3. Flow(agent, up, srv, c)
  BY DEF Whole
<1>4. m.kind = "start" /\ m.data.from = 0 /\ m.data.n = 0 /\ m.data.try \in Nat
  BY <1>2 DEF Piece, Frames
<1>5. ~call.started /\ call.got.n = 0 /\ ~call.got.torn /\ call.unreported < CreditStep
  BY <1>1, <1>2, <1>3, <1>4 DEF First, Flow
<1>6. /\ new \in Made /\ new.st = "open" /\ new.started /\ ~new.got.torn
      /\ new.got.try = m.data.try /\ new.got.n = call.got.n /\ new.unreported = call.unreported
  <2> HIDE DEF m, call
  <2>1. /\ new.st = call.st /\ new.started /\ new.unreported = call.unreported
        /\ new.got = [call.got EXCEPT !.try = m.data.try]
    BY <1>1 DEF Made
  <2>2. new.got.torn = call.got.torn /\ new.got.try = m.data.try /\ new.got.n = call.got.n
    BY <1>1, <2>1 DEF Made
  <2>3. new \in Made
    <3> DEFINE next == call.next + 1
               try == m.data.try
    <3>1. next \in Nat /\ try \in Nat
      BY <1>1, <1>4 DEF Made
    <3>2. new = [call EXCEPT !.next = next, !.started = TRUE, !.got.try = try]
      OBVIOUS
    <3> HIDE DEF next, try, new
    <3>3. [call.got EXCEPT !.try = try] \in [try : Nat, n : Nat, torn : BOOLEAN]
      BY <1>1, <3>1 DEF Made
    <3> QED BY <1>1, <3>1, <3>2, <3>3 DEF Made
  <2> HIDE DEF new
  <2> QED BY <1>1, <1>5, <2>1, <2>2, <2>3
<1>7. ClientDone(a, 1)
  OBVIOUS
<1> HIDE DEF new
<1>8. /\ a \in Client /\ a.open = agent.open /\ a.call[c] = new
      /\ \A d \in Call : d # c => a.call[d] = agent.call[d]
  BY <1>1, <1>6 DEF Client
<1> HIDE DEF a
<1>9. agent'.call = a.call /\ agent'.open = a.open /\ up' = up
  BY <1>7, <1>8 DEF ClientDone
<1>10. srv'.req = srv.req /\ srv'.chan = srv.chan /\ srv'.down = Tail(srv.down)
  BY <1>7, UnreadLeft DEF ClientDone, IInv, Typed, Serves, Server
<1>11. Carried(new, up', c) = Carried(call, up, c) + Unit(m, c, "body")
  <2>1. Carried(call, up, c) \in Nat /\ Carried(new, up', c) = Carried(call, up, c)
    BY <1>6, <1>9, FlowHeard DEF Heard, Carried
  <2>2. Unit(m, c, "body") = 0
    BY <1>4 DEF Unit
  <2> HIDE DEF call, m
  <2> QED BY <2>1, <2>2
<1>12. m.data.from + m.data.n = 0
  BY <1>4
<1>13. \A g \in Frames : Follows(m, g) => First(new, g)
  BY <1>5, <1>6, <1>12 DEF Follows, First
<1>14. OneRequest(up', c) /\ ~Requested(up', c)
  BY <1>2, <1>3, <1>9 DEF Flow
<1>15. new.got.try = m.data.try /\ new.got.n = m.data.from + m.data.n /\ new.unreported < CreditStep
  BY <1>5, <1>6, <1>12
<1>16. agent'.call[c] = new /\ agent'.open = agent.open
       /\ \A d \in Call : d # c => agent'.call[d] = agent.call[d]
  BY <1>8, <1>9
<1>17. Flow(agent', up', srv', c)
  BY <1>1, <1>6, <1>10, <1>11, <1>13, <1>14, <1>15, <1>16, PieceFlow
<1> QED BY <1>9, <1>10, <1>16, <1>17, ClientFlows

(* call_body, and the credit that goes back when enough is consumed.       *)
LEMMA BodyFlows ==
    ASSUME IInv, Whole, srv.down # <<>>, NEW c \in Call, Head(srv.down).id = c,
           Open(agent, c), Head(srv.down).kind = "body", UNCHANGED login,
           TakeBody(c, Head(srv.down).data)
    PROVE  Whole'
<1> DEFINE m == Head(srv.down)
           d == m.data
           call == agent.call[c]
           new == Taken(call, d)
           a == [agent EXCEPT !.call[c] = new]
           n == call.unreported + d.n
           f == Frame(c, "credit", 0, DataOf(0, 0, CallCredit(n)))
<1>1. agent \in Client /\ call \in Made /\ call.st = "open" /\ Serves(srv) /\ up \in Seq(Asks)
  BY DEF IInv, Typed, Client, Open
<1>2. /\ m \in Frames /\ Piece(m) /\ First(call, m) /\ ~Requested(up, c)
  BY <1>1, HeadFacts
<1>3. Flow(agent, up, srv, c)
  BY DEF Whole
<1>4. m.kind = "body" /\ d \in Data
  BY <1>2 DEF Frames, Data
<1>5. /\ call.started /\ d.try = call.got.try /\ d.from = call.got.n /\ ~call.got.torn
      /\ call.unreported \in Nat /\ d.n \in Nat /\ call.got.n \in Nat /\ CreditStep \in Nat \ {0}
  BY <1>1, <1>2, <1>3, <1>4, TransportAssumption DEF First, Flow, Made, Data
<1>6. /\ new \in Made /\ new.st = "open" /\ new.started /\ ~new.got.torn
      /\ new.got.try = d.try /\ new.got.n = d.from + d.n
      /\ new.unreported = IF n < CreditStep THEN n ELSE 0
  <2>1. new \in Made
    BY <1>1, <1>4, TakenFacts
  <2>2. /\ new.st = call.st /\ new.started = call.started
        /\ new.got = [try |-> call.got.try, n |-> call.got.n + d.n,
                      torn |-> call.got.torn \/ d.try # call.got.try \/ d.from # call.got.n]
        /\ new.unreported = IF n < CreditStep THEN n ELSE 0
    BY <1>1 DEF Taken, Made
  <2>3. new.got.torn = (call.got.torn \/ d.try # call.got.try \/ d.from # call.got.n)
    BY <2>2
  <2>4. new.got.try = call.got.try /\ new.got.n = call.got.n + d.n
    BY <2>2
  <2> HIDE DEF new, call, d, n
  <2>5. ~new.got.torn
    BY <1>5, <2>3, Zenon
  <2>6. new.got.n = d.from + d.n
    BY <1>5, <2>4
  <2> QED BY <1>1, <1>5, <2>1, <2>2, <2>4, <2>5, <2>6
<1>7. CallCredit(n) = (IF n < CreditStep THEN 0 ELSE n) /\ n \in Nat
  BY <1>5 DEF CallCredit
<1>8. \/ n < CreditStep /\ ClientDone(a, 1)
      \/ ~(n < CreditStep) /\ ClientSend(a, 1, f)
  BY <1>5, <1>7 DEF TakeBody
<1>9. f \in Asks /\ f.id = c /\ f.kind = "credit" /\ f.data.n = CallCredit(n)
  <2>1. DataOf(0, 0, CallCredit(n)) \in Data
    BY <1>7, FrameFacts
  <2>2. f \in Asks
    BY <2>1, AskFacts
  <2> QED BY <2>2 DEF Frame, DataOf
<1> HIDE DEF f, n, new
<1>10. /\ a \in Client /\ a.open = agent.open /\ a.call[c] = new
       /\ \A e \in Call : e # c => a.call[e] = agent.call[e]
  BY <1>1, <1>6 DEF Client
<1> HIDE DEF a
<1>11. agent'.call = a.call /\ agent'.open = a.open
  BY <1>8, <1>10, ClientLeaves
<1>12. srv'.req = srv.req /\ srv'.chan = srv.chan /\ srv'.down = Tail(srv.down)
  BY <1>8, UnreadLeft DEF ClientDone, ClientSend, IInv, Typed, Serves, Server
<1>13. \/ n < CreditStep /\ up' = up
       \/ ~(n < CreditStep) /\ srv.chan = "closed" /\ up' = up
       \/ ~(n < CreditStep) /\ srv.chan # "closed" /\ up' = Append(up, f)
  BY <1>8 DEF ClientDone, ClientSend
<1>14. OneRequest(up', c) /\ ~Requested(up', c)
  <2>1. OneRequest(up, c) /\ ~Requested(up, c)
    BY <1>2, <1>3 DEF Flow
  <2>2. CASE up' = Append(up, f)
    BY <1>1, <1>9, <2>1, <2>2, AskedFacts
  <2> QED BY <1>13, <2>1, <2>2
<1>15. srv.chan # "closed" => Carried(new, up', c) = Carried(call, up, c) + Unit(m, c, "body")
  <2> DEFINE x == UnitsIn(up, c, "credit")
             y == UnitsIn(up', c, "credit")
             k == call.unreported
  <2>1. Unit(m, c, "body") = d.n
    BY <1>4 DEF Unit
  <2>2. Carried(call, up, c) = k + x /\ Carried(new, up', c) = new.unreported + y /\ n = k + d.n
    BY DEF Carried, n
  <2>3. x \in Nat
    BY FlowHeard
  <2>4. CASE n < CreditStep
    <3>1. y = x /\ new.unreported = n
      BY <1>6, <1>13, <2>4
    <3> HIDE DEF x, y, k, d, call, m
    <3>2. n + x = (k + x) + d.n
      BY <1>5, <2>2, <2>3 DEF k, call
    <3> QED BY <2>1, <2>2, <3>1, <3>2
  <2>5. CASE ~(n < CreditStep) /\ srv.chan # "closed"
    <3>1. y = x + Unit(f, c, "credit")
      BY <1>1, <1>9, <1>13, <2>5, AskedFacts
    <3>2. Unit(f, c, "credit") = n
      BY <1>7, <1>9, <2>5 DEF Unit
    <3>3. new.unreported = 0
      BY <1>6, <2>5
    <3> HIDE DEF x, y, d, call, m
    <3>4. 0 + (x + n) = (k + x) + d.n
      BY <1>5, <1>7, <2>2, <2>3 DEF k
    <3> QED BY <2>1, <2>2, <3>1, <3>2, <3>3, <3>4
  <2> QED BY <2>4, <2>5
<1>16. \A g \in Frames : Follows(m, g) => First(new, g)
  BY <1>4, <1>6 DEF Follows, First
<1>17. new.unreported < CreditStep
  <2> HIDE DEF call, d
  <2> QED BY <1>5, <1>6
<1>18. agent'.call[c] = new /\ agent'.open = agent.open
       /\ \A e \in Call : e # c => agent'.call[e] = agent.call[e]
  BY <1>10, <1>11
<1>19. Flow(agent', up', srv', c)
  BY <1>1, <1>6, <1>12, <1>14, <1>15, <1>16, <1>17, <1>18, PieceFlow
<1>20. \/ up' = up
       \/ srv.chan # "closed" /\ \E e \in Asks : e.id = c /\ up' = Append(up, e)
  BY <1>9, <1>13
<1> QED BY <1>12, <1>18, <1>19, <1>20, ClientFlows

(* call_end of a call that is open: its answer is whole.                   *)
LEMMA EndFlows ==
    ASSUME IInv, Whole, srv.down # <<>>, NEW c \in Call, Head(srv.down).id = c,
           Open(agent, c), Head(srv.down).kind = "end", UNCHANGED login,
           LET call == agent.call[c]
               whole == Head(srv.down).data = DataOf(call.got.try, call.got.n, 0)
           IN ClientDone([TcallEnd(agent, c, "ok") EXCEPT !.call[c].got.torn = @ \/ ~whole], 1)
    PROVE  Whole'
<1> DEFINE m == Head(srv.down)
           call == agent.call[c]
           b == TcallEnd(agent, c, "ok")
           whole == m.data = DataOf(call.got.try, call.got.n, 0)
           torn == b.call[c].got.torn \/ ~whole
           a == [b EXCEPT !.call[c].got.torn = torn]
           f == Frame(c, "cancel", 0, NoData)
<1>1. agent \in Client /\ call \in Made /\ call.st = "open"
  BY DEF IInv, Typed, Client, Open
<1>2. m \in Frames /\ Piece(m) /\ First(call, m)
  BY <1>1, HeadFacts
<1>3. whole
  <2>1. m.data.try = call.got.try /\ m.data.from = call.got.n /\ m.data.n = 0
    BY <1>2 DEF Piece, First
  <2>2. m.data \in Data
    BY <1>2 DEF Frames, Data
  <2> HIDE DEF m, call
  <2> QED BY <2>1, <2>2 DEF Data, DataOf
<1>4. ClientDone(a, 1)
  OBVIOUS
<1>5. b \in Client
  BY <1>1, TcallEndFacts DEF Ends
<1> HIDE DEF b, whole
<1>6. a = b
  <2> DEFINE new == b.call[c]
             r == [new EXCEPT !.got.torn = torn]
  <2>1. new \in Made
    BY <1>5 DEF Client
  <2>2. a = [b EXCEPT !.call[c] = r]
    BY <1>5 DEF Client
  <2>3. torn = new.got.torn
    <3>1. new.got.torn \in BOOLEAN
      BY <2>1 DEF Made
    <3> HIDE DEF new
    <3>2. torn = (new.got.torn \/ ~whole)
      BY Zenon DEF new
    <3> HIDE DEF torn
    <3> QED BY <1>3, <3>1, <3>2
  <2> HIDE DEF torn
  <2>4. r = new
    <3> HIDE DEF new
    <3>1. [new.got EXCEPT !.torn = torn] = new.got
      BY <2>1, <2>3 DEF Made
    <3>2. r = [new EXCEPT !.got = [new.got EXCEPT !.torn = torn]]
      BY <2>1 DEF Made
    <3> QED BY <2>1, <3>1, <3>2 DEF Made
  <2> HIDE DEF r, a
  <2> QED BY <1>5, <2>2, <2>4 DEF Client
<1> HIDE DEF a
<1>7. ClientDone(b, 1)
  BY <1>4, <1>6
<1>8. f \in Asks /\ f.id = c /\ f.kind = "cancel"
  <2>1. NoData \in Data
    BY FrameFacts
  <2>2. f \in Asks
    BY <2>1, AskFacts
  <2> QED BY <2>2 DEF Frame
<1> HIDE DEF f
<1>9. LET e == TcallEnd(agent, c, "ok") IN ClientDone(e, 1) \/ ClientSend(e, 1, f)
  BY <1>7 DEF b
<1> QED BY <1>8, <1>9, EndingFlows DEF Ends

(* call_frame.                                                             *)
LEMMA CallFrameFlows ==
    ASSUME IInv, Whole, srv.down # <<>>, NEW c \in Call, Head(srv.down).id = c,
           Open(agent, c), CallFrame(c, Head(srv.down)), UNCHANGED login
    PROVE  Whole'
<1> DEFINE m == Head(srv.down)
           f == Frame(c, "cancel", 0, NoData)
<1>1. f \in Asks /\ f.id = c /\ f.kind = "cancel"
  <2>1. NoData \in Data
    BY FrameFacts
  <2>2. f \in Asks
    BY <2>1, AskFacts
  <2> QED BY <2>2 DEF Frame
<1>2. ASSUME NEW how \in Ends \ {"idle", "open"}, ClientDone(TcallEnd(agent, c, how), 1)
      PROVE  Whole'
  BY <1>1, <1>2, EndingFlows
<1>3. ASSUME NEW how \in Ends \ {"idle", "open"}, GiveUp(c, how)
      PROVE  Whole'
  BY <1>1, <1>3, EndingFlows DEF GiveUp
<1>4. CASE m.kind = "start" /\
           ClientDone([agent EXCEPT !.call[c] =
                [agent.call[c] EXCEPT !.next = @ + 1, !.started = TRUE, !.got.try = m.data.try]], 1)
  BY <1>4, StartFlows
<1>5. CASE m.kind = "end" /\
           LET whole == m.data = DataOf(agent.call[c].got.try, agent.call[c].got.n, 0) IN
           ClientDone([TcallEnd(agent, c, "ok") EXCEPT !.call[c].got.torn = @ \/ ~whole], 1)
  BY <1>5, EndFlows
<1>6. CASE m.kind = "body" /\ TakeBody(c, m.data)
  BY <1>6, BodyFlows
<1> QED
  BY <1>2, <1>3, <1>4, <1>5, <1>6 DEF CallFrame, Ends, ErrorKind

(* client_readable, one frame.                                             *)
LEMMA ClientReadableFlows ==
    ASSUME IInv, Whole, ClientReadable
    PROVE  Whole'
<1> DEFINE m == Head(srv.down)
           c == m.id
           f == Frame(c, "cancel", 0, NoData)
<1>1. agent \in Client /\ srv.down \in Seq(Frames) /\ srv.down # <<>> /\ UNCHANGED login
      /\ Serves(srv) /\ up \in Seq(Asks)
  BY DEF IInv, Typed, Serves, Server, ClientReadable
<1>2. m \in Frames /\ c \in Call
  <2>1. m \in Frames
    BY <1>1, HeadTailProperties
  <2> QED BY <2>1 DEF Frames
<1>3. CASE Open(agent, c)
  BY <1>1, <1>2, <1>3, CallFrameFlows DEF ClientReadable
<1>4. CASE ~Open(agent, c)
  <2>1. ClientDone(agent, 1)
    BY <1>4 DEF ClientReadable
  <2>2. agent' = agent /\ up' = up
    BY <2>1 DEF ClientDone
  <2>3. srv'.req = srv.req /\ srv'.chan = srv.chan /\ srv'.down = Tail(srv.down)
    BY <1>1, <2>1, UnreadLeft DEF ClientDone, Serves, Server
  <2> HIDE DEF c
  <2>4. Flow(agent, up, srv, c) /\ agent.call[c] \in Made
    BY <1>1, <1>2 DEF Whole, Client
  <2>5. agent.call[c].st # "open" /\ agent.call[c].unreported = 0 /\ ~agent.call[c].got.torn
    BY <1>4, <2>4 DEF Flow, Open
  <2>6. Stream(srv, c) = <<>> => Stream(srv', c) = <<>>
    BY <1>1, <1>2, <2>3, UnreadStream DEF c
  <2>7. Same(up', up, c)
    BY <2>2 DEF Same
  <2>8. Flow(agent', up', srv', c)
    BY <1>1, <1>2, <2>2, <2>3, <2>4, <2>5, <2>6, <2>7, EndedFlow
  <2> QED BY <1>1, <1>2, <2>2, <2>3, <2>8, ClientFlows DEF c
<1> QED BY <1>3, <1>4

-------------------------------------------------------------------------------
(* The answers of the calls are whole, and no credit is lost.              *)

(* It holds at first.                                                      *)
LEMMA InitWhole ==
    ASSUME Init
    PROVE  Whole
<1>1. ASSUME NEW c \in Call PROVE Flow(agent, up, srv, c)
  <2>1. agent.call[c] = NewCall /\ srv.req[c] = NoReq /\ up = <<>> /\ srv.down = <<>> /\ agent.open
    BY DEF Init
  <2>2. NoReq.phase = "none" /\ NoReq.pending = <<>> /\ Local(NoReq, c)
    BY NoReqFacts, NoReqLocal
  <2>3. /\ NewCall.st = "idle" /\ ~NewCall.started /\ ~NewCall.got.torn
        /\ NewCall.unreported = 0
    BY DEF NewCall
  <2>4. Stream(srv, c) = <<>>
    <3>1. Filter(<<>>, FramesOf(c)) = <<>>
      <4>1. <<>> \in Seq(Frames) /\ \A i \in 1 .. Len(<<>>) : FALSE
        OBVIOUS
      <4> QED BY <4>1, FilterNone
    <3> QED BY <2>1, <2>2, <3>1 DEF Stream
  <2>5. Carried(NewCall, <<>>, c) = 0
    <3>1. UnitsIn(<<>>, c, "credit") = 0
      <4>1. <<>> \in Seq(Frames) /\ \A i \in 1 .. Len(<<>>) : FALSE
        OBVIOUS
      <4> QED BY <4>1, UnitsNone
    <3> QED BY <2>3, <3>1 DEF Carried
  <2>6. ~Requested(<<>>, c) /\ OneRequest(<<>>, c)
    BY DEF Requested, OneRequest
  <2>7. Unborn(NewCall, <<>>, srv, c)
    BY <2>1, <2>2, <2>3, <2>4, <2>5 DEF Unborn
  <2>8. Serving(srv, c, NewCall, 0)
    BY <2>1, <2>2, <2>3, <2>4 DEF Serving, Flowing, Flows, Live
  <2>9. 0 < CreditStep
    BY TransportAssumption
  <2> HIDE DEF NewCall
  <2> QED BY <2>1, <2>3, <2>5, <2>6, <2>7, <2>8, <2>9 DEF Flow
<1>2. srv.chan = "open" /\ login.tag \in 1 .. MaxTag
  BY TransportAssumption DEF Init
<1> QED BY <1>1, <1>2 DEF Whole

(* Every step keeps it.                                                    *)
LEMMA StepWhole ==
    ASSUME IInv, Whole, [Next]_vars
    PROVE  Whole'
<1>1. CASE UNCHANGED vars
  <2>1. UNCHANGED <<agent, up, srv, login>>
    BY <1>1 DEF vars
  <2>2. login.tag \in 1 .. MaxTag
    BY DEF Whole
  <2> QED BY <2>1, <2>2, ChanFlows
<1>2. ASSUME NEW c \in Call, Submit(c) \/ Cancel(c) \/ Destroy(c) PROVE Whole'
  BY <1>2, SubmitFlows, CancelFlows, DestroyFlows
<1>3. CASE ClientClose \/ ClientEof \/ ClientError
  BY <1>3, ClientLoseFlows
<1>4. CASE ClientReadable
  BY <1>4, ClientReadableFlows
<1>5. CASE ChanReadable
  BY <1>5, ChanReadableFlows
<1>6. CASE ChanEof \/ ChanWritable \/ RefreshDone
  BY <1>6, ChanStepFlows
<1>7. CASE ChanReap \/ Retire
  BY <1>7, ChanFreeFlows DEF ChanReap, Retire
<1>8. CASE LoginAges \/ LoginRenewed
  BY <1>8, LoginFlows
<1>9. ASSUME NEW c \in Call, WorkOn(c) \/ CurlWrite(c) \/ CurlNotify(c) PROVE Whole'
  BY <1>9, WorkOnFlows, CurlWriteFlows, CurlNotifyFlows
<1>10. ASSUME NEW c \in Call, NEW result \in {"ok", "failed"}, CurlFinish(c, result) PROVE Whole'
  BY <1>10, CurlFinishFlows
<1> QED
  BY <1>1, <1>2, <1>3, <1>4, <1>5, <1>6, <1>7, <1>8, <1>9, <1>10 DEF Next

(* Of every call, what is on the way to its owner goes on where the owner  *)
(* is, and ends where the transfer is; what may be sent, what is on the    *)
(* way and what is reported makes a window.                                *)
THEOREM AlwaysWhole == Spec => [](IInv /\ Whole)
<1>1. Init => IInv /\ Whole
  BY InitIInv, InitWhole
<1>2. IInv /\ Whole /\ [Next]_vars => (IInv /\ Whole)'
  BY StepIInv, StepWhole
<1> QED
  BY <1>1, <1>2, PTL DEF Spec

(* No owner of a call gets a piece of an answer twice, out of order or of  *)
(* an answer that req_rejected has thrown away, and none is told that an   *)
(* answer is whole that is not.                                            *)
THEOREM AlwaysAnswersAreWhole == Spec => []AnswersAreWhole
<1>1. Whole => AnswersAreWhole
  BY DEF Whole, Flow, AnswersAreWhole
<1> QED
  BY <1>1, AlwaysWhole, PTL

(* No credit is lost or made: the credit of a request (req_write_cb,       *)
(* req_credit), what call_credit keeps back, and what is on the way in     *)
(* both directions make the window.                                        *)
THEOREM AlwaysCreditConserved == Spec => []CreditConserved
<1>1. IInv /\ Whole => CreditConserved
  <2> SUFFICES ASSUME IInv, Whole, NEW c \in Call, Present(srv, c), Open(agent, c)
               PROVE  srv.req[c].credit + UnitsIn(srv.down, c, "body")
                        + agent.call[c].unreported + UnitsIn(up, c, "credit") = Window
    BY DEF CreditConserved
  <2> DEFINE q == srv.req[c].credit
             y == UnitsIn(srv.down, c, "body")
             k == agent.call[c].unreported
             x == UnitsIn(up, c, "credit")
  <2>1. Serving(srv, c, agent.call[c], k + x) /\ k \in Nat /\ x \in Nat
    BY FlowHeard DEF Carried
  <2>2. q + y + (k + x) = Window
    BY <2>1 DEF Serving, Flowing, Flows, Present, Open
  <2>3. q \in Int /\ y \in Nat
    BY StreamIsSeq DEF IInv, Typed, Serves, Server, Reqs
  <2> HIDE DEF q, y, k, x
  <2>4. q + y + k + x = Window
    BY <2>1, <2>2, <2>3
  <2> QED BY <2>4 DEF q, y, k, x
<1> QED
  BY <1>1, AlwaysWhole, PTL

(* The types: the credit of a request is not below zero and not above the  *)
(* window, a request runs twice at most, and its queue holds two frames.   *)
THEOREM AlwaysTypeOK == Spec => []TypeOK
<1>1. IInv /\ Whole => TypeOK
  <2> SUFFICES ASSUME IInv, Whole PROVE TypeOK
    OBVIOUS
  <2>1. agent \in Client /\ Serves(srv) /\ up \in Seq(Asks) /\ login.tag \in 1 .. MaxTag
        /\ login \in [tag : Nat, age : {"fresh", "due", "expired"}]
    BY DEF IInv, Typed, Whole
  <2>2. ASSUME NEW c \in Call PROVE agent.call[c] \in Calls
    <3>1. agent.call[c] \in Made /\ agent.call[c].unreported < CreditStep
      BY <2>1 DEF Client, Whole, Flow
    <3>2. agent.call[c].unreported \in 0 .. CreditStep - 1
      BY <3>1, TransportAssumption DEF Made
    <3> QED BY <3>1, <3>2 DEF Made, Calls
  <2>3. ASSUME NEW c \in Call PROVE srv.req[c] \in Requests /\ Len(srv.req[c].pending) <= 2
    <3> DEFINE r == srv.req[c]
               y == UnitsIn(srv.down, c, "body")
               w == Carried(agent.call[c], up, c)
    <3>1. r \in Reqs
      BY <2>1 DEF Serves, Server
    <3>2. Serving(srv, c, agent.call[c], w) /\ w \in Nat
      BY FlowHeard DEF Heard
    <3>3. y \in Nat /\ Window \in Nat
      BY <2>1, StreamIsSeq, TransportAssumption
    <3>4. Local(r, c) /\ Flows(agent.call[c], Stream(srv, c), y, r, w)
      BY <3>2 DEF Serving, Flowing
    <3> HIDE DEF r, y, w
    <3>5. r.credit >= 0 /\ r.try <= 2 /\ Len(r.pending) <= 2
      BY <3>4 DEF Local, Queued
    <3>6. r.phase # "none" => r.credit <= Window
      <4>1. r.phase # "none" => r.credit + y + w = Window \/ r.credit + w <= Window
        BY <3>4 DEF Flows
      <4> DEFINE q == r.credit
      <4>2. q \in Int
        BY <3>1 DEF Reqs
      <4> HIDE DEF q
      <4>3. r.phase # "none" => q + y + w = Window \/ q + w <= Window
        BY <4>1 DEF q
      <4>4. r.phase # "none" => q <= Window
        BY <3>2, <3>3, <4>2, <4>3
      <4> QED BY <4>4 DEF q
    <3>7. r.phase = "none" => r.credit = 0
      BY <3>4 DEF Local, NoReq
    <3>8. r.credit \in 0 .. Window /\ r.try \in 0 .. 2
      <4>1. r.credit \in Int /\ r.try \in Nat
        BY <3>1 DEF Reqs
      <4> QED BY <3>3, <3>5, <3>6, <3>7, <4>1
    <3> QED BY <3>1, <3>5, <3>8 DEF Reqs, Requests, r
  <2>4. up \in Seq(Frames)
    BY <2>1, AsksAreFrames
  <2>5. agent \in [open : BOOLEAN, src : BOOLEAN, lost : BOOLEAN, call : [Call -> Calls]]
    BY <2>1, <2>2 DEF Client
  <2>6. srv \in [chan : {"open", "doomed", "closed"}, reset : BOOLEAN, want : BOOLEAN,
                refresh : BOOLEAN,
                work : [op : {"none", "resume", "run"}, left : SUBSET Call],
                down : Seq(Frames), req : [Call -> Requests]]
    BY <2>1, <2>3 DEF Serves, Server
  <2>7. login \in [tag : 1 .. MaxTag, age : {"fresh", "due", "expired"}]
    BY <2>1
  <2> QED BY <2>1, <2>3, <2>4, <2>5, <2>6, <2>7 DEF TypeOK, Serves
<1> QED
  BY <1>1, AlwaysWhole, PTL
=============================================================================
