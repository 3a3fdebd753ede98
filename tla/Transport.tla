----------------------------- MODULE Transport -----------------------------
(***************************************************************************)
(* One channel of the credential transport: the agent's client            *)
(* (fyai_transport_client.c), the request engine of the transport process  *)
(* (fyai_transport_server.c), its credential source                        *)
(* (fyai_transport_verb.c) and the transfers it runs (fyai_curl.c).        *)
(*                                                                         *)
(* The agent and the transport are two processes with a socket between     *)
(* them.  Each runs one handler at a time; a handler that goes through the *)
(* requests of the channel does so one request per step, in which only the *)
(* other process can move (srv.work).  The provider, the other users of    *)
(* the login and the death of a process are steps of the environment.      *)
(* Sizes are in units of what curl delivers at once.                       *)
(***************************************************************************)
EXTENDS Integers, Sequences, FiniteSets

CONSTANTS
    N,          \* calls an agent makes: 1 .. N, their identifiers
    Window,     \* FYAI_TRANSPORT_INITIAL_CREDIT
    CreditStep, \* CREDIT_STEP, a quarter of it in the code
    Chunk,      \* the most that one write callback delivers
    Room,       \* frames the socket to the agent holds
    Lengths,    \* lengths of a response body
    MaxTag,     \* bound: renewals of the login
    Faults      \* bound: what goes wrong, or is given up, in an instance

Call == 1 .. N
Status == {"ok", "unauthorized"}

(* The window minus what a client may keep back holds a whole delivery.    *)
ASSUME TransportAssumption ==
    /\ N \in Nat \ {0} /\ Window \in Nat /\ CreditStep \in Nat \ {0}
    /\ Chunk \in Nat \ {0} /\ Room \in Nat \ {0} /\ MaxTag \in Nat \ {0}
    /\ Lengths \subseteq Nat
    /\ Faults \subseteq {"cancel", "destroy", "close", "abort", "refuse", "fail", "retire", "age"}
    /\ Chunk + CreditStep <= Window + 1

VARIABLES
    agent,      \* the client: its calls, and whether it thinks it is connected
    up,         \* frames on the way to the transport
    srv,        \* the channel and its requests, frames on the way to the agent
    login       \* the stored login: which token, and how old

vars == <<agent, up, srv, login>>

(***************************************************************************)
(* Frames and records.  A frame of the error kinds is RESP_ERROR with the  *)
(* code that the client maps to that end (call_error).                     *)
(***************************************************************************)
ErrorKind == {"cancelled", "refused", "failed"}
DataOf(try, from, n) == [try |-> try, from |-> from, n |-> n]
NoData == DataOf(0, 0, 0)
Frame(c, kind, seq, data) == [id |-> c, kind |-> kind, seq |-> seq, data |-> data]

(* got is history: which try the response is of, how much of its body the  *)
(* owner was given, and whether a piece came twice, late or never.         *)
NewCall == [st |-> "idle", started |-> FALSE, cancelSent |-> FALSE,
            next |-> 0, unreported |-> 0,
            got |-> [try |-> 0, n |-> 0, torn |-> FALSE]]

(* try, status, len and pos are the transfer: how often the request ran,   *)
(* what the provider answers this time, how much of it curl has delivered. *)
NoReq == [phase |-> "none", seq |-> 0, credit |-> 0, started |-> FALSE,
          paused |-> FALSE, cancelled |-> FALSE, finished |-> FALSE,
          rejected |-> FALSE, held |-> FALSE, retry |-> FALSE,
          retried |-> FALSE, tag |-> 0, pending |-> <<>>, result |-> "none",
          try |-> 0, status |-> "ok", len |-> 0, pos |-> 0]

NoWork == [op |-> "none", left |-> {}]

Init ==
    /\ agent = [open |-> TRUE, src |-> TRUE, lost |-> FALSE,
                call |-> [c \in Call |-> NewCall]]
    /\ up = <<>>
    /\ srv = [chan |-> "open", reset |-> FALSE, want |-> FALSE,
              refresh |-> FALSE, work |-> NoWork, down |-> <<>>,
              req |-> [c \in Call |-> NoReq]]
    /\ login = [tag |-> 1, age |-> "fresh"]

(* A call whose end callback has still to run.                             *)
Open(a, c) == a.call[c].st = "open"

(***************************************************************************)
(* The client.                                                             *)
(***************************************************************************)
(* tcall_end: unlink the call, then tell its owner how it ended.  Of a call *)
(* that has ended nothing is read again but that.                          *)
Past(call, how) == [NewCall EXCEPT !.st = how, !.got.torn = call.got.torn]

TcallEnd(a, c, how) ==
    IF Open(a, c) THEN [a EXCEPT !.call[c] = Past(@, how)] ELSE a

(* client_lose: the channel is gone, every call ends.                      *)
ClientLose(a) ==
    [a EXCEPT !.lost = TRUE, !.src = FALSE,
              !.call = [c \in Call |->
                  IF Open(a, c) THEN Past(a.call[c], "lost") ELSE a.call[c]]]

(* client_send_simple, from a handler that leaves the client as a and has  *)
(* read k frames.  A frame to a transport that has closed the channel is   *)
(* not sent, and the client is marked lost; the kernel reports a pending   *)
(* reset to the first call that meets it.                                  *)
Unread(k) == SubSeq(srv.down, k + 1, Len(srv.down))

ClientDone(a, k) ==
    agent' = a /\ srv' = [srv EXCEPT !.down = Unread(k)] /\ UNCHANGED up

ClientSend(a, k, m) ==
    IF srv.chan = "closed"
    THEN /\ agent' = [a EXCEPT !.lost = TRUE]
         /\ srv' = [srv EXCEPT !.down = Unread(k), !.reset = FALSE]
         /\ UNCHANGED up
    ELSE /\ agent' = a
         /\ srv' = [srv EXCEPT !.down = Unread(k)]
         /\ up' = Append(up, m)

(* fyai_tclient_submit.  A call that cannot be sent is not made.           *)
Submit(c) ==
    /\ agent.open /\ ~agent.lost
    /\ agent.call[c].st = "idle"
    /\ \A d \in Call : d < c => agent.call[d].st # "idle"
    /\ LET made == IF srv.chan = "closed" THEN "unsent" ELSE "open" IN
       ClientSend([agent EXCEPT !.call[c].st = made], 0,
                  Frame(c, "request", 0, NoData))
    /\ UNCHANGED login

(* fyai_tcall_cancel.                                                      *)
Cancel(c) ==
    /\ "cancel" \in Faults
    /\ agent.open /\ Open(agent, c) /\ ~agent.call[c].cancelSent
    /\ ClientSend([agent EXCEPT !.call[c].cancelSent = TRUE], 0,
                  Frame(c, "cancel", 0, NoData))
    /\ UNCHANGED login

(* fyai_tcall_destroy of a call that has not ended.                        *)
Destroy(c) ==
    /\ "destroy" \in Faults
    /\ agent.open /\ Open(agent, c)
    /\ LET freed == TcallEnd(agent, c, "freed") IN
       IF agent.call[c].cancelSent THEN ClientDone(freed, 0)
       ELSE ClientSend(freed, 0, Frame(c, "cancel", 0, NoData))
    /\ UNCHANGED login

(* fyai_tclient_close: the calls stay with their owners, ended.            *)
ClientClose ==
    /\ "close" \in Faults
    /\ agent.open
    /\ agent' = [agent EXCEPT !.open = FALSE, !.src = FALSE,
                    !.call = [c \in Call |->
                        IF Open(agent, c) THEN Past(agent.call[c], "freed")
                                          ELSE agent.call[c]]]
    /\ srv' = [srv EXCEPT !.down = <<>>]
    /\ UNCHANGED <<up, login>>

(* Mutant: every delivery is reported, and kept back as well.              *)
CallCreditEach(n) == n

(* call_credit: what is reported of n units consumed and not yet reported. *)
CallCredit(n) == IF n < CreditStep THEN 0 ELSE n

(* What call_body records of data d that the callback takes.               *)
Taken(call, d) ==
    LET n == call.unreported + d.n IN
    [call EXCEPT !.next = @ + 1,
                 !.got = [try |-> call.got.try, n |-> call.got.n + d.n,
                          torn |-> call.got.torn \/ d.try # call.got.try \/ d.from # call.got.n],
                 !.unreported = IF n < CreditStep THEN n ELSE 0]

(* call_body, for a callback that takes the data.                          *)
TakeBody(c, d) ==
    LET a == [agent EXCEPT !.call[c] = Taken(agent.call[c], d)]
        credit == CallCredit(agent.call[c].unreported + d.n)
    IN IF credit = 0 THEN ClientDone(a, 1)
       ELSE ClientSend(a, 1, Frame(c, "credit", 0, DataOf(0, 0, credit)))

(* The client gives a call up: a cancel, then the end.                     *)
GiveUp(c, how) ==
    ClientSend(TcallEnd(agent, c, how), 1, Frame(c, "cancel", 0, NoData))

(* call_frame, call_start and call_error.                                  *)
CallFrame(c, m) ==
    LET call == agent.call[c]
        ended(how) == ClientDone(TcallEnd(agent, c, how), 1)
    IN \/ m.seq # call.next /\ GiveUp(c, "lost")
       \/ /\ m.seq = call.next
          /\ \/ /\ m.kind = "start"
                /\ ClientDone([agent EXCEPT !.call[c] =
                        [call EXCEPT !.next = @ + 1, !.started = TRUE,
                                     !.got.try = m.data.try]], 1)
             \/ m.kind = "body" /\ ~call.started /\ ended("lost")
             \/ m.kind = "body" /\ call.started /\ TakeBody(c, m.data)
             \/ /\ m.kind = "body" /\ call.started /\ "abort" \in Faults
                /\ GiveUp(c, "aborted")
             \/ /\ m.kind = "end"
                /\ LET whole == m.data = DataOf(call.got.try, call.got.n, 0) IN
                   ClientDone([TcallEnd(agent, c, "ok") EXCEPT
                        !.call[c].got.torn = @ \/ ~whole], 1)
             \/ m.kind \in ErrorKind /\ ended(m.kind)

(* client_readable, one frame.  A frame for a call that has ended is the   *)
(* tail of a cancel.  A client that is marked lost reads nothing.          *)
ClientReadable ==
    /\ agent.open /\ agent.src /\ ~agent.lost
    /\ srv.down # <<>>
    /\ LET m == Head(srv.down) IN
       IF Open(agent, m.id) THEN CallFrame(m.id, m) ELSE ClientDone(agent, 1)
    /\ UNCHANGED login

(* client_readable at the end of the channel.                              *)
ClientEof ==
    /\ agent.open /\ agent.src /\ ~agent.lost
    /\ srv.chan = "closed" /\ srv.down = <<>>
    /\ agent' = ClientLose(agent)
    /\ srv' = [srv EXCEPT !.reset = FALSE]
    /\ UNCHANGED <<up, login>>

(* client_on_event with an error: the kernel reports the reset once.       *)
ClientError ==
    /\ agent.open /\ agent.src
    /\ srv.chan = "closed" /\ srv.reset
    /\ agent' = ClientLose(agent)
    /\ srv' = [srv EXCEPT !.reset = FALSE]
    /\ UNCHANGED <<up, login>>

(***************************************************************************)
(* The transport.  Handlers take the state of the server and give the      *)
(* state they leave, or the set of those they can leave.                   *)
(***************************************************************************)
(* chan_doom: a deferred call frees the channel.                           *)
ChanDoom(s) == IF s.chan = "open" THEN [s EXCEPT !.chan = "doomed"] ELSE s

(* chan_free and fyai_transport_retire.  What the agent sent and the       *)
(* transport did not read makes the kernel report a reset.                 *)
ChanFree(s) ==
    [s EXCEPT !.chan = "closed", !.want = FALSE, !.reset = up # <<>> /\ agent.open,
              !.work = NoWork, !.req = [c \in Call |-> NoReq]]

(* req_queue.                                                              *)
ReqQueue(s, c, kind, data) ==
    [s EXCEPT !.req[c].pending = Append(@, Frame(c, kind, s.req[c].seq, data)),
              !.req[c].seq = @ + 1]

(* Mutant: what the socket did not take is left without a watch on it.     *)
ReqFlushQuiet(s, c) ==
    LET p == s.req[c].pending
        room == Room - Len(s.down)
        k == IF Len(p) <= room THEN Len(p) ELSE room
        t == [s EXCEPT !.down = @ \o SubSeq(p, 1, k),
                       !.req[c].pending = SubSeq(p, k + 1, Len(p))]
    IN IF k < Len(p) THEN t
       ELSE IF s.req[c].finished THEN [t EXCEPT !.req[c] = NoReq] ELSE t

(* req_flush: send what is queued as far as the socket takes it.  A        *)
(* request with its terminal frame sent is freed.                          *)
ReqFlush(s, c) ==
    LET p == s.req[c].pending
        room == Room - Len(s.down)
        k == IF Len(p) <= room THEN Len(p) ELSE room
        t == [s EXCEPT !.down = @ \o SubSeq(p, 1, k),
                       !.req[c].pending = SubSeq(p, k + 1, Len(p))]
    IN IF p # <<>> /\ ~agent.open
       THEN ChanDoom([s EXCEPT !.req[c].pending = <<>>])
       ELSE IF k < Len(p) THEN [t EXCEPT !.want = TRUE]
       ELSE IF s.req[c].finished THEN [t EXCEPT !.req[c] = NoReq] ELSE t

(* req_fail.                                                               *)
ReqFail(s, c, kind) ==
    IF s.req[c].finished THEN s
    ELSE ReqFlush([ReqQueue(s, c, kind, NoData) EXCEPT !.req[c].finished = TRUE,
                                                       !.req[c].phase = "over"], c)

(* The states of the login: fresh, valid but due for a refresh, expired.   *)
LoginValid == login.age # "expired"

(* verb_prepare: what it answers, and the state it leaves.  One refresh    *)
(* serves all who wait; a request that waited starts none; and a refresh   *)
(* that cannot be started leaves a token that is still valid in use.       *)
VerbPrepare(s, resumed) ==
    LET now == [rc |-> IF LoginValid THEN "ready" ELSE "refused", s |-> s]
        wait == [rc |-> "wait", s |-> [s EXCEPT !.refresh = TRUE]]
    IN IF login.age = "fresh" \/ resumed THEN {now}
       ELSE IF s.refresh THEN {wait} ELSE {now, wait}

(* verb_reject: the answer to a 401 of a request that used token tag.      *)
VerbReject(s, tag) ==
    IF login.tag # tag
    THEN {[rc |-> IF LoginValid THEN "ready" ELSE "refused", s |-> s]}
    ELSE {[rc |-> "wait", s |-> [s EXCEPT !.refresh = TRUE]]}
         \cup (IF s.refresh THEN {} ELSE {[rc |-> "refused", s |-> s]})

(* The request is handed to curl.  The provider's answer is chosen here.   *)
Submitted(s, c) ==
    {[s EXCEPT !.req[c] = [s.req[c] EXCEPT
         !.phase = "running", !.result = "none", !.tag = login.tag,
         !.retry = ~s.req[c].retried, !.try = @ + 1,
         !.status = answer.status, !.len = answer.len, !.pos = 0]]
     : answer \in [status : Status, len : Lengths]}

(* The source has answered a: the request is parked until a refresh ends,  *)
(* is refused, or goes on.                                                 *)
Answered(a, c, goesOn) ==
    CASE a.rc = "wait" -> {[a.s EXCEPT !.req[c].phase = "parked"]}
      [] a.rc = "refused" -> {ReqFail(a.s, c, "refused")}
      [] a.rc = "ready" -> goesOn

(* req_run: refuse the request, park it, or hand it to curl.               *)
ReqRun(s, c, resumed) ==
    {ReqFail(s, c, "refused") : f \in Faults \cap {"refuse"}}
    \cup UNION {Answered(a, c, Submitted(a.s, c)) : a \in VerbPrepare(s, resumed)}

(* req_rejected: is the answer a 401 that a renewed login may turn?  The   *)
(* source is asked once.  held says that the answer is kept from the agent.*)
AsksRenewal(r) == r.status = "unauthorized" /\ r.retry /\ ~r.cancelled

ReqRejected(s, c) ==
    LET r == s.req[c] IN
    IF ~AsksRenewal(r) THEN {s}
    ELSE IF r.rejected THEN {s}
    ELSE {[a.s EXCEPT !.req[c].rejected = TRUE, !.req[c].held = a.rc # "refused"]
          : a \in VerbReject(s, r.tag)}

IsHeld(r) == AsksRenewal(r) /\ r.held

(* req_send from a write callback: sent, socket full, or channel gone.     *)
Sendable(s) == Len(s.down) < Room

StartFrame(s, c) ==
    Frame(c, "start", s.req[c].seq, DataOf(s.req[c].try, 0, 0))

(* Mutant: a pause that takes the data.                                    *)
SendBodyTaken(s, c, n) ==
    LET r == s.req[c] IN
    IF ~Sendable(s) THEN [s EXCEPT !.req[c].paused = TRUE, !.want = TRUE, !.req[c].pos = @ + n]
    ELSE [s EXCEPT !.down = Append(@, Frame(c, "body", r.seq, DataOf(r.try, r.pos, n))),
                   !.req[c].seq = @ + 1, !.req[c].credit = @ - n, !.req[c].pos = @ + n]

(* req_write_cb with n units: consumed, kept back for the retry, or paused *)
(* until the agent gives credit or the socket takes frames.                *)
SendBody(s, c, n) ==
    LET r == s.req[c] IN
    IF ~agent.open THEN [s EXCEPT !.req[c].phase = "done", !.req[c].result = "failed"]
    ELSE IF ~Sendable(s) THEN [s EXCEPT !.req[c].paused = TRUE, !.want = TRUE]
    ELSE [s EXCEPT !.down = Append(@, Frame(c, "body", r.seq, DataOf(r.try, r.pos, n))),
                   !.req[c] = [r EXCEPT !.seq = @ + 1, !.credit = @ - n, !.pos = @ + n]]

SendStart(s, c) ==
    IF s.req[c].started \/ ~agent.open \/ ~Sendable(s) THEN s
    ELSE [s EXCEPT !.down = Append(@, StartFrame(s, c)),
                   !.req[c].seq = @ + 1, !.req[c].started = TRUE, !.req[c].retry = FALSE]

ReqWrite(s, c, n) ==
    LET r == s.req[c] IN
    IF ~r.started /\ IsHeld(r) THEN [s EXCEPT !.req[c].pos = @ + n]
    ELSE IF r.credit < n \/ r.pending # <<>> THEN [s EXCEPT !.req[c].paused = TRUE]
    ELSE SendBody(SendStart(s, c), c, n)

(* Mutants: the retry is not remembered; the retry waits without asking    *)
(* whether the renewal has ended.                                          *)
ReqRetryForever(s, c) ==
    UNION {Answered(a, c, ReqRun(a.s, c, TRUE)) : a \in VerbReject(s, s.req[c].tag)}

ReqRetryWaits(s, c) ==
    {[s EXCEPT !.req[c].retry = FALSE, !.req[c].retried = TRUE, !.req[c].phase = "parked"]}

(* req_retry: run the request again with a renewed login.  The renewal can *)
(* have ended since the source was asked, so it is asked again.            *)
ReqRetry(s, c) ==
    LET t == [s EXCEPT !.req[c].retry = FALSE, !.req[c].retried = TRUE]
    IN UNION {Answered(a, c, ReqRun(a.s, c, TRUE)) : a \in VerbReject(t, s.req[c].tag)}

(* req_complete_cb: the terminal frame of a transfer that has ended.       *)
ReqReport(s, c) ==
    LET started == IF s.req[c].started THEN s
                   ELSE [ReqQueue(s, c, "start", DataOf(s.req[c].try, 0, 0))
                         EXCEPT !.req[c].started = TRUE, !.req[c].retry = FALSE]
        whole == DataOf(s.req[c].try, s.req[c].len, 0)
    IN ReqFlush([ReqQueue(started, c, "end", whole)
                 EXCEPT !.req[c].finished = TRUE, !.req[c].phase = "over"], c)

ReqComplete(s, c) ==
    LET t == [s EXCEPT !.req[c].paused = FALSE]
        r == t.req[c]
        answered(u) == IF ~r.started /\ IsHeld(u.req[c]) THEN ReqRetry(u, c)
                                                          ELSE {ReqReport(u, c)}
    IN CASE r.cancelled -> {ReqFail(t, c, "cancelled")}
         [] ~r.cancelled /\ r.result = "failed" -> {ReqFail(t, c, "failed")}
         [] ~r.cancelled /\ r.result = "ok" ->
                UNION {answered(u) : u \in IF r.started THEN {t} ELSE ReqRejected(t, c)}

(* req_cancel.                                                             *)
ReqCancel(s, c) ==
    LET r == s.req[c]
        t == [s EXCEPT !.req[c].cancelled = TRUE]
    IN IF r.cancelled \/ r.finished THEN s
       ELSE IF r.phase = "parked" THEN ReqFail(t, c, "cancelled")
       ELSE IF r.phase = "running"
            THEN [t EXCEPT !.req[c].phase = "done", !.req[c].result = "failed"]
       ELSE t

(* req_resume: send what is queued, else let curl deliver again.           *)
ReqResume(s, c) ==
    LET r == s.req[c] IN
    IF r.pending # <<>> THEN ReqFlush(s, c)
    ELSE IF r.paused /\ ~r.finished /\ r.credit > 0
         THEN [s EXCEPT !.req[c].paused = FALSE]
    ELSE s

Present(s, c) == s.req[c].phase # "none"

(* chan_dispatch, req_start.                                               *)
ChanDispatch(s, m) ==
    LET c == m.id IN
    CASE m.kind = "request" ->
            IF Present(s, c) THEN {ChanDoom(s)}
            ELSE ReqRun([s EXCEPT !.req[c] = [NoReq EXCEPT !.phase = "parked",
                                                           !.credit = Window]], c, FALSE)
      [] m.kind = "cancel" -> {IF Present(s, c) THEN ReqCancel(s, c) ELSE s}
      [] m.kind = "credit" ->
            {IF Present(s, c) THEN ReqResume([s EXCEPT !.req[c].credit = @ + m.data.n], c)
                              ELSE s}

(***************************************************************************)
(* Steps of the transport.  It is between handlers when no work is left.   *)
(***************************************************************************)
Between == srv.work.left = {} /\ srv.chan # "closed"

(* Mutant: only the newest request is gone through.                        *)
WorkForNewest(op, requests) ==
    [op |-> op, left |-> {c \in requests : \A d \in requests : d <= c}]

WorkFor(op, requests) == IF requests = {} THEN NoWork ELSE [op |-> op, left |-> requests]
Parked == {c \in Call : srv.chan = "open" /\ srv.req[c].phase = "parked"}

(* chan_readable, one message.                                             *)
ChanReadable ==
    /\ Between /\ srv.chan = "open"
    /\ up # <<>>
    /\ up' = Tail(up)
    /\ srv' \in ChanDispatch(srv, Head(up))
    /\ UNCHANGED <<agent, login>>

(* chan_readable at the end of the channel.                                *)
ChanEof ==
    /\ Between /\ srv.chan = "open"
    /\ up = <<>> /\ ~agent.open
    /\ srv' = ChanDoom(srv)
    /\ UNCHANGED <<agent, up, login>>

(* chan_writable: the requests of the channel are resumed, newest first.   *)
ChanWritable ==
    /\ Between /\ srv.chan = "open"
    /\ srv.want /\ (Sendable(srv) \/ ~agent.open)
    /\ srv' = [srv EXCEPT !.want = FALSE,
                          !.work = WorkFor("resume", {c \in Call : Present(srv, c)})]
    /\ UNCHANGED <<agent, up, login>>

(* refresh_done and fyai_transport_server_prepared: the refresh has renewed *)
(* the login or failed, and every parked request runs.                     *)
RefreshDone ==
    /\ srv.work.left = {} /\ srv.refresh
    /\ \/ login' = [tag |-> login.tag + 1, age |-> "fresh"] /\ login.tag < MaxTag
       \/ UNCHANGED login
    /\ srv' = [srv EXCEPT !.refresh = FALSE, !.work = WorkFor("run", Parked)]
    /\ UNCHANGED <<agent, up>>

(* The next request of a handler that goes through them.                   *)
WorkOn(c) ==
    LET s == [srv EXCEPT !.work = WorkFor(@.op, @.left \ {c})]
    IN /\ c \in srv.work.left /\ \A d \in srv.work.left : d <= c
       /\ CASE srv.chan # "open" -> srv' = [srv EXCEPT !.work = NoWork]
            [] srv.chan = "open" /\ srv.work.op = "resume" -> srv' = ReqResume(s, c)
            [] srv.chan = "open" /\ srv.work.op = "run" -> srv' \in ReqRun(s, c, TRUE)
       /\ UNCHANGED <<agent, up, login>>

(* curl delivers some of the body.  What a pause held back comes again.    *)
CurlWrite(c) ==
    /\ Between
    /\ LET r == srv.req[c] IN
       /\ r.phase = "running" /\ ~r.paused /\ r.pos < r.len
       /\ \E n \in 1 .. Chunk :
            /\ r.pos + n <= r.len
            /\ srv' \in {ReqWrite(s, c, n) : s \in IF r.started THEN {srv}
                                                    ELSE ReqRejected(srv, c)}
    /\ UNCHANGED <<agent, up, login>>

(* fyai_curl_transfer_finish: the owner is told by a deferred call.        *)
CurlFinish(c, result) ==
    /\ Between
    /\ srv.req[c].phase = "running"
    /\ result = "failed" => "fail" \in Faults
    /\ result = "ok" => srv.req[c].pos = srv.req[c].len /\ ~srv.req[c].paused
    /\ srv' = [srv EXCEPT !.req[c].phase = "done", !.req[c].result = result]
    /\ UNCHANGED <<agent, up, login>>

(* fyai_curl_notify.                                                       *)
CurlNotify(c) ==
    /\ Between
    /\ srv.req[c].phase = "done"
    /\ srv' \in ReqComplete(srv, c)
    /\ UNCHANGED <<agent, up, login>>

(* chan_reap.                                                              *)
ChanReap ==
    /\ Between /\ srv.chan = "doomed"
    /\ srv' = ChanFree(srv)
    /\ up' = <<>>
    /\ UNCHANGED <<agent, login>>

(***************************************************************************)
(* The environment.                                                        *)
(***************************************************************************)
(* The supervisor retires the execution, or the transport dies.            *)
Retire ==
    /\ "retire" \in Faults
    /\ srv.chan = "open"
    /\ srv' = ChanFree(srv)
    /\ up' = <<>>
    /\ UNCHANGED <<agent, login>>

(* The token gets older.                                                   *)
LoginAges ==
    /\ "age" \in Faults
    /\ \/ login.age = "fresh" /\ login' = [login EXCEPT !.age = "due"]
       \/ login.age = "due" /\ login' = [login EXCEPT !.age = "expired"]
    /\ UNCHANGED <<agent, up, srv>>

(* Another process refreshes the login.                                    *)
LoginRenewed ==
    /\ login.tag < MaxTag
    /\ login' = [tag |-> login.tag + 1, age |-> "fresh"]
    /\ UNCHANGED <<agent, up, srv>>

Next ==
    \/ \E c \in Call : Submit(c) \/ Cancel(c) \/ Destroy(c)
    \/ ClientClose \/ ClientReadable \/ ClientEof \/ ClientError
    \/ ChanReadable \/ ChanEof \/ ChanWritable \/ RefreshDone \/ ChanReap
    \/ \E c \in Call :
         \/ WorkOn(c) \/ CurlWrite(c) \/ CurlNotify(c)
         \/ \E result \in {"ok", "failed"} : CurlFinish(c, result)
    \/ Retire \/ LoginAges \/ LoginRenewed

Spec == Init /\ [][Next]_vars

(* Both event loops go on while they have something to do; a transfer ends *)
(* (CURLOPT_TIMEOUT_MS), a refresh ends (CURLOPT_TIMEOUT).                 *)
Fairness ==
    /\ WF_vars(ClientReadable) /\ WF_vars(ClientEof) /\ WF_vars(ClientError)
    /\ WF_vars(ChanReadable) /\ WF_vars(ChanWritable) /\ WF_vars(ChanEof)
    /\ WF_vars(ChanReap) /\ WF_vars(RefreshDone)
    /\ \A c \in Call :
        /\ WF_vars(WorkOn(c)) /\ WF_vars(CurlNotify(c))
        /\ WF_vars(CurlWrite(c)) /\ WF_vars(CurlFinish(c, "ok"))

FairSpec == Spec /\ Fairness

(***************************************************************************)
(* Properties.                                                             *)
(***************************************************************************)
Frames == [id : Call, kind : ErrorKind \cup {"request", "cancel", "credit", "start", "body", "end"},
           seq : Nat, data : [try : Nat, from : Nat, n : Nat]]

Calls == [st : ErrorKind \cup {"idle", "open", "unsent", "freed", "ok", "lost", "aborted"},
          started : BOOLEAN, cancelSent : BOOLEAN, next : Nat, unreported : 0 .. CreditStep - 1,
          got : [try : Nat, n : Nat, torn : BOOLEAN]]

Requests == [phase : {"none", "parked", "running", "done", "over"}, seq : Nat,
             credit : 0 .. Window, started : BOOLEAN, paused : BOOLEAN,
             cancelled : BOOLEAN, finished : BOOLEAN, rejected : BOOLEAN,
             held : BOOLEAN, retry : BOOLEAN, retried : BOOLEAN, tag : Nat,
             pending : Seq(Frames), result : {"none", "ok", "failed"},
             try : 0 .. 2, status : Status, len : Nat, pos : Nat]

(* Types; among them that credit never passes the window, that a request   *)
(* is tried twice at most and that the queue of a request holds two frames *)
(* (REQ_PENDING_MAX).                                                      *)
TypeOK ==
    /\ agent \in [open : BOOLEAN, src : BOOLEAN, lost : BOOLEAN, call : [Call -> Calls]]
    /\ up \in Seq(Frames)
    /\ srv \in [chan : {"open", "doomed", "closed"}, reset : BOOLEAN, want : BOOLEAN,
                refresh : BOOLEAN,
                work : [op : {"none", "resume", "run"}, left : SUBSET Call],
                down : Seq(Frames), req : [Call -> Requests]]
    /\ login \in [tag : 1 .. MaxTag, age : {"fresh", "due", "expired"}]
    /\ Len(srv.down) <= Room
    /\ \A c \in Call : Len(srv.req[c].pending) <= 2

(* A parked request waits for a refresh that is under way: a renewal that  *)
(* ended while the rejected body was read is not waited for (the comment   *)
(* in req_retry).                                                          *)
ParkedHasRenewal ==
    srv.chan = "open" =>
        \A c \in Call : srv.req[c].phase = "parked" =>
            srv.refresh \/ (srv.work.op = "run" /\ c \in srv.work.left)

(* A paused transfer is resumed by something that will come: room in the   *)
(* socket, which is watched, or credit that the agent owes.                *)
PausedHasWaker ==
    srv.chan = "open" /\ agent.open =>
        \A c \in Call : srv.req[c].phase = "running" /\ srv.req[c].paused =>
            \/ srv.want
            \/ srv.req[c].credit < Chunk
            \/ srv.work.op = "resume" /\ c \in srv.work.left

(* Units of a kind of frames of a call in each prefix of a queue.          *)
Units(frames, c, kind) ==
    LET f[i \in 0 .. Len(frames)] ==
            IF i = 0 THEN 0
            ELSE f[i - 1] + (IF frames[i].id = c /\ frames[i].kind = kind
                             THEN frames[i].data.n ELSE 0)
    IN f

UnitsIn(frames, c, kind) == Units(frames, c, kind)[Len(frames)]

(* No credit is lost or made: what the transport may send, what is on the  *)
(* way, what the agent keeps back and what it has reported is the window.  *)
CreditConserved ==
    srv.chan = "open" =>
        \A c \in Call :
            (Present(srv, c) /\ Open(agent, c)) =>
                srv.req[c].credit + UnitsIn(srv.down, c, "body")
                  + agent.call[c].unreported + UnitsIn(up, c, "credit") = Window

(* The owner of a call gets pieces of one answer in order, each one time,  *)
(* and is told that it is whole only if it is: not a piece of an answer    *)
(* that was rejected, and none twice after a pause.                        *)
AnswersAreWhole == \A c \in Call : ~agent.call[c].got.torn

(* A call ends, unless a send on a closed channel has marked the client    *)
(* lost before its end was read: CancelledCallsEnd does not hold.          *)
CallsEnd == \A c \in Call : Open(agent, c) ~> (~Open(agent, c) \/ agent.lost)

(* "Ask the transport to stop the call.  Its end callback still runs."     *)
(* (fyai_transport_client.h), and the client "can end them when the        *)
(* channel fails" (fyai_transport_client.c).                               *)
CancelledCallsEnd ==
    \A c \in Call : (Open(agent, c) /\ agent.call[c].cancelSent) ~> ~Open(agent, c)
=============================================================================
