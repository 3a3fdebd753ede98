------------------------------ MODULE EventWait ------------------------------
(***************************************************************************)
(* The events that wait for the model, and the waits for them (fyai_wait.c, *)
(* fyai_monitor.c, the queue in fyai.c, the groups of tool calls in         *)
(* fyai_tools.c).  Named waits, monitors and sub-agents in the background   *)
(* queue events.  The turn loop takes them before a request; a `wait` with  *)
(* `for` reads them while a turn runs and leaves them in the queue until no *)
(* wait can still want them.                                                *)
(*                                                                         *)
(* The interactive loop, with answers that are streamed: the calls of a     *)
(* parallel group start while the answer arrives, the others one by one     *)
(* after the group.  Each callback of the event loop is a step; the         *)
(* callbacks deferred to the next iteration are one batch, which nothing    *)
(* but a nested loop interrupts.                                            *)
(***************************************************************************)
EXTENDS Filters, SequencesExt, FiniteSets

CONSTANTS
    Timers,         \* names of waits
    Monitors,       \* names of monitors
    Agents,         \* names of sub-agents in the background
    Started,        \* what earlier turns can have started: sets of sources
    MaxWaiters,     \* bound: calls of `wait` with `for` in a group
    MaxNews,        \* bound: sources started and events that end none
    MaxRounds,      \* bound: answers with tool calls
    MaxOther        \* bound: interrupts, lines of the user and resets

ASSUME WaitAssumption ==
    /\ Started \subseteq SUBSET (Timers \cup Monitors \cup Agents)
    /\ IsFiniteSet(Timers \cup Monitors \cup Agents)
    /\ Timers \cap (Monitors \cup Agents) = {} /\ Monitors \cap Agents = {}
    /\ MaxWaiters \in Nat /\ MaxNews \in Nat /\ MaxRounds \in Nat /\ MaxOther \in Nat

VARIABLES
    src,        \* the waits, monitors and sub-agents
    queue,      \* ctx->events, in the order of their ids
    nextId,     \* the next event
    waiters,    \* ctx->waiters, the entries of the group that hold a wait
    nap,        \* the wait without `for` that holds the turn
    kick,       \* ctx->waiter_kick
    deferred,   \* the deferred callbacks
    batch,      \* the callbacks of this iteration that have not run
    outer,      \* the batch that the loop of a nap interrupted
    turn,       \* run->state
    answer,     \* what the model step ended with
    job,        \* an ordinary call of the group is running
    cancel,     \* run->cancel_requested
    intr,       \* ctx->interrupt_pending
    wake,       \* the wake pipe is readable
    told, returned, gone,   \* history: what became of each event
    used        \* bounds: what was used of each

loop == <<kick, deferred, batch, outer>>
run == <<turn, answer, job, cancel>>
sig == <<intr, wake>>
history == <<told, returned, gone>>
vars == <<src, queue, nextId, waiters, nap, loop, run, sig, history, used>>

Source == Timers \cup Monitors \cup Agents
Waiter == 1 .. MaxWaiters
MaxId == Cardinality(Source) + MaxNews
NoReport == -1      \* "ended without a report"

(***************************************************************************)
(* The queue.                                                              *)
(***************************************************************************)
Ids(evs) == {e.id : e \in evs}
TextsOf(w) == {waiters[w].text[s] : s \in waiters[w].for} \ {0, NoReport}
Held == UNION {TextsOf(w) : w \in {v \in Waiter : waiters[v].st \in {"active", "done"}}}

(* A request for input names its sub-agent, and is stale once that ended.   *)
Live(ev) == ev.what = "input" => src[ev.from].st = "on"

Pending(s) == {e \in queue : e.from = s /\ Live(e)}
Oldest(evs) == CHOOSE e \in evs : \A f \in evs : e.id <= f.id
(* Mutant: what a waiter has read is taken.                                 *)
UnseenAll == queue

Unseen == {e \in queue : ~e.seen}

(***************************************************************************)
(* Deferred callbacks: an identical one that is queued covers the call.     *)
(***************************************************************************)
Put(d, cb) == IF cb \in ToSet(d) THEN d ELSE Append(d, cb)
Without(d, cbs) == Filter(d, ToSet(d) \ cbs)
Finishes == {<<"finish", s>> : s \in Source}

Active == {w \in Waiter : waiters[w].st = "active"}
SomeActive == Active # {} \/ nap = "sleeping"
Ready == batch = <<>> /\ turn # "crashed"

(* The events evs, each <<from, what>>, with the next ids.                  *)
Numbered(evs) ==
    {[id |-> nextId + i - 1, from |-> evs[i][1], what |-> evs[i][2], seen |-> FALSE] :
        i \in 1 .. Len(evs)}

(* Mutant: an event wakes no waiter.                                        *)
InjectQuietly(evs) ==
    /\ queue' = queue \cup Numbered(evs)
    /\ nextId' = nextId + Len(evs)
    /\ UNCHANGED <<kick, deferred>>

(* Queue the events, and wake the waiters.                                  *)
Inject(evs) ==
    /\ queue' = queue \cup Numbered(evs)
    /\ nextId' = nextId + Len(evs)
    /\ IF evs = <<>> \/ kick \/ ~SomeActive
       THEN UNCHANGED <<kick, deferred>>
       ELSE kick' = TRUE /\ deferred' = Put(deferred, <<"kick">>)

(***************************************************************************)
(* What queues events.                                                     *)
(***************************************************************************)
Off == [st |-> "off", stopped |-> FALSE]
On == [st |-> "on", stopped |-> FALSE]

(* Mutant: a job that ended is no target, before its end is queued.         *)
RunningJob(s) == src[s].st = "on"

(* A target can still produce a report.                                     *)
Running(s) == src[s].st \in (IF s \in Timers THEN {"on"} ELSE {"on", "ending"})

(* fyai_waits_reap: every reader of the waits drops those that fired.       *)
Reaped(ss) == [s \in Source |-> IF s \in Timers /\ ss[s].st = "fired" THEN Off ELSE ss[s]]

Stopped(s) == s \in Monitors /\ src[s].stopped

WaitFires(s) ==
    /\ Ready /\ s \in Timers /\ src[s].st = "on"
    /\ src' = [src EXCEPT ![s].st = "fired"]
    /\ Inject(<<<<s, "end">>>>)
    /\ UNCHANGED <<waiters, nap, batch, outer, run, sig, history, used>>

(* Lines of a monitor, or that it printed more of them than                 *)
(* FYAI_MONITOR_MAX_EVENTS, which any may be here: its command is then      *)
(* asked to end, and its later output is dropped.                           *)
MonitorOutput(s) ==
    /\ Ready /\ s \in Monitors /\ src[s].st = "on" /\ ~Stopped(s)
    /\ used.news < MaxNews
    /\ used' = [used EXCEPT !.news = @ + 1]
    /\ src' \in {src, [src EXCEPT ![s].stopped = TRUE]}
    /\ Inject(<<<<s, "lines">>>>)
    /\ UNCHANGED <<waiters, nap, batch, outer, run, sig, history>>

(* A sub-agent begins to read its input: the request names its owner.       *)
AgentWaits(s) ==
    /\ Ready /\ s \in Agents /\ src[s].st = "on"
    /\ used.news < MaxNews
    /\ used' = [used EXCEPT !.news = @ + 1]
    /\ Inject(<<<<s, "input">>>>)
    /\ UNCHANGED <<src, waiters, nap, batch, outer, run, sig, history>>

(* The job of a monitor or a sub-agent ended: its group asks for the finish. *)
JobEnds(s) ==
    /\ Ready /\ s \in Monitors \cup Agents /\ src[s].st = "on"
    /\ src' = [src EXCEPT ![s].st = "ending"]
    /\ deferred' = Put(deferred, <<"finish", s>>)
    /\ UNCHANGED <<queue, nextId, waiters, nap, kick, batch, outer, run, sig, history, used>>

(* What the end of a monitor or a sub-agent queues.  A partial last line is *)
(* kept of a monitor; one that was stopped has said so already.             *)
EndEvents(s, partial) ==
    (IF partial THEN <<<<s, "lines">>>> ELSE <<>>)
    \o (IF Stopped(s) THEN <<>> ELSE <<<<s, "end">>>>)

Finish(s) ==
    /\ src[s].st = "ending"
    /\ \E partial \in BOOLEAN :
          /\ partial => s \in Monitors /\ used.news < MaxNews
          /\ used' = [used EXCEPT !.news = IF partial THEN @ + 1 ELSE @]
          /\ Inject(EndEvents(s, partial))
    /\ src' = [src EXCEPT ![s].st = "off"]
    /\ batch' = Tail(batch)
    /\ UNCHANGED <<waiters, nap, outer, run, sig, history>>

(* A monitor that was cancelled from this batch: what it named is free.     *)
FinishFreed(s) ==
    /\ src[s].st # "ending"
    /\ turn' = "crashed"
    /\ UNCHANGED <<src, queue, nextId, waiters, nap, loop, answer, job, cancel,
                   sig, history, used>>

(***************************************************************************)
(* Waiters.                                                                *)
(***************************************************************************)
Free == [st |-> "free", for |-> {}, all |-> FALSE, text |-> [s \in Source |-> 0]]

(* The text of target s after a look: a report that is kept, the oldest     *)
(* event, or that the target ended without one.                             *)
Look(text, s) ==
    IF text[s] # 0 THEN text[s]
    ELSE IF Pending(s) # {} THEN Oldest(Pending(s)).id
    ELSE IF ~Running(s) THEN NoReport
    ELSE 0

Looked(r) == [s \in Source |-> IF s \in r.for THEN Look(r.text, s) ELSE 0]

Satisfied(r) ==
    IF r.all THEN \A s \in r.for : r.text[s] # 0
             ELSE \E s \in r.for : r.text[s] # 0

(* fyai_waiter_poll: late when the time of the wait has passed.             *)
Polled(r, late) ==
    LET seen == [r EXCEPT !.text = Looked(r)]
    IN  IF Satisfied(seen) \/ late \/ intr THEN [seen EXCEPT !.st = "done"] ELSE seen

(* Mutant: a look marks every event.                                        *)
MarkedAll(ids) == {[e EXCEPT !.seen = TRUE] : e \in queue}

(* Reading an event marks it: the turn loop then leaves it.                 *)
Marked(ids) == {IF e.id \in ids THEN [e EXCEPT !.seen = TRUE] ELSE e : e \in queue}

(* Whether a look asks for a named wait, which reaps the waits that fired.  *)
AsksForWait(rs) ==
    \E r \in rs : \E s \in r.for \cap Timers : r.text[s] = 0 /\ Pending(s) = {}

(* fyai_tool_job_group_done of the group with the waiters ws.               *)
GroupDone(ws, running) == ~running /\ \A w \in Waiter : ws[w].st # "active"

(* A group that became done is collected by the turn.                       *)
Notified(d, ws, running) ==
    IF turn = "tools" /\ GroupDone(ws, running) THEN Put(d, <<"service">>) ELSE d

(* The end of a look: a timer for the earliest deadline, or none, and what  *)
(* was read leaves the queue in the next iteration.                         *)
Armed(d, ws, np) ==
    IF (\E w \in Waiter : ws[w].st = "active") \/ np = "sleeping"
    THEN d ELSE Put(d, <<"purge">>)

NapEnds(late) == intr \/ late \/ \E e \in queue : Live(e)

(* fyai_waiters_poll, from the deferred callbacks d.                        *)
Poll(d, late, napLate) ==
    LET ws == [w \in Waiter |->
                  IF w \in Active THEN Polled(waiters[w], w \in late) ELSE waiters[w]]
        ids == UNION {{ws[w].text[s] : s \in ws[w].for} : w \in Active}
        np == IF nap = "sleeping" /\ NapEnds(napLate) THEN "woken" ELSE nap
        d1 == IF Active # {} THEN Notified(d, ws, job) ELSE d
    IN  /\ waiters' = ws
        /\ nap' = np
        /\ queue' = Marked(ids)
        /\ src' = IF AsksForWait({waiters[w] : w \in Active}) THEN Reaped(src) ELSE src
        /\ deferred' = Armed(d1, ws, np)

(* Mutant: the kick stays set.                                              *)
KickedOnce ==
    /\ Poll(deferred, {}, FALSE)
    /\ batch' = Tail(batch)
    /\ UNCHANGED <<nextId, kick, outer, run, sig, history, used>>

Kicked ==
    /\ kick' = FALSE
    /\ Poll(deferred, {}, FALSE)
    /\ batch' = Tail(batch)
    /\ UNCHANGED <<nextId, outer, run, sig, history, used>>

(* The timer of the waiters: the time of one of them has passed.            *)
WaiterLate(w) ==
    /\ Ready /\ w \in Active
    /\ Poll(deferred, {w}, FALSE)
    /\ UNCHANGED <<nextId, kick, batch, outer, run, sig, history, used>>

NapLate ==
    /\ Ready /\ nap = "sleeping"
    /\ Poll(deferred, {}, TRUE)
    /\ UNCHANGED <<nextId, kick, batch, outer, run, sig, history, used>>

Purge ==
    /\ queue' = IF SomeActive THEN queue ELSE Unseen
    /\ batch' = Tail(batch)
    /\ UNCHANGED <<src, nextId, waiters, nap, kick, deferred, outer, run, sig, history, used>>

(***************************************************************************)
(* The turn: calls of an answer that arrives.                              *)
(***************************************************************************)
Streaming == Ready /\ turn = "model" /\ answer = "" /\ ~cancel

(* `monitor`, or `agent` in the background.                                 *)
CallStart(s) ==
    /\ Streaming /\ s \in Monitors \cup Agents /\ src[s].st = "off"
    /\ used.news < MaxNews
    /\ used' = [used EXCEPT !.news = @ + 1]
    /\ src' = [src EXCEPT ![s] = On]
    /\ UNCHANGED <<queue, nextId, waiters, nap, loop, run, sig, history>>

(* A command that runs beside the waits; it comes before them.              *)
CallJob ==
    /\ Streaming /\ ~job /\ \A w \in Waiter : waiters[w].st = "free"
    /\ job' = TRUE
    /\ UNCHANGED <<src, queue, nextId, waiters, nap, loop, turn, answer, cancel,
                   sig, history, used>>

(* `wait` with `for`: a target that neither runs nor has reported is        *)
(* refused; a poll looks once.                                              *)
CallWait(w, targets, all, poll) ==
    /\ Streaming /\ waiters[w].st = "free"
    /\ \A v \in 1 .. w - 1 : waiters[v].st # "free"
    /\ all => Cardinality(targets) > 1
    /\ \A s \in targets : Running(s) \/ Pending(s) # {}
    /\ LET r == Polled([Free EXCEPT !.st = "active", !.for = targets, !.all = all], poll)
           ws == [waiters EXCEPT ![w] = r]
       IN  /\ waiters' = ws
           /\ queue' = Marked({r.text[s] : s \in targets})
           /\ deferred' = Armed(deferred, ws, nap)
    /\ src' = IF targets \cap Timers # {} THEN Reaped(src) ELSE src
    /\ UNCHANGED <<nextId, nap, kick, batch, outer, run, sig, history, used>>

JobOfGroupEnds ==
    /\ Ready /\ job
    /\ job' = FALSE
    /\ deferred' = Notified(deferred, waiters, FALSE)
    /\ UNCHANGED <<src, queue, nextId, waiters, nap, kick, batch, outer, turn, answer,
                   cancel, sig, history, used>>

(* The model step ends: with a final answer, with calls, or with a failure. *)
ModelEnds(a) ==
    /\ Ready /\ turn = "model" /\ answer = ""
    /\ cancel => a = "failed"
    /\ a = "final" => ~job /\ \A w \in Waiter : waiters[w].st = "free"
    /\ a = "tools" => used.rounds < MaxRounds
    /\ used' = [used EXCEPT !.rounds = IF a = "tools" THEN @ + 1 ELSE @]
    /\ answer' = a
    /\ deferred' = Put(deferred, <<"service">>)
    /\ UNCHANGED <<src, queue, nextId, waiters, nap, kick, batch, outer, turn, job, cancel,
                   sig, history>>

(***************************************************************************)
(* The turn: fyai_turn_run_service.  It goes on while a state is complete;  *)
(* what a group defers meanwhile finds nothing to do and is left out.       *)
(***************************************************************************)
AnswerIsIn == turn = "model" /\ answer # ""
ToolsAreIn == turn = "tools" /\ GroupDone(waiters, job)
CallIsIn == turn \in {"exclusive", "called"} /\ nap = "no"

NoGroup == [w \in Waiter |-> Free]
HasWaiters == \E w \in Waiter : waiters[w].st # "free"

ServiceNothing ==
    /\ ~AnswerIsIn /\ ~ToolsAreIn /\ ~CallIsIn
    /\ batch' = Tail(batch)
    /\ UNCHANGED <<src, queue, nextId, waiters, nap, kick, deferred, outer, run, sig,
                   history, used>>

(* The turn ends with the answer; the group goes with the texts it holds.   *)
ServiceEnd ==
    /\ AnswerIsIn /\ (cancel \/ answer # "tools")
    /\ waiters' = NoGroup
    /\ gone' = gone \cup Held
    /\ deferred' = IF HasWaiters THEN Put(deferred, <<"purge">>) ELSE deferred
    /\ turn' = "none" /\ answer' = "" /\ job' = FALSE /\ cancel' = FALSE
    /\ batch' = Tail(batch)
    /\ UNCHANGED <<src, queue, nextId, nap, kick, outer, sig, told, returned, used>>

ServiceSeal ==
    /\ AnswerIsIn /\ ~cancel /\ answer = "tools"
    /\ turn' = "tools" /\ answer' = ""
    /\ batch' = IF GroupDone(waiters, job) THEN batch ELSE Tail(batch)
    /\ UNCHANGED <<src, queue, nextId, waiters, nap, kick, deferred, outer, job, cancel,
                   sig, history, used>>

(* Mutant: the group is not released.                                       *)
CollectKeepsGroup ==
    /\ ToolsAreIn
    /\ returned' = returned \cup Held
    /\ turn' = "exclusive" /\ intr' = FALSE
    /\ UNCHANGED <<src, queue, nextId, waiters, nap, kick, deferred, batch, outer, answer,
                   job, cancel, wake, told, gone, used>>

(* The results of the group enter the turn.                                 *)
ServiceCollect ==
    /\ ToolsAreIn
    /\ returned' = returned \cup Held
    /\ waiters' = NoGroup
    /\ deferred' = IF HasWaiters THEN Put(deferred, <<"purge">>) ELSE deferred
    /\ IF cancel \/ intr
       THEN turn' = "none" /\ cancel' = FALSE /\ batch' = Tail(batch)
       ELSE turn' = "exclusive" /\ UNCHANGED <<cancel, batch>>
    /\ intr' = FALSE
    /\ UNCHANGED <<src, queue, nextId, nap, kick, outer, answer, job, wake, told, gone, used>>

(* Calls that no group runs beside others: at most one of an answer.        *)
CallNamedWait(s) ==
    /\ turn = "exclusive" /\ s \in Timers /\ src[s].st = "off"
    /\ used.news < MaxNews
    /\ used' = [used EXCEPT !.news = @ + 1]
    /\ src' = [src EXCEPT ![s] = On]
    /\ turn' = "called"
    /\ UNCHANGED <<queue, nextId, waiters, nap, loop, answer, job, cancel, sig, history>>

CallCancel(s) ==
    /\ turn = "exclusive" /\ s \in Timers \cup Monitors /\ Running(s)
    /\ src' = [Reaped(src) EXCEPT ![s] = Off]
    /\ deferred' = Without(deferred, {<<"finish", s>>})
    /\ turn' = "called"
    /\ UNCHANGED <<queue, nextId, waiters, nap, kick, batch, outer, answer, job, cancel,
                   sig, history, used>>

(* `wait` without `for` runs a loop inside the callback until it ends.      *)
CallNap ==
    /\ turn = "exclusive"
    /\ turn' = "called"
    /\ IF NapEnds(FALSE)
       THEN /\ deferred' = Put(deferred, <<"purge">>)
            /\ UNCHANGED <<nap, batch, outer>>
       ELSE /\ nap' = "sleeping"
            /\ outer' = batch /\ batch' = <<>>
            /\ UNCHANGED deferred
    /\ UNCHANGED <<src, queue, nextId, waiters, kick, answer, job, cancel, sig, history, used>>

NapOver ==
    /\ Ready /\ nap = "woken"
    /\ nap' = "no"
    /\ deferred' = Put(deferred, <<"purge">>)
    /\ batch' = outer /\ outer' = <<>>
    /\ UNCHANGED <<src, queue, nextId, waiters, kick, run, sig, history, used>>

(* The result of the call enters the turn, and an interrupt ends it.        *)
ServiceInterrupted ==
    /\ turn = "called" /\ intr
    /\ turn' = "none" /\ intr' = FALSE
    /\ batch' = Tail(batch)
    /\ UNCHANGED <<src, queue, nextId, waiters, nap, kick, deferred, outer, answer, job,
                   cancel, wake, history, used>>

(* The next request takes every event that no waiter has read.              *)
ServiceRequest ==
    /\ turn = "exclusive" \/ (turn = "called" /\ ~intr)
    /\ LET taken == {e \in Unseen : Live(e)}
       IN  /\ told' = told \cup Ids(taken)
           /\ gone' = gone \cup Ids(Unseen \ taken)
    /\ queue' = queue \ Unseen
    /\ turn' = "model"
    /\ batch' = Tail(batch)
    /\ UNCHANGED <<src, nextId, waiters, nap, kick, deferred, outer, answer, job, cancel,
                   sig, returned, used>>

Service ==
    \/ ServiceNothing \/ ServiceEnd \/ ServiceSeal \/ ServiceCollect
    \/ /\ CallIsIn
       /\ \/ \E s \in Source : CallNamedWait(s) \/ CallCancel(s)
          \/ CallNap \/ ServiceInterrupted \/ ServiceRequest

(***************************************************************************)
(* The event loop.                                                         *)
(***************************************************************************)
RunDeferred ==
    /\ Ready /\ deferred # <<>>
    /\ batch' = deferred /\ deferred' = <<>>
    /\ UNCHANGED <<src, queue, nextId, waiters, nap, kick, outer, run, sig, history, used>>

Callback ==
    /\ batch # <<>> /\ turn # "crashed"
    /\ CASE Head(batch) = <<"kick">> -> Kicked
         [] Head(batch) = <<"purge">> -> Purge
         [] Head(batch) = <<"service">> -> Service
         [] OTHER -> Finish(Head(batch)[2]) \/ FinishFreed(Head(batch)[2])

(* The handler of SIGINT runs at any time.                                  *)
Interrupt ==
    /\ turn # "crashed" /\ used.other < MaxOther
    /\ used' = [used EXCEPT !.other = @ + 1]
    /\ intr' = TRUE /\ wake' = TRUE
    /\ UNCHANGED <<src, queue, nextId, waiters, nap, loop, run, history>>

WakePipe ==
    /\ Ready /\ wake
    /\ wake' = FALSE
    /\ IF intr /\ SomeActive /\ ~kick
       THEN kick' = TRUE /\ deferred' = Put(deferred, <<"kick">>)
       ELSE UNCHANGED <<kick, deferred>>
    /\ UNCHANGED <<src, queue, nextId, waiters, nap, batch, outer, run, intr, history, used>>

(***************************************************************************)
(* The owner of the loop: what it does before each step of the event loop.  *)
(***************************************************************************)
Owner == Ready /\ nap = "no"

(* fyai_turn_run_cancel: a waiter has nothing to stop and ends here.        *)
TakeInterrupt ==
    /\ Owner /\ intr
    /\ intr' = FALSE
    /\ IF turn = "none" \/ cancel
       THEN UNCHANGED <<waiters, gone, cancel, deferred>>
       ELSE LET ws == [w \in Waiter |-> IF w \in Active THEN [waiters[w] EXCEPT !.st = "cut"]
                                        ELSE waiters[w]]
            IN  /\ waiters' = ws
                /\ gone' = gone \cup UNION {TextsOf(w) : w \in Active}
                /\ cancel' = TRUE
                /\ deferred' = Notified(deferred, ws, job)
    /\ UNCHANGED <<src, queue, nextId, nap, kick, batch, outer, turn, answer, job, wake,
                   told, returned, used>>

(* A queued event starts a turn of its own; stale ones before it are        *)
(* dropped.  The submit forgets an interrupt.                               *)
EventTurn ==
    /\ Owner /\ turn = "none" /\ Unseen # {}
    /\ LET live == {e \in Unseen : Live(e)}
           out == {e \in Unseen : live # {} => e.id <= Oldest(live).id}
       IN  /\ told' = told \cup Ids(out \cap live)
           /\ gone' = gone \cup Ids(out \ live)
           /\ queue' = queue \ out
           /\ turn' = IF live = {} THEN "none" ELSE "model"
           /\ intr' = IF live = {} THEN intr ELSE FALSE
    /\ UNCHANGED <<src, nextId, waiters, nap, loop, answer, job, cancel, wake, returned, used>>

UserTurn ==
    /\ Owner /\ turn = "none" /\ used.other < MaxOther
    /\ used' = [used EXCEPT !.other = @ + 1]
    /\ turn' = "model" /\ intr' = FALSE
    /\ UNCHANGED <<src, queue, nextId, waiters, nap, loop, answer, job, cancel, wake, history>>

(* fyai_background_reset, of /clear, /resume, /checkout and /reset.         *)
Reset ==
    /\ Owner /\ turn = "none" /\ used.other < MaxOther
    /\ used' = [used EXCEPT !.other = @ + 1]
    /\ src' = [s \in Source |-> Off]
    /\ queue' = {}
    /\ gone' = gone \cup (Ids(queue) \ returned)
    /\ deferred' = Without(deferred, Finishes)
    /\ UNCHANGED <<nextId, waiters, nap, kick, batch, outer, run, sig, told, returned>>

(***************************************************************************)
(* The specification.                                                      *)
(***************************************************************************)
Init ==
    /\ \E started \in Started : src = [s \in Source |-> IF s \in started THEN On ELSE Off]
    /\ queue = {} /\ nextId = 1
    /\ waiters = NoGroup /\ nap = "no"
    /\ kick = FALSE /\ deferred = <<>> /\ batch = <<>> /\ outer = <<>>
    /\ turn = "none" /\ answer = "" /\ job = FALSE /\ cancel = FALSE
    /\ intr = FALSE /\ wake = FALSE
    /\ told = {} /\ returned = {} /\ gone = {}
    /\ used = [news |-> 0, rounds |-> 0, other |-> 0]

Call ==
    \/ \E s \in Source : CallStart(s)
    \/ CallJob
    \/ \E w \in Waiter, targets \in SUBSET Source \ {{}}, all, poll \in BOOLEAN :
          CallWait(w, targets, all, poll)

Ends == \E s \in Source : WaitFires(s) \/ JobEnds(s)
Time == (\E w \in Waiter : WaiterLate(w)) \/ NapLate

Next ==
    \/ Ends \/ Time \/ Call
    \/ \E s \in Source : MonitorOutput(s) \/ AgentWaits(s)
    \/ JobOfGroupEnds
    \/ \E a \in {"final", "tools", "failed"} : ModelEnds(a)
    \/ RunDeferred \/ Callback \/ NapOver
    \/ Interrupt \/ WakePipe
    \/ TakeInterrupt \/ EventTurn \/ UserTurn \/ Reset

Spec == Init /\ [][Next]_vars

(* The loop runs what is ready, what was started ends, the model answers,   *)
(* and a nap ends in time.  No limit of a wait with `for` is needed.        *)
FairSpec ==
    /\ Spec
    /\ WF_vars(RunDeferred) /\ WF_vars(Callback) /\ WF_vars(WakePipe)
    /\ WF_vars(NapOver) /\ WF_vars(NapLate)
    /\ WF_vars(TakeInterrupt) /\ WF_vars(EventTurn)
    /\ WF_vars(JobOfGroupEnds)
    /\ WF_vars(\E a \in {"final", "tools", "failed"} : ModelEnds(a))
    /\ \A s \in Source : WF_vars(WaitFires(s) \/ JobEnds(s))

(***************************************************************************)
(* Properties.                                                             *)
(***************************************************************************)

(* The types; and a nested loop only for a nap, which no group outlives.    *)
TypeOK ==
    /\ src \in [Source -> [st : {"off", "on", "ending", "fired"}, stopped : BOOLEAN]]
    /\ nextId \in 1 .. MaxId + 1
    /\ queue \subseteq [id : 1 .. MaxId, from : Source, what : {"lines", "input", "end"},
                         seen : BOOLEAN]
    /\ waiters \in [Waiter -> [st : {"free", "active", "done", "cut"}, for : SUBSET Source,
                               all : BOOLEAN, text : [Source -> NoReport .. MaxId]]]
    /\ nap \in {"no", "sleeping", "woken"} /\ kick \in BOOLEAN
    /\ \A cb \in ToSet(deferred) \cup ToSet(batch) \cup ToSet(outer) :
          cb \in {<<"kick">>, <<"purge">>, <<"service">>} \cup Finishes
    /\ turn \in {"none", "model", "tools", "exclusive", "called", "crashed"}
    /\ answer \in {"", "final", "tools", "failed"}
    /\ job \in BOOLEAN /\ cancel \in BOOLEAN /\ intr \in BOOLEAN /\ wake \in BOOLEAN
    /\ told \cup returned \cup gone \subseteq 1 .. MaxId
    /\ nap # "no" => turn = "called" /\ ~HasWaiters /\ outer # <<>>

(* "A report that the wait returns is not given again in a later turn": the *)
(* turn loop and the waiters never both have an event, and an event that a  *)
(* request carried has left the queue.                                      *)
GivenOnce ==
    /\ told \cap (returned \cup Held) = {}
    /\ told \cap Ids(queue) = {}

(* An event is lost in no order of looks, purges and ends: it is queued, or *)
(* read by a wait that will report it, or it was given to the model.  What  *)
(* goes otherwise went with the conversation, was a request of a sub-agent  *)
(* that ended, or was read by a wait of a turn that was stopped.            *)
NothingVanishes ==
    1 .. nextId - 1 \subseteq Ids(queue) \cup Held \cup told \cup returned \cup gone

(* A wait comes to say that a target "ended without a report" only of a     *)
(* monitor that was stopped, which said so before: the end of a target is   *)
(* queued before the target stops being one, whatever looks come between.   *)
NoFalseEnd ==
    [][\A w \in Waiter : \A s \in Source :
         waiters'[w].text[s] = NoReport =>
             waiters[w].text[s] = NoReport \/ Stopped(s)]_vars

(* "A waiter does not poll.  The queue, a change of state, or the earliest  *)
(* deadline wakes it" (doc/events.md:38): while a waiter has something to   *)
(* see, a look is due.                                                      *)
LookIsDue == kick /\ <<"kick">> \in ToSet(deferred) \cup ToSet(batch)
Unreported(w, s) == waiters[w].text[s] = 0 /\ (Pending(s) # {} \/ ~Running(s))
ChangesWake ==
    \A w \in Active : \A s \in waiters[w].for : Unreported(w, s) => LookIsDue

(* The exception: monitor_finish of a monitor that was stopped queues no    *)
(* event and wakes nobody.  For all else a look is due.                     *)
SilentEnd(s) == Stopped(s) /\ src[s].st = "off" /\ Pending(s) = {}
NoMissedWake ==
    \A w \in Active : \A s \in waiters[w].for :
        Unreported(w, s) => LookIsDue \/ SilentEnd(s)

(* A turn ends, though no limit of a wait ever passes: every wait with      *)
(* `for` ends with its targets, and no group waits for one that ended;      *)
(* unless it waits for a monitor that ended so.                             *)
Overslept == \E w \in Active : \E s \in waiters[w].for : SilentEnd(s)
TurnEnds ==
    turn \notin {"none", "crashed"} ~> turn \in {"none", "crashed"} \/ Overslept
==============================================================================
