------------------------------ MODULE EventLoop ------------------------------
(***************************************************************************)
(* The event loop (fyai_event.c, fyai_event_linux.c) and the tool jobs that *)
(* are its sources (fyai_tools.c): the watch of a child, the time limit of  *)
(* a job, and the ladder that ends a job that was asked to stop.            *)
(*                                                                         *)
(* A source is a slot of a pool: a slot that is freed is the next that is   *)
(* given out.  The loop waits, reads what is ready into a batch and         *)
(* dispatches the events of the batch one by one; each callback is a step.  *)
(* A callback may run a loop of its own (a plain `wait`), which has its own *)
(* batch while the rest of the outer one is still to come.                  *)
(***************************************************************************)
EXTENDS Filters, SequencesExt, FiniteSets

CONSTANTS
    Jobs,       \* the tool jobs, as numbers
    Limited,    \* the jobs with a time limit
    Deaf,       \* the jobs whose process ignores SIGTERM
    MaxOps      \* bound: requests of the user

ASSUME LoopAssumption ==
    /\ Jobs \subseteq Nat \ {0} /\ Deaf \subseteq Jobs /\ Limited \subseteq Jobs
    /\ MaxOps \in Nat

VARIABLES
    mem,        \* struct fyai_event_source, by slot
    list,       \* el->sources, the newest first
    pool,       \* ctx->event_source_pool
    batches,    \* the events still to dispatch: of the loop, of a nested loop
    nap,        \* ctx->waiter_tick of the wait that runs a nested loop
    job,        \* struct fyai_tool_job
    proc,       \* the processes of the jobs
    sig,        \* the strongest signal each was sent
    heard,      \* history: how often the exit of each was told
    ops,        \* bound: requests made
    dead        \* memory was used after it was freed, or every process of
                \* the user was sent a signal

sources == <<mem, list, pool>>
jobs == <<job, proc, sig, heard>>
vars == <<sources, batches, nap, jobs, ops, dead>>

Slot == DOMAIN mem
Input == 0          \* the event of the terminal: its source is never removed
None == 0

Callback == {"none", "watch", "term", "ladder", "deadline", "tick"}
Blank == [cb |-> "none", of |-> None, peer |-> None, removed |-> FALSE,
          reaped |-> FALSE, timer |-> "off", stage |-> 0]
NoJob == [st |-> "none", csrc |-> None, deadline |-> None, stopping |-> FALSE]

(* What the operations on sources and jobs read and change.                 *)
World == [mem |-> mem, list |-> list, pool |-> pool, job |-> job,
          proc |-> proc, sig |-> sig, heard |-> heard, dead |-> dead]
Becomes(w) ==
    /\ mem' = w.mem /\ list' = w.list /\ pool' = w.pool
    /\ job' = w.job /\ proc' = w.proc /\ sig' = w.sig
    /\ heard' = w.heard /\ dead' = w.dead

Dispatching == batches # <<>>
Blocked == \E j \in Jobs : job[j].st = "waited"
Running == ~dead /\ ~Blocked

(***************************************************************************)
(* Sources.                                                                *)
(***************************************************************************)
NextSlot(w) == IF w.pool # <<>> THEN Head(w.pool) ELSE Len(w.mem) + 1

(* The memory with src in the next slot, which may be new.                  *)
Filled(w, src) ==
    IF w.pool # <<>> THEN [w.mem EXCEPT ![Head(w.pool)] = src] ELSE Append(w.mem, src)

(* Mutant: the slot that is given out stays in the pool.                    *)
SourceAddPooled(w, src) ==
    [w EXCEPT !.mem = Filled(w, src), !.list = <<NextSlot(w)>> \o @]

(* fyai_event_source_add, in the slot NextSlot(w).                          *)
SourceAdd(w, src) ==
    [w EXCEPT !.mem = Filled(w, src), !.list = <<NextSlot(w)>> \o @,
              !.pool = IF @ = <<>> THEN @ ELSE Tail(@)]

Unlink(w, s) ==
    [w EXCEPT !.list = Filter(@, ToSet(@) \ {s}), !.pool = <<s>> \o @]

(* fyai_event_source_remove: within a dispatch the source is only flagged.  *)
SourceRemove(w, s) ==
    IF s = None \/ w.mem[s].removed THEN w
    ELSE LET off == [w EXCEPT !.mem[s].timer = "off"]
         IN IF Dispatching THEN [off EXCEPT !.mem[s].removed = TRUE]
                           ELSE Unlink(off, s)

(* fyai_event_reap_removed, at the end of the outermost dispatch.           *)
ReapRemoved(w) ==
    LET flagged == {s \in ToSet(w.list) : w.mem[s].removed}
    IN [w EXCEPT !.list = Filter(@, ToSet(@) \ flagged),
                 !.pool = Reverse(Filter(w.list, flagged)) \o @]

(* The source of a child that has ended is ready as soon as it is armed.    *)
AddChild(w, j, cb) ==
    LET over == w.proc[j] # "run"
        v == SourceAdd(w, [Blank EXCEPT !.cb = cb, !.of = j, !.reaped = over])
    IN [v EXCEPT !.job[j].csrc = NextSlot(w),
                 !.proc[j] = IF over THEN "gone" ELSE @]

AddTimer(w, cb, of) == SourceAdd(w, [Blank EXCEPT !.cb = cb, !.of = of, !.timer = "set"])

(***************************************************************************)
(* Signals and the ladder.                                                 *)
(***************************************************************************)
Send(w, j, s) ==
    [w EXCEPT !.sig[j] = IF w.proc[j] \in {"none", "gone"} \/ @ = "kill" THEN @ ELSE s]

(* fyai_event_add_child_terminate_group without a grace: SIGTERM, and the   *)
(* timer that asks for the next stage.                                      *)
AddTerminate(w, j) ==
    LET child == AddChild(w, j, "term")
        v == AddTimer(child, "ladder", NextSlot(w))
    IN Send([v EXCEPT !.mem[NextSlot(w)].peer = NextSlot(child),
                      !.mem[NextSlot(w)].stage = 1], j, "term")

(* The process that the memory of a child source names: -1, every process   *)
(* of the user, when the memory is of a source of another kind.             *)
Pid(w, s) == IF w.mem[s].cb \in {"watch", "term"} THEN {w.mem[s].of} ELSE {}

(* Mutant: the stage stays, so that SIGTERM is sent again and again.        *)
ClimbNowhere(w, s) ==
    LET child == w.mem[s].of
    IN FoldSet(LAMBDA j, v : Send(v, j, "term"), w, Pid(w, child))

(* fyai_event_term_timeout: the next stage of the ladder of the child that  *)
(* the timer s was made for.  Cleared memory has no budgets: it goes        *)
(* through both signals at once, and names no timer.                        *)
Climb(w, s) ==
    LET child == w.mem[s].of
        last == w.mem[child].stage >= 2
        v == [w EXCEPT !.mem[child].stage = IF last THEN 3 ELSE 2]
    IN IF last THEN v
       ELSE IF Pid(w, child) = {} THEN [v EXCEPT !.dead = TRUE]
       ELSE LET k == Send(v, CHOOSE j \in Pid(w, child) : TRUE, "kill")
            IN IF w.mem[child].peer = None THEN k
               ELSE [k EXCEPT !.mem[w.mem[child].peer].timer = "off"]

(***************************************************************************)
(* Tool jobs.                                                              *)
(***************************************************************************)
Submitted(w, j) ==
    LET v == AddChild([w EXCEPT !.job[j].st = "run", !.proc[j] = "run"], j, "watch")
    IN IF j \in Limited
       THEN [AddTimer(v, "deadline", j) EXCEPT !.job[j].deadline = NextSlot(v)] ELSE v

CancelJob(w, j) ==
    IF w.job[j].st # "run" \/ w.job[j].stopping THEN w
    ELSE AddTerminate(SourceRemove([w EXCEPT !.job[j].stopping = TRUE], w.job[j].csrc), j)

(* fyai_tool_job_discard, up to the waitpid() that takes the process.       *)
DiscardJob(w, j) ==
    LET v == CancelJob(w, j)
        u == SourceRemove(SourceRemove(v, v.job[j].deadline), v.job[j].csrc)
    IN [u EXCEPT !.job[j].deadline = None, !.job[j].csrc = None,
                 !.job[j].st = IF u.proc[j] = "run" THEN "waited" ELSE "dropped",
                 !.proc[j] = IF @ = "run" THEN "run" ELSE "gone"]

(* fyai_tool_job_child and fyai_tool_job_update_done.                       *)
JobChild(w, j) ==
    [SourceRemove(w, w.job[j].deadline) EXCEPT
        !.job[j].csrc = None, !.job[j].deadline = None, !.job[j].st = "ended",
        !.heard[j] = @ + 1]

(* fyai_tool_job_deadline: a shell that takes too long is cancelled.  The   *)
(* source of the timer is forgotten, not removed: an event of it that is    *)
(* dispatched again after a discard uses a job that was freed.              *)
JobDeadline(w, j) ==
    IF w.job[j].st \in {"run", "ended"}
    THEN CancelJob([w EXCEPT !.job[j].deadline = None], j)
    ELSE [w EXCEPT !.dead = TRUE]

(***************************************************************************)
(* The loop.                                                               *)
(***************************************************************************)
Depth == Len(batches)
Events == batches[Depth]
Later(evs) == [batches EXCEPT ![Depth] = evs]

Live(s) == ~mem[s].removed
Reaped(m) == Filter(list, {s \in ToSet(list) : m[s].reaped /\ ~m[s].removed})
Ended == {s \in ToSet(list) : /\ Live(s) /\ mem[s].cb \in {"watch", "term"}
                             /\ proc[mem[s].of] = "zombie" /\ ~mem[s].reaped}
Due == {s \in ToSet(list) : mem[s].timer = "due"}

(* A loop that has nothing to dispatch: the pump, or a wait in a callback.  *)
Idle ==
    /\ Running
    /\ \/ batches = <<>>
       \/ Depth = 2 /\ Events = <<>> /\ nap # None

Receive(evs) ==
    batches' = IF batches = <<>> THEN <<evs>> ELSE Later(evs)

(* fyai_event_backend_wait: children that are known to have ended come      *)
(* alone.  Otherwise what is ready, in any order: the timers that are due   *)
(* are read, the children that ended are reaped, and found once more.       *)
Wait ==
    /\ Idle
    /\ Reaped(mem) # <<>>
    /\ Receive(Reaped(mem))
    /\ UNCHANGED <<sources, nap, jobs, ops, dead>>

Poll(typed) ==
    LET ready == Ended \cup Due \cup typed
        read == [s \in Slot |->
                    IF s \in Due THEN [mem[s] EXCEPT !.timer = "read"]
                    ELSE IF s \in Ended THEN [mem[s] EXCEPT !.reaped = TRUE]
                    ELSE mem[s]]
    IN /\ Idle
       /\ Reaped(mem) = <<>> /\ ready # {}
       /\ \E order \in SetToSeqs(ready) : Receive(order \o Reaped(read))
       /\ mem' = read
       /\ proc' = [j \in Jobs |-> IF \E s \in Ended : mem[s].of = j
                                THEN "gone" ELSE proc[j]]
       /\ UNCHANGED <<list, pool, nap, job, sig, heard, dead>>

Read == Poll({}) /\ UNCHANGED ops

(* fyai_event_timers_repair, when a wait found nothing: a timer that a      *)
(* batch has read, and that is overdue because the batch waits, is set.     *)
Repair ==
    /\ Idle
    /\ Reaped(mem) = <<>> /\ Ended \cup Due = {}
    /\ \E s \in ToSet(list) : mem[s].timer = "read"
    /\ mem' = [s \in Slot |-> IF mem[s].timer = "read"
                             THEN [mem[s] EXCEPT !.timer = "due"] ELSE mem[s]]
    /\ UNCHANGED <<list, pool, batches, nap, jobs, ops, dead>>

Dispatch(s) ==
    /\ Running /\ Dispatching /\ Events # <<>>
    /\ Head(Events) = s

(* Removed earlier in the same pass.                                       *)
Skip(s) ==
    /\ Dispatch(s) /\ s # Input /\ ~Live(s)
    /\ batches' = Later(Tail(Events))
    /\ UNCHANGED <<sources, nap, jobs, ops, dead>>

(* Mutant: a child keeps its source while its callback runs.                *)
NotWithdrawn(s) == World

(* The source of a child is withdrawn before its callback runs.             *)
Withdrawn(s) == [World EXCEPT !.mem[s].removed = TRUE]

(* The timer of a ladder goes before the source of its child.               *)
Exited(s) ==
    JobChild(IF mem[s].cb = "term" THEN SourceRemove(Withdrawn(s), mem[s].peer)
             ELSE Withdrawn(s), mem[s].of)

(* The exit of a job: its group goes on, with the next job or with a call   *)
(* that runs alone, which may wait in a nested loop.                        *)
DispatchChild(s) ==
    /\ Dispatch(s) /\ s # Input /\ Live(s) /\ mem[s].cb \in {"watch", "term"}
    /\ \/ /\ Becomes(Exited(s))
          /\ batches' = Later(Tail(Events))
          /\ UNCHANGED nap
       \/ \E j \in Jobs :
              /\ job[j].st = "none"
              /\ Becomes(Submitted(Exited(s), j))
              /\ batches' = Later(Tail(Events))
              /\ UNCHANGED nap
       \/ /\ Depth = 1
          /\ Becomes(AddTimer(Exited(s), "tick", None))
          /\ nap' = NextSlot(Exited(s))
          /\ batches' = Append(Later(Tail(Events)), <<>>)
    /\ UNCHANGED ops

(* A one-shot timer is spent once it has fired.                             *)
Spent(w, s) == [w EXCEPT !.mem[s].timer = "off"]

DispatchTimer(s) ==
    /\ Dispatch(s) /\ s # Input /\ Live(s)
    /\ \/ /\ mem[s].cb = "ladder"
          /\ Becomes(Spent(Climb(World, s), s))
          /\ UNCHANGED nap
       \/ /\ mem[s].cb = "deadline"
          /\ Becomes(Spent(JobDeadline(World, mem[s].of), s))
          /\ UNCHANGED nap
       \/ /\ mem[s].cb = "tick"
          /\ Becomes(SourceRemove(World, s))
          /\ nap' = None
    /\ batches' = Later(Tail(Events))
    /\ UNCHANGED ops

(* What the user asks for: a job to stop; a job to go, of a session or of a *)
(* turn that is released, with SIGKILL first when it is forced.             *)
Asked(j) ==
    \/ job[j].st = "run" /\ Becomes(CancelJob(World, j))
    \/ job[j].st \in {"run", "ended"} /\ Becomes(DiscardJob(World, j))
    \/ job[j].st = "run" /\ Becomes(DiscardJob(Send(World, j, "kill"), j))

DispatchInput ==
    /\ Dispatch(Input)
    /\ Becomes(World) \/ \E j \in Jobs : Asked(j)
    /\ batches' = Later(Tail(Events))
    /\ UNCHANGED <<nap, ops>>

(* Mutant: the end of a nested loop frees what was removed.                 *)
EndBatchFrees ==
    /\ Running /\ Dispatching /\ Events = <<>>
    /\ Depth = 2 => nap = None
    /\ Becomes(ReapRemoved(World))
    /\ batches' = Front(batches)
    /\ UNCHANGED <<nap, ops>>

(* The end of a batch.  A nested loop goes on until its wait has ended.     *)
EndBatch ==
    /\ Running /\ Dispatching /\ Events = <<>>
    /\ \/ Depth = 1 /\ Becomes(ReapRemoved(World))
       \/ Depth = 2 /\ nap = None /\ Becomes(World)
    /\ batches' = Front(batches)
    /\ UNCHANGED <<nap, ops>>

(* Between two steps of the pump: a turn submits a job, and an interrupt    *)
(* releases what the turn owns.                                             *)
Submit(j) ==
    /\ Running /\ batches = <<>>
    /\ job[j].st = "none"
    /\ Becomes(Submitted(World, j))
    /\ UNCHANGED <<batches, nap, ops>>

Release(j) ==
    /\ Running /\ batches = <<>> /\ ops < MaxOps
    /\ Asked(j)
    /\ ops' = ops + 1
    /\ UNCHANGED <<batches, nap>>

(* The user types: the terminal is ready with whatever else is.             *)
Typed ==
    /\ ops < MaxOps
    /\ Poll({Input})
    /\ ops' = ops + 1

(***************************************************************************)
(* The world.                                                              *)
(***************************************************************************)
(* A timer is looked at only by a wait.                                     *)
TimerExpires(s) ==
    /\ Idle /\ s \in ToSet(list) /\ mem[s].timer = "set"
    /\ mem' = [mem EXCEPT ![s].timer = "due"]
    /\ UNCHANGED <<list, pool, batches, nap, jobs, ops, dead>>

ProcessEnds(j) ==
    /\ proc[j] = "run"
    /\ proc' = [proc EXCEPT ![j] = "zombie"]
    /\ UNCHANGED <<sources, batches, nap, job, sig, heard, ops, dead>>

(* waitpid() of fyai_tool_job_discard, which stops the loop until it ends.  *)
WaitedFor(j) ==
    /\ job[j].st = "waited" /\ proc[j] = "zombie"
    /\ proc' = [proc EXCEPT ![j] = "gone"]
    /\ job' = [job EXCEPT ![j].st = "dropped"]
    /\ UNCHANGED <<sources, batches, nap, sig, heard, ops, dead>>

Init ==
    /\ mem = <<>> /\ list = <<>> /\ pool = <<>>
    /\ batches = <<>> /\ nap = None
    /\ job = [j \in Jobs |-> NoJob]
    /\ proc = [j \in Jobs |-> "none"] /\ sig = [j \in Jobs |-> "none"]
    /\ heard = [j \in Jobs |-> 0]
    /\ ops = 0 /\ dead = FALSE

LoopStep ==
    \/ Wait \/ Read \/ Repair \/ EndBatch \/ DispatchInput
    \/ \E s \in Slot : Skip(s) \/ DispatchChild(s) \/ DispatchTimer(s)

Next ==
    \/ LoopStep \/ Typed
    \/ \E j \in Jobs : Submit(j) \/ Release(j) \/ ProcessEnds(j) \/ WaitedFor(j)
    \/ \E s \in Slot : TimerExpires(s)

Spec == Init /\ [][Next]_vars

(* A signal ends a process, SIGTERM only one that does not ignore it.       *)
Fatal(j) == sig[j] = "kill" \/ (sig[j] = "term" /\ j \notin Deaf)

(* The loop goes on while it can: weak fairness of LoopStep, with ENABLED   *)
(* written out.  Each of its steps but a repair changes the batches.        *)
LoopReady ==
    \/ Running /\ Dispatching /\ (Events # <<>> \/ Depth = 1 \/ nap = None)
    \/ Idle /\ (Reaped(mem) # <<>> \/ Ended \cup Due # {})
FairLoop == []<>~LoopReady \/ []<><<batches' # batches>>_vars

FairSpec ==
    /\ Spec
    /\ FairLoop /\ WF_vars(Repair)
    /\ SF_vars(\E s \in Slot : TimerExpires(s))
    /\ \A j \in Jobs : /\ WF_vars(Fatal(j) /\ ProcessEnds(j))
                       /\ WF_vars(WaitedFor(j))

(***************************************************************************)
(* Properties.                                                             *)
(***************************************************************************)
(* A slot is linked, or in the pool, or was never used: never two of these, *)
(* and never twice one.                                                     *)
TypeOK ==
    /\ mem \in Seq([cb : Callback, of : Nat, peer : Slot \cup {None},
                    removed : BOOLEAN, reaped : BOOLEAN, stage : 0 .. 3,
                    timer : {"off", "set", "due", "read"}])
    /\ list \in Seq(Slot) /\ pool \in Seq(Slot) /\ IsInjective(list \o pool)
    /\ batches \in Seq(Seq(Slot \cup {Input})) /\ Len(batches) <= 2
    /\ nap \in Slot \cup {None}
    /\ job \in [Jobs -> [st : {"none", "run", "ended", "waited", "dropped"},
                         csrc : Slot \cup {None}, deadline : Slot \cup {None},
                         stopping : BOOLEAN]]
    /\ proc \in [Jobs -> {"none", "run", "zombie", "gone"}]
    /\ sig \in [Jobs -> {"none", "term", "kill"}]
    /\ heard \in [Jobs -> Nat] /\ ops \in 0 .. MaxOps /\ dead \in BOOLEAN

(* An event that is still to be dispatched, by any loop on the stack, is of *)
(* a source that was not freed since (fyai_event_source_remove).            *)
EventsAreLinked ==
    \A d \in 1 .. Depth : ToSet(batches[d]) \subseteq ToSet(list) \cup {Input}

(* The exit of a child is told once, and not to an owner that dropped it,   *)
(* though the batch of an outer loop holds it and a nested loop finds it    *)
(* again (fyai_event_dispatch withdraws the source before the callback).    *)
ExitToldOnce ==
    [][\A j \in Jobs : job[j].st \in {"ended", "waited", "dropped"} =>
            heard'[j] = heard[j]]_vars

(* A ladder has its child: "The ladder is over; retire the timer before the *)
(* child source goes" (src/fyai_event.c:1069).                              *)
LadderHasChild ==
    \A s \in ToSet(list) : mem[s].cb = "ladder" /\ mem[s].timer # "off" =>
        LET child == mem[s].of
        IN child \in ToSet(list) /\ Live(child) /\ mem[child].peer = s

(* A job that was asked to stop ends, one that ignores SIGTERM too; unless  *)
(* a discard holds the loop for a process that ignores it.                  *)
StoppedJobEnds ==
    \A j \in Jobs :
        job[j].st = "run" /\ job[j].stopping ~>
            job[j].st \in {"ended", "dropped"} \/ Blocked \/ dead

=============================================================================
