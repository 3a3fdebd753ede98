------------------------------- MODULE Agents -------------------------------
(***************************************************************************)
(* The sub-agents of one invocation (fyai_agents.c, the jobs and the serve *)
(* loop of a child in fyai_tools.c, the stdio transport in fyai_jsonrpc.c). *)
(* Each is a process; its only link is a pair of pipes to the process that *)
(* forked it.  The root keeps the one registry, so admissions travel up    *)
(* through the agents in between, messages travel down, and a lost link     *)
(* must settle all that was under way through it.                           *)
(*                                                                         *)
(* Each action is the handler of one frame, of the end of a pipe, of the    *)
(* tick timer, of a signal, or one decision of a model.  Frames of one pipe *)
(* stay in order; what a process has not written when it dies is lost.      *)
(***************************************************************************)
EXTENDS Integers, FiniteSets, Sequences, SequencesExt

CONSTANTS
    Root,           \* the invocation
    Agents,         \* the sub-agents that may be started
    Parent,         \* who starts each
    Limits,         \* what agent/max_live_agents may be
    Messages,       \* bound: what agent_message and ask_parent send
    Routes,         \* bound: who may write to whom
    Crashing        \* the agents that may be killed or fail

Processes == Agents \cup {Root}

(* An agent and the agents above it: what is in every set that has the     *)
(* agent and, of each of its own, the parent.                              *)
Line ==
    [x \in Processes |->
        {y \in Agents : \A T \in SUBSET Agents :
            (x # Root => x \in T) /\ (\A z \in T : Parent[z] # Root => Parent[z] \in T)
                => y \in T}]

(* No agent is started by itself or by one that it has started.            *)
ASSUME AgentsAssumption ==
    /\ IsFiniteSet(Agents) /\ Root \notin Agents /\ Limits \subseteq Nat
    /\ Parent \in [Agents -> Processes]
    /\ \A x \in Agents : x \notin Line[Parent[x]]
    /\ IsFiniteSet(Messages) /\ Routes \subseteq Processes \X Processes
    /\ Crashing \subseteq Agents

VARIABLES
    st,         \* where each process is
    term,       \* ctx->terminate_pending of each
    cut,        \* its own end of the link is closed (ctx->tool_rpc)
    link,       \* the end of its parent (job->conn)
    out,        \* the call of its parent has no answer (job->out_open)
    fg,         \* the agents whose call holds the turn of the parent
    blocked,    \* the child whose death a process waits for in waitpid
    up, down,   \* the frames of each link
    limit,      \* agent/max_live_agents
    rec,        \* the records each process keeps of agents
    fwd,        \* the forwards each process has under way
    env,        \* of each message: the sender, the target, is it a question
    msg,        \* each message at its sender
    got         \* how often each was queued for the model of its target

process == <<st, term, cut, blocked>>
job == <<link, out, fg>>
pipes == <<up, down>>
registry == <<limit, rec, fwd>>
mail == <<env, msg, got>>
vars == <<process, job, pipes, registry, mail>>

(***************************************************************************)
(* The tree of processes.                                                  *)
(***************************************************************************)
Below(p) == {y \in Agents : p = Root \/ p \in Line[y] \ {y}}
ChildrenOf(p) == {x \in Agents : Parent[x] = p}
(* The child of p whose route leads to y.                                   *)
Via(p, y) == CHOOSE x \in Line[y] : Parent[x] = p

Running(p) == st[p] \notin {"none", "dead"}
(* It runs its event loop.                                                  *)
Serves(p) == Running(p) /\ blocked[p] = Root
(* ctx->agent_execution is set.                                             *)
Entered(x) == st[x] \in {"live", "leaving"}
Orphan(x) == link[x] = "gone" \/ st[Parent[x]] = "dead"
(* fyai_tool_job_update_done: reaped, and answered or its link lost.        *)
JobDone(x) == st[x] = "dead" /\ ~out[x]
JobHeld(x) == link[x] \in {"open", "closed"}
(* Its model can call tools.                                                *)
Acts(p) ==
    /\ Serves(p) /\ st[p] = "live" /\ ~term[p]
    /\ \A x \in ChildrenOf(p) \cap fg : ~JobHeld(x)

(***************************************************************************)
(* Frames.  A write to a pipe that nobody reads fails.                      *)
(***************************************************************************)
Popped(q, x) == [q EXCEPT ![x] = Tail(@)]
Upward(q, x, frames) ==
    IF x = Root \/ Orphan(x) THEN q ELSE [q EXCEPT ![x] = @ \o frames]
Downward(q, x, frames) == IF JobHeld(x) THEN [q EXCEPT ![x] = @ \o frames] ELSE q

Admit(y) == <<"admit", y>>
Event(y, live) == <<"event", y, live>>
Message(m) == <<"msg", m>>
Ack(m, ok) == <<"ack", m, ok>>
Admitted(y, ok) == <<"admitted", y, ok>>

FromChild(x, kind) ==
    /\ JobHeld(x) /\ Serves(Parent[x])
    /\ up[x] # <<>> /\ Head(up[x])[1] = kind
FromParent(x, kind) ==
    /\ Serves(x) /\ ~cut[x]
    /\ down[x] # <<>> /\ Head(down[x])[1] = kind

From(m) == env[m].from
To(m) == env[m].to

(* Receipts: "queued" and "not queued" are reported to the model.           *)
Told(m, ok) == IF ok THEN "queued" ELSE "refused"
AllRefused(ms) == [m \in Messages |-> IF m \in ms THEN "refused" ELSE msg[m]]
(* What p sent through the link of x, and forwarded through it.             *)
SentVia(p, x) == {m \in Messages : msg[m] = "sent" /\ From(m) = p /\ x \in Line[To(m)]}
ForwardedVia(p, x) == {m \in Messages : Message(m) \in fwd[p] /\ x \in Line[To(m)]}

(***************************************************************************)
(* A sub-agent starts: its parent forks it and sends tool/run, it asks for  *)
(* admission and waits for the answer in a loop of its own.                 *)
(***************************************************************************)
Fork(x) ==
    /\ st[x] = "none" /\ Acts(Parent[x])
    /\ st' = [st EXCEPT ![x] = "idle"]
    /\ link' = [link EXCEPT ![x] = "open"]
    /\ out' = [out EXCEPT ![x] = TRUE]
    /\ fg' \in {fg, fg \cup {x}}
    /\ down' = [down EXCEPT ![x] = <<<<"run">>>>]
    /\ UNCHANGED <<term, cut, blocked, up, registry, mail>>

TakeRun(x) ==
    /\ FromParent(x, "run") /\ st[x] = "idle"
    /\ st' = [st EXCEPT ![x] = "asking"]
    /\ down' = Popped(down, x)
    /\ up' = Upward(up, x, <<Admit(x)>>)
    /\ UNCHANGED <<term, cut, blocked, job, registry, mail>>

(* Mutant: an agent admits its own sub-agents.                              *)
ServeAdmitHere(x) ==
    LET p == Parent[x]  y == Head(up[x])[2]
        ok == Cardinality({z \in Agents : rec[p][z] = "active"}) < limit
    IN /\ FromChild(x, "admit")
       /\ rec' = IF ok THEN [rec EXCEPT ![p][y] = "active"] ELSE rec
       /\ up' = Popped(up, x) /\ down' = Downward(down, x, <<Admitted(y, ok)>>)
       /\ UNCHANGED <<limit, fwd, process, job, mail>>

(* The root decides; an agent passes the request on.                        *)
ServeAdmit(x) ==
    LET p == Parent[x]  y == Head(up[x])[2]
        ok == Cardinality({z \in Agents : rec[Root][z] = "active"}) < limit
    IN /\ FromChild(x, "admit")
       /\ IF p = Root
          THEN /\ rec' = IF ok THEN [rec EXCEPT ![Root][y] = "active"] ELSE rec
               /\ up' = Popped(up, x) /\ down' = Downward(down, x, <<Admitted(y, ok)>>)
               /\ UNCHANGED fwd
          ELSE /\ fwd' = [fwd EXCEPT ![p] = @ \cup {Admit(y)}]
               /\ up' = Upward(Popped(up, x), p, <<Admit(y)>>)
               /\ UNCHANGED <<rec, down>>
       /\ UNCHANGED <<limit, process, job, mail>>

(* The answer for a descendant goes down its route; one that nobody waits   *)
(* for is dropped.                                                          *)
ServeAdmitted(x) ==
    LET y == Head(down[x])[2]  ok == Head(down[x])[3]
    IN /\ FromParent(x, "admitted")
       /\ IF y = x /\ st[x] = "asking"
          THEN /\ st' = [st EXCEPT ![x] = IF ok THEN "told" ELSE "refused"]
               /\ up' = IF ok THEN up ELSE Upward(up, x, <<<<"result">>>>)
               /\ down' = Popped(down, x) /\ UNCHANGED fwd
          ELSE /\ fwd' = [fwd EXCEPT ![x] = @ \ {Admit(y)}]
               /\ down' = IF Admit(y) \in fwd[x]
                          THEN Downward(Popped(down, x), Via(x, y), <<Admitted(y, ok)>>)
                          ELSE Popped(down, x)
               /\ UNCHANGED <<st, up>>
       /\ UNCHANGED <<term, cut, blocked, job, limit, rec, mail>>

(* The loop of fyai_agents_enter returns: the timer is armed, and the first *)
(* report says that the agent runs.                                         *)
Enter(x) ==
    /\ Serves(x) /\ st[x] = "told"
    /\ st' = [st EXCEPT ![x] = "live"]
    /\ up' = Upward(up, x, <<Event(x, TRUE)>>)
    /\ UNCHANGED <<term, cut, blocked, job, down, registry, mail>>

(* Asked to end before the answer came: the request is dropped.             *)
GiveUp(x) ==
    /\ Serves(x) /\ st[x] = "asking" /\ term[x]
    /\ st' = [st EXCEPT ![x] = "refused"]
    /\ up' = Upward(up, x, <<<<"result">>>>)
    /\ UNCHANGED <<term, cut, blocked, job, down, registry, mail>>

(***************************************************************************)
(* It runs, and ends.                                                      *)
(***************************************************************************)
(* Mutant: the timer does not look at the link.                             *)
TickBlind(x) ==
    /\ Serves(x) /\ st[x] = "live" /\ term[x]
    /\ Event(x, FALSE) \notin ToSet(up[x]) /\ rec[Parent[x]][x] = "active"
    /\ up' = Upward(up, x, <<Event(x, FALSE)>>)
    /\ UNCHANGED <<process, job, down, registry, mail>>

(* The progress timer: without a parent the agent ends, else it reports.    *)
(* Bound: a report that says nothing new to the parent is left out.         *)
Tick(x) ==
    /\ Serves(x) /\ st[x] = "live"
    /\ IF cut[x]
       THEN /\ ~term[x] /\ term' = [term EXCEPT ![x] = TRUE] /\ UNCHANGED up
       ELSE /\ term[x] /\ rec[Parent[x]][x] = "active"
            /\ Event(x, FALSE) \notin ToSet(up[x])
            /\ up' = Upward(up, x, <<Event(x, FALSE)>>) /\ UNCHANGED term
    /\ UNCHANGED <<st, cut, blocked, job, down, registry, mail>>

(* SIGTERM, or agent/control with "cancel".                                 *)
Terminate(x) ==
    /\ Running(x) /\ st[x] \notin {"refused", "leaving"} /\ ~Orphan(x) /\ ~term[x]
    /\ Serves(Parent[x])
    /\ term' = [term EXCEPT ![x] = TRUE]
    /\ UNCHANGED <<st, cut, blocked, job, pipes, registry, mail>>

(* fyai_agents_leave and the answer to tool/run, when the turn has ended.   *)
FinishTurn(x) ==
    /\ Serves(x) /\ st[x] = "live"
    /\ \A y \in ChildrenOf(x) \cap fg : ~JobHeld(y)
    /\ st' = [st EXCEPT ![x] = "leaving"]
    /\ up' = Upward(up, x, <<Event(x, FALSE), <<"result">>>>)
    /\ UNCHANGED <<term, cut, blocked, job, down, registry, mail>>

(* The process is gone, with the frames it had not written: some of those   *)
(* to its parent when it was killed, and some of those to its children.     *)
Gone(x, written) ==
    /\ st' = [st EXCEPT ![x] = "dead"]
    /\ term' = [term EXCEPT ![x] = FALSE] /\ cut' = [cut EXCEPT ![x] = FALSE]
    /\ blocked' = [blocked EXCEPT ![x] = Root]
    /\ msg' = [m \in Messages |-> IF From(m) = x /\ msg[m] # "none" THEN "lost" ELSE msg[m]]
    /\ rec' = [rec EXCEPT ![x] = [y \in Agents |-> "none"]]
    /\ fwd' = [fwd EXCEPT ![x] = {}]
    /\ up' = [y \in Agents |->
                IF y = x THEN SubSeq(up[x], 1, written)
                ELSE IF Parent[y] = x THEN <<>> ELSE up[y]]
    /\ \E kept \in [ChildrenOf(x) -> 0 .. 1] :
         down' = [y \in Agents |->
                    IF y \in ChildrenOf(x)
                    THEN IF kept[y] = 0 THEN <<>> ELSE down[y]
                    ELSE down[y]]
    /\ UNCHANGED <<job, limit, env, got>>

Exit(x) == st[x] \in {"refused", "leaving"} /\ Serves(x) /\ Gone(x, Len(up[x]))
Crash(x) ==
    /\ x \in Crashing /\ Running(x)
    /\ \E n \in 0 .. Len(up[x]) : Gone(x, n)

(***************************************************************************)
(* Reports.  A parent learns of a descendant by its first report; a report  *)
(* of one that has ended is dropped.  Messages held for it are now sent.    *)
(***************************************************************************)
(* Mutant: a message that was sent is sent again with the next report.      *)
UnansweredFor(p, y) ==
    {m \in Messages : msg[m] \in {"held", "sent"} /\ From(m) = p /\ To(m) = y}

HeldFor(p, y) == {m \in Messages : msg[m] = "held" /\ From(m) = p /\ To(m) = y}

ServeEvent(x) ==
    LET p == Parent[x]  y == Head(up[x])[2]  live == Head(up[x])[3]
        known == rec[p][y] = "active" \/ (p # Root /\ rec[p][y] = "none")
        held == IF live THEN HeldFor(p, y) ELSE {}
    IN /\ FromChild(x, "event")
       /\ IF known
          THEN /\ rec' = [rec EXCEPT ![p][y] = IF live THEN "active" ELSE "ended"]
               /\ msg' = [m \in Messages |-> IF m \in held THEN "sent" ELSE msg[m]]
               /\ down' = Downward(down, x, SetToSeq({Message(m) : m \in held}))
               /\ up' = Upward(Popped(up, x), p, <<Event(y, live)>>)
          ELSE up' = Popped(up, x) /\ UNCHANGED <<rec, msg, down>>
       /\ UNCHANGED <<limit, fwd, env, got, process, job>>

(* The answer to tool/run: a late one has no request left.                  *)
ServeResult(x) ==
    /\ FromChild(x, "result")
    /\ out' = [out EXCEPT ![x] = FALSE]
    /\ up' = Popped(up, x)
    /\ UNCHANGED <<process, link, fg, down, registry, mail>>

(***************************************************************************)
(* Messages.                                                               *)
(***************************************************************************)
(* To the parent, or to a descendant with a live record; a message for a    *)
(* sub-agent that was started but has not reported is held.                 *)
Send(m, p, t, ask) ==
    /\ msg[m] = "none" /\ <<p, t>> \in Routes /\ Acts(p)
    /\ env' = [env EXCEPT ![m] = [from |-> p, to |-> t, ask |-> ask]]
    /\ \/ /\ p # Root /\ t = Parent[p]
          /\ up' = Upward(up, p, <<Message(m)>>)
          /\ msg' = [msg EXCEPT ![m] = "sent"] /\ UNCHANGED down
       \/ /\ ~ask /\ t \in Below(p) /\ rec[p][t] = "active"
          /\ down' = Downward(down, Via(p, t), <<Message(m)>>)
          /\ msg' = [msg EXCEPT ![m] = "sent"] /\ UNCHANGED up
       \/ /\ ~ask /\ t \in ChildrenOf(p) /\ rec[p][t] # "active"
          /\ JobHeld(t) /\ ~JobDone(t)
          /\ msg' = [msg EXCEPT ![m] = "held"] /\ UNCHANGED <<up, down>>
    /\ UNCHANGED <<got, process, job, registry>>

(* From its parent: for this agent, whose id it must know, or one below it. *)
ServeMessage(x) ==
    LET m == Head(down[x])[2]  t == To(m)
        mine == t = x /\ Entered(x)
        passes == t # x /\ rec[x][t] = "active"
    IN /\ FromParent(x, "msg")
       /\ got' = IF mine THEN [got EXCEPT ![m] = @ + 1] ELSE got
       /\ fwd' = IF passes THEN [fwd EXCEPT ![x] = @ \cup {Message(m)}] ELSE fwd
       /\ down' = IF passes THEN Downward(Popped(down, x), Via(x, t), <<Message(m)>>)
                  ELSE Popped(down, x)
       /\ up' = IF passes THEN up ELSE Upward(up, x, <<Ack(m, mine)>>)
       /\ UNCHANGED <<limit, rec, env, msg, process, job>>

(* From a child, for this process: the newest live record of its route has  *)
(* to be that of the child.  A question of a child whose call holds the     *)
(* turn would wait for a turn that waits for the child.                     *)
ServeChildMessage(x) ==
    LET p == Parent[x]  m == Head(up[x])[2]
        sender == rec[p][x] = "active" /\ \A y \in Below(x) : rec[p][y] # "active"
        ok == sender /\ ~(env[m].ask /\ x \in fg /\ ~JobDone(x))
    IN /\ FromChild(x, "msg")
       /\ got' = IF ok THEN [got EXCEPT ![m] = @ + 1] ELSE got
       /\ up' = Popped(up, x) /\ down' = Downward(down, x, <<Ack(m, ok)>>)
       /\ UNCHANGED <<env, msg, process, job, registry>>

(* An answer that comes up is for this process, or for the one above it.    *)
ServeAck(x) ==
    LET p == Parent[x]  m == Head(up[x])[2]  ok == Head(up[x])[3]
        passes == Message(m) \in fwd[p]
    IN /\ FromChild(x, "ack")
       /\ msg' = IF From(m) = p /\ msg[m] = "sent" THEN [msg EXCEPT ![m] = Told(m, ok)]
                 ELSE msg
       /\ fwd' = [fwd EXCEPT ![p] = @ \ {Message(m)}]
       /\ up' = IF passes THEN Upward(Popped(up, x), p, <<Ack(m, ok)>>) ELSE Popped(up, x)
       /\ UNCHANGED <<down, limit, rec, env, got, process, job>>

ServeParentAck(x) ==
    LET m == Head(down[x])[2]  ok == Head(down[x])[3]
    IN /\ FromParent(x, "ack")
       /\ msg' = IF msg[m] = "sent" THEN [msg EXCEPT ![m] = Told(m, ok)] ELSE msg
       /\ down' = Popped(down, x)
       /\ UNCHANGED <<up, env, got, process, job, registry>>

(* The model cancels the receipt; the message may be on its way.            *)
CancelMessage(m) ==
    /\ ~env[m].ask /\ msg[m] \in {"held", "sent"} /\ Acts(From(m))
    /\ msg' = [msg EXCEPT ![m] = "cancelled"]
    /\ UNCHANGED <<env, got, process, job, pipes, registry>>

(***************************************************************************)
(* Lost links.                                                             *)
(***************************************************************************)
Refusals(ms) == SetToSeq({Ack(m, FALSE) : m \in ms})

(* The end of the pipe, or a write that failed: every request through the   *)
(* link fails, forwards too.  What is still to be read is read.             *)
LoseChild(x) ==
    LET p == Parent[x] IN
    /\ JobHeld(x) /\ st[x] = "dead" /\ Serves(p)
    /\ down[x] # <<>> \/ (link[x] = "open" /\ up[x] = <<>>)
    /\ link' = [link EXCEPT ![x] = "closed"]
    /\ out' = [out EXCEPT ![x] = FALSE]
    /\ msg' = AllRefused(SentVia(p, x))
    /\ fwd' = [fwd EXCEPT ![p] = @ \ {Message(m) : m \in ForwardedVia(p, x)}]
    /\ up' = Upward(up, p, Refusals(ForwardedVia(p, x)))
    /\ down' = [down EXCEPT ![x] = <<>>]
    /\ UNCHANGED <<fg, env, got, limit, rec, process>>

(* The same at the end of the child.  Only the tick timer acts on it; one   *)
(* that waits for tool/run has no timer.                                    *)
LoseParent(x) ==
    LET asked == {y \in Agents : Admit(y) \in fwd[x]}
        own == {m \in Messages : msg[m] = "sent" /\ From(m) = x /\ x \notin Line[To(m)]}
        answers(z) == IF Parent[z] # x THEN <<>>
                      ELSE SetToSeq({Admitted(y, FALSE) : y \in {v \in asked : z \in Line[v]}})
    IN /\ Serves(x) /\ Orphan(x)
       /\ ~cut[x] \/ st[x] = "asking" \/ own # {} \/ asked # {}
       /\ down[x] = <<>> \/ st[x] # "idle"
       /\ cut' = [cut EXCEPT ![x] = TRUE]
       /\ st' = [st EXCEPT ![x] = IF @ = "asking" THEN "refused" ELSE @]
       /\ msg' = AllRefused(own)
       /\ fwd' = [fwd EXCEPT ![x] = @ \ {Admit(y) : y \in asked}]
       /\ down' = [z \in Agents |-> IF z = x THEN <<>> ELSE down[z] \o answers(z)]
       /\ UNCHANGED <<term, blocked, job, up, limit, rec, env, got>>

(* Mutant: held messages are left.                                          *)
CloseChannelHolding(x) ==
    LET p == Parent[x]
    IN /\ link' = [link EXCEPT ![x] = "gone"]
       /\ out' = [out EXCEPT ![x] = FALSE]
       /\ msg' = AllRefused(SentVia(p, x))
       /\ rec' = [rec EXCEPT ![p] = [y \in Agents |->
                    IF x \in Line[y] /\ rec[p][y] = "active" THEN "ended" ELSE rec[p][y]]]
       /\ fwd' = [fwd EXCEPT ![p] = {f \in @ :
                    LET y == IF f[1] = "msg" THEN To(f[2]) ELSE f[2] IN x \notin Line[y]}]
       /\ up' = Upward([up EXCEPT ![x] = <<>>], p, Refusals(ForwardedVia(p, x)))
       /\ UNCHANGED <<fg, limit, env, got>>

(* Mutant: the pipe is still read.                                          *)
CloseChannelReading(x) ==
    LET p == Parent[x]
    IN /\ link' = [link EXCEPT ![x] = "gone"]
       /\ out' = [out EXCEPT ![x] = FALSE]
       /\ msg' = AllRefused(HeldFor(p, x) \cup SentVia(p, x))
       /\ rec' = [rec EXCEPT ![p] = [y \in Agents |->
                    IF x \in Line[y] /\ rec[p][y] = "active" THEN "ended" ELSE rec[p][y]]]
       /\ fwd' = [fwd EXCEPT ![p] = {f \in @ :
                    LET y == IF f[1] = "msg" THEN To(f[2]) ELSE f[2] IN x \notin Line[y]}]
       /\ up' = Upward(up, p, Refusals(ForwardedVia(p, x)))
       /\ UNCHANGED <<fg, limit, env, got>>

(* fyai_tool_job_close_channel: messages held for the agent and requests    *)
(* through its link are settled, the records of its route end.              *)
CloseChannel(x) ==
    LET p == Parent[x]
    IN /\ link' = [link EXCEPT ![x] = "gone"]
       /\ out' = [out EXCEPT ![x] = FALSE]
       /\ msg' = AllRefused(HeldFor(p, x) \cup SentVia(p, x))
       /\ rec' = [rec EXCEPT ![p] = [y \in Agents |->
                    IF x \in Line[y] /\ rec[p][y] = "active" THEN "ended" ELSE rec[p][y]]]
       /\ fwd' = [fwd EXCEPT ![p] = {f \in @ :
                    LET y == IF f[1] = "msg" THEN To(f[2]) ELSE f[2] IN x \notin Line[y]}]
       /\ up' = Upward([up EXCEPT ![x] = <<>>], p, Refusals(ForwardedVia(p, x)))
       /\ UNCHANGED <<fg, limit, env, got>>

(* The job is done and its group collects it.                               *)
Collect(x) ==
    /\ JobHeld(x) /\ JobDone(x) /\ Serves(Parent[x])
    /\ CloseChannel(x)
    /\ down' = [down EXCEPT ![x] = <<>>]
    /\ UNCHANGED process

(* The turn is interrupted, or the user resets: the agent is sent SIGTERM,  *)
(* its link is closed with what was not written, and its death waited for.  *)
Discard(x) ==
    LET p == Parent[x] IN
    /\ JobHeld(x) /\ ~JobDone(x) /\ Serves(p)
    /\ p = Root \/ (term[p] /\ st[p] = "live" /\ x \in fg)
    /\ CloseChannel(x)
    /\ term' = [term EXCEPT ![x] = Running(x)]
    /\ blocked' = [blocked EXCEPT ![p] = x]
    /\ \E n \in {0, Len(down[x])} : down' = [down EXCEPT ![x] = SubSeq(@, 1, n)]
    /\ UNCHANGED <<st, cut>>

(* waitpid returns.                                                         *)
Reap(p) ==
    /\ Running(p) /\ blocked[p] # Root /\ st[blocked[p]] = "dead"
    /\ blocked' = [blocked EXCEPT ![p] = Root]
    /\ UNCHANGED <<st, term, cut, job, pipes, registry, mail>>

(***************************************************************************)
(* The specification.                                                      *)
(***************************************************************************)
Init ==
    /\ st = [p \in Processes |-> IF p = Root THEN "live" ELSE "none"]
    /\ term = [p \in Processes |-> FALSE] /\ cut = [x \in Agents |-> FALSE]
    /\ blocked = [p \in Processes |-> Root]
    /\ link = [x \in Agents |-> "none"] /\ out = [x \in Agents |-> FALSE] /\ fg = {}
    /\ up = [x \in Agents |-> <<>>] /\ down = [x \in Agents |-> <<>>]
    /\ limit \in Limits
    /\ rec = [p \in Processes |-> [y \in Agents |-> "none"]]
    /\ fwd = [p \in Processes |-> {}]
    /\ env = [m \in Messages |-> [from |-> Root, to |-> Root, ask |-> FALSE]]
    /\ msg = [m \in Messages |-> "none"] /\ got = [m \in Messages |-> 0]

(* The handlers of the two ends of a link.                                  *)
Serve(x) ==
    \/ ServeAdmit(x) \/ ServeEvent(x) \/ ServeResult(x)
    \/ ServeChildMessage(x) \/ ServeAck(x)
ServeParent(x) ==
    \/ TakeRun(x) \/ ServeAdmitted(x) \/ ServeMessage(x) \/ ServeParentAck(x)

Next ==
    \/ \E x \in Agents :
        \/ Fork(x) \/ Enter(x) \/ GiveUp(x) \/ Tick(x) \/ Terminate(x)
        \/ FinishTurn(x) \/ Exit(x) \/ Crash(x)
        \/ Serve(x) \/ ServeParent(x)
        \/ LoseChild(x) \/ LoseParent(x) \/ Collect(x) \/ Discard(x)
    \/ \E m \in Messages :
        \/ \E p, t \in Processes, ask \in BOOLEAN : Send(m, p, t, ask)
        \/ CancelMessage(m)
    \/ \E p \in Processes : Reap(p)

Spec == Init /\ [][Next]_vars

(* Some loop that can run does: it reads its pipes and fires its timer, a    *)
(* child that has ended is collected and reaped, a turn that was asked to   *)
(* end ends.  No model has to act and nothing has to fail.  Which of them    *)
(* runs is left open: no handler can run for ever.                          *)
Runs ==
    \/ \E x \in Agents :
        \/ Serve(x) \/ ServeParent(x) \/ Enter(x) \/ GiveUp(x) \/ Tick(x)
        \/ (term[x] /\ FinishTurn(x)) \/ Exit(x)
        \/ LoseChild(x) \/ LoseParent(x) \/ Collect(x)
        \/ (Parent[x] # Root /\ Discard(x))
    \/ \E p \in Processes : Reap(p)

FairSpec == Spec /\ WF_vars(Runs)

(***************************************************************************)
(* Properties.                                                             *)
(***************************************************************************)
Frame ==
    {<<"run">>, <<"result">>} \cup {Admit(y) : y \in Agents}
    \cup {Event(y, b) : y \in Agents, b \in BOOLEAN}
    \cup {Admitted(y, b) : y \in Agents, b \in BOOLEAN}
    \cup {Message(m) : m \in Messages}
    \cup {Ack(m, b) : m \in Messages, b \in BOOLEAN}

(* The types, and what goes with them: a forward is of something that came   *)
(* from, or is for, a descendant, and nothing is read from a closed link.   *)
TypeOK ==
    /\ st \in [Processes -> {"none", "idle", "asking", "told", "live",
                             "refused", "leaving", "dead"}]
    /\ term \in [Processes -> BOOLEAN] /\ cut \in [Agents -> BOOLEAN]
    /\ blocked \in [Processes -> Processes]
    /\ link \in [Agents -> {"none", "open", "closed", "gone"}]
    /\ out \in [Agents -> BOOLEAN] /\ fg \subseteq Agents /\ limit \in Limits
    /\ up \in [Agents -> Seq(Frame)] /\ down \in [Agents -> Seq(Frame)]
    /\ \A x \in Agents : link[x] \in {"none", "gone"} => up[x] = <<>>
    /\ rec \in [Processes -> [Agents -> {"none", "active", "ended"}]]
    /\ fwd \in [Processes -> SUBSET Frame]
    /\ \A p \in Processes : fwd[p] \subseteq
        ({Admit(y) : y \in Below(p)} \cup {Message(m) : m \in {n \in Messages : To(n) \in Below(p)}})
    /\ msg \in [Messages -> {"none", "held", "sent", "queued", "refused", "cancelled", "lost"}]
    /\ env \in [Messages -> [from : Processes, to : Processes, ask : BOOLEAN]]
    /\ got \in [Messages -> Nat]

(* Every link from x to the root stands, and nobody above it is blocked.    *)
Connected(x) == \A y \in Line[x] : link[y] = "open" /\ st[y] # "dead" /\ ~cut[y]

(* "The limit counts every agent of the invocation": an agent that runs and  *)
(* was not asked to end has an active record at the root, through whoever it *)
(* was started, and there are never more of them than the limit.            *)
LiveAreCounted ==
    Cardinality({x \in Agents : st[x] = "live" /\ ~term[x] /\ Connected(x)
                    /\ rec[Root][x] = "active"}) <= limit
    /\ \A x \in Agents : st[x] = "live" /\ ~term[x] /\ Connected(x)
                            => rec[Root][x] = "active"

(* A receipt is true: a message is queued once at most, it was when its      *)
(* sender is told so, and it was not when the sender is told the opposite    *)
(* while all the links between the two stand.                               *)
ReceiptsTrue ==
    \A m \in Messages :
        /\ got[m] <= 1
        /\ msg[m] = "queued" => got[m] = 1
        /\ msg[m] = "refused" /\ got[m] = 1
             => \E y \in Line[From(m)] \cup Line[To(m)] : ~Connected(y)

(* An agent that waits for a tool/run that will not come: its parent was    *)
(* gone, or closed the link, before it had written it, and no handler of    *)
(* the agent looks at the link or at a signal.                              *)
Stranded(x) == st[x] = "idle" /\ Orphan(x) /\ down[x] = <<>>
Hangs(p) == \E y \in Agents : Stranded(y) /\ (p = Root \/ p \in Line[y])

(* A message is answered, held or sent, over any number of agents in        *)
(* between, whoever of them ends, as long as its sender is there.           *)
ReceiptsSettle ==
    \A m \in Messages :
        msg[m] \in {"held", "sent"} ~>
            \/ msg[m] \notin {"held", "sent"}
            \/ Hangs(From(m)) \/ Hangs(To(m))

(* "A delegated owner detects the loss of its parent connection and cancels  *)
(* its work": with its parent gone an agent ends.                           *)
OrphansEnd ==
    \A x \in Agents : (Running(x) /\ Orphan(x)) ~> (st[x] = "dead" \/ Hangs(x))

=============================================================================
