# fyai in TLA+

This directory is the verification development of `fyai`: TLA+ modules of the
parts of the program whose correctness is a matter of order (several processes
on one state arena, retries, crashes, callbacks), TLC configurations that check
them on small instances, and proofs that TLAPS checks for every instance.

The source is in `src/src/*.c`; paths below are relative to it. The modules are
translated from the C code and not from the documents. Where a document or a
comment says something else than the code does, the README names the run that
shows it.

## 1. The system

`fyai` is a command-line agent. Each invocation is a process. It opens an
*arena*, a memory-mapped store of immutable, deduplicated values next to the
project, reads the root of the arena, runs one command or an interactive
session, and publishes what it changed. Several invocations, and the agents a
session starts (forked processes), share one arena at the same time, with no
lock: one word, `refs`, is advanced by compare-and-set.

| Part | Source | State | Operations | Hard behaviour |
| --- | --- | --- | --- | --- |
| State arena | `fyai_storage.c` | `refs` word; roots (`HEAD`, branch table, `prev`); per process: `refs_head`, `arena_branches`, `branch_prev`, `last_message`, members, `head_branch` | open, publish the state of a branch, publish the branch table, refresh, truncate, gc | lost compare-and-set, merge of what was lost, contexts made of two roots, crashes between write and publish |
| Branches and stores | `fyai_branch.c` | entries (`head`, `store`, `prev`), the table | create, import, delete, rename, describe, adopt, checkout, reset | edits of one table by two processes, hierarchy of names, `HEAD` |
| Conversation merge | `fyai_merge.c` | none: functions of two turn chains | merge base, exchanges, replay, join | shared turns, one system prompt, cleared conversations |
| Turn loop | `fyai.c`, `fyai_turn.c`, `fyai_session.c` | the current turn, its head | start, finish, fail a turn; clear, resume, btw | tools that publish in mid-turn, refresh in mid-turn |
| Todo list, settings | `fyai_todo.c`, `fyai_settings.c`, `fyai_cmd_config.c` | staged store | replace a list, set a member | publishes inside a turn |
| Project views | `fyai_cas.c`, `fyai_manifest.c`, `fyai_view_*.c`, `fyai_project*.c`, `fyai_cmd_fsview.c` | objects by digest, manifests, runtimes, a lock file | capture, apply, collect | a collector against a capture: roots read before the lock, grace period, reused objects, a walk of the roots that reorders them |
| Event loop | `fyai_event*.c` | sources, timers, children, the SIGINT watchdog | add, remove, dispatch, terminate a child | callbacks that remove sources, signals, escalation against exit |
| Event queue and waits | `fyai_wait.c`, `fyai_monitor.c` | queued events, waiters, monitors | inject, wait, poll, purge | an event with two readers, a source that ends without one |
| Agents and asks | `fyai_agent*.c`, `fyai_ask*.c` | admitted agents, questions, messages | admit, ask, settle, close | settle against message against close |
| Transport | `fyai_transport_*.c`, `fyai_curl.c` | calls, requests, credit, parked requests | submit, cancel, flush, retry, lose the channel | flow control, each call ends once, credential renewal |
| Authentication | `fyai_auth*.c`, `fyai_oauth.c`, `fyai_secret*.c` | credential file and its lock file | login, refresh, logout | several processes that refresh one credential |
| JSON-RPC, MCP, ACP, SDK | `fyai_jsonrpc.c`, `fyai_mcp.c`, `fyai_acp.c`, `fyai_claude_sdk.c` | pending requests | request, answer, cancel | late answers, lost peers |
| Streams, grammars | `fyai_stream.c`, `fyai_grammar_*.c`, ... | parsers | convert | none of order: conversions of text |
| Terminal interface | `fyai_ui.c`, `fyai_display.c`, `fyai_page.c`, ... | screen | draw | none of order |
| Configuration, commands | `fyai_config.c`, `fyai_cmd*.c`, `fyai_schema.c` | configuration documents | parse, dispatch | none of order |
| Skills, imports, media | `fyai_skill.c`, `fyai_import.c`, ... | files | convert | none of order |
| Isolation, support | `fyai_sandbox*.c`, `fyai_host*.c`, `utils.c`, ... | none | system calls | none of order |

How they interact: commands and the turn loop change the *context* of the
process and call `fyai_publish_state` or `fyai_publish_branches`; both end in
the compare-and-set, and both reconcile a lost one. Tools run by the turn loop
call back into the same operations (`todo_write` publishes, the agent tools
refresh). Everything asynchronous (transfers, children, monitors, agents) is
a source of the event loop, and its callbacks post to the event queue, to a
transport channel or to a message.

What makes each part correct:

- *arena*: no publish loses what another process published; each publish is one
  command on the state it replaces; the ref logs are whole; a
  publisher gives up only when others have won.
- *branches*: an edit of the table changes what it names and nothing else.
- *merge*: a join keeps both sides, no turn twice, one system prompt in front.
- *views*: the collector removes nothing that a published entry refers to.
- *event loop and waits*: no callback of a removed source, each event reaches
  one reader, a wait ends.
- *transport*: each call ends once; credit never strands a request.
- *authentication*: one refresh per expired credential, and no stale store.

`PROJECT.json` lists every source file under a component, what of it is
modelled, and the hazards of the code with their lines and the properties that
cover them.

## 2. The modules

```
BranchData      values and pure functions (chains, stores, tables, merges)
  StateStore    the processes and the arena: actions and properties
    StateStoreInv     the inductive invariants, and the refinement mapping
      MCStateStore      instances for TLC
      StateStoreProofs  the arena and every context stay well formed; one-command
                        processes publish their command and no more, and
                        implement the abstract branch table
  BranchTable   the abstract specification StateStore is checked against

ViewStore       captures of the project beside the collector of their storage
  MCViewStore       instances for TLC: two blobs, two contents, an order of names
ViewStoreProofs   its inductive invariant, safety properties
AuthStore       the login: processes, the lock file, the store, the provider
AuthStoreProofs   its inductive invariant, safety and action properties
Transport       one channel between an agent and its credential transport
TransportProofs   its inductive invariants: wake-ups, credit, whole answers
Agents          sub-agents: admissions, reports, messages and receipts over pipes
AgentsProofs      its inductive invariant: types, the count of live agents, receipts
  MCAgents          an instance for TLC: a chain of two agents

Filters         lists with elements taken out (used by EventWait and EventLoop)
FilterProofs      lists of any length: filters, prefixes, concatenation, and
                    numbers (also for Transport and Agents)
EventWait       the events for the model, and the turn loop that waits for them
EventWaitProofs   its inductive invariant, safety and action properties
EventLoop       sources, batches and nested loops; the processes of tool calls
EventLoopProofs   its inductive invariant: no event of a freed source
```

The six models of the second and third group each stand for a part that shares no
state with the others but through the calls in section 1. Where one needs another it
holds what it relies on: `ViewStore` has the references an entry holds and a
publish as one step (that the step is one is what `StateStore` shows);
`EventWait` takes from the event loop that a callback runs to its end, that
deferred callbacks are a batch, and that a nested loop may come in between
(which `EventLoop` models for sources).

### BranchData

A turn links to the turn before it and the arena stores equal values one time,
so the code compares conversations by the identity of their last turn. A
conversation is therefore a sequence of turns: equal sequences are the same
value, and what two conversations share is a common prefix. `MergeBase`,
`JoinOntoHead` and `WithoutSystem` are `merge_base`, `fyai_join_onto_head` and
`replay` of `fyai_merge.c`. An exchange (a user turn, the model steps and tool
results after it) is one turn here: the join moves whole exchanges.

A store is a function from members to values. `MergeStores` is
`fyai_branch_store_merge` on members that are plain values. The members the
context holds itself (`CtxMember`: configuration, catalogue, skills,
description, agent) are told apart from those only the store holds
(`ListMember`: the todo list, the settings logs), because `fyai_branches_commit`
takes the first from the context and the second from the staged store or from
the predecessor.

`DeltaConflicts` and `DeltaApply` are `branches_delta_apply`.

### StateStore

The shared state is `refs`, `roots` (every root ever written, a root is named
by its index) and `entries` (every branch entry ever written). The arena is
append-only, so nothing else is shared. A process holds a context with the
fields of `struct fyai_ctx` that a publish reads:

| Module | Code |
| --- | --- |
| `refsHead`, `table`, `headBranch` | `refs_head`, `arena_branches`, `head_branch` |
| `branch`, `branchPrev`, `chain` | the selected branch, `branch_prev`, `last_message` |
| `members`, `staged`, `lists` | `arena_config`, `arena_catalog`, ...; `branch_store` |
| `want`, `tries` | `merged` and `tries` of the two publish loops |
| `pc` | between calls (`idle`), in a turn, before a compare-and-set (`try`, `ttry`), after a lost one (`lost`, `tlost`) |

`asked` holds the command and, for a table edit, the `base` and `branches`
arguments of `fyai_publish_branches`; its fields `view`, `edits` and `since`
are history that only properties read (and `view` the head a turn was started
on, which `FinishTurn` uses as the code does).

A step of a process is what it does between two points where another process
can be seen: the read of `refs` at open, each compare-and-set, each reread
after a lost one. `fy_allocator_refs_get` and the reconciliation that uses its
result are one step, because everything it reads from there is immutable.
`Exit` is enabled everywhere and stands for the end of a process and for a
crash: what it wrote to the arena before the compare-and-set is unreachable, so
the write of an entry and the compare-and-set are one action for a branch, and
two for a table edit (the entry is written when the table is built, before the
first try).

Three kinds of process: a *plain* one runs one command on the state it read and
ends (`fyai "prompt"`, `fyai config set`, `fyai branch ...`); a *session* goes
on after its command, whether or not it was published; a *tooled* one runs tools
of the parent process in its turns, which publish (`WriteList`) or refresh
(`Refresh`) in mid-turn.

| Action | Code |
| --- | --- |
| `Open`, `Exit` | `fyai_setup_storage`, `fyai_close_storage` |
| `StartTurn`, `FailTurn`, `FinishTurn` | system prompt seed, `fyai_interactive_append_user_turn`, `fyai_interactive_finish_turn` |
| `SetMember`, `WriteList`, `Clear`, `Reset`, `Checkout` | `config set`, `todo_publish`, `fyai_session_clear`, `fyai_branch_reset`, `fyai_branch_checkout` |
| `CreateBranch`, `DeleteBranch`, `RenameBranch`, `DescribeBranch` | the functions of `fyai_branch.c` of these names |
| `PublishNothing`, `PublishWon`, `PublishLost` | `fyai_publish_state`, `fyai_root_publish_try` |
| `ReconcileUnmoved`, `ReconcileOneSided`, `ReconcileReplay`, `ReconcileRefuse` | the four ways through `publish_reconcile` |
| `TableWon`, `TableLost`, `TableReapply`, `TableRefuse` | `fyai_publish_branches` |
| `Refresh` | `fyai_branches_refresh` |

### BranchTable

What the processes may rely on: a table of names, each with a conversation and
a store, and commands that take effect at one instant on the name as it is at
that instant. There is no process, no context and no root in it.
`StateStoreInv` maps the root in force to `tip` and what the names of all roots
held to `known`; under it each compare-and-set that wins is one command and every other
step is a stutter.

### ViewStore

The storage of the project: blobs and manifests named by their content, and the
runtime trees of views (`fyai_cas.c`, `fyai_manifest.c`, `fyai_cmd_fsview.c`).
A file is its name, and `disk` gives its age: absent, young (within the grace)
or old. A blob is a model value; a manifest is the set of blobs it lists, a
delta that and its base. `log` and `view` are what the arena refers to: the
project states of the ref log, entry by entry, and the record of one view. An entry
with no capture of its own repeats the state of the entry before it; the entries
before the first state name nothing and are not in `log`. Nor are entries that do
not decode, or what is behind them: no reader of the ref log goes beyond, so what
they name is not named.

| Action | Code |
| --- | --- |
| `AskState`, `AskView`, `LockRun`, `TakeLock` | `storage_project_state`, `fyai_view_capture`, `view_open_run`, `fyai_view_storage_lock_shared` |
| `PutBlob`, `PutManifest`, `Seal` | `cas_put`, `fyai_fsview_manifest_publish`, `fyai_fsview_snapshot` |
| `RecordState`, `RecordView`, `RecordResult` | the publish that names what was captured |
| `RemoveView`, `Reset` | `fyai_cmd_view_remove`, `fyai_project_state_restore` |
| `GcOpen`, `GcLock` | `fyai_gc_storage`: the ref log is cut; `gc_collect_branch`: the array of the roots, of at most `EntryMax` entries, and the cutoff; then the lock |
| `GcWalk`, `GcVisit` | `gc_live`: one root of the array at a time, by index |
| `GcSweep`, `GcManifests`, `GcBlobs`, `GcEnd` | the sweep of run trees, then, after the walk, of manifests, then of blobs |
| `Fail`, `Crash`, `GcCrash`, `Damage`, `GracePasses` | failed operations, deaths, a manifest that does not open or a record of it that does not decode, time |

Every write of a file, every publish and every removal is a step, so a capture
and a sweep interleave as finely as the lock allows. The captures of entries and
of views take `gc.lock` shared, the sweep takes it alone and skips its turn when
it cannot; a sealed run takes no lock and is protected by the age of what it
wrote. `GracePasses` waits for those who have written and not yet recorded: the
grace (an hour) is taken to be longer than a capture and its record. Without
that assumption `WrittenIsKept` is false by design.

A file that is found stored is used as it is, and its age does not change. So a
process may rely on a file that nothing names and that is old; the history
variable `exposed` marks such files until they are written again. `NamedIsStored`
holds but for them, and the run `views_found` shows what happens to them.

The walk of the roots is that of the code. `items` is `roots->manifests`, `at` the
index: at a delta `strv_has` puts the array in the order of the names (`Sorted`) before
it looks for the base, and `strv_add` puts a base that is not there at its end, so a
root not yet visited may come before `at`. The walk then never visits it, and its
blobs are not among the live though `complete` is still true. The order of the names
of manifests, which are digests, is a constant (`Digest`, any order without ties).
A damaged manifest either does not open, and then no blob is swept, or has a record
that does not decode, and then the walk goes on without the blob of that record. The
history variable `passed` keeps the blobs that were swept when every root that names
them had been passed over in one of these two ways (`PassedOver`: the first is only
after a delta was visited). `NamedIsStored` excepts them; `SweepIsUnnamed` does not, and
section 4 gives the configurations that violate it.

### AuthStore

A subscription login is a record (`auth.json` or the entry of the keyring) with
the client registrations and their tokens. A token is a sign-in and a number:
the provider accepts the newest number of each sign-in and issues the next
(`gen`). A process has at most one request, whose state `st` is the handler it
waits for:

| Action | Code |
| --- | --- |
| `Submit`, `LockTimer`, `StartLocked` | `fyai_auth_refresh_submit`, `..._lock_timer`, `..._start_locked` |
| `KeysAnswered`, `KeepTokens` | `fyai_auth_refresh_complete` of the signing keys, of the tokens |
| `ProviderRefresh`, `ProviderRefuses` | the provider |
| `SaveRing`, `DeleteFile`, `SaveFile` | the writes of `auth_save`, each a step |
| `LoginSubmit`, `Register`, `Redirect`, `Exchange`, `LoginKeys`, `CredentialTimer`, `LoginFails` | sign-in |
| `Logout`, `Revoked` | sign-out |
| `StoreLoad` | `fyai_auth_store_load` of a request to a model while the process refreshes: it takes no lock and replaces `ctx->auth` |
| `Cancel`, `Aborted`, `Destroy`, `Crash`, `Keyring` | cancellation, deaths, an outage of the keyring |

A load prefers the file over the keyring, and cannot tell a keyring that cannot
be reached from one with no entry. `harm` is history: `"token"` when an answer of
the provider was lost (a crash or a failed write between the answer and the end
of the save; the tokens dropped because `StoreLoad` has cleared `ctx->auth`), and
`"record"` when a record was written by a process that could read none. The two
properties about the store except these: the code has no way to get such a token
back.

### Transport

One channel: `agent` is the client (`fyai_transport_client.c`), `srv` the request
engine of the transport process (`fyai_transport_server.c`) with the transfers
it runs, `up` and `srv.down` the frames in the socket, `login` the credential
(which token, and how old), which other processes may renew. Bodies are counted
in units of one delivery of curl; each frame says of which try and from which
unit it is, so that a piece that came twice, late or never is told apart.

Each action is one handler (`ClientReadable` for one frame, `ChanReadable` for
one message, `CurlWrite`, `CurlNotify`, `ChanWritable`, `RefreshDone`, ...). Two
handlers go through all requests of a channel and may free it in the middle:
they run as `srv.work`, one request per step, and only the agent can move in
between. The answers of `verb_prepare` and `verb_reject` are sets, because what
they find depends on a refresh that may just have ended.

### Agents

A process per agent (`st`), and of each the link to the process that forked it: a
pair of pipes with the frames in them (`up`, `down`), the end of the child (`cut`)
and the end of its parent (`link`, the connection of the job). The root alone
decides on admissions; each process keeps records of the agents below it (`rec`,
`limit`) and of what it passed on and has no answer for (`fwd`). Of each message
`env` is its envelope, `msg` what its sender knows of it and `got` how often it
was queued for the model it is for.

| Action | Code |
| --- | --- |
| `Fork`, `TakeRun`, `ServeAdmit`, `ServeAdmitted`, `Enter`, `GiveUp` | `agent_fork`, the serve loop of a child, `fyai_agents_enter`, `fyai_agents_request_admission` and its answers |
| `Tick`, `Terminate`, `FinishTurn`, `Exit`, `Crash` | the progress timer, SIGTERM or a cancel, `fyai_agents_leave`, deaths |
| `ServeEvent`, `ServeResult` | the reports of an agent, the answer to `tool/run` |
| `Send`, `ServeMessage`, `ServeChildMessage`, `ServeAck`, `ServeParentAck`, `CancelMessage` | `agent_message`, `ask_parent`, and the handlers of a message and of its receipt |
| `LoseChild`, `LoseParent`, `Collect`, `Discard`, `Reap` | the end of a pipe at either end, `fyai_tool_job_close_channel` when a job is done or discarded, `waitpid` |

A process that waits in `waitpid` for a child (`blocked`) runs no handler. What a
process had not written when it died is lost: any suffix of what it sent up, and
all or nothing of what it sent to each child. The root does not die, and a branch
is not run a second time.

`Line` is an agent with all agents above it. It is written as what is in every set
that has the agent and the parents of its members, and not by recursion on the
parent: the two are the same in a tree, and the first can be reasoned about without
an induction (`LineStep` is the second).

### EventWait

The events that wait for the model, and what waits for them: named waits,
monitors and sub-agents in the background (`src`) queue events (`queue`, a set:
events are taken in the order of their numbers); the
calls of `wait` with `for` of a group of tool calls (`waiters`) read events and
leave them in the queue, marked, until no wait can want them; the plain `wait`
(`nap`) runs an event loop inside its callback. `deferred` and `batch` are the
deferred callbacks of `fyai_event.c`: kick, purge, service of the turn, finish of
a source. `turn` is `run->state` of an interactive session whose answers are
streamed: the calls of a parallel group start while the answer arrives
(`CallJob`, `CallWait`, `CallStart`), the one exclusive call of the answer comes
after the group (`CallNamedWait`, `CallCancel`, `CallNap`). `Service` is
`fyai_turn_run_service`, one state of the turn per step, without an event of the
loop in between. `TakeInterrupt`, `EventTurn`, `UserTurn` and `Reset` are what
the owner of the loop does between two steps of it. A monitor may be stopped for
printing too much at any time, and then ends without an event.

Every event has a number, and `told`, `returned` and `gone` are history: given
to the model by a request or a turn of its own, returned by a wait, or gone with
what it was for. A service that is deferred when there is nothing left to do is
left out. `FinishFreed` ends the session (`crashed`): a monitor that is cancelled
while its finish is already in the batch (section 4).

### EventLoop

`mem` is the memory of the sources, by slot; it grows when the pool is empty, as
`fyai_event_source_alloc` allocates then. `list` is `el->sources` and `pool` the
sources that were freed, last in, first out. `batches` are the events that
are still to be dispatched: of the loop, and of the loop that a plain wait runs
inside a callback (`nap` is its timer). `job`, `proc` and `sig` are the tool jobs,
their processes and the strongest signal each was sent.

| Action | Code |
| --- | --- |
| `Wait`, `Read`, `Typed`, `Repair` | `fyai_event_backend_wait` of Linux (children that are known to have ended come alone), `fyai_event_timers_repair` |
| `Skip`, `DispatchChild`, `DispatchTimer`, `DispatchInput`, `EndBatch` | one turn of the loop of `fyai_event_dispatch`, and its end |
| `Submitted`, `CancelJob`, `DiscardJob`, `JobChild`, `JobDeadline` | the functions of `fyai_tools.c` of these names |
| `AddTerminate`, `Climb`, `Exited` | the ladder that ends a child: SIGTERM, two seconds, SIGKILL |
| `Submit`, `Release` | the turn, and the interrupt of it |
| `TimerExpires`, `ProcessEnds`, `WaitedFor` | time, the processes, `waitpid` of a discard |

The events of a batch come in any order. A timer has expired only when a wait
looks at it (`Idle`), which loses nothing: in between nobody reads it. `dead`
says that memory was used after it was freed or that every process of the user
was sent a signal (`kill` of the pid -1 that a source of another kind has).
A job is the process of a tool call; the descriptors of its channel are left
out, so a job is done when its process has ended.

### Filters

`Filter` takes elements out of a list and keeps the order of the others: sources out
of `el->sources`, callbacks out of a batch. It is `SelectSeq` as a recursive
function, so that `FilterProofs` can say what it keeps.

## 3. The runs

| Run | Instance | What it shows |
| --- | --- | --- |
| `race` | three processes, two branches: two one-command processes that replay, and a session with tools that refuses conflicts; turns, set, list, clear, reset, delete, checkout, refresh; two tries | `PlainKeepsTurns`, `PlainKeepsStore`: nothing another process published is lost, whatever sessions do; `ReplayIsExact`: while the branch only grows, a replay puts one turn after theirs; `LossesAreWins`, `TypeOK` |
| `commands` | two processes, two branches, every command, conflicts refused; three tries | `ImplementsBranchTable`; `PlainKeepsBranches`; `PlainKeepsReflog`: a publish links its entry to the one it replaces, also after a lost race; `SystemPrompt` |
| `views` | two processes, two blobs, two contents of the project; at first two states in the ref log and a view with a result; two runtime trees, two operations; failures, deaths, one damaged manifest or record | `NamedIsStored`: what the arena names is there; `WrittenIsKept`: a sweep takes nothing of a capture under way; `GarbageGoes`: what nothing names goes; `TypeOK` (nobody captures under the lock beside a sweep) |
| `auth` | two processes, two registrations, two sign-ins of three tokens, three requests; deaths, cancels, outages of the keyring, failed writes | `PostsNewest`: no token is shown twice; `StoredIsNewest`, `RefreshKeepsRest`, `RegistrationsStay`: what the store keeps; `RequestsEnd`; `TypeOK` (who saves holds the lock) |
| `calls` | one call, a body of three units, a window of two, a socket of two frames, everything that can go wrong | `AnswersAreWhole`: the owner gets the body of one try, once and in order; `CallsEnd`; `TypeOK` (credit within the window, two tries, two queued frames) |
| `channel` | two calls, a socket of one frame, one login that ages | `CreditConserved`, `PausedHasWaker`, `ParkedHasRenewal`: nobody waits for what will not come |
| `waits` | a wait, a monitor, a sub-agent; two `wait` calls, one more event, one answer with calls, one interrupt, line or reset | `GivenOnce`, `NothingVanishes`: what becomes of an event; `NoFalseEnd`, `NoMissedWake`: what a wait sees; `TurnEnds`; `TypeOK` |
| `loop` | two jobs, one with a time limit, one whose process ignores SIGTERM; one request of the user | `EventsAreLinked`: no event of a freed source; `ExitToldOnce`; `StoppedJobEnds`; `TypeOK` (a slot is never twice in the list and the pool) |
| `agents` | the root starts `a`, `a` starts `b`, one or two may live at a time; one message from the root to `b`, from `a` to `b` or from `b` to `a`; `a` may die at any step | `ReceiptsTrue`: a receipt says what became of a message; `LiveAreCounted`: the limit counts every agent; `ReceiptsSettle`, `OrphansEnd`: what was sent is settled, and an agent without a parent ends; `TypeOK` |
| `refused`, `views_found`, `ladder` | one session and one plain process on one branch; as `views`, with nothing stored at first, three operations and deaths alone; `loop` | the disagreements of section 4 |

Bounds of the first two. Three commands let one process lose to another and
that one to a third, or one process be overtaken twice; two tries (three) let a
publish be retried and be given up, where the code has 64 and 4: no action
depends on the number but `Retry` and `TableReapply`, which compare with it. Two
values of a member let three processes disagree about it; two names let two
processes edit different names, or one run turns on the name another edits.
Since each command takes a new turn from the counter `issued`, turns are told
apart without a bound of their own. The proofs have none of these bounds.

Bounds of the others.

- `views`: two contents, one inside the other, give a delta with blobs of its own
  and one without. The storage is in use at first (`ViewedBefore`): a larger state, a
  smaller one after it, and a view of the smaller one with a result. So the two
  operations let a capture die and a second one find what it left, or make a view anew
  and run in it, or come in pairs beside a collection of what is there: a removal, a
  reset, a capture, a run. The collector has no bound. The order of the names
  (`LargeFirst`) moves the larger state behind the walk at the result. `EntryMax` is
  three, where `GC_ENTRY_MAX` is 4096: two states and two entries go beyond it. Two
  runtime trees are the one of the view and the one of its successor.
- `auth`: three requests are a refresh beside a sign-in or a sign-out, and one
  after both; three tokens let both processes refresh. A failed write, a death, a cancel
  and the outages have no bound of their own.
- `calls`, `channel`: a body longer than the window needs credit on the way, a
  delivery is smaller than the window, and a socket that holds one or two frames
  is full while a terminal frame is to be sent. Two renewals of the login are the
  one a request asks for and the one another process makes. With two calls the
  faults are left out but for the age of the login: one call has them all.
- `waits`: two waiters are one that is satisfied and one that is not yet. One
  answer with calls is enough for the purge of a group to meet the exclusive call
  and the next request.
- `loop`: two jobs hold at most eight sources: child, limit and ladder of each,
  the timer of a wait, and one that is not yet reaped. One request of the user is
  a cancel, a discard or a release of either job; the limit cancels the other.
  The number of slots has no bound.
- `agents`: a chain of two has an agent that is a parent and a child, through which
  admissions, messages and receipts go and whose death settles them. Its death cuts
  both links. One message meets each of these once; `Tick` leaves out a report that
  says nothing the parent does not know or is about to read.

Symmetry is used only in `race`, over processes of the same kind, and with no
liveness property.

Deadlock is checked in the runs of `StateStore`, where a closed process can always
open the arena. The other instances end: all requests, calls or operations of the
bound are made, every process is idle and every job has ended. Their
configurations say `CHECK_DEADLOCK FALSE`, and their liveness properties say that
what was begun ends (`GarbageGoes`, `RequestsEnd`, `CallsEnd`, `TurnEnds`,
`ReceiptsSettle`, `OrphansEnd`, `StoppedJobEnds`).

Fairness.

- `StateStore`: none; its properties are all of safety. That a publish is given up
  is in `TypeOK` of `race`, whose tries it exhausts, and that it is not given up
  for nothing in `LossesAreWins`.
- `ViewStore`: a process goes on with what it has begun, `fyai gc` is run again and
  again, the grace passes, and a process that waits for the lock gets it between
  two sweeps (strong fairness: the lock is a blocking `flock`).
- `AuthStore`: a transfer ends (`CURLOPT_TIMEOUT`), the redirect is waited for ten
  minutes, a timer fires, a handler runs to its end. The lock is tried every 50 ms
  and not queued for, so that a request ends is shown for finitely many requests.
- `Transport`: both loops dispatch what is ready, a transfer and a refresh end in
  their time. Nothing is assumed of the owner of a call: it need not cancel.
- `EventWait`: the loop runs what is ready, what was started ends, the model
  answers, a plain wait ends in its time. No time limit of a `wait` with `for` is
  assumed to pass: `TurnEnds` shows that it is not needed.
- `EventLoop`: the loop goes on while it has something to dispatch or to read
  (`LoopReady` is `ENABLED` of its steps written out, and each step but a repair
  changes the batches), a timer that is looked at again and again expires, and a
  process ends on SIGKILL, and on SIGTERM unless it ignores it. `StoppedJobEnds`
  excepts a loop that a discard holds in `waitpid` for a process that ignores
  SIGTERM: no timer can fire then.
- `Agents`: weak fairness of one action, "some loop that can run does" (`Runs`). The
  handlers are finitely many and none of them can run for ever, so nothing more is
  needed; no model has to act and nothing has to fail. `ReceiptsSettle` and
  `OrphansEnd` except an agent that is stranded before its first request and those
  above it that wait for its death (section 4).

Each property has a mutant in `PROJECT.json`: a change of one definition, of the
kind a mistake in the code would be (a field not adopted, a lock not taken, a
watch not set, a source freed too early), that TLC refutes the property with. The
mutated forms stand just before the definitions they replace.

## 4. What the runs found

Three runs are counterexamples to what a document or a comment says.

- `refused`. `publish_reconcile` puts the newer `refs_head` and
  `arena_branches` in the context before it decides, and a refusal leaves them
  there with the older `branch_prev` and `last_message`. The next publish of
  the session wins its compare-and-set and overwrites the exchange that the
  first one refused to overwrite.
- `views_found`. The collector takes its roots before `gc.lock`, and a capture
  that finds a file stored does not renew its age. A capture that finds the blob and
  the manifest of an earlier one that died, and has released the lock, is not yet
  recorded when the collector takes its roots; the collector removes the manifest, and
  the record made after names it.
- `ladder`. `fyai_tool_job_discard` cancels the job, which arms a ladder (a child
  source and a timer with its address), and then removes the child source alone.
  Two seconds later the timer uses the freed source. Every Ctrl-C with an open
  terminal session takes this way. What it hits depends on who was given the
  slot: another job, which is then sent SIGTERM or SIGKILL, or a source of another
  kind, whose pid is -1.

The modules show more disagreements, which no run checks. For each, the
configuration or the definition that shows it:

- `EveryWriteKeepsTurns` is also violated with a session whose `Refresh` in
  mid-turn adopts the newer predecessor but not the newer conversation, and with
  a tooled one whose `todo_write` is replayed on a newer head that the result of
  the turn then replaces (`Tooled = {s}`, commands `turn`, `list`, `refresh`).
- `EveryWriteKeepsBranches`: a refused table edit leaves the newer `refs_head`
  with the older table (a session, commands `turn`, `create`, `delete`).
- `EveryWriteKeepsReflog`: an edit of the table that is made again after a lost race
  leaves a session with the newer table and its older predecessor, and its next turn
  is linked past the entry that won (a session and a plain process, two branches,
  commands `turn`, `create`).
- `HeadOnlyByCheckout`: a publish writes the `HEAD` read at open, so a turn undoes
  a concurrent checkout (two plain processes, two branches, commands `turn`,
  `create`, `checkout`).
- `SystemPrompt` with `Replaying # {}`: a replay onto a conversation that was
  cleared meanwhile has no system prompt.
- `NoTurnTwice`: two replays of the same conversation onto one that was cleared
  meanwhile both put its published turns back, one after the other.
  `fyai_join_onto_head` replays what comes after the merge base, published or not,
  where its comment says "Replay unpublished turns" (`fyai_merge.c:360`). The
  instance is `race` with three one-command processes that replay, no session, one
  branch, commands `turn` and `clear`, `MaxCommands = 4` and `StateTries = 3`; with
  three commands, as in `race`, the bound hides it.
- `SweepIsUnnamed` of `ViewStore`: `gc_live` goes through the array of the roots by
  index, and a delta in it has `strv_has` sort that array (`fyai_view_gc.c:268`, 91-94).
  With the constants of `views`, but `Ops = 0`, `Faults = {}` and no property but this
  invariant, one collection violates it: the ref log has a larger state and a smaller
  one, and the view of the smaller one a result; after the visit of the result the
  larger state stands at an index that was passed, `complete` is true, and the sweep
  takes the blob that only the larger state names. No second process and no fault is
  needed. The state of every entry is a root and the blobs go "that no live manifest
  names", says `doc/agent-filesystem-views-sdd.md:2092-2100`. The same property is
  violated, with `Start <- NothingBefore`, `Ops = 2` and `Faults = {"damage"}`, by a
  manifest whose header and index are sound and one of whose records does not decode:
  it opens, the walk goes on over the record (`fyai_view_gc.c:274`), and its blob is
  swept, where line 2103 of that document says that "a damaged manifest never causes
  the loss of a blob".
- `CancelledCallsEnd` of `Transport`, with the constants of `calls`: a cancel on a
  channel that the transport has closed marks the client lost
  (`fyai_transport_client.c:94`), and the end callback never runs.
- `ChangesWake` of `EventWait`: a monitor that was stopped for printing too much
  ends without an event and without `fyai_waiters_kick` (`fyai_monitor.c:201`), so a
  wait for it sleeps on until something else wakes it, where `doc/events.md:38` says
  that a change of state does. `NoMissedWake`, `NoFalseEnd` and `TurnEnds` except
  that end (`SilentEnd`, `Stopped`, `Overslept`).
- `EventWait`: a plain wait may sleep through an event, because a kick of the batch
  that its nested loop suspends is still pending (`fyai_wait.c:717`); it may end
  for an event that a waiter has already read (`fyai_wait.c:585`); a report that a
  waiter has read is lost when its turn is interrupted or its answer fails (in
  `gone`); `FinishFreed` is reachable; an interrupt that
  `fyai_turn_run_collect_tools` takes is not acknowledged to the watchdog
  (`fyai.c:2062`), where `doc/event-pump-architecture.md` says it must be.
- `EventLoop`: a one-shot timer that the outer batch has read is armed again when a
  nested loop repairs it, and its callback runs twice; for the limit of a job
  that is discarded in between, the second one uses a freed job (`JobDeadline`
  sets `dead`). `fyai_tool_job_deadline` forgets its source without removing it.
  A cancel of a job whose exit is in the same batch loses the exit status.
- `Agents`: an agent that is asked to end while its admission is on the way gives up,
  and the root keeps its active record until its job is collected (`GiveUp`,
  `fyai_agents.c:897`); an agent whose child has reported cannot message or ask its
  own parent, because the parent takes the newest live record of the link for the
  sender (`ServeChildMessage`, `fyai_agents.c:740`); a message to an agent whose
  admission was refused is held until its job is collected
  (`fyai_agents.c:866`). An agent whose parent dies or closes the link before
  `tool/run` was written waits for ever, and a parent that waits in `waitpid` for
  it too (`Stranded`, `Hangs`; the serve loop of `fyai_tools.c` looks at neither the
  end of the pipe nor at SIGTERM before its first request).

## 5. The proofs

### StateStore

`StateStoreProofs` assumes the named assumptions on the
constants and nothing else: any number of processes of the three kinds, of
branches, members, values, commands and tries. `RootLog` (the ref log is whole)
and `TableEditIsExact` are stated by theorems alone: the others are checked by the
runs too.

*The invariant.* None of the properties is inductive. `StateStoreInv` builds
`IInv` in two layers:

1. `WellFormed`: the arena (each root is chained to the one before, each name
   to an entry that is written, each entry to an earlier one) and each context
   (typed, within the arena, its tries within bounds, and at most as many as
   roots were published since it asked). It is proved for every process,
   sessions included, with one lemma per action. `TypeOK`, `RootLog` and
   `LossesAreWins` follow.
2. `PlainOK` of each plain process: its table and predecessor are those of the
   root it will compare with, its conversation has all turns of that
   predecessor but the ones a clear or a reset dropped, its store differs from
   that of the predecessor in the members its command set, and its desired
   table differs from the table of that root in the names its edit names. This
   is what makes a compare-and-set that wins harmless, and each way through the
   reconciliation restores it: a join keeps all of their turns
   (`JoinOntoHeadKeepsTheirs`), a merge all of their members. Since a plain
   process holds immutable values, steps of the others do not disturb it
   (`OtherPlainOK`).

A root is written by a compare-and-set that wins and by nothing else
(`WriteIsWon`), so the action properties `PlainKeepsTurns`, `PlainKeepsStore`,
`PlainKeepsReflog`, `PlainKeepsBranches` and `TableEditIsExact` follow from
`IInv` in the state before.

*A replay.* `ReplayIsExact` says what a replay does to a branch that nobody cut:
the conversation of the others as it is, and after it the turn of this run. It
needs that the turn is not among theirs, which is a fact about all processes:
`Fresh` keeps the turns numbered by the commands issued, and the turn of a run out
of every entry and every other context until its run has published it
(`AlwaysFresh`). `MergeBase` is a cardinality; `SharesAll` and `JoinOfOne` show what
it is when one conversation continues the other. `NoTurnTwice`, which says the same
of every conversation, does not hold (section 4).

*The system prompt.* `AlwaysSystemPrompt` assumes `Replaying = {}`, because a replay
onto a cleared conversation loses the prompt (section 4). Sessions are allowed. The
invariant `Prompted` also holds the conversation each turn was started on, which is
never empty, so that a turn is put after the prompt whatever a tool of the turn
publishes meanwhile.

*The refinement.* `ImplementsTheBranchTable` assumes `OneCommand`: each process runs
one command and conflicts are refused (`branch/on_conflict` abort), as in the run
`commands`. A session may publish an older conversation over a newer one, and a
replay several turns at once, so without it the theorem is false. `Init` maps to the
initial table (`PromiseInit`). A step that writes no root is a stutter: entries are
never changed, and `known` has only what roots name (`TipKept`, `KnownGrows`). A
root that wins changes one name (`OneChange`) or moves one (`OneMove`), and `RefInv`
says what the change is at that instant: `RunOK`, that a process is to publish its
turn after its predecessor, or one member, or an earlier conversation, or none, and
keeps that through every reconciliation; `EditOK`, that an edit of the table creates,
deletes, describes or renames one name; `Linked`, that a reset goes to a conversation
that was in force; `Fresh`, that a turn is new.

`IInv`, `Fresh` and `RefInv` were checked with TLC on the instances of `race` and
`commands` first.

*Only model-checked.* The negative results are TLC counterexamples.

### ViewStore

`ViewStoreProofs` assumes `ViewAssumption`, `DigestAssumption` and `StartAssumption`
(any ref log and any view at first) and nothing else: any number of processes, contents, project states, runtime trees, operations and
entries that the walk of a ref log covers, any order of the names, and any of the
faults. None of `TypeOK`, `NamedIsStored` and `WrittenIsKept` is inductive; `IInv`
adds:

- `Work`: what a process has put, or found, covers the manifest it is about to
  record, but for the baseline, which the record that it read names. A record is
  not written over one that changed, so that baseline is still named.
- `Written`: what a process has written is young, was not among the files the
  collection under way may take, and is its own; its runtime tree is named by no
  view yet.
- `Found`: what a process has found is named, or exposed, or was written since.
- `Rooted`: what the collection may take and the arena names is reached from the
  roots it took, or is exposed.
- `Marked`, of the walk: the base of a root is a root, for the view names both; the
  roots are kept, and what the records of the roots visited list; as long as no delta
  was visited, the array is that of the roots and all before `at` were visited; the
  blobs are swept only when every root that was visited could be opened.

So a file that is recorded was `Backed` (named, exposed or young) in the state
before. What a sweep removes is named by nothing, or exposed, or passed over
(`GarbageLost`): a blob that a root lists is kept if that root was visited and the
record decodes, and a root is not visited only after a delta was. That exception is
exactly the two disagreements of section 4: in an instance without a delta
among the roots and without a damaged record, `NamedIsStored` has the exception for
exposed files alone. The steps of Next are grouped by what they change (`Quiet`,
`Puts`, `Recording`, `Ageing`, `Collecting`), with one lemma for each group and one
per action that puts it in its group. `IInv` was checked with TLC on the
instance of `views` first. `GarbageGoes` is liveness and stays with TLC.

### AuthStore

`AuthStoreProofs` assumes `AuthAssumption` and nothing else: any number of
processes, registrations, sign-ins, tokens and requests, and any of the faults.
`IInv` has five parts:

- `Typed`, `Locked` and `Kinds`: the types; who reads or writes the login has the
  lock, and who has the lock does that or is being stopped; what a step says of
  the kind of its request.
- `Holds`: what the process with the lock has read, and the token it shows or was
  given, is that of the record that is stored now; what it is about to save
  differs from that record by the token of the sign-in it refreshes, and has all
  of its registrations unless a record was lost. When the keyring has taken the
  record and the file is still there, the keyring has what is being saved.
- `Tokened`, while no answer of the provider is lost: the tokens that are stored
  are the newest, and no two registrations have one sign-in; the same of what is
  about to be saved; and what a sign-in under way was issued is in no record and
  in no other request.

`TypeOK`, `PostsNewest` and `StoredIsNewest` follow from the invariant. For
`RegistrationsStay` and `RefreshKeepsRest`, `StoreSteps` says that a step changes
what is stored only to the record that a process with the lock is saving, and
`Holds` of the state before says what that record can be. The steps are grouped by
what they change (`Moves`, `Goes`, `Finishes`, and a save that is done), with one
lemma for each group and one for each action. `IInv` was checked with TLC on the
instance of `auth` first. `RequestsEnd` is liveness and stays with TLC.

### Transport

`TransportProofs` assumes `TransportAssumption` and nothing else: any number of
calls, any window, credit step, size of a body and of the socket, and any of the
faults. There are two invariants, one for the wake-ups and one for the answers.

*What waits is woken.* `ParkedHasRenewal` and `PausedHasWaker` are not inductive: a
handler that wakes a request may park it again, fail it or queue its end, and the
handlers that go through all requests do so one step at a time. `IInv` has two parts:

- `Typed`: the types, weaker than `TypeOK` (no bound on credit, on tries or on what
  was taken, which follow from the second invariant), and that only requests,
  cancels and credit go up.
- `Waits`: `Shape` says of one request that what it has queued is its end, that one
  that is parked waits for nothing else, and that one whose transfer has ended has
  a result to report; `Wakes` says that what it waits for is to come, while the
  channel is open and, for what goes down, while the agent has its end of it; and a
  handler under way that runs the parked requests has only parked ones before it.

A handler of the transport changes one request. Each has one lemma: it `Touches`
that request only (the others, the work under way, the watch of the socket and the
refresh keep what wakes them), and leaves it `Settled`. The lemmas follow the calls
of the code (`req_flush` under `req_fail` under `req_run` under `req_retry` under
`req_complete_cb`), and one more for each action puts them together. The client
cannot undo what a request waits for: it changes its own state, sends, or reads
from the socket, and when it closes its end `Wakes` asks less.

*What arrives is whole.* `AnswersAreWhole`, `CreditConserved` and `TypeOK` follow
from `IInv /\ Whole`. Of each call, `Flow` relates four places: the call, the frames
that go up, the request and the frames that go down.

- `Stream` is what is on its way to the owner: the frames of the call in the socket
  and after them those the request has queued. It is a `Chain`: the first frame is
  what the call expects next, and each begins where the one before ends. `Tip`: the
  transfer stands where the stream ends, or where the owner is when nothing is on
  the way. A request that has not started its answer has nothing on the way; this
  is why a 401 that is thrown away, or a retry, leaves no piece behind.
- `Local`: what one request can be. Units that were delivered before the answer
  started are those of an answer that is held back or of a request that is
  cancelled; a request with its end sent sends nothing; a second try has no third.
- The credit of a request, the body units on the way, what the client keeps back
  and the credit on the way up make the window. Of a call that has ended, whose
  frames are no longer counted, the rest is at most the window.
- `Unborn`: of a call whose request is on the way, or was never sent, the transport
  has nothing, and there is one such request. Otherwise a request that is read late
  would begin an answer in the middle of another.

A handler of the transport `Adds` frames of its own request only, so the streams of
the others are what they were (`AddsOther`), and leaves its request `Serving`; the
lemmas follow the same calls as above. Of the client, `EndedFlow` says that a call
that ends is owed nothing, `PieceFlow` that one that takes a frame expects what
follows it, and `ChanFreeFlows` that a stream cut short is still a chain. The sums
over the frames in a queue are a function of the prefix (`Units`); that it adds up
over the concatenation of two lists is proved of a least counterexample, as in
`Filters`.

`IInv` and `Whole` were checked with TLC first, on the constants of `calls` and on
two calls with a body longer than the window. `CallsEnd` is liveness and stays with
TLC.

### Agents

`AgentsProofs` assumes `AgentsAssumption` and nothing else: any finite tree of agents
(no agent is above itself, which is how processes are started), any finite number of
messages, any limit, any routes, and any agents that die at any step. None of
`TypeOK`, `LiveAreCounted` and `ReceiptsTrue` is inductive. `IInv` has:

- `TypeOK`: with the types, that a forward is of something that came from, or is for,
  a descendant, and that the pipe of a closed link is empty.
- `Framed`: what is on the way tells the truth. A request for admission is of an
  agent that has asked, in the pipe of an agent on its line; a report is of an agent
  that has run, and the last one of an agent that ends; an answer "yes" that its agent
  still waits for has its record at the root.
- `Kin`: an agent has a link once it is forked, who forked it was forked, and only
  those have an active record.
- `Counted`: no more active records at the root than the limit, and one of each
  connected agent that was told "yes" or runs. This is `LiveAreCounted` from the answer
  on; a report can end a record but, at the root, cannot make one.
- `Receipt` of each message: there is one copy at most, in one pipe; while it is there
  the message is not queued; a "queued" on the way, or told, is of one that was
  queued; a "not queued" of one that was, or that is still on its way, only when a
  link of the sender's or the target's line was lost (`Severed`).

The argument of a step is always the same (`StepKeeps`). `Onward` says what no step
undoes: an agent that has asked does not ask again, one that ends does not run again,
a link that was lost stays lost, the record of a connected agent that is due stays.
So what the frames say stays true, and `Severed` stays true; a step has to show only that
what it adds is right. `ReceiptKept` is the same of a receipt. The handlers that have
nothing to do with messages share `QuietStep` and `LocalStep`; those of messages share
`AnswerStep`, for an answer that is read or passed on, and `DeliverStep`, for a message
that is queued or refused. `LoseChild`, `Collect` and `Discard` close a link with all
that was under way through it; they share `LinkLost`, where every refusal is excused
by the link that is lost in the step. `Pipes` and `Fewer` say of a write, a read and a
loss which frames are in the pipes after it.

`IInv` was checked with TLC first, on the instance of `agents`, and on the first two
million states or so of trees of three agents (a chain, a fork and siblings), which
are too large to go through. `ReceiptsSettle` and `OrphansEnd` are liveness
and stay with TLC.

### Filters

`FilterProofs` has what the proofs of `Transport`, `Agents`, `EventWait` and
`EventLoop` need of lists, with elements taken out and without: `FilterConcat` and `FilterTail` take a filter apart, and
`FilterIs` says that the filter of a list has exactly the elements that pass, in
their order and once each if they were. The library's induction cannot be used (its
theorems have an operator as a parameter), so each fact is proved of a least
counterexample: the set of lengths for which it fails has a least number
(`LeastNat`, from the well-foundedness of the naturals), and the step from that
length to the one before contradicts it (`UpTo`).

### EventWait

`EventWaitProofs` assumes `WaitAssumption` and nothing else: any number of waits,
monitors, sub-agents, events, answers, interrupts and lines. `IInv` has five parts:

- `Typed` and `Counted`: the types; each source that can still report its end has a
  number left for it, which bounds the numbers of events in `TypeOK`.
- `Flow`: waiters only while an answer and its group run, a plain wait only as a call
  of its own, with the batch it suspended; the finish of a source is queued once in
  all the lists of callbacks, and, once the answer is there, only while the source
  ends.
- `Mail`: the events in the queue have different numbers; one that is marked is held
  by a waiter, returned or gone, and one that is held or returned is marked; what a
  waiter has read is of a target of its own; `GivenOnce` and `NothingVanishes`.
- `Wakes`: the end of a target is queued before the target ends, or it is the silent
  one; what a waiter has not seen sets the kick; a kick that is set is queued, in the
  batch that a plain wait suspends too.

`TypeOK`, `GivenOnce`, `NothingVanishes` and `NoMissedWake` follow, and the action
property `NoFalseEnd` from `Wakes` of the state before. There is one lemma for each
action and part it can disturb. `IInv` was checked with TLC on the instance of
`waits` first. `TurnEnds` is liveness and stays with TLC.

### EventLoop

`EventLoopProofs` assumes `LoopAssumption` and nothing else: any number of jobs,
limits and requests, of slots, and any order of removal and reuse. The operations of
the module are functions from a world (the record of all they change) to a world, so
the lemmas follow the calls of the code: one for the removal of a source, for a
ladder, for the cancel of a job, and one for each action that puts them together.
None of `TypeOK`, `EventsAreLinked` and `ExitToldOnce` is inductive. `IInv` has:

- `Slots`: every slot is linked or in the pool, and in one of them once.
- `Refs`: what a source names has the right type, though it may have gone.
- `Watched`, `Children`, `Deadlines`: a linked child source is that of a job that
  runs, and the job names it; a job names linked sources of its own.
- `Ladders`: a linked child source that has a ladder has a linked one of its own.
- `Pending`: the events of each batch, of the loop and of a nested one, are of linked
  sources or of the input; and outside a dispatch no linked source is flagged.

Within a handler the pointers of the job it works on may name a source that has
gone. `Sound` takes the two sets of jobs for which they may, and the lemma of each
call says which jobs it needs sound and which it leaves sound. `Follows` says of
every call that within a dispatch no slot is freed, which keeps `Pending` true.
`ExitToldOnce` is about steps: each of them satisfies `Told`, that a job that has
ended is not told of an exit again, because only a linked child source tells it and
`Watched` says whose that is. `IInv` was checked with TLC on the instance of `loop`
first. A ladder may outlive its child source (`LadderHasChild` is violated in the run
`ladder`); `Refs` says what is still true of one. `StoppedJobEnds` is liveness and
stays with TLC.

## 6. What is not modelled

Of the arena: `--transient` and pinned roots (they refuse or skip a publish);
the deferral of the first publish of a fresh session; the operation label,
times and directories of an entry; failed allocations; truncation of ref logs
and gc of the arena; `fyai_arena_reopen` of a forked child beyond `Open`. Of the
branches: hierarchical names, so delete and rename move one name; import, which
publishes as create does. Of the stores: nested members, which `store_merge3`
merges path by path, and named sequences; the embedded catalogue as the base of a
branch without one. Of the merge: `fyai merge` and `fyai rebase` of two branches,
and the order of exchanges by time. Of the turn: the tool gate, compaction.

Of the views: the walk of the project and what a file is beside its content; more
than one branch and one view; the apply and the merge of a view onto the project, mounts and their
synchronization, the sandbox of a run.

Of the login: the identity tokens, the loopback listener, what is in a
registration; more than one request of a process at a time, but for the reads of
a request to a model.

Of the transport: the parsing of a message, the dial of a provider, the mock
provider, the control verbs and the reload of the configuration; descriptors and
timers of libcurl.

Of the waits: shell sessions, asks and messages as sources (`Agents` has the
messages themselves), one-command use, an
answer that is not streamed, more than one exclusive call of an answer.

Of the agents: questions to the user, controls other than a cancellation, what a
report says beside that the agent lives, the view of a sub-agent, a second run of
one branch, the death of the root.

Of the event loop: SIGINT and its watchdog (a signal handler that runs between any
two instructions; the flag it sets is in `EventWait`), signal sources, the
descriptors of a job, ladders with a grace (those of MCP servers), the macOS
backend, the trace of callbacks.

The other parts of section 1 are not modelled, or have nothing to order
(conversions, drawing, parsing); `PROJECT.json` gives the reason of each.

## 7. Plan

In this order, each with its module, one run and its mutants:

1. `Peer`: JSON-RPC and MCP: request identifiers, cancellation, a lost peer, the
   ladder with a grace that ends a server.
2. `StoreMerge` and `Join`: `store_merge3` with nested and named members, and
   the join of two branches, against reference definitions.
3. In `StateStore`: truncation and gc of ref logs, the deferred session,
   hierarchical names. In `EventLoop`: SIGINT and its watchdog.

No proof is left to do of what the runs check now, but for liveness, which is out of
the prover's reach. A module that is added here comes with its own.
