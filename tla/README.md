# NexiBot: a verification project

TLA+ specifications of the concurrent core of NexiBot, TLC configurations that
model-check them on small instances, and TLAPS proofs of the main theorems for
every value of the constants. Source paths are relative to
`src/src-tauri/src/` unless they say otherwise.

## 1. Inventory

NexiBot is a desktop agent: a Tauri process (Rust, tokio) that talks to
language models, runs tools and sub-agents, and is reached over chat channels.
What is hard in it is not the text that flows through it but the bookkeeping
around background work: who runs, who waits, who was told, and what remains
after a failure.

| Component | State it keeps | Operations | Correct when |
|---|---|---|---|
| DAG store (`dag/store.rs`) | SQLite rows: runs, tasks, edges, statuses, attempts, the notification mark | create run, add task, update statuses, cancel, runnable query, unsent query | outcomes and marks stand; queries agree with the rows |
| DAG executor (`dag/executor.rs`) | one loop per run with a snapshot of runnable tasks; one tokio task per execution | start, add, cancel; rounds of pick, spawn, join; retry with back-off; final status and message | dependencies first; bounded attempts; every started run ends |
| Notification dispatcher (`notifications.rs`) | none of its own (reads the configuration) | `broadcast` | a run is marked as told only if it was |
| Heartbeat (`heartbeat.rs`) | `is_running`, the loop's handle, the configuration | start, stop, update_config, trigger_now, tick | the flag tells whether there is a loop; unsent runs are caught up |
| Orchestration (`commands/agent_cmds.rs`) | remaining subtasks, completed results, rounds | rounds of parallel subtasks with dependencies | returns with an answer for each subtask |
| Circuit breakers (`circuit_breaker.rs`) | per agent: state, failures, probe slot | allow_call, record_success, record_failure | counters agree with the state; a probe is resolved |
| Orchestration manager (`orchestration.rs`) | active spawns, limits | spawn, mark running/completed/failed, cancel, cleanup | slots are returned; never more than the limit |
| Shared workspace (`shared_workspace.rs`) | entries per orchestration | put, read, clear | nothing is left of an ended orchestration |
| Subagent executor (`subagent_executor.rs`) | a semaphore | execute with a time limit | permits come back |
| Workflow executor (`agent_engine/workflow_executor.rs`, registry in `commands/autonomous_agent_cmds.rs`) | the status of each step, the rounds gone, an error; a registry of runs | run or delegate a specification; rounds of parallel and serial steps with conditions, loops, retries and failure policies | dependencies first; the status shown is true; an abort stops the run; the registry is bounded |
| Configuration (`config.rs`) | one value behind a read-write lock, its file | change and save, load, reload when the file has changed | memory and file agree in the end |
| Scheduler (`scheduler.rs`, `commands/scheduler_cmds.rs`) | tasks with the time of their last run (in the configuration), the pass under way | add, remove, change, run by hand; a pass each minute; a look for missed tasks | no occurrence is run twice; missed ones are caught up |
| Webhook intake (`webhooks.rs`, `rate_limiter.rs`, `webhook_dedup.rs`, `webhook_rate_limit.rs`) | failed attempts and locks per address, recent events, token buckets | authenticate, filter, take tokens, act; clean-ups | guesses are bounded, an event comes through once, no more tokens are taken than there are |
| Gateway (`gateway/`) | sessions, connections, scopes | connect, authenticate, dispatch, expire | limits hold; expired sessions go |
| Pairing (`pairing.rs`), approvals (`yolo_mode.rs`, `security/exec_approval.rs`), key rotation (`key_rotation.rs`) | codes, requests, keys, each with an expiry | request, approve, revoke, rotate, expire | nothing is valid after it expired |
| Sessions (`sessions.rs`, `session_overrides.rs`) | named sessions, inboxes | create, send, receive, prune | messages are neither lost nor repeated |
| Background tasks, todo list, agent control | task records, stop signals | create, update, stop, prune | terminal states stand |
| Chat and tool loop (`claude.rs`, `tool_loop.rs`, `router.rs`) | a history per client, the Stop flag; per turn the iteration, the batch of tool uses, the repairs tried | send, run tools, add results, trim, repair, compact, load, clear, stop | what is sent is well formed; results reach the model; a turn ends |
| Channels, memory, voice, skills, guardrails, gated shell, UI, CLI | indexes, processes | text in, text out | mostly outside a state machine |

`PROJECT.json` lists every component with its sources and its status, and
every hazard at its line.

### How the parts interact

- A DAG command creates a run in the **store** and starts a loop in the
  **executor**. Loop and executions share the store through one std mutex per
  call; nothing is held across calls, so a decision is always taken on an old
  snapshot. (`commands/chat.rs:1234-1263` also creates runs, which are never
  started when the window is gone.)
- The executions of all runs and of all orchestrations take permits from the
  same semaphore of the **subagent executor**, with `try_acquire`: there is no
  waiting, a full executor refuses.
- When a run ends, its loop broadcasts a message and then sets the
  notification mark. The **heartbeat** reads the runs that have ended without a
  mark, broadcasts and marks them too. Neither holds a lock from the read to
  the mark.
- A subtask of an **orchestration** passes four shared structures in a row,
  each under its own lock: the **breaker** registry, the agent configuration,
  the **orchestration manager**, the executor; then it reports to the manager,
  the breaker and the **shared workspace**. An early return or a panic between
  two of these leaves the earlier ones as they were.
- The turns of the **tool loop** that use one client share its conversation
  history, behind a read-write lock. The first request of a turn keeps the
  write lock while the provider answers; all later requests read the history,
  let go and write the answer later, so other turns and the user's commands
  (stop, clear, load, compact, set the limit) come in between. The channels
  and the commands use the client of the application, the window's turns that
  of the active agent.
- The requests of a turn also take the lock of the **configuration**, twice:
  a read guard kept from their start to their end, and another for the address
  or the key of the model on the way. Saves and reloads write under that lock.
- A **webhook** request takes the locks of the limiter, the filter and up to
  four buckets one after the other, beside other requests and three clean-ups.
- `run_agent` enters a **workflow** in the registry and spawns its executor,
  or delegates it to a remote engine; parallel steps are tasks of their own,
  serial ones run in the executor's task, which alone writes the final status.
- The **scheduler** keeps its tasks in the **configuration**, where every run
  writes `last_run`. Commands write there too, and a watcher that loads the
  file whenever it has changed, also when the program itself has saved it.
- An execution may itself ask for an orchestration (a nested call of the
  tool); its time limit then drops the orchestration where it waits, while the
  subtasks it has spawned go on.

### What is hard

Interleavings of commands with loops (a cancel between the snapshot and the
write), unconditional updates of a status column, retries decided on an old
attempt number, permits checked in one task and taken in another, a crash
between the final status, the message and the mark, two writers of one mark,
flag and handle of a background loop changed in separate steps, late answers
at a circuit breaker, panics that skip the book-keeping, tool uses and results
that a trim, a repair or a second turn separates, a lock taken again by those who hold it, a check of a lock and the
count of a failure in two steps, a file read before the lock it is written
under, a run whose record cannot be saved, caches that evict what they should remember, a
loop of rounds whose number is fixed beforehand. Each is a hazard in
`PROJECT.json`, with the property that would catch it going wrong or the
reason why there is none.

## 2. Modules

| Module | Models | State | Actions |
|---|---|---|---|
| `DagStore` | `dag/store.rs` | `runStatus`, `taskStatus`, `attempt`, `edges`, `notified`: the columns of the same names | one operator per method; each is atomic, as every caller holds the connection's mutex for the call |
| `Notifier` | `broadcast` of `notifications.rs` | `targets`: somebody can be told; `deliveries`: how often who was told what (a history variable) | `broadcast`, `SetTargets` |
| `DagExecutor` | `dag/executor.rs`, `commands/dag_cmds.rs` | `pc[r]`: the await or locked block the loop of `r` is at; `batch`, `cur`, `snapAttempt`: its snapshot; `thread[t]`: the execution of `t`; `verdict`; `crashes` | one per locked block or await |
| `DagProperties` | | | what must hold, `IInv`, the mapping to `DagPromise`, fairness |
| `DagPromise` | the comments of `dag/mod.rs` | `state`, `needs` | `Enter`, `Begin`, `End`, `Restart`: what is promised of tasks, without loop, snapshot or cancellation |
| `Heartbeat` | `heartbeat.rs`, `commands/heartbeat.rs` | `isRunning`, `handle`, `enabled` as in the code; `hbpc[p]`: where each loop and caller is; `rows[p]`: what its scan has read | one per locked block or await |
| `DagSystem` | executor and heartbeat over one store and dispatcher | the union; `crossed`: a `start()` and a `stop()` were between their steps at once, and what has happened since (a history variable) | `SysNext`: a step of either, or a crash of both |
| `CircuitBreaker` | `circuit_breaker.rs` | `state`, `failure_count`, `probe_in_flight` as in the code; `cooled`: the recovery timeout has passed | `Admit`/`Blocked` (allow_call), `record_success`, `record_failure`, `Cool` (the clock) |
| `Orchestrate` | `execute_orchestration`, `execute_single_subtask`, and the manager, workspace and executor calls they make | `orc[o]`, `step[s]`: where the call is; `remaining`, `rounds`, `completed` as in the code; `active`: `active_spawns`; `workspace`; `known`: the configured agents | one per lock or await |
| `Conversation` | the history functions of `claude.rs` | none: operators on a sequence of messages with text, tool uses and results | `sanitize_history`, `trim_history`, `add_tool_result`, the four repairs, compaction; `Flaws` is what the service refuses |
| `ToolLoop` | a turn in `tool_loop.rs`, `router.rs` and `claude.rs`, the desktop commands | `history` of each client; `turn[t]`: place, iteration, last answer, results to add, refusals; `plan`: a compaction that waits for its summary; `cancel`, `limit` | one per acquisition of the history's lock, and one per answer |
| `TurnLocks` | the two locks of a turn in `claude.rs`, and who else takes them | `queue`: who waits for each, in order; `reading`, `writing`: the guards; `todo`: what is left of a call; `requests` | asking, being granted, dropping; an answer or a refusal; begin, continue, end; a task |
| `Workflow` | `agent_engine/workflow_executor.rs`, `commands/autonomous_agent_cmds.rs` | `phase`, `rounds`, `queue`, `batch` of a run; `step`: `step_statuses`; `work`, `left`, `tries`, `lost`: a step at work on its items; `error`: `final_error`; `shown`, `since`: the registry | one per round's begin and end, per step's start and end, per invocation, and the registry's writes |
| `Webhook` | the handler of `webhooks.rs`, `rate_limiter.rs`, `webhook_dedup.rs`, `webhook_rate_limit.rs` | `failures`, `until`: `IpRecord`; `cached`, `when`: the caches; `live`, `tokens`, `last`: the buckets; `pc[r]`; `log`: what was answered, admitted and taken (a history variable) | one per lock, the clean-ups and the clock |
| `Settings` | save, load and the watcher of `config.rs` | `memory`, `file`; `noticed`: a change the watcher has not looked at; `loaded`: what its tasks have read; `overlapped` (a history variable) | `Save` (one write lock), `EditFile`, `Load`, `Reload`, `Forget` |
| `Scheduler` | `scheduler.rs`, `commands/scheduler_cmds.rs`, over `Settings` | `pc`, `job`: where the loop and other runs are; `wake`, `pass`, `todo`: its sleep, its minute and its snapshot; `owed`, `starts`, `lost`: what each run of the loop is for, when it began, and whose record was lost (history variables) | the loop's passes, `Answered` (the end of a run), commands, restarts, the clock |
| `MCDag`, `MCDagSystem`, `MCOrchestrate`, `MCToolLoop`, `MCTurnLocks`, `MCWorkflow`, `MCWebhook`, `MCScheduler` | | | instances for TLC |
| `DagProofs`, `DagSystemProofs`, `OrchestrateProofs`, `ConversationProofs`, `ToolLoopProofs`, `WorkflowProofs`, `WebhookProofs`, `SchedulerProofs` | | | proofs |

Definitions that a comment calls *Mutant* are used by no specification: they
say how a plausible bug would change the definition that follows, and each is
known to break the property it belongs to.

Choices worth knowing:

- **A panic** in an execution is an action (`Panic`). It can happen:
  `subagent_executor.rs` slices the task text at byte 100, which panics inside
  a multi-byte character. The join only logs it.
- **A crash** keeps the rows and loses loops, executions and the heartbeat.
  Nothing at start-up looks for runs that were running, so the runs that
  existed go to `lost`, and only the heartbeat can still report those whose
  final status was written.
- **`depends_on`** names keys. An edge row is made only to a task that exists
  when the row is inserted; other names are dropped without notice. `edges`
  has what was made, so a property about edges says nothing about dropped
  names.
- **A dependency of an orchestration** is satisfied by any entry, a failed
  result too; the properties are stated accordingly.
- **Late answers**: a breaker does not know which call an answer belongs to.
  The model has no such knowledge either; a late answer is any answer that
  arrives after a trip.
- **`Drop`** models the time limit of an execution that asked for a nested
  orchestration. No property about a returned orchestration is stated for
  dropped ones: their results stay in the workspace, which has no expiry.
- **Messages** of a conversation are a role, whose text they carry, and the
  identities of their tool uses and results; what the tools do is left out.
  `Flaws` (a use not answered in the next message, a result whose use is not
  in the previous one) is the service's rule as the comments and the error
  texts of `claude.rs` state it, and is marked external.
- **A call** of `TurnLocks` is a sequence of what it does with the two locks,
  read off the source by route (local, cloud, bridge with a key of the
  configuration, bridge with a token). A guard that is dropped before the call
  waits again is granted and dropped in one step. The lock is tokio's: whoever
  asks joins a queue that is served in order, so a reader does not pass a
  waiting writer. A message sent again with the fallback model is a turn that
  ends and one that begins. Where a call reads the configuration several times
  in a row, the model has one reading.
- **Scenes** of `ToolLoop` and `Webhook` are settings chosen at the start and
  never changed: they put several small instances in one run. `alone` says
  that users wait for each other (with commands only between turns). Some
  properties hold only then, and say so.
- **Workflow steps** that run in parallel ignore their condition and their
  loop, although `workflow_spec.rs:52` allows both; the model does the same.
  A dependency on a name no step has is never satisfied, and the step fails.
- **Tokens** are counted exactly, in units that make the refill of a second a
  whole number, where the code has an `f32` and a duration. So nothing is said
  about rounding. Time advances in seconds.
- **Schedules** are the sets of minutes they name; `next_occurrence` searches
  a year, the model all of them. A task without a cron expression is taken for
  missed by the time since its last run alone (`Period`), as in the code.
- **Time** of the scheduler has one clock, which does not go back; the code
  sleeps by a monotonic clock and reads the system's. A run takes any time, and
  the sleep may be longer than a minute.
- **Records of failed attempts**: a record is put back, and when there are too
  many, all are cleaned in the same step, as `record_failure` holds the lock
  for both.

## 3. Runs

TLC finds no error in the eight passing runs, in 4 seconds to 4 minutes each.

| Run | Instance and bounds | Shows |
|---|---|---|
| `dag_safe` | 1 run, tasks `a`, `b` (waits for `a`, names `c`, one retry), `c`, which may be added at any moment, and `d`, which may be added and waits for itself; 1 permit, 1 crash, panics | `IInv`, `StartsAfterDependencies`, `OutcomeIsFinal`, `AttemptsBounded`, `CompletedRunIsDone`, `ImplementsPromise`, and `StartedRunEnds` under fairness |
| `notify_safe` | 1 run, 1 task, 2 heartbeat loops, 2 callers, 1 crash, a configuration that changes | `NotifiedWasTold`, `MessagesAgree`, `DuplicatesBounded`, `FlagTellsLoop`, and `EndedRunsAreNotified` under fairness |
| `chat` | 2 turns, one after the other with 2 commands, or at the same time with none or one; answers with up to 2 tool uses, 1 or 2 iterations, limits of 3 and 5 messages, `Recent` 2 and `KeepLast` 3 | `OpensWithUser`, `LengthBounded`, `GapsComeFromCutTurns`, `BatchReachesModel`, `DuplicatesOnlyPastLimit`, `RepairsRemoveFlaws` |
| `turn_locks` | 2 turns of up to 3 requests by any route, refused or not, and a task that saves, reloads, sets the limit, clears or reads | `OnlyConfigWritersHang` under fairness |
| `workflow` | 3 workflows, run here or delegated: two parallel steps, then one with a condition and a loop; two serial steps and one that needs a name nobody has; and one without steps; every failure policy, one retry, lists of up to 2, a registry that keeps one finished run, panics | `WInv`, `StatusIsTrue`, `EndedIsOver`, `OnlyOldResultsVanish`, `DependenciesFirst`, `AbortStopsRun`, and `RunsEnd` under fairness |
| `webhook` | 6 scenes of up to 4 requests at once and up to 4 seconds; 3 addresses (one the loopback) with room for one record, 4 keys, a cache of 2, buckets of 1 or 2 tokens, limits of 2 | `WebhookInv`, `GuessesBounded`, `EventsOnce`, `RateBounded` |
| `scheduler` | a task with a cron expression and a plain one that may be added, both due in the minutes 2 and 3 of 3; 1 command or edit, 1 other run, 2 reloads at once, 2 restarts | `OccurrencesOnce`, `AgreeWhenQuiet`, and `MissedAreCaughtUp` under fairness |
| `orchestrate` | 2 orchestrations: two parallel subtasks; and, nested, one that waits for another and one that waits for itself; one agent, 2 slots, 1 permit, threshold 2 | `OInv` (with `SlotsAccountedFor` and `BreakerConsistent`), `ResultsComplete`, `WorkspaceCleared`, `DependenciesFirst`, and `OrchestrationReturns` under fairness |

Why the bounds are enough to be of interest. `dag_safe` has every pair of
actors that share a row: loop and execution, loop and command, execution and
command; one permit and two tasks that can be ready together make refusals
happen; one retry takes a task through the whole cycle of statuses, and `b` and
`c` have different limits. With one crash each state is also a restart state.
`d`, which waits for itself, and a `b` that fails are the two ways to get stuck
without a panic.
`notify_safe` has two loops because the second is what remains of a stop and a
start; `DuplicatesBounded` would fail if a tick could announce a run more often
than once. Its two callers overlap `start()` and `stop()` in every way; to keep
the run small (`BoundedSpec`) the second of them, and what a crossing leaves
behind, are followed only while a target is configured, before there is a run
and before the process has died. With one caller there is no such bound, and
the theorems have neither. `orchestrate` has as many callers as trip the breaker, and one more
permit-taker than permits. In `chat` the limits are so small that a batch with
its answer overflows them and every trim cuts; two iterations are enough for a
request to follow a request, and the scenes of two turns at once have one
client for both, as the channels do. `turn_locks` has two turns because a turn
that hangs must hold up another, and one task because a single writer is enough
to come between two guards; its third request follows a refused second one.
`workflow` has the
policies retry and abort on a parallel and on a serial step, skip on a loop, a
loop under the policy retry, and a run without steps beside the other two, so
that two finished runs compete for the one place while the third is at work. In `webhook` each
filter has a scene that fills it: as many guesses as lock an address and one
more, a third event for a cache of two, more requests than tokens; the last
second lets windows, locks and idle buckets run out. In `scheduler` a
minute has two units, so that a pass can begin late in its minute; two minutes
in a row let a pass follow a pass, or a restart follow a run and precede the
next occurrence. Saves fail at any time, so `last_run` is never to be relied
on.

For every module the proofs of section 5 remove the bounds, but for liveness; the counters `attempt` and `rounds` are bounded
by the properties themselves. Bounds the code does not have: `MaxCrashes`,
`Loops`, the number of commands and turns of a scene, the end of time of a
scene, the `MaxRequests` of a turn of `TurnLocks` (the code counts iterations
and repairs). The type invariants are parts of `IInv`, `OInv`, `WInv` and
`WebhookInv`.

### Where code and documentation disagree

Four runs check one property each, quoted from a comment, and TLC finds it
violated. `findings` in `PROJECT.json` has the lines.

| Run | Comment | What the code does |
|---|---|---|
| `dag_cancel_run` | "Cancel a running DAG." | the loop writes its final status over `cancelled` and announces a completed run |
| `probe_leak` | "Blocks subsequent calls until the probe resolves" | a probe call that returns early or panics is never resolved; the agent is blocked until a restart |
| `turn_locks_hang` | "Lock ordering (always acquire in this order to prevent deadlocks)" (`commands/mod.rs:3`) | a request keeps its read guard of the configuration (`claude.rs:2303`) and asks for another (line 293, 1026, 1133 or 1139), at times with the history locked: a save or reload that has queued in between waits for the turn, and the turn for it, for ever |
| `chat_first_request` | "Strips orphaned tool_use blocks (no matching tool_result in the next message)" (`claude.rs:3206`) | the uses of the last assistant message are spared wherever it stands: after a turn that was stopped or timed out, the first request of the next one carries them and is refused, again and again |

Others were met that have no run of their own:

- "0 = no retry" (`dag/mod.rs:52`): the attempt number compared is the
  snapshot's, from before the increment, and a task runs up to
  `max_retries + 2` times (`AttemptsBounded`).
- `dag/executor.rs` waits "for executor capacity", but the look and the take
  are apart; an execution can be refused and use up an attempt.
- The mark is set "so the heartbeat catch-up scan skips it"; a tick between
  the message and the mark sends it again (`DuplicatesBounded` says how often).
- A `start()` and a `stop()` of the heartbeat that cross can leave the flag set
  and no loop, or a loop that no later stop can abort (`FlagTellsLoop` says when
  flag and handle can be trusted).
- A workflow run that goes on for long may leave the registry at the moment it
  ends, since the oldest start goes first; who polls it never reads the result.
- An occurrence is run twice when the record of its first run is lost (the
  save fails, an older file is loaded, or the program ends first) and the
  program starts again before the next one: the catch-up takes it for missed
  (`OccurrencesOnce` allows just this).
- A webhook event enters the filter before the rate limit and the action; the
  sender's retry after a 429 or a 500 is answered as a duplicate.
- `webhook_rate_limit.rs:5-8` speaks of requests per minute; a bucket admits
  its capacity and a minute's inflow (`RateBounded`). `burst_allowance` is
  never read.
- "webhooks queued" is the answer of a paused agent, which keeps no queue.
- "daily HH:MM — runs once per day" (`scheduler.rs:4`): the minute of an
  occurrence may pass while another task runs or between two sleeps, and the
  occurrence is skipped; with `run_if_missed` it is looked for at the next
  start only, and never for a task that has not run yet.
- "If last_run is within this minute, skip (already ran)" (`scheduler.rs:544`)
  is decided on the tasks as they were when the pass began: one that was run by
  hand since is run again.
- "Check if a task should have run between last_run and now"
  (`scheduler.rs:555`) looks at occurrences for cron expressions only; for the
  others the time since the last run decides.
- The content hash of an event without an id has neither endpoint nor user, so
  equal bodies of different senders are one event.

## 4. Fairness

- `WF(LoopStep(r))`, `WF(ThreadStep(t))`, `WF(OrchStep(o))`,
  `WF(SubtaskStep(s))`, `WF(ActorStep(p))`: tokio polls every task that can
  make progress, timers fire, and an execution ends because
  `subagent_executor.rs` and `dag/executor.rs` put a time limit around it.
  Nothing stronger is assumed: in particular not that a permit is ever granted
  to a given execution. `StartedRunEnds` holds without strong fairness because a
  refused execution is recorded as failed instead of waiting.
- `WF(RunStep(r))` and `WF(Invoke(s))` for workflows, for the same reason: a
  step's capability has a time limit or returns. `RunsEnd` excepts a serial
  step that panics.
- `TurnLocks`: `WF(Grant(l))`, as tokio wakes the head of a queue when it can
  be served; `WF(GoesOn(t))` and `WF(Works(p))`, as every request has a time
  limit (120 seconds, `claude.rs:212`) and nothing else is waited for but the
  two locks. The wait for a lock has no time limit, which is why
  `turn_locks_hang` finds what it finds. `ToolLoop` has safety properties only.
- `WF(LoopStep)` for the scheduler: its task is polled, and a request to the
  model ends. `MissedAreCaughtUp` needs neither the clock nor the watcher.
- `Webhook` has safety properties only.
- Commands (create, start, add, cancel, stop, reload, the user's edits), the
  breaker's clock and crashes are owed to nobody.
- `EndedRunsAreNotified` assumes, in its statement, that from some moment on
  the heartbeat is running, no crossed `start()` and `stop()` are left
  unrepaired, a target is configured, and no tick is skipped
  for the active hours (`SkipTick`), as nobody promises anything about a window
  that is always missed.
- `StartedRunEnds` and `OrchestrationReturns` are checked with panics. The
  first excepts a run one of whose tasks a panic has left `running`, for which
  the loop waits for ever, and a crash (a hazard in `PROJECT.json`).

## 5. Proofs

All leaves are checked by `tlapm`; nothing is assumed but the named
assumptions of the modules (`StoreAssumption`, `ExecutorAssumption`,
`BreakerAssumption`, `OrchestrateAssumption`, `WorkflowAssumption`,
`WebhookAssumption`, `SchedulerAssumption`, `SystemAssumption`,
`ScenesAssumption`, `KeepAssumption`, `NamesAssumption`, `SavedAssumption`,
`RecentAssumption`), which state the types of the constants (among them that a
loaded session is a list of texts that the user opens), that a task depends on tasks of its own run (the store
looks names up within a run), and that the sets of subtasks, of steps, of keys,
and of heartbeat loops and callers are finite. Two are about
settings: a failed attempt is not remembered longer than a lock lasts
(`Window <= Lockout`, 60 and 300 seconds by default), and an unused bucket is
dropped only when it would be full (an hour).
`WorkflowAssumption` does not forbid cyclic or unknown dependencies.

### The executor (`DagProofs`)

`AttemptsBounded`, `StartsAfterDependencies` and `OutcomeIsFinal` are not
inductive. Each depends on who holds a task: every write of a row is
unconditional, so the only thing that protects an outcome is that no write is
still to come. `IInv` says so. A task is in its loop's batch, or the loop's
current one, or with an execution, or with nobody, never with two of them
(`BatchInv`, `CurInv`, `ThreadInv`), and for each holder it says what the row
can be: a batch entry is `pending`, `blocked` or `cancelled` with the attempt
number of the snapshot and dependencies that have completed and published; an
execution's task is `running`, `retrying` or `cancelled` with one attempt
more. Cancels are why `cancelled` appears everywhere, and why the status alone
would not do. Separation of rounds (`pc` in each part) is what makes the
snapshot's claim about dependencies stable: nothing that completes is ever
taken up again.

There is one lemma per action. The conclusions:

- `Invariance`: `Spec => []IInv`, and from it `TypeCorrect`,
  `AttemptsAreBounded`, `RoundsAreSeparate`, `StartsWait`;
- `Refinement`: `Spec => ImplementsPromise`. Under the mapping
  `promiseState`, cancelled and pending rows are `idle`, a task whose start has
  been written is `active`, and every step is a step of `DagPromise` or leaves
  it unchanged. `Begin` is where the invariant is needed: the guard of the
  abstract step is not evaluated by the concrete one;
- `OutcomesStand`: outcomes stand in `DagPromise`, hence, through the
  refinement, in the executor.

`CompletedRunsAreDone`: `Spec => []CompletedRunIsDone`.
The loop looks at the rows, decides, writes the run's status and announces it
in four separately locked steps, and commands run in between. `EndInv` says
that what it saw still holds at each of them, and `RowsStand` why: by `IInv`
no execution of the run is left once the loop is there, a cancel keeps rows
that have an outcome, and an added task that has ever started is one of them
(`AskedStand`). It holds after a crash as well, since a lost run has no executions.

They hold for any number of runs, tasks, permits and crashes, and with panics.

### Executor and heartbeat (`DagSystemProofs`)

The theorems of the executor are about `Spec`, which the heartbeat is not part
of. `SysInvariance` carries its invariant over: a step of the heartbeat writes
only the mark and the messages, and `IInv` says nothing about these but their
types (`HeartbeatTouches`). The rest of `SysInv` is about what is told.
`OutcomeInv`: the recorded status is the loop's verdict until a cancel.
`MessageInv`: so is every message, and every row a tick has read and not sent
yet; a run that is over stays over (`ConcludedStands`), so an old row is never
wrong. `ToldInv`: whoever is about to mark has sent. From these
`SysTypeCorrect`, `MarkedMeansTold` and `OneOutcomeIsTold` follow.

`DuplicatesAreBounded` counts. `MayTell(r)` is who may tell of run `r` once
more: it has the run among its rows, or may still read it as unsent. Sending
uses up the sender (`TellIsFrugal`): its tick goes on to mark the run before it
can scan again, or is aborted and gone. `BudgetInv` adds the messages sent and
those still possible; the sum grows only in a crash, by one life's worth.

`FlagsTellLoops` is about commands that overlap in any way. `FlagInv` says at
each point of `start()` and `stop()` how far flag, handle and loops are apart:
every caller has its own loop from spawn to store (`MineInv`), flag and handle
agree but for those who are between the two writes (`AgreeInv`), and, while
nothing has crossed, every loop that lives is kept (`KeptInv`). A crossing is
over when the next `stop()` has run without a `start()` beside it, since that
makes flag and handle agree again; the loop it left behind remains.

They hold for any number of runs, tasks, heartbeat loops, callers and crashes.

### Orchestrations (`OrchestrateProofs`)

`OInv` joins the bookkeeping: breakers are consistent, the manager's records
are exactly those of the subtasks between spawn and mark and of panicked ones,
`remaining` is the set of subtasks that wait, each round takes at least one
(`RemainingInv`), and subtasks move only while their orchestration joins or
was dropped (`PhaseInv`). The last two are needed for `ResultsComplete`: the
code stops after `subtasks.len() + 1` rounds without looking whether anything
remains, and only counting shows that nothing does. Theorems: `OInvariance`,
`TypesCorrect`, `BreakersConsistent`, `SlotsHold`, `ResultsAreComplete`,
`WorkspaceIsCleared`, `DependenciesGoFirst`, for every plan, cyclic or with
foreign dependencies, and any limits.

### Conversations and the tool loop (`ConversationProofs`, `ToolLoopProofs`)

`ConversationProofs` has the lemmas on the functions of `claude.rs`, for
histories of any length: what cleaning, trimming, the repairs and a compaction
leave is part of what was there (`Comes`, `Heir`), opens with the user
(`Opens`, `Firm`), is no longer than it may be (`Fits`, `Tidy`), and answers no
use that it did not answer (`Single`). The last sections ask which blocks these
functions leave unpaired (`Flaws`): a cut in a history makes no flaw but of the
results whose uses it took away, and the cleaning after it strips these.
Filters are seen as picking places in order (`Only`, `Nth`), which replaces
the induction over sequences that is out of reach.

`ToolLoopProofs` is about the turns. `Moves` says where a step leads,
`StepWrote` in which way it writes its history (`StepWrites`); the invariants
are proved from these two instead of from twenty actions each.

- `ToolLoopTypes` (`TypeInv`): with the types, no message of the user is empty
  or asks for tools, and the counters of a turn are within their ranges at each
  of its places.
- `CourseInv`: what is common to the rest: a plan belongs to a turn that
  waits for a summary, ids belong to the turn that made them, and users who wait
  for each other do so at every step (`Live`).
- `RepairedRequestsAreClean` (`MendedInv`): after the third refusal the
  history has been cut to its first message. What is needed is that nothing
  brings a block of the turn back until it asks again; a compaction of
  another may, and then the history begins with a summary.
- `HistoriesOpenWithUser` (`FirmAlone`) and `RequestsOpenWithUser`
  (`SentAlone`, `SentOpens`): a bridge is sent what was cleaned just before. The
  invariant says that nobody else writes that history until the answer is
  there. It assumes limits of at least two: a trim to one message may leave an
  assistant's, whatever follows.
- `HistoriesAreBounded` (`LengthInv`): results join one message
  (`Tidy`), so a batch makes a history longer by one at most; and a compaction
  must not bring back more than the limit allowed when it began (`Held`).
- `DuplicatesArePastTheLimit` (`BatchInv`, `OnceInv`): the property's own
  hypothesis, that no two compactions of a client wait at a time, is about the
  present state only; so the invariant is shown to be kept as long as the
  hypothesis has held. What a compaction keeps must be answered nowhere past the
  length the history had at its start (`Past`), or its end would answer twice.
- `GapsAreExcused` and `BatchesReachTheModel` (`GapInv`), both for users
  who wait for each other. `GapsExcused` is the property for every history and
  every moment: a flaw belongs to a turn that was cut or went past the output
  limit, or to the batch that its turn is working on. It is inductive together
  with: every use is in one message and was not asked for before (`AskedOnce`);
  the batch at work is the end of the history, the answer and then the
  results so far, in order (`WorkTogether`); the history stands still while a
  compaction waits (`PlansStand`); the first message of a request has no
  results, so that taking it back after a refusal separates nothing
  (`SentPlain`). `BatchIn` is the second property: once its last result is in
  and the history trimmed, the batch is there and paired. It assumes limits of at
  least three, the first message, the answer and its results: with
  `max_history_messages = 2` the trim keeps the results without their answer
  and the next cleaning strips them, so the model never sees them. The first
  theorem holds for two and one as well.

They hold for any set of turns, any scene, and any limits but those. The default
of `max_history_messages` is 200 (`config/core.rs`), and nothing checks the
value a user sets.

### Workflows (`WorkflowProofs`)

`WInv` has a part per question. `PlaceInv`: who is in a round has no outcome
yet, and nobody else is at work. `NeedsInv`: what is in the round has had its
dependencies since the round began; this is why a decision taken once for a
whole round still holds when its last step starts. `RoundInv`: a round ends
with at least one more outcome than there were, so a run at its n-th round has
n outcomes, and the fixed `steps.len() + 1` rounds never cut a step off. It is
the part `StatusIsTrue` needs: the executor reports `completed` without looking
for pending steps. `ErrorInv`: an error in a round comes from an abort.
`ShownInv`: what the registry shows at each place. `AbortsStopRuns` starts from
the failed step, not from the error: a step of a parallel group fails while
others of the group and the serial steps of its round are still to come, and
these are done, but no later round begins. `ResultsAreKept` counts the finished
runs that an eviction leaves. Theorems: `Invariance`, `TypesCorrect`,
`StatusesAreTrue`, `EndedRunsAreOver`, `ResultsAreKept`,
`DependenciesGoFirst`, `AbortsStopRuns`.

### Webhooks (`WebhookProofs`)

What is promised is about the past (`log`), what the code has is a record that
is pruned; `WebhookInv` relates them. `Sound`: without a lock the recent
failures are on record; a lock began with fewer than `max_attempts` of them,
and lasts longer than any of them is recent, which is where `Window <= Lockout`
comes in. Dropping a record is then harmless. `DedupInv`: an admitted event is
cached, or its time is over, or enough others came since to push it out; the
eviction takes the oldest, hence the count. `BucketInv`: since any moment, what
was taken and what is left is at most what was there and what flowed in; a
bucket that was dropped had time to fill up, so the new one is no gain.
Theorems: `Invariance`, `GuessesAreBounded`, `EventsComeOnce`,
`RatesAreBounded`, for any number of requests in any order of their locks.

### Scheduler and configuration (`SchedulerProofs`)

`OccursOnce` (`OccurrencesOnce`) has two halves. A start in a pass of the loop
must not rest on `last_run`, which may be lost: while the loop sleeps,
everything it has started lies a minute before the end of the sleep; while it
is at work, the tasks it has still to take were started, if ever, a minute ago
and for an earlier minute. A lemma on division turns the one into the other. A
start of the catch-up does rest on `last_run`, so the invariant says what a
record that was not lost is worth (`Records`): it is not older than the start,
and the occurrences owed to a task lie after it (`Owing`). Hence only a lost record, between the
two starts, makes the catch-up run an occurrence again.
`MemoryAgrees` (`AgreeWhenQuiet`): `SettingsInv` says that without an overlap
at most one reload waits, and that what it has read is the file or the watcher
will look again.

### Only model-checked

Liveness (`StartedRunEnds`, `EndedRunsAreNotified`, `OrchestrationReturns`,
`OnlyConfigWritersHang`, `RunsEnd`, `MissedAreCaughtUp`), which the prover does not do. Every
safety property of a passing run is a theorem.

## 6. What is not modelled

- *Abstracted in the modules*: texts, prompts, results, timestamps, back-off
  lengths (and the overflow of their doubling), history rows, templates, UI
  events, SQLite errors, the outcome of single sends (`broadcast` reports an
  attempt, and a run whose every send failed is marked as told), the limit of
  50 runs per scan; the router's choice of a model, hooks, prompts; the
  text of schedules, the jitter before a missed task, alerts and the list of
  recent results of the scheduler, files that cannot be loaded; the
  planner of workflows, the text of conditions, the dispatch of a capability;
  TLS and the parsing of requests.
- *Left out at the edges*: a change of a task's schedule; `max_history_messages = 0`; step ids used twice in a
  specification; names in `depends_on` that the store drops, about which no
  property speaks; the probe slot of a breaker that a late failure frees (the
  model does it, no property forbids it); what two compactions of one client at
  once do to the results they both keep (the model does it,
  `DuplicatesOnlyPastLimit` excepts it); the other locks of the list in
  `commands/mod.rs`.
- *The same code elsewhere*: the Telegram route of the webhook server shares
  no state with the rest of it; `rate_limiter.rs` is also used by the gateway
  and the channel adapters, `security/rate_limit.rs` is another limiter.
- *Not reachable in the program*: parents and depth limits, `cancel` and
  `cleanup` of the orchestration manager have callers only in tests.
- *Other components*: `PROJECT.json` gives a reason for each. Broadly: I/O and
  format conversion (providers, channels, UI, CLI), text matching and numeric
  ranking (guardrails, memory), and the components planned below.

## 7. Plan

Done: the background-work core (`DagStore`, `Notifier`, `DagExecutor` with
`DagPromise`, `Heartbeat`, `DagSystem`, `CircuitBreaker`, `Orchestrate`), the
tool loop (`Conversation`, `ToolLoop`, `TurnLocks`), `Workflow`, `Webhook`, and `Scheduler`
over `Settings`.

Next, in this order:

1. `OrchestrationManager`: the tree of spawns, depth, cancel and cleanup, as
   the public interface of `orchestration.rs` allows them, with the slot
   invariant stated over trees.
2. `ExpiringGrants`: one abstract specification of a grant that is requested,
   approved, used and expires, implemented by pairing, yolo mode, execution
   approvals and key rotation.
3. `GatewaySessions`: sessions, connections and their limits, with the limiter
   of `Webhook` at their door.
4. The other users of `Settings`: the commands that change the configuration
   without the scheduler, and the tasks that follow `config_changed`.

Proofs to add: the invariants of the modules above as they are written, and
a refinement for `ToolLoop` (a conversation as a list of exchanges) beside the
one for the executor.
