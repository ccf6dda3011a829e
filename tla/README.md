# Galley in TLA+

Galley is a desktop assistant. A Rust core (`src/core`) owns the sessions, the
database and the runner processes; each runner is a Python bridge
(`src/runner`) around the vendored GenericAgent engine (`src/managed-ga/code`);
the desktop GUI (`src/gui`), a command line (`src/cli`), a phone (through
`src/relay`) and chat platforms talk to the core. This directory holds TLA+
models of the parts where the program is hardest to get right: who may send a
message into a session, when, and what becomes of it when runs end, are
stopped, ask a question, or when a runner dies; and what the main chat is told
of its subtasks and scheduled tasks, when a wake may carry it, and what becomes
of it when the wake fails or the program restarts. On the other side of Core is
the desktop page, which draws everything before or after Core knows it: how its
copy of the conversation follows what Core writes, and how what the user clicks
on the to-do panel, or deletes under an undo toast, reaches Core.

## 1. Inventory

| Part | State it keeps | Operations | Interacts with |
|---|---|---|---|
| Session queue and run gate (`runner_manager/queue.rs`, `manager.rs`) | per session: `open_run`, `ask_pending`, `stopping`, a `VecDeque` of items with their `interjected` mark | offer, offer as interjection, try-reserve, jump, remove, take next, re-queue at the front, release, take interjections | every sender; the drain task through `RunSignal` |
| Drain task (`message_queue.rs`) | none of its own (one task for all sessions) | on `RunComplete`/`Closed`: take the next item, persist it, write it, hand over the rest | queue, database, runner |
| Senders (`session_send.rs`, `socket_listener/session_cmds.rs`) | a task per request | Core's send, send with images, socket send, `--jump`, stop, `/btw` | queue, session runner, database |
| Interjections (`interject.rs`, `runner/interject.py`) | Core: the mark; runner: unread, taken ids and texts written | hand over, take up, delivered, handed back | bridge, watcher |
| Bridge (`runner/workbench_bridge.py`) | `run_in_progress`, the run generation, the lock around a run's end | `user_message`, `ask_user_response`, `abort`, `interject`, turn end, `done` | Core by stdin/stdout, engine by attributes and a queue |
| Engine (`managed-ga/code/agentmain.py`, `agent_loop.py`, `ga.py`) | task queue, `is_running`, `stop_sig`, `intervene` | put_task, run, abort, turn_end_callback | bridge |
| Runner process and close gate (`runner_manager/process.rs`) | pid, stdin, the output pump, held and quiet closes | spawn, write, read, exit, retire | manager |
| Session runner (`session_runner/`) | which session has a runner that has its history | ensure (single flight), replay, carry over a segment | manager, database |
| Subtask reports (`subtask_report.rs`) | in memory, per main chat: reports waiting (some held for their batch), keys seen, reports in flight; each with whether the desktop was told | record a run's end, take due, deliver, keep for later, record a wake's end, restore pending | drain task, scheduler, queue (as a wake), database |
| Scheduler (`scheduler.rs`, `db/schedule.rs`) | per task: last fire, its wake (pending, delivered, notified, none), cancelled | tick, fire, run now, settle, drop | reports, database |
| Desktop page, the conversation (`stores/messages.ts`, `mergeRestoredTurns.ts`, `ipc-handlers.ts`, `useMessageSend.ts`) | per session: the turns drawn, whether the history was read, `agentRunning`, `sendPhase`, `isStopping`, the send whose echo waits | echo, claim or append a row, land a step or a told line, draw interjections, restore, read earlier, stop, settle, drop deleted | Core by commands and their answers, by events of a runner and by broadcasts |
| Desktop page, attaching (`bridge-slice.ts`, `lifecycle-slice.ts`, `queue.ts`) | which runners it listens to, the queue bar's snapshot | attach to a live runner, activate a session, take a snapshot | the conversation's store, Core |
| Desktop page, the to-do panel (`assistant-todo.ts`, `todo-panel.ts`, `useAssistantTodoSync.ts`) | its copy of the lists, what is being ticked, added, moved and deleted, a chain of writes for each, read tickets | toggle, tick, add, move, delete, undo, commit, flush, load | Core's `db/todo.rs`, the assistant, which writes the same lists |
| Staged deletions (`message-delete.ts`, `ToastHost.tsx`) | what is deleted on the page only, the toast that can undo it | stage, undo, commit, flush before a send | sends, Core's `message_delete.rs` |
| Subtasks, turn persistence, run-state feed, remote access, relay, protocol, credentials, IM supervisor, shell, backups, CLI, the rest of the GUI | see `PROJECT.json`, "components" | | |

Where the behaviour is hard:

* **One gate, many senders.** A person at the GUI, a phone, the socket, a wake
  and the drain task each decide alone whether a message goes out or waits.
  The decision is one lock acquisition; what follows it (rows, runner start,
  write, gate update) is many, and anything may happen in between.
* **A message is in no table while it is carried.** Between its pop and its
  row it lives in a task's local variable; a failed write must put it back
  without letting another overtake it.
* **A run can end four ways**: a last turn, an abort, a task that ends without
  saying so, the death of the process. `run_complete` has to go out once.
* **Interjections have two ways out of the queue**: read by the run that is
  going, or sent as a message of its own.
* **A report is in memory, a fire in the database.** What is being carried is in
  neither list; the keys seen stop a second report of the same end, so what is
  lost once is lost for ever, until a restart forgets the keys.
* **The look before a wake is five lock acquisitions** (due? a question? the
  gate; take; read again), by three tasks side by side.
* **The page hears of a row four ways**: as a broadcast, as the answer of its own
  send, in a queue snapshot, in a read of the history; each may come first, and
  each must find the turn the others have drawn.
* **Core tells the page and acts in two tasks** with no order between them: the
  page may have an event whose row is not written, or the row without the event.
* **Everything on the panel is drawn at once and undoable for five seconds**;
  writes go out one chain per row, reads side by side, and the mark on a row must
  go in the very update that brings what it stood for.
* **The engine's attributes have no lock.** `intervene` is read and wiped in
  two statements, `is_running` looked at before `stop_sig` is set.

What makes each part correct, in a sentence: the gate is a mutual exclusion and
is open only for a run; a queued message is stored at most once, never lost and
never overtaken; whatever waits is eventually sent; a run completes once and is
closed by its own task; what a run read is told exactly as read and nothing
said to one run leaks into another; the main chat hears of every end once or the
user does instead, its questions are not answered by a wake, and every fire that
somebody asks for is settled, truthfully; the page ends up drawing what Core has, no row twice and no
step above its message; what the user clicked does not blink, is written or given
up, and is with Core before the next message is. `PROJECT.json` lists the hazards line by
line with the properties that watch them.

## 2. Modules

| Module | What it is |
|---|---|
| `Mailbox` | the abstract specification: what a sender is promised about a message |
| `MessageQueue` | one session seen from Core: gate, queue, every sender's task, watcher, drain task, and a runner reduced to its two pipes and one run at a time |
| `MessageQueue_proofs` | theorems about `MessageQueue`, for every value of its constants: its invariant, that it implements `Mailbox`, and its run gate while no runner exits |
| `BridgeRun` | the inside of that runner: command thread, agent thread, progress drains, the account of interjections; Core reduced to an environment |
| `BridgeRun_proofs` | theorems about `BridgeRun`, for every value of its constants |
| `ReportStore` | one main chat with its subtasks, scheduled tasks and tags: the store of reports, the drain task, the scheduler's tick, wakes, and a restart of Core |
| `ReportStore_proofs` | its types, what is dropped and what a batch waits for |
| `ReportWakes_proofs` | its wakes: who holds the gate, where each report is, what was read |
| `Transcript` | the desktop page's copy of the main chat's conversation, with the channel between it and Core; Core reduced to the rows, queue and gate the page can tell of, and the order in which its tasks write, announce and answer |
| `Transcript_proofs` | its types, and how Core's rows, run and reports stand to each other |
| `TranscriptPage_proofs` | what the page draws against what is on its way and what Core has; every step of Core keeps it |
| `TranscriptReadable_proofs` | so does every step of the page; the conversation drawn can always be read |
| `TodoPanel` | the to-do panel, the staged deletions of messages, to-dos and items, and the send that flushes them; Core reduced to two lists and whether the main chat runs |
| `TodoPanel_proofs` | that the page comes to agree with Core, that a send overtakes no deletion, and its types |
| `MCReminders` | `ReportStore` with a note of the fires that were passed over |
| `MCMessageQueue`, `MCBridgeRun`, `MCReportStore`, `MCTranscript`, `MCTodoPanel` | model values and symmetry for TLC, and refuted statements of section 5 |

`MessageQueue` and `BridgeRun` are the two ends of the same pipes. Each has
the other in outline: `MessageQueue` ends a run in one step (`EndRun`), which
is what `BridgeRun` takes apart into emit and clear under a lock, with an abort
or a `done` arriving in between; `BridgeRun` has a Core that sends the next
message when it reads `run_complete`, which is what `MessageQueue` takes apart
into watcher, signal, drain task, row and write.

`ReportStore` is what stands behind a `wake` sender of `MessageQueue`, where a
wake is a message that looks, reserves, checks, and goes. Here a wake has its
reports, and the other senders are reduced: a user's message reserves and is
written in one step, a runner's output is watched at once. What the two have in
common is the gate, `MayDispatchNow`.

`Transcript` is the far end of what `MessageQueue` announces: the same offer,
reservation, drain and watcher, but with the announcements, which `MessageQueue`
leaves out, and with steps of several actors that the page cannot tell apart in
one. `TodoPanel` shares with it the send: here what a send waits for before
it leaves the page, there what becomes of it afterwards.

### MessageQueue and the code

| Model | Code |
|---|---|
| `openRun`, `askPending`, `stopping`, `items`+`ahead`, `marked` | `SessionQueueState`. The `VecDeque` is held as a set and its order relation; `marked` is `interjected` |
| `pc[m]`, `who[m]`, `answer` | the task that carries `m`, the step it is about to take, and whether it goes out as an `ask_user_response` |
| `handing` | tasks about to write an `interject` command |
| `rows[m]` | user rows in SQLite |
| `pid`, `alive`, `stdin`, `events[p]` | runner process, command pipe, output of runner `p` not yet watched |
| `run`, `unread`, `taken`, `question` | the bridge |
| `signals` | the `RunSignal` channel |
| `seen`, `older`, `jumped`, `opened`, `heard`, `rejected` | history, read by no action |
| `SendText`, `SendJump`, `TryReserve`, `WakeLook`, `Jump`, `Remove` | the queue operations, one lock acquisition each |
| `Check`, `Decide`, `Ensure`, `Persist`, `Write`, `OpenGate`, `HandOver`, `Release` | the steps of a sending task; `FirstStep`, `AfterEnsure`, `AfterPersist` give each kind of sender its own order (Core persists before it ensures a runner, the socket after) |
| `Stop`, `AbortWrite`, `AbortMark` | stop, and the abort of a jump: find the run, write, set `stopping` |
| `BridgeCommand`, `BridgeStep`, `BridgeFinish`, `RunnerExit` | what the runner does with its pipes |
| `Watch`, `Drain` | watcher (`queue_bookkeeping`, `persist_delivered`) and the drain task's turn, whose dispatch then goes on as the steps of the item |

### BridgeRun and the code

| Model | Code |
|---|---|
| `inProgress`, `generation`, `current` | `run_in_progress`, `_run_generation`; `current` names the run by its opening message |
| `closing` | who holds `_run_complete_lock` between emitting `run_complete` and clearing the flag; the other lock sections have nothing in between and are one step guarded by `LockFree` |
| `unread`, `taken`, `written` | `Interjections` |
| `intervene`, `taskQueue`, `isRunning`, `stopSig` | the engine's attributes |
| `cmd` | the command thread: `TakeMessage`, `OpenRun`, `PutTask`; `AbortRetire`, `AbortLook`, `AbortSignal`, `AbortClose`; `TakeInterject` |
| `agent` | the agent thread: `StartTask`, `EnterLoop`, `TakeStep`, `ReadIntervene`, `WipeIntervene`, `AccountStep`, `ReportStep`, `CloseRun`, `ClearRun`, `PutDone`, `Finally` |
| `drain[m]`, `drainGen[m]` | the progress drain of the run `m` opened and the generation it was started with |
| `ended`, `closer`, `aborted`, `rejected`, `strayRead` | history, read by no action |

### ReportStore and the code

| Model | Code |
|---|---|
| `waiting`, `seen`, `inFlight` | `State` of `SubtaskReports`: `told` is `announced`; `held` is `held`, `"late"` once `BATCH_WAIT_SECS` passed; a report is its source, which run or fire of it, and its outcome (`StepLimit`, `NoExit`, `RunnerExited` are all `"error"`) |
| `step`, `found` | where each task that looks is in `take_due`: the drain task, the scheduler's tick, the tasks that add tags or run a task now (one of them at a time); `found` is what it read from `scheduled_tasks` |
| `wakes` | the drain task's `report_to` |
| `jobs` | `WakeJob`s in the background, each at its step of `deliver` |
| `open`, `ask`, `exit`, `queued` | `open_run`, `ask_pending`, `last_exit` of each session; how many items wait in the main chat's queue |
| `alive`, `running`, `reading` | the main chat's process; runs going on; the reports the main chat's run was started with |
| `turn`, `left` | the user turn that is part of a report's key; promoted or deleted |
| `fired`, `lastWake`, `cancelled` | `last_fired_at`, `last_wake`, `cancelled_at` or a to-do closed |
| `heard`, `failed`, `dropped`, `told`, `again`, `noted` | history, read by no action: read by a turn that ended well or badly, dropped when read again, announced (and announced again), notified |
| `RecordRunEnd`, `RecordWakeRunEnd`, `QueueStep` | the drain task's turn for one signal: what it records first (one of the two for a given session), then the queue step and which look follows |
| `Fire`, `ReadPending`, `AddPending`, `TickHeld`, `BatchWait` | scheduler: the fire, the two halves of `restore_pending_reminders`, the look at held reports, the five minutes |
| `TagFails` | `record_not_started`, for a tag without a session and for one whose runner did not start |
| `LookDue`, `LookAsk`, `Reserve`, `Take`, `Release` | `take_due`, one step per read of shared state |
| `Check`, `Ensure`, `Flight`, `Send`, `Keep`, `Restore` | `deliver` and `keep_for_later` |
| `EndRun`, `StartSub`, `UserSends`, `Leave`, `RunnerExit`, `Crash` | what happens around the store |

### Transcript and the code

| Model | Code |
|---|---|
| `rows`, `gone`, `midway` | the session's `messages` in conversation order, those deleted since, user rows with `sequence > 0` |
| `gate`, `halting`, `queue`, `pc`, `lost` | `open_run`, `stopping`, the queue with its `interjected` marks, each send's task, sends that failed before their row |
| `run`, `emits`, `acts` | the bridge's run; what `spawn_emit_task` and the watcher have still to take from its output |
| `wire`, `calls` | events and answers on their way to the page; its commands and reads unanswered |
| `page.turns` | `turns`: a turn is named by its row; `held` is `messageId`, `own` `clientRequestId`, `item` `queueId`, `inter` `interjected` |
| `page.read`, `earlier`, `running`, `phase`, `stopping`, `owner` | `historyRead`, `earlier`, `agentRunning`, `sendPhase`, `isStopping`, `optimisticRequestId` |
| `page.bar`, `known` | `useQueueStore`'s snapshot of the session |
| `Echo`, `Retract`, `Persisted`, `SyncInterjections`, `Landed`, `LandedStep`, `DropDeleted`, `SetRunning` | `appendUserTurn`, `retractUserTurn`, `applyUserMessagePersisted`, `syncInterjections`, `withLandedTurn`, `withLandedStep`, `applyMessagesDeleted`, `setAgentRunning` |
| `Merge`, `Restore`, `PutEarlier` | `mergeRestoredTurns`, `restoreSessionTurns`, `loadEarlierTurns` after their reads |
| `Submit`, `Settle`, `AskStop`, `HearStop`, `SettleStopped` | `sendThroughCore` before and after its answer, `stopRun` before and after its own, `settleStoppedRun` |
| `AnswerStop`, `StopFails` | `stop_session_run`, and its failure |
| `Activate`, `AttachLive`, `ListenUp`, `Reload` | `activateSession`, `_attachLive`, `attachExternalBridge`; a webview that starts over |
| `Enqueue` ... `AnnounceDispatched`, `Emit`, `Act...`, `Jump`, `Delete`, `TurnsPage` | Core |

### TodoPanel and the code

| Model | Code |
|---|---|
| `core`, `busy` | the to-dos, the items of one of them in order, which are done, the messages; the main chat runs |
| `page` | `todo` and the turns drawn |
| `flips`, `ticks`, `moved`, `adds` | `flips` (`settling`, `saving`), `subitemTicks`, `subitemOrders`, `subitemAdds` |
| `staged` | what is in `deleting`, `subitemDeleting` or `staged` without `committing`, while its toast is up |
| `net.chain[line]`, `net.at[line]` | the promises chained for each to-do, item, for moves, adds and each store's batches: the writes that wait, and where the first of them is |
| `net.reads` | reads on their way: who goes on with it, what Core read, `late` when `issued <= applied` will throw it away |
| `soon` | `todos:changed` heard, the debounce running |
| `sends` | where a send is in `sendThroughCore`; `owes` is what was hidden when it was sent (history) |
| `left`, `excused` | bounds; what someone else wrote, Core refused or a failed read left stale (history) |
| `Toggle`, `Settle`, `FlipAnswered` | `toggle`, its timer, `commit` |
| `Tick`, `TickAnswered`, `Move`, `MoveAnswered`, `Add`, `AddAnswered` | `toggleSubitem`, `moveSubitem`, `addSubitems`, before and after Core's answer |
| `DeleteTodo`, `DeleteItem`, `DeleteMessage`, `Undo`, `Close`, `Commit`, `DeleteAnswered`, `MessageAnswered` | stage, undo, the toast's end, commit and send of each store |
| `Submit`, `FlushTodos`, `Deliver` | the two flushes of `sendThroughCore`, and the command |
| `Load`, `Landed`, `Counts`, `LetGo` | `load`, `read`'s tickets, and the set a read lands in |
| `Serve`, `Fail`, `ServeRead`, `Galley`, `RunEnds` | Core, and the others who write to it |

### Switches and bounds

Each constant either sizes the instance or decides whether a behaviour of the
code is in it; the theorems hold for all of them.

* `Failures`: database writes, runner starts and runner writes may fail.
* `Exits`: how many runners may die; each may be followed by another.
  `SteadySpec` is the same without deaths, for what holds only then.
* `MainChat`: the session takes interjections.
* `GateRace`: a run may start *and end* between the write of its message and the
  update of the gate by its sender (`send_command_via` takes a second lock for
  it). A run takes a model call at least, so the code normally wins this race;
  with `FALSE` the watcher waits for it.
* `Paths`: which senders are there. `Stops`: how many abort commands.
* `EarlyNext` (BridgeRun): Core's next command may arrive after `run_complete`
  was written but before `run_in_progress` is cleared.
* `Raises`: an engine task may end without a last turn (exception, `_stop` file).
* `Slash`, `Aborts`: slash commands of the engine; how many abort commands.
* `Lookers` (ReportStore): which tasks look whether a wake is due. The drain task
  always does.
* `Races` (ReportStore): one task's look may go on beside another's, or between the
  drain task's record of a run's end and the close of that run's gate. Each of the
  two is a few locks and reads taken one after the other while a tick comes every
  thirty seconds; `FALSE` puts nothing in between, and leaves everything else (wakes
  under way, ends of runs, senders) free to interleave. `lookers` and `reminders`
  have it `TRUE`; with `TRUE`, `QuestionKept` and `Together` of `reports`
  fail (section 5).
* `Runs`, `Fires`, `Chats`, `Exits`, `Crashes`: how often a subtask is run, a task
  fires, the user writes, a runner exits, Core restarts; `Mortal`: whose runner may
  exit. `Ends`: how runs end. `Leaves`: subtasks may go, tasks be cancelled.

* `Cut`, `Most` (Transcript): what may cut in (a stop, a jump, a deletion, a told
  line, an exit, a reload, a failed write or read), each once, and how many of them
  in one behaviour. With `fail`, a stop may fail as well. `Wire`, `Backlog`: how far the page and Core may fall behind.
* `Races` (Transcript): windows in which something may happen that, by how long
  things take, normally does not: the emitting task falling behind the acting one
  (`lag`), an event between a row and its announcement (`gap`), a read between a
  step's end on the page and its row (`told`), a step that ends before what came
  before it was acted on (`slow`), a second send before the first echo is claimed
  (`hasty`), an answer and an event overtaking each other (`overtake`), a run
  going on while a reloaded page attaches (`attach`). The run has them closed; what
  survives in each is in section 5.
* `Clicks`, `Twists`, `Reads` (TodoPanel): the user's clicks; sends, writes of
  others and failures, together; how many reads may be on their way when the
  debounced one is asked for.

The counters are bounded by these constants and by the finite set of messages;
no state constraint is used.

## 3. What the runs check

| Run | Instance | Shows |
|---|---|---|
| `senders` | 2 messages, all five send paths, a stop, failures, late gate update, interjections, no deaths | `TypeOK`; `OneRun`: never two tasks between reservation and write, the bridge refuses nothing; `NoResend`: what a run read is not sent again |
| `queue_order` | 4 messages, jumps, failures, late gate update | `QueueOrder`: no overtaking; `KeepsPromise`: `MessageQueue` implements `Mailbox` |
| `runner_exits` | 2 messages, one death, `--jump`, interjections, failures | `StoredOnce`, `NothingLost`, and `GateCloses` (liveness) |
| `drains` | 3 messages, a stop, no failures, prompt gate update | `GateHonest`: the gate is open only for a run (`GateMeansRun`) and nothing waits behind a closed one (`NeverStrands`); `AnswersAsked`: an answer is only written to a runner whose last run asked; and `Drains` (liveness) |
| `bridge_stops` | 3 messages of which one slash command, an abort, early next | `TypeOK`, `LateDone`, `Armed`, `CleanSlate`, `OwnRun` |
| `bridge_live` | 2 messages, two aborts, tasks that raise | `OneComplete`, and `RunsEnd`, `WaitingEnds` (liveness) |
| `reports` | a batch of two subtasks, each of which may hang, the runner of one may exit, a message of the user's, all four ends of a run, a restart of Core; drain task and tick look, one at a time | `TypeOK`; `QuestionKept`: no wake answers a question; `ToldOnce`; `Together`: a batch is told of together; and `ReportsLeave` (liveness): every report goes to the main chat, a held one also when the rest of its batch never comes back |
| `lookers` | a subtask run twice that may ask, fail, be answered, promoted or deleted (or whose runner did not start), and a reminder that may be cancelled; failures of every step; drain task and the tags' task look side by side, also before a gate closes (`Races = TRUE`) | `OneWake`; `HeldOnce`: no report is forgotten (`NothingForgotten`) or in two places (`OnePlace`); `Truthful`: what is settled as delivered was read (`SettledTruly`), what was notified was not (`NoFalseAlarm`); `NeverReread`; `DropsForCause`: a wake drops a report only because its subtask was sent on, had its question answered or left, its task was cancelled, or the end it tells of is still being recorded; so the window of `lost_report` is the only one |
| `reminders` | a reminder and a morning review, two messages of the user's, cancelled tasks, a restart of Core; drain task and tick look side by side | `PendingHeld`, and `FireAskedAgain` (liveness): a pending fire is settled or cancelled, unless it was passed over (it waited when the gate was given back, nobody was looking, and no run signal was on its way; nothing has happened in the main chat since), or a message of the user's waits behind a free gate |
| `page_follows` | an older message, one of the page's own, two of others, runs of one step, one cut of any kind | `TypeOK`; `Converges`: a quiet page draws what Core stored, in order; `ShowsRun`: it shows a run exactly when the gate is open; `Readable`: at every moment no row twice (`NoTwins`) and no step above its message (`RunsFollow`) |
| `todo_panel` | a to-do, two items, two drafts, two messages, a send, two clicks, one twist | `TypeOK`; `Agrees`: a quiet page has Core's lists; `NoBlink`: nothing but the user's next click changes how what he did is drawn; `Promised`: a send overtakes no deletion; `Settles` (liveness) |

`MCReminders` adds to `ReportStore` what `FireAskedAgain` needs to be told: the set
`passedOver` of fires that waited when the gate was given back with nobody told to
look. A look or a signal empties it. No action reads it; neither of the two
exceptions can be left out (`ReminderStuck.cfg` is the first, a message queued behind
a wake that finds nothing left the second).

One more run expects a violation; see section 5.

Why the bounds suffice. Two messages give every pair of senders in every
interleaving, which is what a mutual exclusion and a double delivery are about.
An overtaking takes one message carried, one waiting before it and one behind;
a fourth shows that the third is not special. An answer taken by mistake takes
three (the run that asks, the answer, the next). One death already gives two
runners whose outputs are watched side by side. In the bridge two runs meet at
most (the task of one, the run of the next); the third message lets an
interjection meet both, and a second abort may hit either run. For reports, two
subtasks are what a batch needs (one back, one not), two tasks put a reminder and
a review in one wake, and one run of the main chat started by the user is what
any look can meet; a subtask's report and a fire can share a wake or follow one
another. A report is dropped for cause or not within two runs of one subtask: the one
it tells of and the one it was sent on to. A second message of the user's is queued
behind the run of the first, or behind a wake. A message of the page's own and two of
others let a queue form behind a run while a send of the page is under way; a step and a told
line are all that has an order inside a run. On the panel two clicks give a write
behind a write on one line, a click while its list is read, a deletion behind a
deletion or beside a tick, and one twist makes any of them fail, meet a send or
another's write. Larger instances than the runs' finish too, outside the time of
a run: `PageCuts.cfg` (three cuts), `PageSends.cfg` (two sends of the page),
`TodoClicks.cfg` (three clicks), `Drops.cfg`
(`DropsForCause` with a tag that has no session, no failures). What does not depend on the size is in section 4.

Deadlock is not checked: an idle session rightly stops.

### Fairness

`MessageQueue!Fairness` gives weak fairness to each task's steps, to the writes
of interjections and aborts, the watcher, the drain task, the bridge's reading
of stdin and the end of a run: tokio polls every woken task, the channels are
unbounded or awaited, and a bridge run ends because the engine's task always
puts `done`. Nothing is assumed of users (`Send`, `Remove`, a strip's `Jump`,
`Stop`), of steps in the middle of a run, or of deaths.

`BridgeRun!Fairness` gives weak fairness to the two threads, the drains and
Core's reader, and strong fairness to `TakeStep(TRUE)`, a step that is the
task's last: `agent_runner_loop` stops at `max_turns`, so a loop not stopped
before cannot go on for ever.

`ReportStore!Fairness` gives weak fairness to wakes under way, to the ends of the
main chat's runs, to the tick's look at held reports and to the five minutes, and
strong fairness to the drain task, to each task's look and to the tick's read of
pending fires: the scheduler's loop ticks for ever but rests between two ticks, so
it cannot keep the drain task out, and a tick that finds it busy with a look is
followed by another. A subtask's run need not end: what it calls may hang, and that
is what the five minutes and the tick are for. Nothing is assumed of users, of
subtasks being started, of tasks becoming due, of exits or of restarts. `ReportsLeave` excludes a main chat whose question is
pending (its reports wait for the answer by design).

`TodoPanel!LiveSpec` gives weak fairness to what goes on by itself, taken
together: Core answers every command, timers run out, a toast goes, runs end. Each
of these steps uses up something bounded, so none can starve another. Nothing is
assumed of the user, of others who write, or of failures. The toast's timer stops
while the pointer rests on it (`held`, `ToastHost.tsx`); no pointer rests for ever.
`Transcript` states no liveness: `Converges` and `ShowsRun` are about the states
in which nothing is on its way.

`Drains` excludes sessions with a pending question (`ask_pending` holds the
queue by design) and is checked without failures: after a failed write the item
waits for the next send, which nothing owes. `GateCloses` is checked with
failures and a death.

## 4. What is proved

`MessageQueue_proofs` proves, for any set of messages and stops, any number of
deaths and any combination of switches, about `Spec` (deaths included):

* `TypeCorrect`: `Spec => []TypeOK`
* `EveryMessageStoredOnce`: `Spec => []StoredOnce`
* `NoQueuedMessageLost`: `Spec => []NothingLost`
* `QueueOrderKept`: `Spec => []QueueOrder`

The only assumption is `ConstantsAssumption`: `NoMsg` is no message, `Exits` a
natural number, the switches are Booleans and the paths among the five. The set
of messages need not be finite.

None of the three safety properties is inductive. `StoredOnce` says nothing of
a message being carried, so a step that stores it could follow from any state;
`QueueOrder` says nothing of the order of the queue. The invariant is

    IInv == Typed /\ Reported /\ Books /\ Lined

* `Typed`: the types, and that a further pid exists unless a runner is alive.
* `Reported`: what is in a runner's output as read has been read (so that the
  watcher may count it as stored).
* `Books`: for each message, that it is in the queue exactly while its task says
  so (`Waits`), which carrier it can have at which step (`Carried`), and how
  many rows it has at which step (`Stored`).
* `Lined`: `ahead` orders the queue as the messages arrived, jumps apart
  (`Ordered`); the drain task carries one message, behind which nothing older
  waits (`Turn`); and `QueueOrder`.

There is one lemma per part and group of actions (`SendTyped`, `BooksTask`,
`LinedDrain`, ...), then `Inductive`, from which the theorems follow.

Its second part proves, from the same assumption and about the same `Spec`,
that the queue implements the mailbox:

* `ImplementsMailbox`: `Spec => KeepsPromise`

Under the mapping (`Fate` of each message, `Line` of those that wait) `Init` is the
mailbox's, and each step is one of its actions or a stutter, one lemma per group of
actions (`SendMails`, `UserActsMails`, `TaskMails`, `WatchMails`, `RestMails`). Beside
`IInv` it needs `Spoken`: whatever is on its way to a run, or was read by one, was
marked as an interjection. Without it a message reported as read could vanish from the
queue while the mailbox holds it. `Fate` is written with arms that exclude each other:
where two arms of a CASE hold, TLC takes the first and TLA+ leaves the choice open, so
nothing could be proved of it; `ReportStore!RunEnd` is an IF for the same reason.

Its third part proves about `SteadySpec`, where no runner exits, for any messages,
stops and paths:

* `OneRunHolds`: `SteadySpec => []OneRun`, with failures and late gate updates
* `NoResendHolds`: `SteadySpec => NoResend`, likewise
* `AnswersAskedHolds`: `~GateRace` gives `SteadySpec => []AnswersAsked`
* `GateMeansRunHolds`: `~GateRace` gives `SteadySpec => []GateMeansRun`
* `GateHonestHolds`: `~GateRace`, `~Failures` and no wakes or socket senders give
  `SteadySpec => []GateHonest`

The argument is one claim to run, handed from place to place and never copied. It
is with nobody, with the task between reservation and write, on the runner's
stdin, with the run, on the runner's stdout or in the drain task's channel
(`AtNobody`, `AtTask`, `AtPipe`, `AtRun`, `AtStdout`, `AtDrain`); in each of these
places nobody else has it, and in all but the first the gate is open. The lemmas about
channels say how many entries of a kind one holds (`None`, `Lone`). `OneRun` follows
at once. For `NoResend` the claim is joined with the order of a runner's reports: what
a run read is reported before its end (`Reading`). For `AnswersAsked` a pending
question is followed from the run that asks to its answer (`Asked`). `NeverStrands`
follows from `Served`: a message is queued only behind a claim or a question, and the
end of every claim takes the next one. That last step is what a wake that finds
nothing left does not do (`Stranded.cfg`), nor a task whose write failed; hence the
hypotheses. `LateClose.cfg` shows that with exits the claim is copied and `OneRun` is
false.

`BridgeRun_proofs` proves, for any set of messages and slash commands, any number
of aborts, and whether or not tasks raise, about `Spec`:

* `LateDoneHolds`: `Spec => []LateDone`
* `ArmedHolds`: `Spec => []Armed`
* `CleanSlateHolds`: `Spec => []CleanSlate`
* `OwnRunHolds`: `Spec => []OwnRun`
* `TypeOKHolds`: `Spec => []TypeOK`, for a finite set of messages
* `OneCompleteHolds`: `EarlyNext = FALSE` gives `Spec => []OneComplete`
* `NeverRejectedHolds`: `EarlyNext = FALSE` gives `Spec => []NeverRejected`

The assumption is `BridgeAssumption`; that the messages are finitely many is needed
only to count them in the bound of the generation. The last two need besides that Core does
not answer a `run_complete` before `run_in_progress` is cleared: `EarlyAnswer.cfg`
shows what happens when it does (section 5).

None of these is inductive: they look at the end of a run, when what keeps them
true was settled at its opening. The invariant is

    IInv == Typed /\ Named /\ Locked /\ Clean /\ Mirror
            /\ Unopened /\ Blank /\ Going /\ Generations /\ LateDone

* `Typed`, `Named`: the types (without the bound of the generation, which is
  there for TLC), and that a thread at work on a run has its name.
* `Locked`: between a `run_complete` and its clear one thread holds
  `_run_complete_lock`, and which.
* `Clean`, `Mirror`: what is unread is taken before a run is told complete, and
  whoever else writes the account writes the slot with it. `CleanSlate` and
  `Armed` are what they say of a run that is over, and of one that goes on.
* `Unopened`, `Blank`: a message is in one place until its run opens, and until
  then it has no end and no abort. So the run that opens is a new one.
* `Going`: the run that goes on has no end yet.
* `Generations`: no drain is ahead of the generation, and the one whose
  generation it is belongs to the current run, which nobody stopped. This is what
  `StillMine` tests under the lock, and why its answer is enough: an abort and an
  opening both move the generation on.

For `OneComplete` a second invariant stands on the first, `Owed`: between a
`run_complete` and its clear the run still counts as going and Core has not
answered. With it and `OneComplete` itself, a message that arrives finds no run in
progress, and a run that is told complete is the one Core's gate is open for. The
counts of the pipes are followed entry by entry (`CountedMore`, `CountedLess`).

For `OwnRun` the second invariant is `Lone`, which speaks only of the time before
the first abort. The run that goes on is being put, or waits in the engine's queue,
or has been taken up, and only one of these (`Alone`); until its task's end its
drain is live and the lock is free (`Underway`), so a drain that finds its own
generation finds a run whose task is past its end; and what a task or a drain is of
was opened (`Opened`), so a task past its end is not the next run's. An abort breaks
`Alone`: the task goes on when its run is over, and `LateTurnEnd.cfg` is what follows.
For `TypeOK` the generation is counted: it and the aborts still on the pipe are no
more than the runs opened and the aborts sent (`Bounded`).

`ReportStore_proofs` and `ReportWakes_proofs` prove all the invariants and action
properties of `ReportStore`, for any subtasks, tags, tasks, lookers and bounds,
from its `ConstantsAssumption` and:

| Theorem | Besides |
|---|---|
| `TypeOKHolds` | |
| `DropsForCauseHolds` | |
| `TogetherHolds` | `~Races` |
| `OneWakeHolds`, `ToldOnceHolds`, `HeldOnceHolds`, `SettledTrulyHolds` | `Main \notin Mortal` |
| `QuestionKeptHolds` | `Main \notin Mortal`, `~Races` |
| `TruthfulHolds`, `NeverRereadHolds` | `Main \notin Mortal`, `Crashes = 0` |
| `PendingHeldHolds` | `Main \notin Mortal`, `OneReader` |

Each hypothesis is needed. `~Races`: `WakeAnswers.cfg` and
`Together` with `Races = TRUE` (section 5). `Main \notin Mortal`: the exit of the main
chat's runner is a signal without a name (section 5). `Crashes = 0`: a fire is durable
and the fact that a run read it is not, so after a restart it is read again, and may be
told of as undelivered (`Reminders.cfg` with `NeverReread` or `NoFalseAlarm`).
`OneReader`, one task at most besides the drain that reads pending fires:
`StaleFire.cfg`.

`DropsForCause` and `Together` rest on `Known`: what a report in any place says of its
source (`Known`), and what the code has looked up of it at the step a wake is at
(`Asked`, `Ready`). The rest stand on `Ground == Known /\ Claim /\ Placed`:

* `Claim`: the main chat's gate is with nobody, a look, a wake, a run or a signal
  (`AtNobody`, `AtLook`, `AtWake`, `AtRun`, `AtSignal`), with what is in flight in each
  case. `OneWake` is one of its corners.
* `Placed`: a report is in one place, and there once.

On it are proved: `TellOnce` (a report held is marked exactly when the desktop was
told), `NothingForgotten` together with `TagsFirst`, `Fresh` (nothing held was read, as
long as a restart forgets nothing), and `ReadLatest` (what a reader has read of a task
is not older than what is recorded of it). Each is shown kept by every action that
moves reports (`Moving`), action by action; the rest leave the places as they are.

`TodoPanel_proofs` proves about `Spec` of `TodoPanel`, for any to-dos, items, drafts,
messages and sends, any clicks, any number of reads on their way, and whatever fails
or is refused:

* `AgreesHolds`: `Spec => []Agrees`
* `PromisedHolds`: `Spec => Promised`
* `TypeOKHolds`: `Spec => []TypeOK`

The assumption is `PanelAssumption`: ids of different kinds differ, there are finitely
many items, the bounds are natural numbers. `Agrees` is about a page where nothing
happens; the invariant, `IInv`, about everything on the way there. Its core is `Ahead`:
unless a read is about to be asked for (`soon`) or one has failed, the page has Core's
lists, or there is a read that will count and shows them, and every read asked for
later that counts shows them too. So it does not matter which read comes back first:
what the tickets throw away are reads that were overtaken by a better one. The
messages follow a different path, without reads: the page has Core's and at most the
one whose deletion Core has made and not answered (`SameMessages`).

For `Promised` the invariant `KInv` adds the lines themselves: each batch and each
answer on its line (`Lined`, `Batched`), at most one read for a line, and `AllKept`:
what a send owes is not undoable any more, and every batch with it is among those the
send waits for, until Core has answered. So a deletion that is owed and still hidden
cannot be left when the send goes: the flush found it staged or on its way, and both
stores wait. A deletion undone or refused and then made anew is a new one, which the
sends before it do not owe (`Stage`).

For `TypeOK` the invariant `TInv` adds that marks are counters of writes (`Told`):
each action that puts a write on a line marks the row once, and each answer unmarks
it once, with other lines' answers in between. That Core's list names an item once
needs that a draft is added once (`Fresh`), and holds although moves, adds and
deletions reach the list on lines of their own.

`Transcript_proofs` proves about `Spec` of `Transcript`, from `TranscriptAssumption`,
for any messages, launches, steps and bounds:

* `TypesKept`: `Spec => []TypeOK`, whatever races and whatever cuts in
* `BookKept`: `Calm` gives `Spec => []CoreInv`

`Calm` is that the windows `lag`, `gap` and `overtake` are shut, as in every run but
`PageRaces`: Core acts on a runner's report before the next one is emitted, a row is
announced before something else happens, and nothing overtakes on the wire. Steps may
still be slow, a step told, the user hasty.

For `TypeOK` the invariant is `Shape`, the types of every variable, of the channel's
events and of each field of a turn. Most of the work is in the page's updates: that
`Merge`, `Picked`, `PutAfter` and `Before` make sequences of turns out of sequences of
turns, whichever turns are held.

`CoreInv` is what Core may be relied on for when the page follows it. It has five parts, which only hold together:

* `Suffix`: what is still to be emitted is the end of what is still to be acted on.
* `Claim`: one message at most holds the gate between its row and its run (`Holder`),
  and meanwhile no report waits; a run that goes on is of the message written last,
  and an end is the last report there is.
* `Places`: each message is in one place: to be sent, in the queue, lost, or stored.
* `Book`: no row is written twice; a step or a told line belongs to a run (`Ran`), in
  the order the run took them; and from a run's opener to the run's last row nothing
  else is opened (`Opens`). A run's rows are written by a task that knows only the row
  before, beside sends that write theirs, so nothing in the code says so in one place.
* `Coming`: a row that a report is about is not written yet, is waited for once, and
  belongs to the opener written last (`Latest`).

`Transcript` computes with `FlattenSeq`, `Min`, `Max` and `Picked`, whose values no
definition gives without an induction. The induction theorems of the library take an
operator, but `WFMin` does not: `Least` (a set of numbers that is not empty has a
least one) follows from it, and `Induction` about a set of numbers from that, which
is enough for the lemmas about these operators.

`TranscriptPage_proofs` and `TranscriptReadable_proofs` prove of the page, from the
same hypothesis and nothing more:

* `PageKept`: `Calm` gives `Spec => []PageInv`
* `ReadableKept`: `Calm` gives `Spec => []Readable`

`Readable` is far from inductive: whether a row that arrives is drawn a second time, or
below its message, depends on what else is on its way, in which order, and on what
Core will still say. `PageInv` says so for each message and each row:

* `TurnShape`, `Once`: what kinds of turns there are; a row is drawn once, or with its
  echo, whose end is then on the wire.
* `EchoPlace`, `Ways`, `Finished`, `Answers`: a message reaches the page by its own send
  or out of the queue and never by both; an echo is only left of a send that failed or
  that Core will still say something of; the answer to a send is behind what it answers.
* `Announced`, `Order`: an item of the queue drawn for a message that has its row will be
  claimed by the row's announcement, which is still on the wire; and the wire has the
  item before the row and the row before what a run adds to it (`Ordered`, `Between`, `Led`).
* `Known`: what is drawn is stored, or acted on next; a row is announced once, before any
  read that has it.
* `Dropped`: a deleted row is drawn only while its deletion is on the wire, behind all else
  that tells of it.
* `Reads`: one read at a time, itself in order, and nothing above its beginning is drawn:
  this is why an earlier page never repeats a row and never lands under its run.
* `RunsFollow`, which is inductive only with all of these.

Core's steps put an event at the end of the wire or leave the wire alone; they are the
first of the two modules. The page's steps take the first event off and change the turns
by `Merge`, `Picked`, `PutAfter` and `Before`: the second module says what each event may
add and remove (`Draws`), where it may put it (`Notes` and the lemmas about places), and
that this is enough. `Calm` cannot be left out: with any one of its windows open TLC
finds a row drawn twice (section 5).

Every invariant and action property that a run checks of `MessageQueue`, `BridgeRun`
and `ReportStore` is proved under the hypotheses above, which the instance of that run
meets, and so are those of `TodoPanel` but for one. Only model-checked are:

* `NoBlink` of `TodoPanel`: it compares filtered orders (`SelectSeq`), which tlapm has
  as a built-in without a definition to expand, so that nothing can be said of two
  of them.
* `Converges` of `Transcript`, and its `NoGhosts`, which compare filtered orders like
  `NoBlink`; and its `ShowsRun` (section 7).
* All liveness (`Drains`, `GateCloses`, `RunsEnd`, `WaitingEnds`, `ReportsLeave`,
  `FireAskedAgain`, `Settles`): liveness and `ENABLED` are out of reach of the prover.

## 5. Known disagreements

One run expects TLC to find a statement of the sources violated by what the
code does; `PROJECT.json`, "findings", quotes the statement and the line.

* `lost_report`: a finished subtask's report, taken by the tick's wake before the
  drain task has closed the subtask's gate, is dropped as if it ran again
  (`SoundDrop`: each drop has a cause). `DropsForCause` is what holds.

More were met with the same models. Each has a configuration beside the runs (of
the MC module of its specification: `tlc -config LateClose.cfg MCMessageQueue`), or
is a statement of an MC module to be given as an INVARIANT, or is a run with one
constant changed:

* `ReadTwice.cfg`, `ReadOnce`: the `interject` command is written after the queue
  lock is released; by then the message may have been popped and sent as its own,
  and the bridge takes it twice (`interject.rs:18`: "Two ways out of the queue,
  exactly one taken").
* `LateClose.cfg`, `OneRun`: `RunSignal::Closed` names the session and not the
  runner; handled late, it releases the gate under a newer message, and a third
  goes out beside (`session_send.rs`: "Nobody else dispatches while we hold the
  gate").
* `Stranded.cfg`, `NeverStrands`: a wake with nothing left releases the gate
  without looking at the queue (`queue.rs`: "a message can never strand").
* `FailedDispatch.cfg`, `RequeuedOnFailure`: a popped message whose write to the
  runner fails is not re-queued (its row is stored); the doc of
  `dispatch_queued_item` says it is.
* `LateTurnEnd.cfg`, `ClosedByOwnTask`: the last turn end of a stopped run's task
  closes the next run; the bridge checks only `done` against the generation.
* `EarlyAnswer.cfg`, `NeverRejected`: `run_complete` is out before
  `run_in_progress` is cleared, so the next message may be refused.
* `ReminderStuck.cfg`, `FireSettles`: the tick's wake finds the gate taken and goes
  away (`subtask_report.rs:1606-1607`: "Busy, or the user's queued messages go first:
  the next run signal asks again."), but the wake that held it finds nothing left
  (`deliver`, 1681-1684) and releases it without a signal. The fire is in memory and
  its key is seen, so no tick wakes for it; it waits for the next run of a session, or
  for a restart. A message of the user's queued behind such a wake blocks it in the
  same way, and so does a cancelled task whose wake finds nothing left; with `Leaves = TRUE` in `Reports.cfg` it is a
  subtask's report that is left waiting (`ReportsLeave`), after the wake of one
  that was promoted. `FireAskedAgain` is what holds.
* `WakeAnswers.cfg`, `QuestionKept` (and `WakeKeepsQuestion` of `MCMessageQueue`):
  a run of the main chat may ask and end between the tick's look for a question
  and its reservation, in spite of the comment in `take_due`.
* `StaleFire.cfg`, `PendingHeld`: running a scheduled task by hand (`run_now`) reads
  the pending fires beside the tick. A tick that read an older fire of the task adds it
  after `run_now` has added the newer one, and takes its place in the store
  (`subtask_report.rs:1276`: "A task's newer fire replaces its older one still
  waiting."). The newer one is pending and nobody has it until Core restarts.
* `Together`, with `Races = TRUE` in `Reports.cfg`: whether a wake is due
  is decided before its reports are taken, so a held report that comes in between
  goes at once, by itself.
* When the main chat's own runner exits (`Mortal` with `main`): the exit is a
  signal without a name, so the end it is handled for may be an earlier wake's
  or none; reports are settled by the wrong end or told twice (`ToldOnce`,
  `NothingForgotten`, `NoFalseAlarm`, `PendingHeld`, `SettledTruly`, `OneWake`).
  The passing runs keep the main chat's runner alive.
* `GateMeansRun` with `GateRace = TRUE`: a run that ends before its sender's gate
  update leaves the gate open over no run (`manager.rs`, `send_command_via`); with
  a jump in between, `AnswersAsked` fails in the same way.
* `StopReachesTask` (`MCBridgeRun`): an abort before the engine has taken the task
  up finds `is_running` false and stops nothing.
* `StopsOnlyItsRun` (`MCBridgeRun`): `stop_sig` set after the task's own end breaks
  off the next task.
* `NoStrayRead` (`MCBridgeRun`): the task of a stopped run that goes on reads what
  was handed to the next run.

On the page (`MCTranscript`, `MCTodoPanel`):

* `JumpedAhead.cfg`, `InterjectionsLast`: a queued message jumps past an interjection
  that waits, and its row is appended below the interjection drawn
  (`messages.ts:509-513`: pending interjections stay at the conversation's end).
* `DroppedStep.cfg`, `Converges` with `told`: the page's task sends a step's end
  before the watcher has written its row; a read in between has the line
  the step told but not the step, and the merge drops the step drawn, which names a
  row and stands above a turn the read has
  (`mergeRestoredTurns.ts:29`: "Core writes every row before the page hears of
  it").
* `StopDead.cfg`, `StopHeard`: Stop can be pressed from a message's echo on. With the
  runner up, the abort is written before the message is, stops nothing, and is answered
  `abort_sent`; the run that follows goes on with the button locked
  (`useMessageSend.ts:354-356`: "unlock if the stop never reached Core, otherwise the
  run keeps going with Stop dead").
* `HastySend.cfg`, `ShowsRun` with `hasty`: a send that fails sets the page idle
  although the send before it has opened a run.
* `StoppedEcho.cfg`, `ShowsRun`: another writer's row takes the page's run state over
  from an echo, its start fails, and the echo's own `pending` finds no phase to move
  on. Stop, answered `already_stopped` because the runner is not up yet, then idles
  the page of a run that goes on (`useMessageSend.ts:148-150` means to keep such a
  send).
* The windows, one at a time: with `lag`, `InterjectionsLast`, `RunsFollow` and
  `NoGhosts` hold; with `told`, all but `Converges`, with `slow` but `ShowsRun` too; with `attach`,
  `NoTwins`, `RunsFollow` and `NoGhosts`; with `gap` or `overtake`, only
  `NoGhosts`: a late `already_stopped`, a deletion before the read that had the
  row, a queue snapshot older than the event before it. `PageRaces.cfg` has `lag`,
  `told`, `slow` and `attach` open together and passes with `NoGhosts` and
  `RunsFollow`: whatever races, a quiet page draws nothing Core does not have.
* `_attachLive` reads the history and `runOpen` before the listeners are up; a run
  that ends in between leaves the page running (`attach`, `ShowsRun`).
* `AddedTwice.cfg`, `AddedOnce`: an event's read brings an item whose add has not
  been let go, which is then drawn twice (`assistant-todo.ts:774-775`).
* `DoneRewritten.cfg`, `DoneStays`: a batch asks for a to-do the assistant has just
  done, since it looks at the page's list (`assistant-todo.ts:391-392`: "a done
  to-do is never rewritten").
* `MisplacedMove.cfg`, `PlaceHolds`: a move's place is counted while an item's
  removal is on its way; Core moves it one place off
  (`assistant-todo.ts:299-300`).

## 6. What is left out

* `MessageQueue` merges emit and clear of a run's end and the threads of the
  runner; `BridgeRun` has them apart. `AgentRunning` (which process state `stop`
  looks at) is taken as true a little longer than it is.
* A restart of Core loses the in-memory queue; `queue.rs` declares this scope.
* Quiet replacements of a runner (segments of the main chat, replay of
  history), the held close, `enforce_cap`'s choice: a replacement shows here as a
  death and a start.
* `last_exit`, `last_error`, run-state reports, notifications, titles: told to
  others, read by no guard.
* In the bridge: rendering, tool previews, model switching, `/btw`, shutdown, and
  `load_history`, which only a runner without runs is sent.
  `_interjections_allowed` is taken as true.
* Texts: a composed interjection is the set of messages in it.
* In `ReportStore`: a main chat that is missing or replaced and an external
  runtime (nothing is added, and due tasks are returned); reads of the database
  that fail, and a settlement that fails; a subtask's own queue of messages;
  sessions a scheduled task opens (their reports go as a subtask's without a
  batch); the review's memos, log and skipped fires. One batch. A look at several
  subtasks' gates (`still_running`, `still_due`) is one step, and so is the return
  of due tasks with the announcement of the others.
* `ReportStore` has each watcher's bookkeeping with the end of the run, and the
  user's sends in one step; `MessageQueue` has them apart.

* In `Transcript`: one session; `turn_start` and `turn_progress` (which move on what is
  shown of a run, and end its phase), the bridge's `error` event (which idles the page),
  `ask_user`, the restoring phase, `/btw`,
  narration, suggestions, step counters, images and what streams inside a step.
  One read serves the activation and the attachment. The page sends once it is
  attached, a runner it has not attached to is listened to from its start, and a
  runner exits in the middle of a run. A page of turns is what this launch has
  written (50 turns in the code).
* In `TodoPanel`: one to-do carries all the items; memos (`stores/memo.ts`) have the
  same shape; the words of to-dos and items, `cancelReminder`, `cancelTask`, reasons of
  failures; a main chat replaced by a reset; reloads at midnight and at due times.
  Others' writes are: a to-do done or cancelled, an item ticked or removed, a run
  opened; items others add are left out. `NoBlink` says nothing of what someone
  else wrote, what Core refused, or after a failed read (`excused`), nor that an
  item deleted before its add came back stays in place.

`PROJECT.json` lists the components that are not modelled, with the reason.

How much of the code this is. The repository has some 115 000 lines of TypeScript
beside Core's Rust and the runner's Python. The models stand for the stores, hooks
and handlers of the page that keep state others change too; the rest of the
TypeScript is components, styles, motion (`assistant-face-motion.ts`,
`useStickyScroll.ts`), two locales, settings pages, fixtures and tests, which draw
what these stores hold and have no interleaving to get wrong. A larger part of the
lines could only be had by naming code no definition translates.

## 7. Plan

In this order:

1. `RunnerLife`: `session_runner` and the close gate: single flight of `ensure`,
   held closes, history before anything else, retirement, `enforce_cap`.
   Abstract specification: "a session has at most one runner, and it has its
   history"; safety to be proved.
2. `TurnRows`: the order in which `turn_persistence` writes a run's rows against
   the rows of delivered interjections. (`Transcript` has the outcome.)
3. `RelayChannel`: pairing and replacement of connections in the relay, with the
   reconnects of `remote/connection.rs`.
4. `Transcript` for several sessions: activation epochs, the LRU of clients, a main
   chat replaced by a reset.
5. Proofs of `Transcript`: on `CoreInv` and `PageInv`, `ShowsRun`, which needs how the
   next answer or event on the wire will set the page's running state.

The runs stay few: a later module brings its own and takes the place of
violations of section 5, or joins runs that ask the same question.
