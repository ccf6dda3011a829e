---------------------------- MODULE ReportStore ----------------------------
(***************************************************************************)
(* What the main chat is told, and when: the store of waiting reports      *)
(* (subtask_report.rs), the drain task that fills and settles it, the      *)
(* scheduler's ticks that add due tasks to it, and the wakes that carry    *)
(* its reports to the main chat.                                           *)
(*                                                                         *)
(* Three kinds of report: the end of a subtask's run, a tag of a reply     *)
(* that started nothing, and the fire of a scheduled task that wakes the   *)
(* assistant.  The first two live in memory; a fire is durable.            *)
(*                                                                         *)
(* There is one main chat and the managed runtime stays active.  The run   *)
(* gate is MessageQueue's, as a wake sees it: a sender that is not a wake  *)
(* reserves, stores and writes in one step here.  Lists are sets: nothing  *)
(* below depends on the order in which a wake names its reports.           *)
(***************************************************************************)
EXTENDS Integers, Sequences, FiniteSets

CONSTANTS
    Main,       \* the main chat's session
    Subs,       \* sessions whose runs report: subtasks, scheduled sessions
    Batch,      \* the subtasks one reply of the main chat started
    Tags,       \* tags of its replies that make no session
    Tasks,      \* scheduled tasks that wake the assistant
    Reviews,    \* ... of which the morning review
    Lookers,    \* who looks whether a wake is due: the drain task, the
                \* scheduler's tick, a task that adds reports (tags, run_now)
    Ends,       \* how runs end: "done", "asked", "failed", "stopped"
    Runs,       \* how often a subtask is dispatched or sent back
    Fires,      \* how often a task fires
    Chats,      \* how many messages the user sends
    Exits,      \* how many runner processes may exit
    Mortal,     \* ... of which sessions
    Crashes,    \* how often Core may restart
    Failures,   \* starting a runner, storing a row, writing to a runner may fail
    Leaves,     \* subtasks may be promoted or deleted, tasks cancelled
    Races       \* two tasks may look at once, or look between the record of
                \* a run's end and the close of its gate

ASSUME ConstantsAssumption ==
    /\ Main \notin Subs /\ Batch \subseteq Subs /\ Reviews \subseteq Tasks
    /\ Mortal \subseteq Subs \cup {Main}
    /\ Subs \cap Tags = {} /\ Subs \cap Tasks = {} /\ Tags \cap Tasks = {}
    /\ IsFiniteSet(Batch)
    /\ Ends \subseteq {"done", "asked", "failed", "stopped"}
    /\ "drain" \in Lookers /\ Lookers \subseteq {"drain", "tick", "task"}
    /\ {Runs, Fires, Chats, Exits, Crashes} \subseteq Nat
    /\ {Failures, Leaves, Races} \subseteq BOOLEAN

VARIABLES
    waiting, seen, inFlight,        \* SubtaskReports: the store
    step, found,                    \* who looks at it: drain, tick, others
    wakes,                          \* the drain task is to look
    jobs,                           \* wakes under way (WakeJob)
    open, ask, exit,                \* the run gate of each session, last_exit
    queued,                         \* user messages the main chat's queue holds
    alive, running, reading,        \* runners: main's process, runs, what main reads
    signals,                        \* RunSignal channel to the drain task
    turn, left,                     \* SQLite: a subtask's runs; promoted or deleted
    fired, lastWake, cancelled,     \* SQLite: scheduled_tasks
    chats, exits, crashes,          \* how much of each bound is used
    heard, failed, dropped,         \* history: keys a turn ended on; none was sent
    told, again, noted              \* history: announced to the desktop; notified

store   == <<waiting, seen, inFlight>>
lookers == <<step, found, wakes>>
gates   == <<open, ask, exit, queued>>
runners == <<alive, running, reading>>
db      == <<turn, left, fired, lastWake, cancelled>>
counts  == <<chats, exits, crashes>>
history == <<heard, failed, dropped, told, again, noted>>
vars    == <<store, lookers, jobs, gates, runners, signals, db, counts, history>>

Sessions == Subs \cup {Main}
Sources  == Subs \cup Tags \cup Tasks
Outcomes == {"done", "asking", "error", "tag", "due"}
Keys     == Sources \X Nat
Reports  == [of : Sources, n : Nat, kind : Outcomes]
Waiting  == [rep : Reports, told : BOOLEAN, held : {"no", "held", "late"}]
Steps    == {"idle", "add", "queue", "due", "ask", "reserve", "take", "release"}
Stages   == {"check", "ensure", "flight", "send", "keep", "restore"}

Report(x, n, kind) == [of |-> x, n |-> n, kind |-> kind]
Key(r)             == <<r.of, r.n>>
KeysOf(ws)         == {Key(w.rep) : w \in ws}
Due(ws)            == {w \in ws : w.rep.kind = "due"}
FireOf(t)          == Report(t, fired[t], "due")

Init ==
    /\ waiting = {} /\ seen = {} /\ inFlight = {}
    /\ step = [c \in Lookers |-> "idle"] /\ found = [c \in Lookers |-> {}]
    /\ wakes = FALSE /\ jobs = {}
    /\ open = [s \in Sessions |-> s \in Batch] /\ ask = [s \in Sessions |-> FALSE]
    /\ exit = [s \in Sessions |-> "none"] /\ queued = 0
    /\ alive = FALSE /\ running = Batch /\ reading = {}
    /\ signals = <<>>
    /\ turn = [s \in Subs |-> IF s \in Batch THEN 1 ELSE 0] /\ left = {}
    /\ fired = [t \in Tasks |-> 0] /\ lastWake = [t \in Tasks |-> "none"]
    /\ cancelled = {}
    /\ chats = 0 /\ exits = 0 /\ crashes = 0
    /\ heard = {} /\ failed = {} /\ dropped = {}
    /\ told = {} /\ again = {} /\ noted = {}

-----------------------------------------------------------------------------
(* The store.                                                              *)

\* add_in_batch: once per key, in place of what the same source has waiting.
Added(rs, held) ==
    LET new == {r \in rs : Key(r) \notin seen}
    IN  /\ seen' = seen \cup {Key(r) : r \in new}
        /\ waiting' = {w \in waiting : \A r \in new : r.of # w.rep.of}
                        \cup {[rep |-> r, told |-> FALSE, held |-> held] : r \in new}

\* restore: never held again, and not over a newer report of the same subtask.
Restored(ws) ==
    {[w EXCEPT !.held = "no"] :
        w \in {x \in ws : x.rep.of \in Subs => \A y \in waiting : y.rep.of # x.rep.of}}

\* Variant: tells what was told.
AnnouncedAlways(ws) ==
    LET keys == KeysOf({w \in ws : w.rep.of \in Subs})
    IN  told' = told \cup keys /\ again' = again \cup (told \cap keys)

\* mark_announced and announce_undelivered: a tag has no subtask to name.
Announced(ws) ==
    LET keys == KeysOf({w \in ws : ~w.told /\ w.rep.of \in Subs})
    IN  told' = told \cup keys /\ again' = again \cup (told \cap keys)

\* settle_scheduled_wake moves a fire only while it is the task's, and pending.
Settles(ws) == {w.rep.of : w \in {x \in Due(ws) : /\ lastWake[x.rep.of] = "pending"
                                                  /\ fired[x.rep.of] = x.rep.n}}

\* Variant: shows the reminder and leaves the fire pending.
ReturnedUnsettled(ws) ==
    /\ noted' = noted \cup {<<t, fired[t]>> : t \in Settles(ws) \ Reviews}
    /\ UNCHANGED lastWake

\* return_due_tasks: a reminder is shown to the user, a review only dropped.
Returned(ws) ==
    /\ lastWake' = [t \in Tasks |-> IF t \notin Settles(ws) THEN lastWake[t]
                                    ELSE IF t \in Reviews THEN "none" ELSE "notified"]
    /\ noted' = noted \cup {<<t, fired[t]>> : t \in Settles(ws) \ Reviews}

Delivered(ws) ==
    /\ lastWake' = [t \in Tasks |-> IF t \in Settles(ws) THEN "delivered" ELSE lastWake[t]]
    /\ UNCHANGED noted

-----------------------------------------------------------------------------
(* The drain task: one signal at a time, in order.                         *)

\* run_end: the gate is still as the run left it.
RunEnd(sig) ==
    IF sig.kind = "closed" THEN IF open[sig.of] THEN "error" ELSE "nothing"
    ELSE IF exit[sig.of] = "stopped" THEN "nothing"
    ELSE IF ask[sig.of] THEN "asking"
    ELSE IF exit[sig.of] = "failed" THEN "error" ELSE "done"

\* A look, and the step after a run's end, are a few locks taken one after the
\* other: unless they race, nothing comes between.
Undisturbed(c) ==
    Races \/ \A d \in Lookers \ {c} : step[d] \in {"idle", "add", "due"}

\* holding_for: a report is held for a batch the session is in.
Holding(s) == s \in Batch /\ \E w \in waiting : w.held # "no"

HoldFor(s, kind) == IF kind = "done" /\ s \in Batch /\ Cardinality(Batch) >= 2
                    THEN "held" ELSE "no"

\* record_run_end.
RecordRunEnd(s) ==
    /\ signals # <<>> /\ Head(signals).of = s /\ s \in Subs
    /\ step["drain"] = "idle" /\ Undisturbed("drain")
    /\ step' = [step EXCEPT !["drain"] = "queue"]
    /\ LET end == RunEnd(Head(signals))
           r   == Report(s, turn[s], end)
       IN  IF end # "nothing" /\ s \notin left /\ Key(r) \notin seen
           THEN Added({r}, HoldFor(s, end)) /\ wakes' = TRUE
           ELSE wakes' = Holding(s) /\ UNCHANGED <<waiting, seen>>
    /\ UNCHANGED <<inFlight, found, jobs, gates, runners, signals, db, counts, history>>

\* Variant: whatever is not done fails a turn.
TurnNotDone(sig) == RunEnd(sig) # "done"

TurnFailed(sig)  == RunEnd(sig) = "error"

\* Variant: the reports of a failed turn are tried again.
RecordWakeRunEndRetries ==
    /\ signals # <<>> /\ Head(signals).of = Main
    /\ step["drain"] = "idle" /\ Undisturbed("drain")
    /\ step' = [step EXCEPT !["drain"] = "queue"]
    /\ inFlight' = {}
    /\ waiting' = IF TurnFailed(Head(signals)) THEN waiting \cup Restored(inFlight)
                  ELSE waiting
    /\ UNCHANGED <<seen, found, wakes, jobs, gates, runners, signals, db, counts, history>>

\* record_wake_run_end: the turn a wake started has ended.
RecordWakeRunEnd ==
    /\ signals # <<>> /\ Head(signals).of = Main
    /\ step["drain"] = "idle" /\ Undisturbed("drain")
    /\ step' = [step EXCEPT !["drain"] = "queue"]
    /\ inFlight' = {}
    /\ IF TurnFailed(Head(signals))
       THEN Returned(inFlight) /\ Announced(inFlight)
       ELSE Delivered(inFlight) /\ UNCHANGED <<told, again>>
    /\ UNCHANGED <<waiting, seen, found, wakes, jobs, gates, runners, signals, turn,
                   left, fired, cancelled, counts, heard, failed, dropped>>

\* What a message does to the runner: a run, unless one is going already.
Dispatched(load) ==
    /\ running' = running \cup {Main}
    /\ reading' = IF Main \in running THEN reading ELSE load

\* Variant: does not look whether anything is queued.
TakesUnseen(sig) == sig.of = Main /\ sig.kind = "run_complete"

Takes(sig) == sig.of = Main /\ sig.kind = "run_complete" /\ queued > 0

\* spawn_wake_if_due: after a report, and once the main chat is idle.
LooksNext(sig) == wakes \/ sig.of = Main

\* queue_take_next_item: a run's end gives the gate to the next queued message
\* (an interjection too while a question waits).
QueueStep ==
    /\ step["drain"] = "queue"
    /\ LET sig == Head(signals)
       IN  \/ /\ Takes(sig)
              /\ queued' = queued - 1
              /\ step' = [step EXCEPT !["drain"] = "idle"]
              /\ IF alive
                 THEN /\ open' = [open EXCEPT ![Main] = TRUE]
                      /\ ask' = [ask EXCEPT ![Main] = FALSE]
                      /\ Dispatched({})
                 ELSE /\ open' = [open EXCEPT ![Main] = FALSE]
                      /\ UNCHANGED <<ask, running, reading>>
           \/ /\ Takes(sig) => ask[Main]
              /\ open' = [open EXCEPT ![sig.of] = FALSE]
              /\ step' = [step EXCEPT !["drain"] =
                            IF LooksNext(sig) THEN "due" ELSE "idle"]
              /\ UNCHANGED <<ask, queued, running, reading>>
    /\ signals' = Tail(signals)
    /\ wakes' = FALSE
    /\ UNCHANGED <<store, found, jobs, exit, alive, db, counts, history>>

-----------------------------------------------------------------------------
(* The scheduler.                                                          *)

\* fire_reminder, from a tick when the task is due or from run_now.
Fire(t) ==
    /\ fired[t] < Fires /\ t \notin cancelled
    /\ fired' = [fired EXCEPT ![t] = @ + 1]
    /\ lastWake' = [lastWake EXCEPT ![t] = "pending"]
    /\ UNCHANGED <<store, lookers, jobs, gates, runners, signals, turn, left,
                   cancelled, counts, history>>

\* restore_pending_reminders, first half: the read of scheduled_tasks.
ReadPending(c) ==
    /\ c \in Lookers \ {"drain"} /\ step[c] = "idle"
    /\ LET pending == {FireOf(t) : t \in {u \in Tasks \ cancelled : lastWake[u] = "pending"}}
       IN  /\ \E r \in pending : Key(r) \notin seen
           /\ found' = [found EXCEPT ![c] = pending]
    /\ step' = [step EXCEPT ![c] = "add"]
    /\ UNCHANGED <<store, wakes, jobs, gates, runners, signals, db, counts, history>>

\* Variant: adds them and wakes nobody.
AddPendingQuietly(c) ==
    /\ step[c] = "add"
    /\ Added(found[c], "no")
    /\ step' = [step EXCEPT ![c] = "idle"]
    /\ found' = [found EXCEPT ![c] = {}]
    /\ UNCHANGED <<inFlight, wakes, jobs, gates, runners, signals, db, counts, history>>

\* ... second half: what was read is added, and a new one wakes the main chat.
AddPending(c) ==
    /\ step[c] = "add"
    /\ Added(found[c], "no")
    /\ step' = [step EXCEPT ![c] = IF seen' # seen THEN "due" ELSE "idle"]
    /\ found' = [found EXCEPT ![c] = {}]
    /\ UNCHANGED <<inFlight, wakes, jobs, gates, runners, signals, db, counts, history>>

\* wake_for_held: every tick looks at the main chat while it holds a report.
TickHeld ==
    /\ "tick" \in Lookers /\ step["tick"] = "idle"
    /\ \E w \in waiting : w.held # "no"
    /\ step' = [step EXCEPT !["tick"] = "due"]
    /\ UNCHANGED <<store, found, wakes, jobs, gates, runners, signals, db, counts, history>>

\* BATCH_WAIT_SECS pass for a held report.
BatchWait(w) ==
    /\ w \in waiting /\ w.held = "held"
    /\ waiting' = (waiting \ {w}) \cup {[w EXCEPT !.held = "late"]}
    /\ UNCHANGED <<seen, inFlight, lookers, jobs, gates, runners, signals, db, counts,
                   history>>

\* record_not_started, from the task that dispatched a reply's tags: the tag made
\* no session, or one whose runner did not start.
TagFails(x) ==
    /\ <<x, 0>> \notin seen /\ (x \in Subs => turn[x] = 0)
    /\ "task" \in Lookers /\ step["task"] = "idle"
    /\ Added({Report(x, 0, "tag")}, "no")
    /\ step' = [step EXCEPT !["task"] = "due"]
    /\ UNCHANGED <<inFlight, found, wakes, jobs, gates, runners, signals, db, counts, history>>

-----------------------------------------------------------------------------
(* take_due: may the main chat be woken now?                               *)

StillRunning(s) == open[s] /\ s \notin left

\* Variant: one of the batch is back.
DueOnceOneIsBack ==
    \/ \E w \in waiting : w.held \in {"no", "late"}
    \/ waiting # {} /\ \E s \in Batch : ~StillRunning(s)

\* Variant: waits for the whole batch.
DueWhenAllBack ==
    \/ \E w \in waiting : w.held = "no"
    \/ waiting # {} /\ \A s \in Batch : ~StillRunning(s)

\* due_now.
DueNow ==
    \/ \E w \in waiting : w.held \in {"no", "late"}
    \/ waiting # {} /\ \A s \in Batch : ~StillRunning(s)

LookDue(c) ==
    /\ step[c] = "due"
    /\ step' = [step EXCEPT ![c] = IF DueNow THEN "ask" ELSE "idle"]
    /\ UNCHANGED <<store, found, wakes, jobs, gates, runners, signals, db, counts, history>>

\* Variant: does not look for a question.
LookAskNever(c) ==
    /\ step[c] = "ask"
    /\ step' = [step EXCEPT ![c] = "reserve"]
    /\ UNCHANGED <<store, found, wakes, jobs, gates, runners, signals, db, counts, history>>

\* A pending question: due tasks are returned, the others announced and kept.
LookAsk(c) ==
    /\ step[c] = "ask"
    /\ \/ /\ ~ask[Main]
          /\ step' = [step EXCEPT ![c] = "reserve"]
          /\ UNCHANGED <<waiting, lastWake, told, again, noted>>
       \/ /\ ask[Main]
          /\ step' = [step EXCEPT ![c] = "idle"]
          /\ waiting' = {[w EXCEPT !.told = TRUE] : w \in waiting \ Due(waiting)}
          /\ Returned(waiting)
          /\ Announced(waiting)
    /\ UNCHANGED <<seen, inFlight, found, wakes, jobs, gates, runners, signals, turn,
                   left, fired, cancelled, counts, heard, failed, dropped>>

\* Variant: forgets that a run is open.
DispatchWhenEmpty == queued = 0 \/ ask[Main]

MayDispatchNow == ~open[Main] /\ (queued = 0 \/ ask[Main])

\* queue_try_reserve: busy, or the user's messages go first.
Reserve(c) ==
    /\ step[c] = "reserve"
    /\ IF MayDispatchNow
       THEN /\ open' = [open EXCEPT ![Main] = TRUE]
            /\ step' = [step EXCEPT ![c] = "take"]
       ELSE /\ step' = [step EXCEPT ![c] = "idle"]
            /\ UNCHANGED open
    /\ UNCHANGED <<store, found, wakes, jobs, ask, exit, queued, runners, signals, db,
                   counts, history>>

\* Everything that waits goes.
Take(c) ==
    /\ step[c] = "take"
    /\ step' = [step EXCEPT ![c] = IF waiting = {} THEN "release" ELSE "idle"]
    /\ jobs' = IF waiting = {} THEN jobs
               ELSE jobs \cup {[at |-> "check", load |-> waiting]}
    /\ waiting' = {}
    /\ UNCHANGED <<seen, inFlight, found, wakes, gates, runners, signals, db, counts,
                   history>>

\* A wake with nothing to carry gives the gate back.
Release(c) ==
    /\ step[c] = "release"
    /\ step' = [step EXCEPT ![c] = "idle"]
    /\ open' = [open EXCEPT ![Main] = FALSE]
    /\ UNCHANGED <<store, found, wakes, jobs, ask, exit, queued, runners, signals, db,
                   counts, history>>

Look(c) == /\ Undisturbed(c)
           /\ LookDue(c) \/ LookAsk(c) \/ Reserve(c) \/ Take(c) \/ Release(c)

-----------------------------------------------------------------------------
(* deliver: the wake that carries what was taken, in the background.       *)

Moves(j, at)   == jobs' = (jobs \ {j}) \cup {[j EXCEPT !.at = at]}
JobRest        == <<seen, lookers, exit, queued, signals, turn, left, fired,
                    cancelled, counts, heard, failed>>

\* Variant: a question that waits is taken for an answered one.
StillDueUnasked(r) ==
    CASE r.kind = "due" -> /\ r.of \notin cancelled
                           /\ lastWake[r.of] = "pending" /\ fired[r.of] = r.n
      [] r.of \in Tags  -> TRUE
      [] OTHER          -> /\ r.of \notin left /\ ~open[r.of]
                           /\ r.kind = "asking" => ~ask[r.of]

\* is_still_due.
StillDue(r) ==
    CASE r.kind = "due" -> /\ r.of \notin cancelled
                           /\ lastWake[r.of] = "pending" /\ fired[r.of] = r.n
      [] r.of \in Tags  -> TRUE
      [] OTHER          -> /\ r.of \notin left /\ ~open[r.of]
                           /\ r.kind = "asking" => ask[r.of]

\* still_due; with nothing left the gate is released and nobody told.
Check(j) ==
    /\ j.at = "check" /\ (Races \/ step["drain"] # "queue")
    /\ LET due == {w \in j.load : StillDue(w.rep)}
       IN  /\ dropped' = dropped \cup KeysOf(j.load \ due)
           /\ IF due = {}
              THEN jobs' = jobs \ {j} /\ open' = [open EXCEPT ![Main] = FALSE]
              ELSE /\ jobs' = (jobs \ {j}) \cup {[at |-> "ensure", load |-> due]}
                   /\ UNCHANGED open
    /\ UNCHANGED <<waiting, inFlight, ask, runners, lastWake, told, again, noted, JobRest>>

\* ensure_session_runner.
Ensure(j) ==
    /\ j.at = "ensure"
    /\ \/ Moves(j, "flight") /\ alive' = TRUE
       \/ Failures /\ ~alive /\ Moves(j, "keep") /\ UNCHANGED alive
    /\ UNCHANGED <<waiting, inFlight, open, ask, running, reading, lastWake, dropped,
                   told, again, noted, JobRest>>

\* persist_subtask_report, then set_in_flight: before the dispatch.
Flight(j) ==
    /\ j.at = "flight"
    /\ \/ Moves(j, "send") /\ inFlight' = j.load
       \/ Failures /\ Moves(j, "keep") /\ UNCHANGED inFlight
    /\ UNCHANGED <<waiting, open, ask, runners, lastWake, dropped, told, again, noted,
                   JobRest>>

Send(j) ==
    /\ j.at = "send"
    /\ \/ /\ alive
          /\ jobs' = jobs \ {j}
          /\ open' = [open EXCEPT ![Main] = TRUE]
          /\ ask' = [ask EXCEPT ![Main] = FALSE]
          /\ Dispatched(j.load)
          /\ UNCHANGED inFlight
       \/ /\ ~alive \/ Failures
          /\ Moves(j, "keep")
          /\ inFlight' = {}
          /\ UNCHANGED <<open, ask, running, reading>>
    /\ UNCHANGED <<waiting, alive, lastWake, dropped, told, again, noted, JobRest>>

\* keep_for_later: the gate first ...
Keep(j) ==
    /\ j.at = "keep"
    /\ Moves(j, "restore")
    /\ open' = [open EXCEPT ![Main] = FALSE]
    /\ UNCHANGED <<waiting, inFlight, ask, runners, lastWake, dropped, told, again,
                   noted, JobRest>>

\* Variant: what came meanwhile is written over.
RestoreOver(j) ==
    /\ j.at = "restore"
    /\ jobs' = jobs \ {j}
    /\ LET kept == j.load \ Due(j.load)
       IN  /\ waiting' = {[w EXCEPT !.told = TRUE] : w \in Restored(kept)}
           /\ Returned(j.load)
           /\ Announced(kept)
    /\ UNCHANGED <<inFlight, open, ask, runners, dropped, JobRest>>

\* ... then due tasks are returned and the others wait for the next try.
Restore(j) ==
    /\ j.at = "restore"
    /\ jobs' = jobs \ {j}
    /\ LET kept == j.load \ Due(j.load)
       IN  /\ waiting' = waiting \cup {[w EXCEPT !.told = TRUE] : w \in Restored(kept)}
           /\ Returned(j.load)
           /\ Announced(kept)
    /\ UNCHANGED <<inFlight, open, ask, runners, dropped, JobRest>>

Deliver(j) == Check(j) \/ Ensure(j) \/ Flight(j) \/ Send(j) \/ Keep(j) \/ Restore(j)

-----------------------------------------------------------------------------
(* Around the store: runs, the user, exits and restarts.                   *)

Signal(kind, s) == signals' = Append(signals, [kind |-> kind, of |-> s])

\* A run ends: the watcher notes a question and last_exit, then signals.
EndRun(s, how) ==
    /\ s \in running
    /\ running' = running \ {s}
    /\ exit' = [exit EXCEPT ![s] = how]
    /\ ask' = [ask EXCEPT ![s] = how = "asked"]
    /\ Signal("run_complete", s)
    /\ reading' = IF s = Main THEN {} ELSE reading
    /\ heard' = IF s = Main /\ how # "failed" THEN heard \cup KeysOf(reading) ELSE heard
    /\ failed' = IF s = Main /\ how = "failed" THEN failed \cup KeysOf(reading) ELSE failed
    /\ UNCHANGED <<store, lookers, jobs, open, queued, alive, db, counts, dropped, told,
                   again, noted>>

\* A subtask is dispatched, sent back or answered.
StartSub(s) ==
    /\ s \in Subs \ left /\ ~open[s] /\ turn[s] < Runs
    /\ open' = [open EXCEPT ![s] = TRUE]
    /\ ask' = [ask EXCEPT ![s] = FALSE]
    /\ turn' = [turn EXCEPT ![s] = @ + 1]
    /\ running' = running \cup {s}
    /\ UNCHANGED <<store, lookers, jobs, exit, queued, alive, reading, signals, left,
                   fired, lastWake, cancelled, counts, history>>

\* The user writes in the main chat: at once, or into its queue.
UserSends ==
    /\ chats < Chats
    /\ chats' = chats + 1
    /\ IF MayDispatchNow
       THEN /\ open' = [open EXCEPT ![Main] = TRUE]
            /\ ask' = [ask EXCEPT ![Main] = FALSE]
            /\ alive' = TRUE
            /\ Dispatched({})
            /\ UNCHANGED queued
       ELSE /\ queued' = queued + 1
            /\ UNCHANGED <<open, ask, runners>>
    /\ UNCHANGED <<store, lookers, jobs, exit, signals, db, exits, crashes, history>>

\* A subtask is promoted or deleted; a task cancelled, or its to-do closed.
Leave(x) ==
    /\ Leaves
    /\ \/ x \in Subs /\ left' = left \cup {x} /\ UNCHANGED cancelled
       \/ x \in Tasks /\ cancelled' = cancelled \cup {x} /\ UNCHANGED left
    /\ UNCHANGED <<store, lookers, jobs, gates, runners, signals, turn, fired, lastWake,
                   counts, history>>

\* A runner process exits, in a run or between two.
RunnerExit(s) ==
    /\ exits < Exits /\ s \in Mortal
    /\ IF s = Main THEN alive ELSE turn[s] > 0
    /\ exits' = exits + 1
    /\ alive' = (alive /\ s # Main)
    /\ running' = running \ {s}
    /\ reading' = IF s = Main THEN {} ELSE reading
    /\ failed' = IF s = Main THEN failed \cup KeysOf(reading) ELSE failed
    /\ Signal("closed", s)
    /\ UNCHANGED <<store, lookers, jobs, gates, db, chats, crashes, heard, dropped, told,
                   again, noted>>

\* Core restarts: what is not in SQLite is gone.
Crash ==
    /\ crashes < Crashes
    /\ crashes' = crashes + 1
    /\ waiting' = {} /\ seen' = {} /\ inFlight' = {}
    /\ step' = [c \in Lookers |-> "idle"] /\ found' = [c \in Lookers |-> {}]
    /\ wakes' = FALSE /\ jobs' = {}
    /\ open' = [s \in Sessions |-> FALSE] /\ ask' = [s \in Sessions |-> FALSE]
    /\ exit' = [s \in Sessions |-> "none"] /\ queued' = 0
    /\ alive' = FALSE /\ running' = {} /\ reading' = {}
    /\ signals' = <<>>
    /\ told' = {} /\ again' = {}
    /\ UNCHANGED <<db, chats, exits, heard, failed, dropped, noted>>

Core == \/ RecordWakeRunEnd \/ QueueStep \/ TickHeld
        \/ \E s \in Subs : RecordRunEnd(s)
        \/ \E c \in Lookers : ReadPending(c) \/ AddPending(c) \/ Look(c)
        \/ \E j \in jobs : Deliver(j)

Around == \/ \E t \in Tasks : Fire(t)
          \/ \E x \in Tags \cup Subs : TagFails(x)
          \/ \E w \in waiting : BatchWait(w)
          \/ \E s \in Sessions : \/ RunnerExit(s)
                                 \/ \E how \in Ends :
                                        EndRun(s, how)
          \/ \E s \in Subs : StartSub(s)
          \/ \E x \in Subs \cup Tasks : Leave(x)
          \/ UserSends \/ Crash

Next == Core \/ Around

Spec == Init /\ [][Next]_vars

(* Fairness: tokio runs every task that can go on, the scheduler's loop    *)
(* ticks for ever but rests between two ticks, BATCH_WAIT_SECS pass, and a *)
(* run of the main chat ends (its steps are limited).  A subtask may hang: *)
(* what it calls need never return.  The user, the assistant and the clock *)
(* that makes a task due owe nothing.                                      *)
Fairness ==
    /\ SF_vars(RecordWakeRunEnd \/ QueueStep \/ \E s \in Subs : RecordRunEnd(s))
    /\ SF_vars("tick" \in Lookers /\ ReadPending("tick")) /\ WF_vars(TickHeld)
    /\ \A c \in Lookers : WF_vars(AddPending(c)) /\ SF_vars(Look(c))
    /\ WF_vars(\E j \in jobs : Deliver(j))
    /\ WF_vars(\E w \in waiting : BatchWait(w))
    /\ WF_vars(\E how \in Ends : EndRun(Main, how))

LiveSpec == Spec /\ Fairness

-----------------------------------------------------------------------------
(* Properties.                                                             *)

TypeStore   == /\ waiting \subseteq Waiting /\ inFlight \subseteq Waiting
               /\ seen \subseteq Keys
               /\ jobs \subseteq [at : Stages, load : SUBSET Waiting]
               /\ step \in [Lookers -> Steps] /\ found \in [Lookers -> SUBSET Reports]
               /\ wakes \in BOOLEAN
TypeGates   == /\ open \in [Sessions -> BOOLEAN] /\ ask \in [Sessions -> BOOLEAN]
               /\ exit \in [Sessions -> {"none", "done", "asked", "failed", "stopped"}]
               /\ queued \in Nat /\ alive \in BOOLEAN /\ running \subseteq Sessions
               /\ reading \subseteq Waiting
               /\ signals \in Seq([kind : {"run_complete", "closed"}, of : Sessions])
TypeDB      == /\ turn \in [Subs -> Nat] /\ left \subseteq Subs
               /\ fired \in [Tasks -> Nat] /\ cancelled \subseteq Tasks
               /\ lastWake \in [Tasks -> {"none", "pending", "delivered", "notified"}]
TypeHistory == /\ {chats, exits, crashes} \subseteq Nat
               /\ {heard, failed, dropped, told, again, noted} \subseteq SUBSET Keys

(* Every variable has its type.                                            *)
TypeOK == TypeStore /\ TypeGates /\ TypeDB /\ TypeHistory

Carried == UNION {j.load : j \in jobs}
Kept    == KeysOf(waiting \cup Carried \cup inFlight)
Newer(k) == \E l \in seen : l[1] = k[1] /\ l[2] > k[2]

(* A run's end that was recorded is never forgotten: its report waits, is  *)
(* carried or in flight, or a turn of the main chat read it, or the        *)
(* desktop was told instead, or it was worth nothing any more (the subtask *)
(* went on, left, or has a newer report).                                  *)
NothingForgotten == \A k \in seen :
    k[1] \notin Tasks => k \in Kept \cup heard \cup failed \cup told \cup dropped \/ Newer(k)

(* A fire still pending in the database that this process has recorded is  *)
(* still held in memory by somebody who will settle it.                    *)
PendingHeld == \A t \in Tasks :
    lastWake[t] = "pending" /\ t \notin cancelled /\ <<t, fired[t]>> \in seen
        => <<t, fired[t]>> \in Kept

\* The subtask was sent on or answered, promoted or deleted since; the fire
\* cancelled, settled or over.
ForCause(k) ==
    IF k[1] \in Tasks
    THEN k[1] \in cancelled \/ fired[k[1]] > k[2] \/ lastWake[k[1]] # "pending"
    ELSE k[1] \in left \/ (k[1] \in Subs /\ turn[k[1]] > k[2])

\* The run's end is recorded, its gate not closed yet.
EndUnderWay(k) ==
    /\ step["drain"] = "queue" /\ Head(signals).of = k[1]
    /\ k[1] \in Subs /\ open[k[1]] /\ turn[k[1]] = k[2]

(* Read again, a report is dropped only for cause, as the comment on       *)
(* still_due says.                                                         *)
SoundDrop == \A k \in dropped : ForCause(k)

(* A report is dropped for cause, or by a wake of another task that reads  *)
(* the gate of its run between the record of the run's end and the queue   *)
(* step that closes it: nothing else ever loses one.                       *)
DropsForCause ==
    [][ \A k \in dropped' \ dropped : ForCause(k) \/ EndUnderWay(k) ]_vars

(* A report is in one place at a time, so no two wakes ever carry it.      *)
OnePlace ==
    /\ \A i, j \in jobs : i # j => KeysOf(i.load) \cap KeysOf(j.load) = {}
    /\ KeysOf(Carried) \cap KeysOf(waiting) = {}
    /\ KeysOf(inFlight) \cap KeysOf(waiting) = {}
    /\ \A j \in jobs : j.at # "send" => KeysOf(j.load) \cap KeysOf(inFlight) = {}

(* The store, the wakes and their return to it between them: what was      *)
(* recorded is held, and held once.                                        *)
HeldOnce == NothingForgotten /\ OnePlace

(* The gate lets one wake through at a time.                               *)
OneWake == \A i, j \in jobs : i.at # "restore" /\ j.at # "restore" => i = j

(* A wake never takes the gate while a question of the main chat's waits:  *)
(* its message would be the answer.                                        *)
QuestionKept == \A c \in Lookers : step[c] = "take" => ~ask[Main]

(* The desktop is told at most once that a report was not delivered.       *)
ToldOnce == again = {}

(* A reminder the user was notified of was not also read by the assistant. *)
NoFalseAlarm == noted \cap (heard \cup KeysOf(reading)) = {}

(* A fire settled as delivered was read by a turn that did not fail.       *)
SettledTruly == \A t \in Tasks : lastWake[t] = "delivered" => <<t, fired[t]>> \in heard

(* What the database and the desktop say of a fire is what happened to it. *)
Truthful == NoFalseAlarm /\ SettledTruly

(* A wake never brings a report a turn of the main chat already ended on.  *)
NeverReread == [][ KeysOf(reading' \ reading) \cap (heard \cup failed) = {} ]_vars

(* A finished run's report is not carried alone while a subtask of its     *)
(* batch is still in its first run.                                        *)
Together == [][ \A j \in jobs' \ jobs :
                  j.at = "check" /\ (\A w \in j.load : w.held = "held")
                    => \A s \in Batch : turn[s] = 1 => ~StillRunning(s) ]_vars

(* Every pending fire is settled: delivered, notified, dropped or          *)
(* cancelled, since a wake that finds the main chat busy is asked for      *)
(* again by the next run signal (the comment in take_due).                 *)
FireSettles == \A t \in Tasks :
    (lastWake[t] = "pending") ~> (lastWake[t] # "pending" \/ t \in cancelled)

(* Every report leaves the store, unless a question holds the main chat.   *)
ReportsLeave == \A x \in Subs \cup Tags :
    (\E w \in waiting : w.rep.of = x)
        ~> (ask[Main] \/ \A w \in waiting : w.rep.of # x)
=============================================================================
