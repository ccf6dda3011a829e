---------------------------- MODULE MessageQueue ----------------------------
(***************************************************************************)
(* One session's outbound message queue and run gate: the state Core keeps *)
(* (runner_manager/queue.rs), the tasks that send into it (Core's send,    *)
(* socket session.send, a wake, the queue strip's jump and remove, stop),  *)
(* the single drain task, the per-runner watcher, and the runner process   *)
(* as Core sees it through its stdin and stdout.                           *)
(*                                                                         *)
(* The VecDeque of queued messages is held as a set `items` and its order  *)
(* relation `ahead` (<<m, n>> : m is nearer the front), which is canonical *)
(* and makes "who may overtake whom" a statement about pairs.              *)
(*                                                                         *)
(* Every lock acquisition, every write to the runner and every database    *)
(* write of a task is a step of its own: between two of them any other     *)
(* task may run.                                                           *)
(***************************************************************************)
EXTENDS Integers, Sequences, FiniteSets

CONSTANTS
    Msgs,       \* the messages ever offered to the session
    NoMsg,      \* "no run"
    Stops,      \* the abort commands that may be sent (each at most once)
    Exits,      \* how many runner processes may exit
    MainChat,   \* the session takes interjections (managed main chat)
    Failures,   \* database writes and runner writes may fail
    GateRace,   \* a run may report its end before its sender reopens the gate
    Paths       \* the send paths in use: GUI or phone text, socket text,
                \* socket --jump, message with images, wake of the main chat

ASSUME ConstantsAssumption ==
    /\ NoMsg \notin Msgs
    /\ Exits \in Nat
    /\ {MainChat, Failures, GateRace} \subseteq BOOLEAN
    /\ Paths \subseteq {"core", "socket", "--jump", "image", "wake"}

VARIABLES
    openRun, askPending, stopping,  \* SessionQueueState: the gate
    items, ahead, marked,           \* ... and the queue; marked = `interjected`
    pc, who, answer,                \* the task that carries each message
    handing,                        \* interject commands about to be written
    stops,                          \* the tasks that send abort
    rows,                           \* user rows in SQLite, per message
    pid, alive, stdin,              \* the runner process and its command pipe
    run, unread, taken, question,   \* ... and the bridge inside it
    events,                         \* per runner: stdout, not yet watched
    signals,                        \* RunSignal channel to the drain task
    seen, older, jumped,            \* history: queued ever, order queued, jumped
    opened, heard, rejected         \* history: what the runs were given

gate   == <<openRun, askPending, stopping>>
queue  == <<items, ahead, marked>>
tasks  == <<pc, who, answer>>
proc   == <<pid, alive>>
bridge == <<run, unread, taken, question>>
past   == <<seen, older, jumped>>
given  == <<opened, heard, rejected>>
vars   == <<gate, queue, tasks, handing, stops, rows, proc, stdin, bridge,
            events, signals, past, given>>

Pids      == 0 .. Exits + 1
Carriers  == {"nobody", "core", "image", "socket", "wake", "drain", "jump"}
Carrying  == {"check", "decide", "ensure", "persist", "write"}
PcValues  == {"new", "looked", "queued", "jumping", "removed", "over"}
                \cup Carrying \cup {"gate", "hand", "release"}
Commands  == [kind : {"user", "answer"}, msg : Msgs, ids : {{}}]
                \cup [kind : {"abort", "interject"}, msg : {NoMsg}, ids : SUBSET Msgs]
Events    == [kind : {"ask_user", "interject_delivered", "run_complete", "closed"},
              ids : SUBSET Msgs]
Handing   == [by : Carriers, msg : Msgs, ids : SUBSET Msgs]

Event(kind, ids)      == [kind |-> kind, ids |-> ids]
Command(kind, m, ids) == [kind |-> kind, msg |-> m, ids |-> ids]

-----------------------------------------------------------------------------
(* The rules of SessionQueueState and the moves of its VecDeque.           *)

\* Variant: forgets that a run is open.
DispatchWhenEmpty == items = {} \/ askPending

MayDispatchNow == ~openRun /\ (items = {} \/ askPending)
MayInterject   == openRun /\ ~stopping /\ items \subseteq marked

AtFront(m) == m \in items /\ \A n \in items \ {m} : <<m, n>> \in ahead

PushBack(m)  == /\ items' = items \cup {m}
                /\ ahead' = ahead \cup (items \X {m})
                /\ seen'  = seen \cup {m}
                /\ older' = older \cup (seen \X {m})
                /\ UNCHANGED jumped

\* Variants of the re-queueing: at the back, and not at all.
PushLast(m)  == /\ items' = items \cup {m}
                /\ ahead' = {p \in ahead : p[1] # m} \cup ((items \ {m}) \X {m})
PushNone(m)  == UNCHANGED <<items, ahead>>

PushFront(m) == /\ items' = items \cup {m}
                /\ ahead' = {p \in ahead : p[2] # m} \cup ({m} \X (items \ {m}))
Drop(S)      == /\ items' = items \ S
                /\ ahead' = {p \in ahead : p[1] \notin S /\ p[2] \notin S}

\* Variant: a popped message is sent without being stored.
SkipRow(w) == CASE w \in {"core", "image"}  -> "decide"
                [] w = "socket"             -> "ensure"
                [] w = "wake"               -> "check"
                [] OTHER                    -> "write"

FirstStep(w) == CASE w \in {"core", "image"}  -> "decide"
                  [] w = "socket"             -> "ensure"
                  [] w = "wake"               -> "check"
                  [] OTHER                    -> "persist"

\* The order in which each sender persists, ensures a runner and writes.
AfterEnsure(w)  == IF w \in {"core", "image"} THEN "write" ELSE "persist"
AfterPersist(w) == IF w \in {"core", "image"} THEN "ensure" ELSE "write"

Go(m, step)     == pc' = [pc EXCEPT ![m] = step]
Carry(m, w)     == who' = [who EXCEPT ![m] = w] /\ Go(m, FirstStep(w))

Init ==
    /\ openRun = FALSE /\ askPending = FALSE /\ stopping = FALSE
    /\ items = {} /\ ahead = {} /\ marked = {}
    /\ pc = [m \in Msgs |-> "new"] /\ who = [m \in Msgs |-> "nobody"]
    /\ answer = {} /\ handing = {}
    /\ stops = [a \in Stops |-> "idle"]
    /\ rows = [m \in Msgs |-> 0]
    /\ pid = 0 /\ alive = FALSE /\ stdin = <<>>
    /\ run = NoMsg /\ unread = {} /\ taken = {} /\ question = FALSE
    /\ events = [p \in Pids |-> <<>>] /\ signals = <<>>
    /\ seen = {} /\ older = {} /\ jumped = {}
    /\ opened = {} /\ heard = {} /\ rejected = {}

-----------------------------------------------------------------------------
(* Senders: the queue-or-dispatch decision, one lock acquisition.          *)

\* takes_interjections: a failed read of the session row says no.
Takes == IF MainChat THEN (IF Failures THEN BOOLEAN ELSE {TRUE}) ELSE {FALSE}

OfferDispatch(m, w) ==
    /\ MayDispatchNow
    /\ openRun' = TRUE
    /\ Carry(m, w)
    /\ UNCHANGED <<askPending, stopping, queue, handing, past>>

OfferQueue(m, w, interjected, step) ==
    /\ PushBack(m)
    /\ marked' = IF interjected THEN marked \cup {m} ELSE marked
    /\ handing' = IF interjected
                  THEN handing \cup {[by |-> w, msg |-> m, ids |-> {m}]}
                  ELSE handing
    /\ who' = [who EXCEPT ![m] = w]
    /\ Go(m, step)
    /\ UNCHANGED gate

\* A text message: queue_offer_interjection in the main chat, else queue_offer.
SendText(m, w) ==
    /\ pc[m] = "new"
    /\ \/ OfferDispatch(m, w)
       \/ \E takes \in Takes :
            /\ ~MayDispatchNow
            /\ OfferQueue(m, w, takes /\ MayInterject, "queued")
    /\ UNCHANGED <<answer, stops, rows, proc, stdin, bridge, events, signals, given>>

\* session.send --jump: a plain offer; once queued, its task jumps it.
SendJump(m) ==
    /\ pc[m] = "new"
    /\ \/ OfferDispatch(m, "socket")
       \/ ~MayDispatchNow /\ OfferQueue(m, "socket", FALSE, "jumping")
    /\ UNCHANGED <<answer, stops, rows, proc, stdin, bridge, events, signals, given>>

\* take_due: a wake looks for a pending question before it reserves.
WakeLook(m) ==
    /\ pc[m] = "new"
    /\ ~askPending
    /\ Go(m, "looked")
    /\ UNCHANGED <<gate, queue, who, answer, handing, stops, rows, proc, stdin,
                   bridge, events, signals, past, given>>

\* queue_try_reserve: a message with images, or a wake, reserves or backs off.
TryReserve(m, w) ==
    /\ pc[m] = (IF w = "wake" THEN "looked" ELSE "new")
    /\ \/ OfferDispatch(m, w)
       \/ /\ ~MayDispatchNow
          /\ who' = [who EXCEPT ![m] = w]
          /\ Go(m, "over")
          /\ UNCHANGED <<gate, queue, handing, past>>
    /\ UNCHANGED <<answer, stops, rows, proc, stdin, bridge, events, signals, given>>

(* queue_jump, from the queue strip (w = "jump") or from the task of a     *)
(* session.send --jump (w = "socket"); with a run open it asks for abort.  *)
Jump(m, w) ==
    /\ m \in items
    /\ w = "jump" \/ (w = "socket" /\ pc[m] = "jumping")
    /\ jumped' = jumped \cup {m}
    /\ \/ /\ openRun
          /\ \E a \in Stops : stops[a] = "idle" /\ stops' = [stops EXCEPT ![a] = "write"]
          /\ PushFront(m)
          /\ Go(m, IF w = "socket" THEN "queued" ELSE pc[m])
          /\ UNCHANGED <<gate, who, answer>>
       \/ /\ ~openRun
          /\ openRun' = TRUE
          /\ Drop({m})
          /\ Carry(m, w)
          /\ answer' = answer \ {m}
          /\ UNCHANGED <<askPending, stopping, stops>>
    /\ UNCHANGED <<marked, handing, rows, proc, stdin, bridge, events, signals,
                   seen, older, given>>

\* queue_remove.
Remove(m) ==
    /\ m \in items
    /\ Drop({m})
    /\ Go(m, "removed")
    /\ UNCHANGED <<gate, marked, who, answer, handing, stops, rows, proc, stdin,
                   bridge, events, signals, past, given>>

-----------------------------------------------------------------------------
(* The task that holds the gate, step by step.                             *)

TaskRest == <<queue, who, handing, stops, bridge, events, signals, past, given>>

\* deliver / still_due: a wake reads its reports again; none may be left.
Check(m) ==
    /\ pc[m] = "check"
    /\ \/ Go(m, "ensure")
       \/ Go(m, "release")
    /\ UNCHANGED <<gate, answer, rows, proc, stdin, TaskRest>>

\* send_reserved: a pending question makes this the answer; images refused.
Decide(m) ==
    /\ pc[m] = "decide"
    /\ \/ /\ ~(who[m] = "image" /\ askPending)
          /\ answer' = IF askPending THEN answer \cup {m} ELSE answer
          /\ Go(m, "persist")
       \/ /\ who[m] = "image" /\ (askPending \/ Failures)
          /\ Go(m, "release")
          /\ UNCHANGED answer
    /\ UNCHANGED <<gate, rows, proc, stdin, TaskRest>>

\* Variant: spawns over a live runner.
SpawnAnyway == pid' = pid + 1 /\ alive' = TRUE

SpawnRunner ==
    /\ ~alive
    /\ pid' = pid + 1
    /\ alive' = TRUE

\* ensure_session_runner with the gate held: a live runner is kept, a dead
\* one replaced; it may fail. A socket send without ensureRunner skips it.
Ensure(m) ==
    /\ pc[m] = "ensure"
    /\ \/ /\ SpawnRunner \/ ((alive \/ who[m] = "socket") /\ UNCHANGED proc)
          /\ Go(m, AfterEnsure(who[m]))
       \/ /\ ~alive /\ Failures /\ who[m] # "socket"
          /\ Go(m, "release")
          /\ UNCHANGED proc
    /\ UNCHANGED <<gate, answer, rows, stdin, TaskRest>>

\* The user row. A failed write re-queues what the queue gave out.
Persist(m) ==
    /\ pc[m] = "persist"
    /\ \/ /\ rows' = [rows EXCEPT ![m] = @ + 1]
          /\ Go(m, AfterPersist(who[m]))
          /\ UNCHANGED <<gate, queue>>
       \/ /\ Failures /\ who[m] \notin {"drain", "jump"}
          /\ Go(m, "release")
          /\ UNCHANGED <<gate, queue, rows>>
       \/ /\ Failures /\ who[m] \in {"drain", "jump"}
          /\ PushFront(m)
          /\ openRun' = FALSE
          /\ Go(m, "queued")
          /\ UNCHANGED <<askPending, stopping, marked, rows>>
    /\ UNCHANGED <<who, answer, handing, stops, proc, stdin, bridge, events,
                   signals, past, given>>

\* send_command_via, first half: the write to the runner's stdin.
Write(m) ==
    /\ pc[m] = "write"
    /\ \/ /\ alive
          /\ stdin' = Append(stdin, Command(IF m \in answer THEN "answer" ELSE "user",
                                            m, {}))
          /\ Go(m, "gate")
       \/ /\ ~alive \/ Failures
          /\ Go(m, "release")
          /\ UNCHANGED stdin
    /\ UNCHANGED <<gate, answer, rows, proc, TaskRest>>

\* Variant: the question stays pending after its answer was sent.
OpenGateKeepsAsk(m) ==
    /\ pc[m] = "gate"
    /\ openRun' = TRUE /\ stopping' = FALSE
    /\ Go(m, IF who[m] = "wake" THEN "over" ELSE "hand")
    /\ UNCHANGED <<askPending, answer, rows, proc, stdin, TaskRest>>

\* send_command_via, second half: after the write, under the queue lock.
OpenGate(m) ==
    /\ pc[m] = "gate"
    /\ openRun' = TRUE /\ askPending' = FALSE /\ stopping' = FALSE
    /\ Go(m, IF who[m] = "wake" THEN "over" ELSE "hand")
    /\ UNCHANGED <<answer, rows, proc, stdin, TaskRest>>

\* hand_over_queued: the snapshot of the interjections still queued.
HandOver(m) ==
    /\ pc[m] = "hand"
    /\ LET ids == items \cap marked
       IN  handing' = IF ids = {} THEN handing
                      ELSE handing \cup {[by |-> who[m], msg |-> m, ids |-> ids]}
    /\ Go(m, "over")
    /\ UNCHANGED <<gate, queue, who, answer, stops, rows, proc, stdin, bridge,
                   events, signals, past, given>>

\* Variant: the item goes back although it is stored.
ReleaseRequeues(m) ==
    /\ pc[m] = "release"
    /\ openRun' = FALSE
    /\ PushFront(m)
    /\ Go(m, "queued")
    /\ UNCHANGED <<askPending, stopping, marked, who, answer, handing, stops, rows,
                   proc, stdin, bridge, events, signals, past, given>>

\* queue_release_run after any failure.
Release(m) ==
    /\ pc[m] = "release"
    /\ openRun' = FALSE
    /\ Go(m, "over")
    /\ UNCHANGED <<askPending, stopping, answer, rows, proc, stdin, TaskRest>>

Task(m) == Check(m) \/ Decide(m) \/ Ensure(m) \/ Persist(m) \/ Write(m)
             \/ OpenGate(m) \/ HandOver(m) \/ Release(m)

\* interject::hand_over: best effort; a dead runner changes nothing.
WriteInterject(h) ==
    /\ h \in handing
    /\ handing' = handing \ {h}
    /\ \/ alive /\ stdin' = Append(stdin, Command("interject", NoMsg, h.ids))
       \/ (~alive \/ Failures) /\ UNCHANGED stdin
    /\ UNCHANGED <<gate, queue, tasks, stops, rows, proc, bridge, events,
                   signals, past, given>>

-----------------------------------------------------------------------------
(* Stopping a run: stop_session_run, and the abort of a jump.              *)

AgentRunning == \/ run # NoMsg
                \/ \E i \in DOMAIN events[pid] : events[pid][i].kind = "run_complete"

Stop(a) ==
    /\ stops[a] = "idle"
    /\ (openRun \/ AgentRunning) /\ alive
    /\ stops' = [stops EXCEPT ![a] = "write"]
    /\ UNCHANGED <<gate, queue, tasks, handing, rows, proc, stdin, bridge,
                   events, signals, past, given>>

AbortWrite(a) ==
    /\ stops[a] = "write"
    /\ \/ /\ alive
          /\ stdin' = Append(stdin, Command("abort", NoMsg, {}))
          /\ stops' = [stops EXCEPT ![a] = "mark"]
       \/ /\ ~alive \/ Failures
          /\ stops' = [stops EXCEPT ![a] = "done"]
          /\ UNCHANGED stdin
    /\ UNCHANGED <<gate, queue, tasks, handing, rows, proc, bridge, events,
                   signals, past, given>>

AbortMark(a) ==
    /\ stops[a] = "mark"
    /\ stopping' = TRUE
    /\ stops' = [stops EXCEPT ![a] = "done"]
    /\ UNCHANGED <<openRun, askPending, queue, tasks, handing, rows, proc, stdin,
                   bridge, events, signals, past, given>>

-----------------------------------------------------------------------------
(* The runner process, as far as Core can tell: commands in order from     *)
(* stdin, events in order to stdout, one run at a time.                    *)

Emit(new) == events' = [events EXCEPT ![pid] = @ \o new]

\* _return_unread_interjections, then run_complete, under one lock.
EndRun(new) ==
    /\ run' = NoMsg /\ unread' = {} /\ taken' = {}
    /\ Emit(Append(new, Event("run_complete", {})))

\* dispatch_command for user_message and ask_user_response: refused mid-run.
StartRun(cmd) ==
    /\ cmd.kind \in {"user", "answer"}
    /\ \/ /\ run = NoMsg
          /\ run' = cmd.msg /\ unread' = {} /\ taken' = {} /\ question' = FALSE
          /\ opened' = opened \cup {cmd.msg}
          /\ UNCHANGED rejected
       \/ /\ run # NoMsg
          /\ rejected' = rejected \cup {cmd.msg}
          /\ UNCHANGED <<bridge, opened>>
    /\ UNCHANGED <<events, heard>>

AbortRun(cmd) ==
    /\ cmd.kind = "abort"
    /\ \/ run # NoMsg /\ EndRun(<<>>)
       \/ run = NoMsg /\ UNCHANGED <<run, unread, taken, events>>
    /\ UNCHANGED <<question, given>>

\* _handle_interject: each id once per run; with no run it is handed back.
TakeInterject(cmd) ==
    /\ cmd.kind = "interject"
    /\ unread' = IF run # NoMsg THEN unread \cup (cmd.ids \ taken) ELSE unread
    /\ taken' = IF run # NoMsg THEN taken \cup cmd.ids ELSE taken
    /\ UNCHANGED <<run, question, events, given>>

BridgeCommand ==
    /\ alive /\ stdin # <<>>
    /\ StartRun(Head(stdin)) \/ AbortRun(Head(stdin)) \/ TakeInterject(Head(stdin))
    /\ stdin' = Tail(stdin)
    /\ UNCHANGED <<gate, queue, tasks, handing, stops, rows, proc, signals, past>>

\* A step after which the run goes on reads what was said meanwhile.
BridgeStep ==
    /\ alive /\ run # NoMsg /\ unread # {}
    /\ Emit(<<Event("interject_delivered", unread)>>)
    /\ heard' = heard \cup unread
    /\ unread' = {}
    /\ UNCHANGED <<gate, queue, tasks, handing, stops, rows, proc, stdin, run,
                   taken, question, signals, past, opened, rejected>>

\* The run's last step: an answer, a failure, or a question to the user.
BridgeFinish(ask) ==
    /\ alive /\ run # NoMsg
    /\ EndRun(IF ask THEN <<Event("ask_user", {})>> ELSE <<>>)
    /\ question' = ask
    /\ UNCHANGED <<gate, queue, tasks, handing, stops, rows, proc, stdin,
                   signals, past, given>>

\* The process exits: a crash, or an eviction by enforce_cap. What it wrote
\* is read to the end, then `closed`; what it had not read is lost.
RunnerExit ==
    /\ alive /\ pid <= Exits
    /\ alive' = FALSE
    /\ stdin' = <<>>
    /\ run' = NoMsg /\ unread' = {} /\ taken' = {} /\ question' = FALSE
    /\ Emit(<<Event("closed", {})>>)
    /\ UNCHANGED <<gate, queue, tasks, handing, stops, rows, pid, signals, past,
                   given>>

\* Somebody who sends nothing ensures a runner (opening the session, /btw).
OpenSession ==
    /\ SpawnRunner
    /\ UNCHANGED <<gate, queue, tasks, handing, stops, rows, stdin, bridge,
                   events, signals, past, given>>

-----------------------------------------------------------------------------
(* The watcher of each runner, and the drain task.                         *)

WatchAskUser(e) ==
    /\ e.kind = "ask_user"
    /\ askPending' = TRUE
    /\ UNCHANGED <<openRun, stopping, queue, tasks, rows, signals>>

\* Variant: what the run read is stored but stays queued.
DeliveredStays(e) ==
    /\ e.kind = "interject_delivered"
    /\ rows' = [m \in Msgs |-> rows[m] + IF m \in items \cap marked \cap e.ids
                                        THEN 1 ELSE 0]
    /\ UNCHANGED <<gate, queue, tasks, signals>>

\* take_interjections and persist_delivered; a failed write is only logged.
WatchDelivered(e) ==
    /\ e.kind = "interject_delivered"
    /\ LET read == items \cap marked \cap e.ids
       IN  /\ Drop(read)
           /\ pc' = [m \in Msgs |-> IF m \in read THEN "over" ELSE pc[m]]
           /\ \/ rows' = [m \in Msgs |-> rows[m] + IF m \in read THEN 1 ELSE 0]
              \/ Failures /\ read # {} /\ UNCHANGED rows
    /\ UNCHANGED <<gate, marked, who, answer, signals>>

\* Variants: the drain task is not told of a run's end; of an exit.
EndUntold(e) ==
    /\ e.kind \in {"run_complete", "closed"}
    /\ UNCHANGED <<gate, queue, tasks, rows, signals>>
ExitUntold(e) ==
    /\ e.kind \in {"run_complete", "closed"}
    /\ signals' = IF e.kind = "closed" THEN signals ELSE Append(signals, e.kind)
    /\ UNCHANGED <<gate, queue, tasks, rows>>

WatchEnd(e) ==
    /\ e.kind \in {"run_complete", "closed"}
    /\ signals' = Append(signals, e.kind)
    /\ UNCHANGED <<gate, queue, tasks, rows>>

Watch(p) ==
    /\ events[p] # <<>>
    /\ GateRace \/ \A m \in Msgs : pc[m] # "gate"
    /\ LET e == Head(events[p])
       IN  WatchAskUser(e) \/ WatchDelivered(e) \/ WatchEnd(e)
    /\ events' = [events EXCEPT ![p] = Tail(@)]
    /\ UNCHANGED <<handing, stops, proc, stdin, bridge, past, given>>

DrainIdle == /\ \A m \in Msgs : who[m] = "drain" => pc[m] \in {"queued", "removed", "over"}
             /\ \A h \in handing : h.by # "drain"

\* queue_take_next_item, then dispatch_queued_item as the task of the item.
TakeNext(m) ==
    /\ Head(signals) = "run_complete"
    /\ AtFront(m)
    /\ askPending => m \in marked
    /\ openRun' = TRUE
    /\ Drop({m})
    /\ Carry(m, "drain")
    /\ answer' = IF askPending THEN answer \cup {m} ELSE answer \ {m}

\* Variant: leaves the gate to whoever sends next.
TakeNothingKeepsGate ==
    /\ Head(signals) = "run_complete" =>
         \A m \in Msgs : AtFront(m) => askPending /\ m \notin marked
    /\ UNCHANGED <<openRun, items, ahead, tasks>>

TakeNothing ==
    /\ Head(signals) = "run_complete" =>
         \A m \in Msgs : AtFront(m) => askPending /\ m \notin marked
    /\ openRun' = FALSE
    /\ UNCHANGED <<items, ahead, tasks>>

Drain ==
    /\ signals # <<>>
    /\ DrainIdle
    /\ TakeNothing \/ \E m \in Msgs : TakeNext(m)
    /\ stopping' = FALSE
    /\ signals' = Tail(signals)
    /\ UNCHANGED <<askPending, marked, handing, stops, rows, proc, stdin, bridge,
                   events, past, given>>

-----------------------------------------------------------------------------
Send == \E m \in Msgs : \/ \E w \in Paths \cap {"core", "socket"} : SendText(m, w)
                        \/ "--jump" \in Paths /\ SendJump(m)
                        \/ "wake" \in Paths /\ WakeLook(m)
                        \/ \E w \in Paths \cap {"image", "wake"} : TryReserve(m, w)

UserActs == \/ \E m \in Msgs : Remove(m) \/ \E w \in {"jump", "socket"} : Jump(m, w)
            \/ \E a \in Stops : Stop(a) \/ AbortWrite(a) \/ AbortMark(a)

Bridge == BridgeCommand \/ BridgeStep \/ \E ask \in BOOLEAN : BridgeFinish(ask)

Steady == \/ Send \/ UserActs \/ Bridge \/ OpenSession \/ Drain
          \/ \E m \in Msgs : Task(m)
          \/ \E h \in handing : WriteInterject(h)
          \/ \E p \in Pids : Watch(p)

Next == Steady \/ RunnerExit

Spec == Init /\ [][Next]_vars

\* Without exits: the runner lives as long as the session is watched.
SteadySpec == Init /\ [][Steady]_vars

(* Fairness: tokio runs every ready task and drains every channel, the     *)
(* bridge reads its stdin, and a run that started ends (the engine's task  *)
(* always puts `done`, which closes the run if nothing else did). Users    *)
(* owe nothing.                                                            *)
Fairness ==
    /\ \A m \in Msgs : WF_vars(Task(m))
    /\ \A m \in Msgs : WF_vars(Jump(m, "socket"))
    /\ WF_vars(\E h \in handing : WriteInterject(h))
    /\ \A a \in Stops : WF_vars(AbortWrite(a) \/ AbortMark(a))
    /\ WF_vars(BridgeCommand)
    /\ WF_vars(\E ask \in BOOLEAN : BridgeFinish(ask))
    /\ \A p \in Pids : WF_vars(Watch(p))
    /\ WF_vars(Drain)

LiveSpec == Spec /\ Fairness

-----------------------------------------------------------------------------
(* What a sender is promised (Mailbox), as a function of this state.       *)

Fate == [m \in Msgs |->
    IF rows[m] > 0 THEN "stored"
    ELSE CASE pc[m] \in {"new", "looked"} -> "new"
           [] pc[m] = "removed" -> "removed"
           [] pc[m] = "over"    -> IF m \in heard THEN "heard" ELSE "refused"
           [] OTHER             -> IF m \in seen THEN "waiting" ELSE "sending"]

Line == {p \in older : Fate[p[1]] = "waiting" /\ Fate[p[2]] = "waiting"}

Mail == INSTANCE Mailbox WITH fate <- Fate, line <- Line,
                              hurried <- jumped, spoken <- marked

(* The queue keeps the mailbox's promise, step by step.                    *)
KeepsPromise == Mail!Spec

-----------------------------------------------------------------------------
(* Properties.                                                             *)

TypeQueue    == /\ {openRun, askPending, stopping} \subseteq BOOLEAN
                /\ items \subseteq Msgs /\ ahead \subseteq Msgs \X Msgs
                /\ marked \subseteq Msgs
TypeTasks    == /\ pc \in [Msgs -> PcValues] /\ who \in [Msgs -> Carriers]
                /\ answer \subseteq Msgs /\ handing \subseteq Handing
                /\ stops \in [Stops -> {"idle", "write", "mark", "done"}]
                /\ rows \in [Msgs -> Nat]
TypeRunner   == /\ pid \in Pids /\ alive \in BOOLEAN
                /\ run \in Msgs \cup {NoMsg} /\ question \in BOOLEAN
                /\ unread \subseteq Msgs /\ taken \subseteq Msgs
TypeChannels == /\ stdin \in Seq(Commands) /\ events \in [Pids -> Seq(Events)]
                /\ signals \in Seq({"run_complete", "closed"})
TypeHistory  == /\ seen \subseteq Msgs /\ older \subseteq Msgs \X Msgs
                /\ jumped \subseteq Msgs /\ opened \subseteq Msgs
                /\ heard \subseteq Msgs /\ rejected \subseteq Msgs

(* Every variable has its type; in particular no more runners are started  *)
(* than have exited, so a pid stays within bounds.                         *)
TypeOK == TypeQueue /\ TypeTasks /\ TypeRunner /\ TypeChannels /\ TypeHistory

(* No message is stored twice and nothing that still waits has a row,      *)
(* whoever pops, re-queues, delivers, jumps or removes it, and whatever    *)
(* fails or exits meanwhile.                                               *)
StoredOnce == \A m \in Msgs : rows[m] <= (IF m \in items THEN 0 ELSE 1)

(* A message told "queued" is never dropped: it waits, a task carries it,  *)
(* it is stored, a run read it, its owner removed it, or the socket send   *)
(* that jumped it answered with an error.                                  *)
NothingLost == \A m \in seen :
    \/ m \in items \/ rows[m] = 1 \/ m \in heard
    \/ pc[m] = "removed" \/ pc[m] \in Carrying
    \/ who[m] = "socket" /\ m \in jumped

(* An ordinary queued message is stored only after everything queued       *)
(* before it has left the queue for good (jumps apart): re-queueing after  *)
(* a failed write and offers made meanwhile never let it overtake.         *)
QueueOrder == \A p \in older :
    LET n == p[1]  m == p[2]
    IN  {n, m} \cap jumped = {} /\ m \notin marked /\ rows[m] = 1
            => n \notin items /\ ~(who[n] = "drain" /\ pc[n] = "persist")

(* The run gate is a mutual exclusion: at most one task is between its     *)
(* reservation and its write, and the bridge is never sent a message       *)
(* while a run is going.                                                   *)
OneRun ==
    /\ \A m, n \in Msgs : pc[m] \in Carrying /\ pc[n] \in Carrying => m = n
    /\ rejected = {}

(* An interjection a run reported as read is not sent again as a message   *)
(* of its own.                                                             *)
NoResend == [][ \A m \in heard : m \notin opened => m \notin opened' ]_vars

(* Each message is given to the engine once, as a run's opening message or *)
(* in the middle of one.                                                   *)
ReadOnce == opened \cap heard = {}

\* Somebody will close the gate: a task that holds it, or a run on its way.
Pending ==
    \/ \E m \in Msgs : pc[m] \in Carrying \cup {"gate", "release"}
    \/ \E i \in DOMAIN stdin : stdin[i].kind \in {"user", "answer"}
    \/ run # NoMsg
    \/ \E p \in Pids : \E i \in DOMAIN events[p] : events[p][i].kind \in {"run_complete", "closed"}
    \/ signals # <<>>

(* The gate is open only while a run is being started, is going, or has    *)
(* ended without the drain task knowing yet.                               *)
GateMeansRun == openRun => Pending

(* A message that waits, waits for a run to end or a question to be        *)
(* answered; nothing waits on an idle session.                             *)
NeverStrands == items # {} => openRun \/ askPending

(* The gate says neither too much nor too little.                          *)
GateHonest == GateMeansRun /\ NeverStrands

(* An answer is only ever written to a bridge whose last run asked.        *)
AnswersAsked == \A i \in DOMAIN stdin : stdin[i].kind = "answer" => question

(* A popped message is re-queued when the runner does not take it.         *)
RequeuedOnFailure == \A m \in Msgs :
    who[m] \in {"drain", "jump"} /\ pc[m] = "over" => m \in opened \cup heard

(* Every queued message eventually leaves the queue, unless a question     *)
(* holds the queue.                                                        *)
Drains == \A m \in Msgs : (m \in items) ~> (m \notin items \/ askPending)

(* The gate never stays open: however a runner exits, whoever fails.       *)
GateCloses == openRun ~> ~openRun
=============================================================================
