----------------------------- MODULE Transcript -----------------------------
(***************************************************************************)
(* The desktop page's copy of one conversation, the main chat's, and how   *)
(* it follows Core: src/gui/src/stores/messages.ts, mergeRestoredTurns.ts, *)
(* hooks/useMessageSend.ts, hooks/useSessionQueueEvents.ts and what        *)
(* lib/ipc-handlers.ts and stores/runtime/bridge-slice.ts do to it.  Core  *)
(* is reduced to what the page can tell: the rows it has written, its run  *)
(* gate and queue, and the order in which its tasks write, announce and    *)
(* answer.  MessageQueue.tla has the same Core in detail.                  *)
(*                                                                         *)
(* Core emits a runner's events to the page from one task and acts on them *)
(* (rows, queue, gate) from another: `emits` and `acts` are what each has  *)
(* still to do.  `wire` is what has left Core and not reached the page:    *)
(* events, and the answers to the page's commands and reads.               *)
(***************************************************************************)
EXTENDS Naturals, FiniteSets, SequencesExt

CONSTANTS
    Msgs,      \* user messages
    Own,       \* those this page sends; the others come from elsewhere
    History,   \* those of earlier launches, each with a reply of one step
    NoMsg,
    Steps,     \* steps a run may take
    Backlog,   \* runner events Core may still have to act on when a slow step ends
    Wire,      \* what may be on its way to the page when Core goes on
    Races,     \* the windows that are open, see below
    Cut,       \* what may cut in: see Cuts
    Most       \* how many of them in one behaviour

(***************************************************************************)
(*   "lag"       the emitting task may fall behind the acting one          *)
(*   "gap"       something may fall between a user row and its announcement*)
(*   "told"      a read may fall between the end of a step that told a     *)
(*               line reaching the page and its row                        *)
(*   "slow"      a step may end before what came before it was acted on    *)
(*               and shown, and before a send of the page reaches Core     *)
(*   "hasty"     the user may send again before the last echo was claimed  *)
(*   "overtake"  answers and events may overtake each other on the wire    *)
(*   "attach"    a run may go on while a reloaded page attaches to it      *)
(***************************************************************************)
Windows == {"lag", "gap", "told", "slow", "hasty", "overtake", "attach"}

\* What may cut in, once each: what the user, the model, the runner and the
\* webview do besides sending and answering, and a write or a read failing.
Cuts == {"stop", "jump", "delete", "tell", "exit", "reload", "fail"}

ASSUME TranscriptAssumption ==
    /\ Own \cup History \subseteq Msgs /\ Own \cap History = {}
    /\ IsFiniteSet(History)
    /\ NoMsg \notin Msgs
    /\ Races \subseteq Windows
    /\ Cut \subseteq Cuts /\ Most \in Nat
    /\ {Steps, Backlog, Wire} \subseteq Nat \ {0}

VARIABLES
    \* Core
    rows,     \* the conversation: every row written, in conversation order
    gone,     \* the rows deleted since
    midway,   \* messages written where a run read them
    gate,     \* the run gate
    run,      \* the run the runner has: its opener, its step, its phase
    halting,  \* an abort was written for it
    queue,    \* the session's queue
    pc,       \* where each message's send is
    lost,     \* messages whose send failed before their row
    \* between Core and the page
    emits, acts, wire,
    calls,    \* the page's other commands and reads, out and unanswered
    \* the page
    page, attach, found,
    passed,   \* a queued message jumped an interjection, which waits on
    cuts      \* what has cut in so far

core    == <<rows, gone, midway, gate, run, halting, queue, pc, lost>>
channel == <<emits, acts, wire, calls>>
reattach == <<attach, found>>
bounds  == <<passed, cuts>>
vars    == <<core, channel, page, reattach, bounds>>

-----------------------------------------------------------------------------
(* What is drawn: a message, a step of the run it opened, or a line told   *)
(* during that step.                                                       *)

Said(m)    == <<m, 0, "said">>
Step(m, k) == <<m, k, "step">>
Told(m, k) == <<m, k, "told">>
Rows       == {Said(m) : m \in Msgs}
              \cup {Step(m, k) : m \in Msgs, k \in 1..Steps}
              \cup {Told(m, k) : m \in Msgs, k \in 1..Steps}

Place(row) == CHOOSE i \in 1..Len(rows) : rows[i] = row
Written    == ToSet(rows)

\* The number of elements of s before the longest run of these positions at
\* its end.
Before(s, at) ==
    CHOOSE n \in 0..Len(s) : n + 1..Len(s) \subseteq at /\ n \notin at

\* s with x put after its first n elements.
PutAfter(s, n, x) == SubSeq(s, 1, n) \o <<x>> \o SubSeq(s, n + 1, Len(s))

\* The elements of s at these positions, in their order.
Picked(s, at) ==
    [k \in 1..Cardinality(at) |->
        s[CHOOSE i \in at : Cardinality({j \in at : j < i}) = k - 1]]

\* A turn the page draws.  `held`: it has a row's id; `own`: it is tagged
\* with a send of this page; `item`: it has a queue id; `inter`: it was
\* said while a run worked.
Turn(row) == [row |-> row, held |-> TRUE, own |-> FALSE, item |-> FALSE,
              inter |-> FALSE]

\* rowsToTurns: a user row inside a turn was said while a run worked.
Restored(row) == [Turn(row) EXCEPT !.inter = row[3] = "said" /\ row[1] \in midway]

Pending(t) == t.item /\ ~t.held

\* pendingInterjectionsStart: the turns before the interjections that wait.
AboveWaiting(turns) == Before(turns, {i \in DOMAIN turns : Pending(turns[i])})

-----------------------------------------------------------------------------
(* The page's own state, and the updates of stores/messages.ts: each maps  *)
(* the page's record to the next one.                                      *)

\* Entry of a page that has just loaded.
FreshPage ==
    [turns |-> <<>>, read |-> FALSE,
     earlier |-> 0,       \* where the oldest page read starts, 0 if nothing is before it
     running |-> FALSE, phase |-> "none", stopping |-> FALSE,
     owner |-> NoMsg,     \* optimisticRequestId
     bar |-> <<>>,        \* useQueueStore's snapshot, once there is one
     known |-> FALSE,
     opened |-> FALSE,    \* the session has been activated
     sends |-> {},        \* sends waiting for Core's answer
     listening |-> TRUE]  \* the runner's events reach this page

Asleep(p) == [p EXCEPT !.running = FALSE, !.phase = "none", !.stopping = FALSE]

PreDispatch(phase) == phase \in {"saving", "starting"}

\* appendUserTurn
Echo(p, m) ==
    [p EXCEPT !.turns = Append(@, [row |-> Said(m), held |-> FALSE, own |-> TRUE,
                                   item |-> FALSE, inter |-> FALSE]),
              !.running = TRUE, !.phase = "saving", !.stopping = FALSE,
              !.owner = m]

\* retractUserTurn
Retract(p, m) ==
    LET echoes == {i \in 1..Len(p.turns) :
                      /\ p.turns[i].row = Said(m)
                      /\ p.turns[i].own /\ ~p.turns[i].held}
        without == [p EXCEPT !.turns = RemoveAt(@, CHOOSE i \in echoes : TRUE)]
    IN IF echoes = {} THEN p
       ELSE IF p.owner = m THEN [Asleep(without) EXCEPT !.owner = NoMsg]
       ELSE without

\* isLatestRunTurn
LatestRunTurn(turns, i) ==
    \A j \in i + 1..Len(turns) :
        ~(turns[j].row[3] = "said" /\ ~turns[j].inter
          /\ (turns[j].held \/ turns[j].own))

\* withDispatch
WithDispatch(p, dispatch) ==
    CASE dispatch = "pending" ->
            [p EXCEPT !.running = TRUE,
                      !.phase = IF @ = "saving" THEN "starting" ELSE @]
      [] dispatch = "dispatched" ->
            IF p.running /\ PreDispatch(p.phase)
            THEN [p EXCEPT !.phase = "waiting"] ELSE p
      [] dispatch = "interjected" -> p
      [] dispatch = "persisted_only" -> Asleep(p)

\* Mutant: the dispatch itself becomes the phase.
OpenedAsPhase(p, dispatch) ==
    [p EXCEPT !.running = dispatch # "persisted_only", !.phase = dispatch,
              !.owner = NoMsg]

\* runOpenedBy
OpenedBy(p, dispatch) ==
    [p EXCEPT !.running = dispatch # "persisted_only",
              !.phase = CASE dispatch = "pending" -> "starting"
                          [] dispatch = "dispatched" -> "waiting"
                          [] OTHER -> "none",
              !.owner = NoMsg]

\* withLandedTurn
Landed(turns, t) == PutAfter(turns, AboveWaiting(turns), t)

\* Mutant: a step lands below the lines it told.
LandedBelow(turns, t) == Landed(turns, t)

\* withLandedStep: before the lines its own step told.
LandedStep(turns, t) ==
    LET upTo == SubSeq(turns, 1, AboveWaiting(turns))
        Line(u) == u.row[3] = "told" /\ u.row[2] = t.row[2]
    IN PutAfter(turns, Before(upTo, {i \in DOMAIN upTo : Line(upTo[i])}), t)

\* applyUserMessagePersisted, case by case: e is a broadcast (or a send's
\* own answer) for the row of e.msg.
Persisted(p, e) ==
    LET drawn  == {i \in DOMAIN p.turns : p.turns[i].row = Said(e.msg)}
        shown  == {i \in drawn : p.turns[i].held}
        queued == {i \in drawn : e.item /\ Pending(p.turns[i])}
        mine   == {i \in drawn : p.turns[i].own /\ ~p.turns[i].held}
        Claim(i, inter) == [p EXCEPT !.turns[i].held = TRUE, !.turns[i].inter = inter]
        turn   == [Turn(Said(e.msg)) EXCEPT !.inter = e.dispatch = "interjected"]
    IN IF shown # {} THEN
          IF \E i \in shown : LatestRunTurn(p.turns, i)
          THEN WithDispatch(p, e.dispatch) ELSE p
       ELSE IF queued # {} THEN
          LET i == CHOOSE i \in queued : TRUE IN
          IF e.dispatch = "interjected" THEN Claim(i, TRUE)
          ELSE OpenedBy(Claim(i, FALSE), e.dispatch)
       ELSE IF mine # {} THEN
          LET claimed == Claim(CHOOSE i \in mine : TRUE, FALSE) IN
          WithDispatch([claimed EXCEPT !.owner = IF @ = e.msg THEN NoMsg ELSE @],
                       e.dispatch)
       ELSE IF e.dispatch = "interjected" THEN [p EXCEPT !.turns = Landed(@, turn)]
       ELSE [OpenedBy(p, e.dispatch) EXCEPT !.turns = Append(@, turn)]

\* Mutant: an interjection already drawn is drawn again.
SyncAll(p, items) ==
    LET Inter(item) == item.inter
        fresh == Picked(items, {i \in DOMAIN items : Inter(items[i])})
    IN [p EXCEPT !.turns = @ \o
          [i \in 1..Len(fresh) |->
              [row |-> Said(fresh[i].msg), held |-> FALSE, own |-> FALSE,
               item |-> TRUE, inter |-> TRUE]]]

\* syncInterjections: the items marked `inter` that are not drawn yet.
SyncInterjections(p, items) ==
    LET drawn == {p.turns[i].row[1] : i \in {j \in 1..Len(p.turns) : p.turns[j].item}}
        Fresh(item) == item.inter /\ item.msg \notin drawn
        fresh == Picked(items, {i \in DOMAIN items : Fresh(items[i])})
    IN [p EXCEPT !.turns = @ \o
          [i \in 1..Len(fresh) |->
              [row |-> Said(fresh[i].msg), held |-> FALSE, own |-> FALSE,
               item |-> TRUE, inter |-> TRUE]]]

\* mergeRestoredTurns: the page read, with the turns already drawn merged in.
Merge(restored, live) ==
    LET At(j)    == {i \in DOMAIN restored :
                        live[j].held /\ restored[i].row = live[j].row}
        matched  == {j \in DOMAIN live : At(j) # {}}
        last     == IF matched = {} THEN 0 ELSE Max(matched)
        \* Turns without a row between live turn j and the match before it.
        Loose(j) == Picked(live, {l \in 1..j - 1 :
                        ~live[l].held /\ \A o \in matched : o < j => o < l})
        Drawn(i) == LET js == {j \in matched : i \in At(j)}
                        j  == CHOOSE j \in js : TRUE
                    IN IF js = {} THEN <<restored[i]>> ELSE Append(Loose(j), live[j])
    IN FlattenSeq([i \in DOMAIN restored |-> Drawn(i)])
       \o SubSeq(live, last + 1, Len(live))

\* What restoreSessionTurns does with the page it read.
Restore(p, answer) ==
    IF answer.failed THEN p
    ELSE IF answer.rows = <<>> THEN [p EXCEPT !.read = TRUE]
    ELSE [p EXCEPT !.turns = Merge(answer.rows, @),
                   !.earlier = answer.earlier, !.read = TRUE]

\* What loadEarlierTurns does with the page before.
PutEarlier(p, answer) ==
    IF answer.failed \/ p.earlier # answer.asked THEN p
    ELSE [p EXCEPT !.turns = answer.rows \o @,
                   !.earlier = IF answer.earlier < answer.asked
                               THEN answer.earlier ELSE 0]

\* setAgentRunning
SetRunning(p, b) ==
    [p EXCEPT !.running = b, !.phase = IF b THEN @ ELSE "none",
              !.stopping = b /\ @]

\* Mutant: a send that has not reached a run yet is idled too.
SettleAll(p) == SetRunning([p EXCEPT !.stopping = FALSE], FALSE)

\* settleStoppedRun
SettleStopped(p) ==
    IF PreDispatch(p.phase) THEN [p EXCEPT !.stopping = FALSE]
    ELSE SetRunning([p EXCEPT !.stopping = FALSE], FALSE)

\* applyMessagesDeleted
DropDeleted(p, ids) ==
    LET kept == {i \in DOMAIN p.turns : ~(p.turns[i].held /\ p.turns[i].row \in ids)}
    IN [p EXCEPT !.turns = Picked(@, kept)]

-----------------------------------------------------------------------------
(* Core, as far as a page can tell.                                        *)

NoRun == [of |-> NoMsg, step |-> 0, told |-> FALSE]

Open(window) == window \in Races

\* Between a user row and its announcement, or a dispatch and its.
MidSend == \E m \in Msgs : pc[m] \in {"saved", "drained", "written", "taken"}

\* Without "attach", Core does nothing while a reloaded page attaches.
Awake == attach = "none" \/ Open("attach")

UserEvent(m, item, dispatch) ==
    [kind |-> "user", msg |-> m, item |-> item, dispatch |-> dispatch]
QueueEvent(q) == [kind |-> "queue", items |-> q]
Answer(m, outcome) ==
    IF m \in Own THEN <<[kind |-> "sent", msg |-> m, outcome |-> outcome]>> ELSE <<>>

OfRunner(e) == e.kind \in {"turn_end", "tell_user", "run_complete", "closed"}

Announce(events) == wire' = wire \o events
Silent == UNCHANGED wire
Reports(event) == emits' = Append(emits, event) /\ acts' = Append(acts, event)
Go(m, step) == pc' = [pc EXCEPT ![m] = step]

\* may_interject
MayInterject == gate /\ ~halting /\ \A i \in 1..Len(queue) : queue[i].inter

Reached(m) == pc[m] = (IF m \in Own THEN "sent" ELSE "new")

\* queue_offer_interjection, the queue's side.
Enqueue(m) ==
    /\ Reached(m)
    /\ gate \/ queue # <<>>
    /\ Open("gap") \/ ~MidSend
    /\ queue' = Append(queue, [msg |-> m, inter |-> MayInterject])
    /\ Go(m, "over")
    /\ Announce(<<QueueEvent(queue')>>
                \o Answer(m, IF MayInterject THEN "interjected" ELSE "queued"))
    /\ UNCHANGED <<rows, gone, midway, gate, run, halting, lost, emits, acts>>

\* ... and its dispatch: the gate is reserved and the row written, or not.
Reserve(m) ==
    /\ Reached(m)
    /\ ~gate /\ queue = <<>>
    /\ gate' = TRUE
    /\ rows' = Append(rows, Said(m))
    /\ Go(m, "saved")
    /\ Silent
    /\ UNCHANGED <<gone, midway, run, halting, queue, lost, emits, acts>>

RowFails(m) ==
    /\ Reached(m)
    /\ ~gate /\ queue = <<>>
    /\ lost' = lost \cup {m}
    /\ Go(m, "over")
    /\ Announce(Answer(m, "failed"))
    /\ UNCHANGED <<rows, gone, midway, gate, run, halting, queue, emits, acts>>

\* send_reserved: `pending` once the row is there.
AnnouncePending(m) ==
    /\ pc[m] = "saved"
    /\ Go(m, "pending")
    /\ Announce(<<UserEvent(m, FALSE, "pending")>>)
    /\ UNCHANGED <<rows, gone, midway, gate, run, halting, queue, lost, emits, acts>>

\* The write to the runner, of a send or of what the drain popped.
Write(m) ==
    /\ pc[m] \in {"pending", "drained"}
    /\ run' = [NoRun EXCEPT !.of = m]
    /\ halting' = FALSE
    /\ Go(m, IF pc[m] = "drained" THEN "taken" ELSE "written")
    /\ Silent
    /\ UNCHANGED <<rows, gone, midway, gate, queue, lost, emits, acts>>

WriteFails(m) ==
    /\ pc[m] \in {"pending", "drained"}
    /\ gate' = FALSE
    /\ Go(m, "over")
    /\ Announce(IF pc[m] = "drained"
                THEN <<UserEvent(m, TRUE, "persisted_only"), QueueEvent(queue)>>
                ELSE <<UserEvent(m, FALSE, "persisted_only")>> \o Answer(m, "failed"))
    /\ UNCHANGED <<rows, gone, midway, run, halting, queue, lost, emits, acts>>

AnnounceDispatched(m) ==
    /\ pc[m] \in {"written", "taken"}
    /\ Go(m, "over")
    /\ Announce(IF pc[m] = "taken"
                THEN <<UserEvent(m, TRUE, "dispatched"), QueueEvent(queue)>>
                ELSE <<UserEvent(m, FALSE, "dispatched")>> \o Answer(m, "dispatched"))
    /\ UNCHANGED <<rows, gone, midway, gate, run, halting, queue, lost, emits, acts>>

Send(m) == Enqueue(m) \/ Reserve(m) \/ AnnouncePending(m) \/ Write(m)
             \/ AnnounceDispatched(m)

-----------------------------------------------------------------------------
(* The runner, and the two tasks that follow it.                           *)

\* Its first event comes after the announcement, unless "gap" is open.
Working == /\ run.of # NoMsg
           /\ Open("gap") \/ pc[run.of] = "over"

\* A model call takes longer than a write, an event or a command.
Settled == IF Open("slow") THEN Len(acts) < Backlog
           ELSE /\ acts = <<>>
                /\ \A i \in 1..Len(wire) : ~OfRunner(wire[i]) /\ wire[i].kind # "user"
                /\ \A m \in Own : pc[m] # "sent"

RunnerRest == <<rows, gone, midway, gate, halting, queue, pc, lost, wire>>

TellLine ==
    /\ Working /\ Settled /\ ~run.told /\ run.step < Steps
    /\ Reports([kind |-> "tell_user", row |-> Told(run.of, run.step + 1)])
    /\ run' = [run EXCEPT !.told = TRUE]
    /\ UNCHANGED RunnerRest

\* A step's end, and what its end read of what was said meanwhile.
EndStep ==
    /\ Working /\ Settled /\ run.step < Steps
    /\ LET end  == [kind |-> "turn_end", row |-> Step(run.of, run.step + 1)]
           said == {i \in DOMAIN queue : queue[i].inter}
           Read == [kind |-> "interject_delivered", msg |-> queue[Min(said)].msg]
       IN \E new \in {<<end>>} \cup (IF said = {} THEN {} ELSE {<<end, Read>>}) :
             emits' = emits \o new /\ acts' = acts \o new
    /\ run' = [run EXCEPT !.step = @ + 1, !.told = FALSE]
    /\ UNCHANGED RunnerRest

\* At once after the last step's end, or after a call that was stopped.
Complete ==
    /\ Working
    /\ (run.step > 0 /\ ~run.told) \/ Settled
    /\ Reports([kind |-> "run_complete"])
    /\ run' = NoRun
    /\ UNCHANGED RunnerRest

Exit ==
    /\ Working /\ Settled
    /\ Reports([kind |-> "closed"])
    /\ run' = NoRun
    /\ UNCHANGED RunnerRest

\* spawn_emit_task: the next event leaves for the page, which takes what
\* Core alone acts on as nothing.
Emit ==
    /\ emits # <<>>
    /\ emits' = Tail(emits)
    /\ IF Head(emits).kind = "interject_delivered" THEN Silent
       ELSE Announce(<<Head(emits)>>)
    /\ UNCHANGED <<core, acts>>

ActRow(e) ==
    /\ e.kind \in {"turn_end", "tell_user"}
    /\ LET Line(r) == r[3] = "told" /\ r[1] = e.row[1] /\ r[2] = e.row[2]
           lines == {i \in DOMAIN rows : Line(rows[i])}
       IN rows' = IF e.kind = "turn_end" THEN PutAfter(rows, Before(rows, lines), e.row)
                  ELSE Append(rows, e.row)
    /\ Silent
    /\ UNCHANGED <<midway, gate, halting, queue, pc>>

\* take_interjections and persist_delivered.
ActRead(e) ==
    /\ e.kind = "interject_delivered"
    /\ LET others == {i \in DOMAIN queue : queue[i].msg # e.msg}
       IN IF others # DOMAIN queue
          THEN /\ queue' = Picked(queue, others)
               /\ rows' = Append(rows, Said(e.msg))
               /\ midway' = midway \cup {e.msg}
               /\ Announce(<<UserEvent(e.msg, TRUE, "interjected"), QueueEvent(queue')>>)
          ELSE Silent /\ UNCHANGED <<queue, rows, midway>>
    /\ UNCHANGED <<gate, halting, pc>>

\* queue_take_next_item and the row of what it popped; a crash pops nothing.
ActEnd(e) ==
    /\ e.kind \in {"run_complete", "closed"}
    /\ halting' = FALSE
    /\ IF e.kind = "closed" \/ queue = <<>>
       THEN gate' = FALSE /\ UNCHANGED <<rows, queue, pc>>
       ELSE /\ queue' = Tail(queue)
            /\ rows' = Append(rows, Said(Head(queue).msg))
            /\ Go(Head(queue).msg, "drained")
            /\ UNCHANGED gate
    /\ Silent
    /\ UNCHANGED midway

\* The watcher: rows, queue and gate.
Act ==
    /\ acts # <<>>
    /\ Open("lag") \/ Len(emits) < Len(acts)
    /\ ActRow(Head(acts)) \/ ActRead(Head(acts)) \/ ActEnd(Head(acts))
    /\ acts' = Tail(acts)
    /\ UNCHANGED <<gone, run, lost, emits>>

-----------------------------------------------------------------------------
(* A jump from the queue bar, a deletion, and what the page asks Core.     *)

\* The bar shows no interjection; a jump puts one item before all the rest.

Jump(i) ==
    /\ ~queue[i].inter
    /\ LET item == queue[i]
           rest == RemoveAt(queue, i)
       IN IF gate
          THEN /\ queue' = <<item>> \o rest
               /\ halting' = TRUE
               /\ Announce(<<QueueEvent(queue')>>)
               /\ UNCHANGED <<rows, gate, pc>>
          ELSE /\ queue' = rest
               /\ gate' = TRUE
               /\ rows' = Append(rows, Said(item.msg))
               /\ Go(item.msg, "drained")
               /\ Silent
               /\ UNCHANGED halting
    /\ UNCHANGED <<gone, midway, run, lost, emits, acts>>

Passes(i) == passed' = (passed \/ \E j \in 1..i - 1 : queue[j].inter)

\* delete_main_chat_message: a user row, a told line, or a run's steps.
Units == {{r} : r \in {s \in Rows : s[3] # "step"}}
         \cup {{Step(m, k) : k \in 1..Steps} : m \in Msgs}

Delete(unit) ==
    /\ ~gate
    /\ LET doomed == (unit \cap Written) \ gone
       IN /\ doomed # {}
          /\ gone' = gone \cup doomed
          /\ Announce(<<[kind |-> "deleted", rows |-> doomed]>>)
    /\ UNCHANGED <<rows, midway, gate, run, halting, queue, pc, lost, emits, acts>>

\* persisted_message_turns_page: as many turns before row `end` as this
\* launch has, at least one, and on to where the oldest one's run opens.
TurnsPage(kind, end) ==
    LET visible == {i \in 1..end - 1 : rows[i] \notin gone}
        recent  == {i \in visible : rows[i][1] \notin History}
        oldest  == IF recent # {} THEN Min(recent) ELSE Max(visible)
        openers == {i \in visible : /\ i <= oldest
                                    /\ rows[i][3] = "said" /\ rows[i][1] \notin midway}
        from == IF visible = {} THEN end
                ELSE IF openers # {} THEN Max(openers) ELSE Min(visible)
        part == Picked(rows, {i \in visible : i >= from})
    IN [kind |-> kind, failed |-> FALSE, asked |-> end,
        rows |-> [i \in 1..Len(part) |-> Restored(part[i])],
        earlier |-> IF \E i \in visible : i < from THEN from ELSE 0]

Answered(call) == calls' = calls \ {call}
CoreRest == <<core, emits, acts>>

\* What the page may have heard of and Core not acted on.
Ahead == {acts[i] : i \in 1..Len(acts) - Len(emits)}
ToldAhead == \E e \in Ahead : e.kind = "turn_end" /\ Told(e.row[1], e.row[2]) \in Written

ReadLatest ==
    /\ "page" \in calls
    /\ Open("gap") \/ ~MidSend
    /\ Open("told") \/ ~ToldAhead
    /\ Announce(<<TurnsPage("page", Len(rows) + 1)>>)
    /\ Answered("page")
    /\ UNCHANGED CoreRest

ReadEarlier ==
    /\ "earlier" \in calls
    /\ Announce(<<TurnsPage("earlier", page.earlier)>>)
    /\ Answered("earlier")
    /\ UNCHANGED CoreRest

ReadQueue ==
    /\ "queue" \in calls
    /\ Open("gap") \/ ~MidSend
    /\ Announce(<<[kind |-> "snapshot", failed |-> FALSE, items |-> queue]>>)
    /\ Answered("queue")
    /\ UNCHANGED CoreRest

\* The database or the queue cannot be read.
ReadFails(call) ==
    /\ call \in calls
    /\ Announce(<<[kind |-> IF call = "queue" THEN "snapshot" ELSE call, failed |-> TRUE]>>)
    /\ Answered(call)
    /\ UNCHANGED CoreRest

\* A runner may not be there: before the write that found it, after an exit.
MayBeDown ==
    \/ \E m \in Msgs : pc[m] \in {"saved", "pending"}
    \/ \E i \in 1..Len(acts) : acts[i].kind = "closed"

\* stop_session_run
AnswerStop ==
    /\ "stop" \in calls
    /\ \E sent \in BOOLEAN :
          /\ sent => gate
          /\ ~sent => ~gate \/ MayBeDown
          /\ Announce(<<[kind |-> "stopped",
                        dispatch |-> IF sent THEN "abort_sent" ELSE "already_stopped"]>>)
          /\ halting' = (halting \/ sent)
    /\ Answered("stop")
    /\ UNCHANGED <<rows, gone, midway, gate, run, queue, pc, lost, emits, acts>>

\* Its command cannot be written, and the run goes on.
StopFails ==
    /\ "stop" \in calls /\ "fail" \in Cut
    /\ Announce(<<[kind |-> "stopped", dispatch |-> "failed"]>>)
    /\ Answered("stop")
    /\ UNCHANGED CoreRest

\* list_live_runners, for a page that has reloaded.
ListRunners ==
    /\ "live" \in calls
    /\ Announce(<<[kind |-> "live", runOpen |-> gate]>>)
    /\ Answered("live")
    /\ UNCHANGED CoreRest

-----------------------------------------------------------------------------
(* The page.                                                               *)

Ask(call) == calls' = calls \cup {call}
CutsIn(what) ==
    /\ what \in Cut \ cuts /\ Cardinality(cuts \ {"jump"}) < Most
    /\ cuts' = cuts \cup {what}
Plain == UNCHANGED bounds

Unclaimed == \E i \in 1..Len(page.turns) :
                LET t == page.turns[i] IN t.own /\ ~t.held /\ t.row[1] \in page.sends

\* sendThroughCore: no echo while a run shows as open.
Submit(m) ==
    /\ pc[m] = "new" /\ m \in Own
    /\ attach = "none"
    /\ Open("hasty") \/ ~Unclaimed
    /\ page' = [(IF page.running \/ page.stopping THEN page ELSE Echo(page, m))
                EXCEPT !.sends = @ \cup {m}]
    /\ Go(m, "sent")
    /\ UNCHANGED <<rows, gone, midway, gate, run, halting, queue, lost,
                   channel, reattach, bounds>>

\* stopRun
AskStop ==
    /\ page.running /\ ~page.stopping
    /\ CutsIn("stop")
    /\ page' = [page EXCEPT !.stopping = TRUE]
    /\ Ask("stop")
    /\ UNCHANGED <<core, emits, acts, wire, reattach, passed>>

Asked(call, kind) ==
    call \in calls \/ \E i \in 1..Len(wire) : wire[i].kind = kind

\* activateSession: the queue's snapshot, and the turns unless read.
Activate ==
    /\ ~(page.opened /\ page.read)
    /\ ~Asked("page", "page") /\ ~Asked("queue", "snapshot")
    /\ page' = [page EXCEPT !.opened = TRUE]
    /\ calls' = calls \cup {"queue"} \cup (IF page.read THEN {} ELSE {"page"})
    /\ UNCHANGED <<core, emits, acts, wire, reattach, bounds>>

\* loadEarlierTurns
LoadEarlier ==
    /\ page.earlier > 0 /\ ~Asked("earlier", "earlier")
    /\ Ask("earlier")
    /\ UNCHANGED <<core, emits, acts, wire, page, reattach, bounds>>

\* The webview reloads: all that was on its way to the old page is lost.
Reload ==
    /\ Open("attach") \/ (acts = <<>> /\ \A m \in Msgs : pc[m] \in {"new", "sent", "over"})
    /\ CutsIn("reload")
    /\ page' = [FreshPage EXCEPT !.listening = FALSE]
    /\ attach' = "asked" /\ found' = FALSE
    /\ wire' = <<>>
    /\ calls' = (calls \cap {"stop"}) \cup {"live"}
    /\ UNCHANGED <<core, emits, acts, passed>>

\* _attachLive once the answer is there; its restore is shared with Activate's.
AttachLive(runOpen) ==
    /\ found' = runOpen
    /\ IF runOpen /\ ~page.read
       THEN attach' = "reading" /\ (IF Asked("page", "page") THEN UNCHANGED calls ELSE Ask("page"))
       ELSE attach' = "listening" /\ UNCHANGED calls

\* attachExternalBridge's listeners are up.
ListenUp ==
    /\ attach = "listening"
    /\ page' = [(IF found THEN SetRunning(page, TRUE) ELSE page) EXCEPT !.listening = TRUE]
    /\ attach' = "none"
    /\ UNCHANGED <<core, channel, found, bounds>>

\* The settling of a send: sendThroughCore, and reportUserSendFailure.
Settle(p, e) ==
    LET q == [p EXCEPT !.sends = @ \ {e.msg}]
    IN IF e.msg \notin p.sends THEN p
       ELSE CASE e.outcome = "dispatched" -> Persisted(q, UserEvent(e.msg, FALSE, "dispatched"))
              [] e.outcome = "failed"     -> SetRunning(q, FALSE)
              [] OTHER                    -> Retract(q, e.msg)

Shown(p, items) ==
    SyncInterjections([p EXCEPT !.bar = items, !.known = TRUE], items)

\* stopRun's answer; a stop that failed unlocks the button.
HearStop(p, dispatch) ==
    CASE dispatch = "already_stopped" -> SettleStopped(p)
      [] dispatch = "failed"          -> [p EXCEPT !.stopping = FALSE]
      [] OTHER                        -> p

\* dispatchIPCEvent, the event listeners and the answers, by kind.
Handled(p, e) ==
    IF OfRunner(e) /\ ~p.listening THEN p ELSE
    CASE e.kind = "turn_end"          -> [p EXCEPT !.turns = LandedStep(@, Turn(e.row)),
                                                   !.phase = "none"]
      [] e.kind = "tell_user"         -> [p EXCEPT !.turns = Landed(@, Turn(e.row))]
      [] e.kind = "run_complete"      -> SetRunning(p, FALSE)
      [] e.kind = "closed"            -> Asleep(p)
      [] e.kind = "user"              -> Persisted(p, e)
      [] e.kind = "queue"             -> Shown(p, e.items)
      [] e.kind = "deleted"           -> DropDeleted(p, e.rows)
      [] e.kind = "sent"              -> Settle(p, e)
      [] e.kind = "page"              -> Restore(p, e)
      [] e.kind = "earlier"           -> PutEarlier(p, e)
      [] e.kind = "snapshot"          -> IF e.failed THEN p ELSE Shown(p, e.items)
      [] e.kind = "stopped"           -> HearStop(p, e.dispatch)
      [] e.kind = "live"              -> p

IsAnswer(e) == e.kind \in {"sent", "page", "earlier", "snapshot", "stopped", "live"}

\* Events arrive in order, and so do answers; with "overtake", not both together.
Arrives(i) ==
    \/ i = 1
    \/ /\ Open("overtake")
       /\ \A j \in 1..i - 1 : IsAnswer(wire[j]) # IsAnswer(wire[i])

Receive(i) ==
    /\ Arrives(i)
    /\ LET e == wire[i]
       IN /\ page' = Handled(page, e)
          /\ wire' = RemoveAt(wire, i)
          /\ IF e.kind = "live" THEN AttachLive(e.runOpen)
             ELSE /\ attach' = IF e.kind = "page" /\ attach = "reading" THEN "listening"
                               ELSE attach
                  /\ UNCHANGED <<found, calls>>
    /\ UNCHANGED <<core, emits, acts, bounds>>

-----------------------------------------------------------------------------
Init ==
    /\ LET past == SetToSeq(History)
       IN rows = FlattenSeq([i \in 1..Len(past) |-> <<Said(past[i]), Step(past[i], 1)>>])
    /\ gone = {} /\ midway = {} /\ gate = FALSE /\ run = NoRun
    /\ halting = FALSE /\ queue = <<>> /\ lost = {}
    /\ pc = [m \in Msgs |-> IF m \in History THEN "over" ELSE "new"]
    /\ emits = <<>> /\ acts = <<>> /\ wire = <<>> /\ calls = {}
    /\ page = FreshPage /\ attach = "none" /\ found = FALSE
    /\ passed = FALSE /\ cuts = {}

Ours == UNCHANGED <<page, reattach, calls>>

Room == Len(wire) < Wire
Keeps == UNCHANGED passed

CoreStep ==
    /\ Awake /\ Room /\ Ours
    /\ \/ Plain /\ (\E m \in Msgs : Send(m))
       \/ Plain /\ (EndStep \/ Complete \/ Emit \/ Act)
       \/ CutsIn("fail") /\ Keeps /\ \E m \in Msgs : RowFails(m) \/ WriteFails(m)
       \/ CutsIn("tell") /\ Keeps /\ TellLine
       \/ CutsIn("exit") /\ Keeps /\ Exit
       \/ CutsIn("jump") /\ \E i \in 1..Len(queue) : Jump(i) /\ Passes(i)
       \/ CutsIn("delete") /\ Keeps /\ \E unit \in Units : Delete(unit)

CoreAnswer ==
    /\ Room /\ Plain
    /\ ReadLatest \/ ReadEarlier \/ ReadQueue \/ AnswerStop \/ StopFails \/ ListRunners
    /\ UNCHANGED <<page, reattach>>

CoreFails ==
    /\ Room /\ CutsIn("fail") /\ Keeps
    /\ \E call \in {"page", "earlier", "queue"} : ReadFails(call)
    /\ UNCHANGED <<page, reattach>>

PageStep ==
    \/ \E m \in Own : Submit(m)
    \/ AskStop \/ Activate \/ LoadEarlier \/ Reload \/ ListenUp
    \/ \E i \in 1..Len(wire) : Receive(i)

-----------------------------------------------------------------------------
Next == CoreStep \/ CoreAnswer \/ CoreFails \/ PageStep
Spec == Init /\ [][Next]_vars

-----------------------------------------------------------------------------
Phases  == {"none", "saving", "starting", "waiting"}

\* Core's state and the page's have their shape; a turn drawn names a row.
TypeOK ==
    /\ ToSet(rows) \subseteq Rows /\ gone \subseteq Rows /\ midway \subseteq Msgs
    /\ {gate, halting, found} \subseteq BOOLEAN
    /\ run \in [of : Msgs \cup {NoMsg}, step : 0..Steps, told : BOOLEAN]
    /\ pc \in [Msgs -> {"new", "sent", "saved", "pending", "written", "drained",
                       "taken", "over"}]
    /\ page.phase \in Phases /\ page.owner \in Own \cup {NoMsg}
    /\ \A i \in 1..Len(page.turns) : page.turns[i].row \in Rows

Quiet ==
    /\ emits = <<>> /\ acts = <<>> /\ wire = <<>> /\ calls = {} /\ attach = "none"
    /\ \A m \in Msgs : pc[m] \in {"new", "over"}

Waiting(q) == LET Inter(item) == item.inter IN SelectSeq(q, Inter)

\* What a page that has read the conversation owes the user.
Owed ==
    LET Kept(row) == row \notin gone
        stored  == SelectSeq(SubSeq(rows, IF page.earlier = 0 THEN 1 ELSE page.earlier,
                                    Len(rows)), Kept)
        waiting == IF page.known THEN Waiting(queue) ELSE <<>>
    IN stored \o [i \in 1..Len(waiting) |-> Said(waiting[i].msg)]

DrawnRows ==
    LET Echoed(t) == t.own /\ ~t.held /\ t.row[1] \in lost
        Real(t) == ~Echoed(t)
        drawn == SelectSeq(page.turns, Real)
    IN [i \in 1..Len(drawn) |-> drawn[i].row]

\* An echo is drawn where it was sent: Core may take another message first.
Echoes == {page.turns[i].row : i \in {j \in 1..Len(page.turns) : page.turns[j].own}}
Others(s) == LET Other(row) == row \notin Echoes IN SelectSeq(s, Other)

\* applyUserMessagePersisted, syncInterjections, restoreSessionTurns and the
\* rest of the store together: when nothing is on its way, a page that has
\* read the conversation draws what Core has stored from there on, in that
\* order, then the interjections that wait, and its queue bar is the queue.
\* (After a queued message jumped past an interjection: the same, unordered.)
Converges ==
    Quiet /\ page.read =>
        /\ ~passed => Others(DrawnRows) = Others(Owed)
        /\ ToSet(DrawnRows) = ToSet(Owed) /\ Len(DrawnRows) = Len(Owed)
        /\ page.known => page.bar = queue

\* setAgentRunning, appendUserTurn, retractUserTurn, withDispatch and
\* settleStoppedRun between them: once nothing is on its way the page shows a
\* run exactly when Core's gate is open, and an idle page shows neither a
\* phase nor a stop in progress.
ShowsRun ==
    Quiet /\ page.listening =>
        /\ page.running = gate
        /\ ~gate => ~page.stopping /\ page.phase = "none"

\* applyUserMessagePersisted, syncInterjections and mergeRestoredTurns claim a
\* drawn turn instead of drawing it again: no row is on the page twice, but
\* for the echo of a send Core has not answered.
NoTwins ==
    \A i, j \in 1..Len(page.turns) :
        i # j /\ page.turns[i].row = page.turns[j].row =>
            page.turns[i].row[1] \in page.sends

\* Nothing of a run is drawn above the message that opened it.
RunsFollow ==
    \A i, j \in 1..Len(page.turns) :
        page.turns[i].row[3] # "said" /\ page.turns[j].row = Said(page.turns[i].row[1])
            => j < i

\* What is drawn can be read as a conversation, at every moment.
Readable == NoTwins /\ RunsFollow

\* "Unread interjections trail the conversation" (pendingInterjectionsStart,
\* messages.ts:509-513): below one only others and echoes are drawn.
InterjectionsLast ==
    \A i, j \in 1..Len(page.turns) :
        i < j /\ Pending(page.turns[i]) => Pending(page.turns[j]) \/ page.turns[j].own

\* Whatever races: a quiet page draws nothing that Core did not write or queue.
NoGhosts == Quiet /\ page.read => ToSet(DrawnRows) \subseteq ToSet(Owed)
=============================================================================
