------------------------------ MODULE TodoPanel ------------------------------
(***************************************************************************)
(* What the desktop page writes to Core behind the user's back: the to-do  *)
(* list and the items under a to-do (src/gui/src/stores/assistant-todo.ts),*)
(* the deletions that wait under an undo toast (there, and in              *)
(* stores/message-delete.ts for messages), and the send that must not      *)
(* overtake them (hooks/useMessageSend.ts).  Everything the user does is   *)
(* drawn at once; Core hears of it later, one write after another, and the *)
(* page reads its list again (useAssistantTodoSync.ts: also on Core's      *)
(* events).  Reads and writes run side by side and may return in any order.*)
(*                                                                         *)
(* Core is two lists and the gate; Galley writes them too while it runs.   *)
(***************************************************************************)
EXTENDS Naturals, FiniteSets, SequencesExt

CONSTANTS
    Todos,     \* the user's to-dos, open at first
    Items,     \* the items under one more to-do, which stays open
    Drafts,    \* items the user may add to it
    Messages,  \* messages of the main chat the user may delete
    Sends,     \* messages the user may send
    NoList,
    Clicks,    \* what the user may do on the lists, bounded
    Twists,    \* sends, writes of others and failures, bounded together
    Reads      \* reads on their way when the page asks for one more

Stores == {"message", "todo", "item"}

ASSUME PanelAssumption ==
    /\ IsFiniteSet(Items) /\ Items \cap Drafts = {}
    /\ Todos \cap (Items \cup Drafts) = {}
    /\ Messages \cap (Todos \cup Items \cup Drafts) = {}
    /\ (Todos \cup Items \cup Drafts) \cap ({"moves", "adds", "load"} \cup Stores) = {}
    /\ {Clicks, Twists, Reads} \subseteq Nat

VARIABLES
    \* Core
    core,     \* its lists: to-dos, items in order, which are ticked, messages
    busy,     \* the main chat runs
    \* the page
    page,     \* its copy
    flips,    \* to-dos ticked or unticked on their way
    ticks,    \* items ticked or unticked on their way, and how many writes
    moved,    \* the items' order on its way, and how many moves
    adds,     \* items added, drawn below the others
    staged,   \* deleted on the page and undoable still, by store, while its toast is up
    net,      \* writes on their way, one after another on each line; reads
    soon,     \* an event of Core's came: the page will read again in a moment
    sends,    \* where each send is, what it waits for, what it promised
    \* the bounds, and what someone else wrote, Core refused, or was deleted
    \* before its add came back
    left, excused

marks == <<flips, ticks, moved, adds>>
vars  == <<core, busy, page, marks, staged, net, soon, sends, left, excused>>

Ids   == Items \cup Drafts
Lines == Todos \cup Ids \cup {"moves", "adds"} \cup Stores

-----------------------------------------------------------------------------
(* What the panel draws.                                                   *)

\* Where x stands on a list, and the list without it: it is on it once.
Place(list, x)   == CHOOSE k \in 1..Len(list) : list[k] = x
Without(list, x) == IF Contains(list, x) THEN RemoveAt(list, Place(list, x)) ELSE list

\* Deleted on the page: undoable still, or sent and not yet answered.
Deleting(store, x) ==
    \/ Contains(staged[store], x)
    \/ \E k \in DOMAIN net.chain[store] : x \in net.chain[store][k].all

Hidden == {t \in Todos : Deleting("todo", t)} \cup {i \in Ids : Deleting("item", i)}
            \cup {m \in Messages : Deleting("message", m)}

\* todoChecked, todoWithoutDeleting
DrawnTodo(t) ==
    IF Deleting("todo", t) \/ page.todos[t] = "gone" THEN "away"
    ELSE IF flips[t].phase # "none" THEN flips[t].to
    ELSE page.todos[t]

\* todoSubitemsShown
DrawnItem(i) ==
    IF Deleting("item", i) \/ ~Contains(page.items \o adds, i) THEN "away"
    ELSE IF ticks[i].sending > 0 THEN ticks[i].to
    ELSE IF i \in page.ticked THEN "done" ELSE "open"

\* In the order a move on its way will leave, what it does not name last.
Ordered ==
    LET Listed(i) == Contains(page.items, i)
        Unnamed(i) == ~Contains(moved.ids, i)
    IN IF moved.sending = 0 THEN page.items
       ELSE SelectSeq(moved.ids, Listed) \o SelectSeq(page.items, Unnamed)

\* What is being added stands below, until the list has it.
DrawnOrder == LET Seen(i) == ~Deleting("item", i) IN SelectSeq(Ordered, Seen) \o adds

DrawnMessage(m) == m \in page.messages /\ ~Deleting("message", m)

-----------------------------------------------------------------------------
(* Core's side of the writes: src/core/src/db/todo.rs and message_delete.rs.*)

\* move_todo_subitem: to place `to`, or the last one.
Moved(items, i, to) ==
    LET rest == Without(items, i)
    IN InsertAt(rest, IF to > Len(items) THEN Len(items) ELSE to, i)

\* The write w of a line, if Core can make it, and the lists after it.
Possible(line, w) ==
    CASE line \in Todos     -> core.todos[line] # "gone"
      [] line \in Ids       -> Contains(core.items, line)
      [] line = "moves"     -> Contains(core.items, w.item)
      [] line = "adds"      -> TRUE
      [] line = "todo"      -> core.todos[Head(w.ids)] # "gone"
      [] line = "item"      -> Contains(core.items, Head(w.ids))
      [] line = "message"   -> Head(w.ids) \in core.messages /\ ~busy

Written(line, w) ==
    CASE line \in Todos     -> [core EXCEPT !.todos[line] = w]
      [] line \in Ids       -> [core EXCEPT !.ticked = IF w = "done" THEN @ \cup {line}
                                                       ELSE @ \ {line}]
      [] line = "moves"     -> [core EXCEPT !.items = Moved(@, w.item, w.to)]
      [] line = "adds"      -> [core EXCEPT !.items = Append(@, w)]
      [] line = "todo"      -> [core EXCEPT !.todos[Head(w.ids)] = "gone"]
      [] line = "item"      -> [core EXCEPT !.items = Without(@, Head(w.ids))]
      [] line = "message"   -> [core EXCEPT !.messages = @ \ {Head(w.ids)}]

\* Why it cannot: `busy` stops a batch of messages, the rest does not.
Refusal(line, w) ==
    IF line = "message" /\ Head(w.ids) \in core.messages THEN "busy" ELSE "refused"

\* What is drawn otherwise once it was refused: of a batch the first, and the
\* rest too when Core is busy.
About(line, w, why) ==
    CASE line \in Todos \cup Ids -> {line}
      [] line = "moves" -> {"order"}
      [] line = "adds"  -> {w}
      [] line \in {"todo", "item", "message"} -> IF why = "busy" THEN w.all ELSE {Head(w.ids)}

\* A place counted on items that Core has removed meanwhile.
Misplaced(line, w) == line = "moves" /\ ~(w.of \subseteq ToSet(core.items))

-----------------------------------------------------------------------------
(* The page's chains and reads.                                            *)

NoFlip == [phase |-> "none", to |-> "open"]
NoTick == [sending |-> 0, to |-> "open"]
NoMove == [sending |-> 0, ids |-> <<>>]

\* sendDeletes: a to-do seen done meanwhile is not asked for.
SkipDone(ids, todos) ==
    LET upTo == {k \in 0..Len(ids) : \A j \in 1..k : todos[ids[j]] = "done"}
    IN SubSeq(ids, Max(upTo) + 1, Len(ids))

Read(line) == [by |-> line, got |-> NoList, late |-> FALSE]

\* A read asked for: by a line that goes on with it, or by "load".
Reading(n, line) == [n EXCEPT !.reads = Append(@, Read(line)),
                              !.at = IF line = "load" THEN @
                                     ELSE [@ EXCEPT ![line] = "reading"]]

\* The first of `writes` has its turn: it goes to Core; a batch with nothing
\* to ask for, by the to-dos the page has now, only reads the list again.
GoOn(n, line, writes, todos) ==
    LET ids == SkipDone(writes[1].ids, todos)
        Now(w, where) == [n EXCEPT !.chain[line] = w, !.at[line] = where]
    IN IF writes = <<>> THEN Now(writes, "idle")
       ELSE IF line # "todo" THEN Now(writes, "asked")
       ELSE IF ids # <<>> THEN Now([writes EXCEPT ![1].ids = ids], "asked")
       ELSE Reading(Now([writes EXCEPT ![1].ids = ids], "reading"), line)

\* One more write on a line.
Queue(n, line, w) ==
    IF n.chain[line] = <<>> THEN GoOn(n, line, <<w>>, page.todos)
    ELSE [n EXCEPT !.chain[line] = Append(@, w)]

\* Mutant: with nothing staged there is nothing to wait for.
CommitStaged(n, store, waiter) ==
    LET ids == staged[store]
    IN IF ids = <<>> THEN n
       ELSE Queue(n, store, [ids |-> ids, all |-> ToSet(ids), waits |-> waiter])

\* commit, commitDeletes, commitSubitemDeletes: what is staged becomes a batch
\* behind those on their way; `waiter` waits for it, or for the last of those.
Commit(n, store, waiter) ==
    LET ids == staged[store]
    IN IF ids # <<>>
       THEN Queue(n, store, [ids |-> ids, all |-> ToSet(ids), waits |-> waiter])
       ELSE IF n.chain[store] # <<>>
       THEN [n EXCEPT !.chain[store][Len(n.chain[store])].waits = @ \cup waiter]
       ELSE n

Click == left.clicks > 0 /\ left' = [left EXCEPT !.clicks = @ - 1]
Typed(d) == left.clicks > 0 /\ left' = [left EXCEPT !.clicks = @ - 1, !.drafts = @ \ {d}]
Twist == left.twists > 0 /\ left' = [left EXCEPT !.twists = @ - 1]

-----------------------------------------------------------------------------
(* The user.                                                               *)

UserRest == <<core, busy, page, soon, sends, excused>>

\* toggle: held for a moment; a second click takes it back.
Toggle(t) ==
    /\ Click
    /\ DrawnTodo(t) # "away" /\ flips[t].phase # "saving"
    /\ flips' = [flips EXCEPT ![t] =
         IF @.phase = "settling" THEN NoFlip
         ELSE [phase |-> "settling",
               to |-> IF page.todos[t] = "done" THEN "open" ELSE "done"]]
    /\ UNCHANGED <<ticks, moved, adds, staged, net, UserRest>>

\* An item still being added has no box and no x.
Clickable(i) == Contains(page.items, i) /\ ~Deleting("item", i)

\* toggleSubitem
Tick(i) ==
    /\ Click
    /\ Clickable(i)
    /\ LET to == IF DrawnItem(i) = "done" THEN "open" ELSE "done"
       IN /\ ticks' = [ticks EXCEPT ![i] = [sending |-> @.sending + 1, to |-> to]]
          /\ net' = Queue(net, i, to)
    /\ UNCHANGED <<flips, moved, adds, staged, UserRest>>

\* todoSubitemMove: the item drawn before i at its new place k goes before it
\* among all of them, the hidden ones too.
DroppedAt(all, i, k) ==
    LET Seen(j) == ~Deleting("item", j)
        shown == Without(SelectSeq(all, Seen), i)
        rest  == Without(all, i)
        into  == IF k = 1 THEN 0
                 ELSE IF Contains(rest, shown[k - 1]) THEN Place(rest, shown[k - 1]) ELSE 0
    IN [to |-> into + 1, order |-> InsertAt(rest, into + 1, i), lost |-> k > 1 /\ into = 0]

\* moveSubitem
Move(i, k) ==
    /\ Click
    /\ LET Seen(j) == ~Deleting("item", j)
           shown == SelectSeq(Ordered, Seen)
           move  == DroppedAt(Ordered, i, k)
       IN /\ Contains(shown, i) /\ k \in DOMAIN shown /\ shown[k] # i
          /\ ~move.lost /\ move.order # Ordered
          /\ moved' = [ids |-> move.order, sending |-> moved.sending + 1]
          /\ net' = Queue(net, "moves", [item |-> i, to |-> move.to, of |-> ToSet(Ordered)])
    /\ UNCHANGED <<flips, ticks, adds, staged, UserRest>>

\* addSubitems
Add(d) ==
    /\ Typed(d)
    /\ d \in left.drafts
    /\ adds' = Append(adds, d)
    /\ net' = Queue(net, "adds", d)
    /\ UNCHANGED <<flips, ticks, moved, staged, UserRest>>

\* stage, deleteTodo, deleteSubitem: the toast's five seconds start over.
Stage(store, x) ==
    /\ Click
    /\ staged' = [staged EXCEPT ![store] = Append(@, x)]
    /\ sends' = [s \in Sends |-> [sends[s] EXCEPT !.owes = @ \ {x}]]
    /\ excused' = excused \cup ({x} \cap ToSet(adds))
    /\ UNCHANGED <<core, busy, page, marks, net, soon>>

\* A row ticked offers no deletion, a running chat no message's.
DeleteTodo(t) == DrawnTodo(t) = "open" /\ flips[t].phase = "none" /\ Stage("todo", t)
DeleteItem(i) == Clickable(i) /\ Stage("item", i)
DeleteMessage(m) ==
    /\ DrawnMessage(m) /\ ~busy
    /\ \A s \in Sends : sends[s].at \in {"new", "sent"}
    /\ Stage("message", m)

\* undo, undoDelete, undoSubitemDelete
Undo(store) ==
    /\ Click
    /\ staged[store] # <<>>
    /\ staged' = [staged EXCEPT ![store] = <<>>]
    /\ UNCHANGED <<marks, net, UserRest>>

User ==
    \/ \E t \in Todos : Toggle(t) \/ DeleteTodo(t)
    \/ \E i \in Ids : Tick(i) \/ DeleteItem(i) \/ \E k \in 1..Cardinality(Ids) : Move(i, k)
    \/ \E d \in Drafts : Add(d)
    \/ \E m \in Messages : DeleteMessage(m)
    \/ \E store \in Stores : Undo(store)

\* A send counts as running on the page; what was deleted goes first.
Submit(s) ==
    /\ Twist
    /\ sends[s].at = "new"
    /\ net' = Commit(net, "message", {s})
    /\ staged' = [staged EXCEPT !["message"] = <<>>]
    /\ sends' = [sends EXCEPT ![s] = [at |-> "messages", owes |-> Hidden]]
    /\ UNCHANGED <<core, busy, page, marks, soon, excused>>

-----------------------------------------------------------------------------
(* The page: timers, answers, reads.                                       *)

PageRest == <<core, busy, sends, left, excused>>

\* Mutant: only the first toast's close commits.
CloseFirst(store) ==
    /\ Len(staged[store]) = 1
    /\ net' = Commit(net, store, {})
    /\ staged' = [staged EXCEPT ![store] = <<>>]
    /\ UNCHANGED <<page, marks, soon, PageRest>>

\* The toast goes: its time is over, or its x.
Close(store) ==
    /\ staged[store] # <<>>
    /\ net' = Commit(net, store, {})
    /\ staged' = [staged EXCEPT ![store] = <<>>]
    /\ UNCHANGED <<page, marks, soon, PageRest>>

\* The hold is over.
Settle(t) ==
    /\ flips[t].phase = "settling"
    /\ flips' = [flips EXCEPT ![t].phase = "saving"]
    /\ net' = Queue(net, t, flips[t].to)
    /\ UNCHANGED <<page, ticks, moved, adds, staged, soon, PageRest>>

\* Several events in a moment are read once.
Load ==
    /\ soon /\ Len(net.reads) < Reads
    /\ soon' = FALSE
    /\ net' = Reading(net, "load")
    /\ UNCHANGED <<page, marks, staged, PageRest>>

\* flushDeletes once the messages are answered, and the send when the to-dos
\* and the items are.
WaitsFor(s, store) == \E k \in DOMAIN net.chain[store] : s \in net.chain[store][k].waits

FlushTodos(s) ==
    /\ sends[s].at = "messages" /\ ~WaitsFor(s, "message")
    /\ net' = Commit(Commit(net, "todo", {s}), "item", {s})
    /\ staged' = [staged EXCEPT !["todo"] = <<>>, !["item"] = <<>>]
    /\ sends' = [sends EXCEPT ![s].at = "todos"]
    /\ UNCHANGED <<core, busy, page, marks, soon, left, excused>>

Deliver(s) ==
    /\ sends[s].at = "todos" /\ ~WaitsFor(s, "todo") /\ ~WaitsFor(s, "item")
    /\ sends' = [sends EXCEPT ![s].at = "sent"]
    /\ busy' = TRUE
    /\ UNCHANGED <<core, page, marks, staged, net, soon, left, excused>>

Rest(line) == Tail(net.chain[line])

\* The answer to a to-do's tick.
FlipAnswered(t) ==
    /\ IF net.at[t] = "ok" THEN net' = Reading(net, t) /\ UNCHANGED flips
       ELSE /\ flips' = [flips EXCEPT ![t] = NoFlip]
            /\ net' = Reading(GoOn(net, t, Rest(t), page.todos), "load")
    /\ UNCHANGED <<ticks, moved, adds>>

\* Of an item's: a later click decides the box, else the list is read.
TickAnswered(i) ==
    /\ IF ticks[i].sending > 1
       THEN /\ ticks' = [ticks EXCEPT ![i].sending = @ - 1]
            /\ net' = GoOn(net, i, Rest(i), page.todos)
       ELSE net' = Reading(net, i) /\ UNCHANGED ticks
    /\ UNCHANGED <<flips, moved, adds>>

MoveAnswered ==
    /\ IF moved.sending > 1
       THEN /\ moved' = [moved EXCEPT !.sending = @ - 1]
            /\ net' = GoOn(net, "moves", Rest("moves"), page.todos)
       ELSE net' = Reading(net, "moves") /\ UNCHANGED moved
    /\ UNCHANGED <<flips, ticks, adds>>

\* What Core refused goes back into the box.
AddAnswered ==
    /\ IF net.at["adds"] = "ok" THEN net' = Reading(net, "adds") /\ UNCHANGED adds
       ELSE /\ adds' = Without(adds, Head(net.chain["adds"]))
            /\ net' = GoOn(net, "adds", Rest("adds"), page.todos)
    /\ UNCHANGED <<flips, ticks, moved>>

\* sendDeletes, sendSubitemDeletes: the next of the batch, then the read.
DeleteAnswered(store) ==
    LET batch == Head(net.chain[store])
        ids   == IF store = "todo" THEN SkipDone(Tail(batch.ids), page.todos) ELSE Tail(batch.ids)
        asked == [net EXCEPT !.chain[store][1].ids = ids]
    IN /\ net' = IF ids = <<>> THEN Reading(asked, store)
                 ELSE [asked EXCEPT !.at[store] = "asked"]
       /\ UNCHANGED marks

\* send: each is let go with its answer; once Core is running, the rest too.
MessageAnswered ==
    LET batch == Head(net.chain["message"])
        ids   == IF net.at["message"] = "busy" THEN <<>> ELSE Tail(batch.ids)
    IN /\ net' = IF ids = <<>> THEN GoOn(net, "message", Rest("message"), page.todos)
                 ELSE [net EXCEPT !.chain["message"][1] =
                                     [@ EXCEPT !.ids = ids, !.all = ToSet(ids)],
                                  !.at["message"] = "asked"]
       /\ page' = IF net.at["message"] = "ok"
                  THEN [page EXCEPT !.messages = @ \ {Head(batch.ids)}] ELSE page
       /\ UNCHANGED marks

Answered(line) ==
    /\ net.at[line] \in {"ok", "busy", "refused"}
    /\ \/ line \in Todos /\ FlipAnswered(line) /\ UNCHANGED page
       \/ line \in Ids /\ TickAnswered(line) /\ UNCHANGED page
       \/ line = "moves" /\ MoveAnswered /\ UNCHANGED page
       \/ line = "adds" /\ AddAnswered /\ UNCHANGED page
       \/ line \in {"todo", "item"} /\ DeleteAnswered(line) /\ UNCHANGED page
       \/ line = "message" /\ MessageAnswered
    /\ UNCHANGED <<staged, soon, PageRest>>

\* Mutant: a click made while the list was read loses its mark.
LetAllGo(n, line) ==
    /\ net' = IF line = "load" THEN n ELSE GoOn(n, line, Rest(line), page'.todos)
    /\ flips' = IF line \in Todos THEN [flips EXCEPT ![line] = NoFlip] ELSE flips
    /\ ticks' = IF line \in Ids THEN [ticks EXCEPT ![line] = NoTick] ELSE ticks
    /\ moved' = IF line = "moves" THEN NoMove ELSE moved
    /\ adds' = IF line = "adds" THEN Without(adds, Head(net.chain[line])) ELSE adds

\* What waited for a read is let go in the set it comes with; a click made
\* while the list was read keeps its mark.
LetGo(n, line) ==
    /\ net' = IF line = "load" THEN n ELSE GoOn(n, line, Rest(line), page'.todos)
    /\ flips' = IF line \in Todos THEN [flips EXCEPT ![line] = NoFlip] ELSE flips
    /\ ticks' = IF line \notin Ids THEN ticks
                ELSE IF ticks[line].sending > 1
                THEN [ticks EXCEPT ![line].sending = @ - 1]
                ELSE [ticks EXCEPT ![line] = NoTick]
    /\ moved' = IF line # "moves" THEN moved
                ELSE IF moved.sending > 1 THEN [moved EXCEPT !.sending = @ - 1]
                ELSE NoMove
    /\ adds' = IF line = "adds" THEN Without(adds, Head(net.chain[line])) ELSE adds

\* Mutant: whatever comes back is drawn.
CountsAlways(k) == TRUE

\* Read k is back: it counts unless a later one came back before, and none
\* asked for before it will.
Counts(k) == ~net.reads[k].late

Overtaken(k) ==
    [j \in DOMAIN net.reads |->
        IF j < k /\ Counts(k) THEN [net.reads[j] EXCEPT !.late = TRUE] ELSE net.reads[j]]

\* Mutant: an event that came while the list was read is taken for read.
LandedForAll(k) ==
    /\ net.reads[k].got # NoList
    /\ page' = IF Counts(k) THEN [net.reads[k].got EXCEPT !.messages = page.messages]
               ELSE page
    /\ LetGo([net EXCEPT !.reads = RemoveAt(Overtaken(k), k)], net.reads[k].by)
    /\ soon' = FALSE
    /\ UNCHANGED <<staged, PageRest>>

Landed(k) ==
    /\ net.reads[k].got # NoList
    /\ page' = IF Counts(k) THEN [net.reads[k].got EXCEPT !.messages = page.messages]
               ELSE page
    /\ LetGo([net EXCEPT !.reads = RemoveAt(Overtaken(k), k)], net.reads[k].by)
    /\ UNCHANGED <<staged, soon, PageRest>>

\* The read fails: its write is let go all the same.
ReadFails(k) ==
    /\ Twist
    /\ page' = page
    /\ LetGo([net EXCEPT !.reads = RemoveAt(@, k)], net.reads[k].by)
    /\ excused' = excused \cup {"read"}
    /\ UNCHANGED <<staged, soon, core, busy, sends>>

-----------------------------------------------------------------------------
(* Core and Galley.                                                        *)

\* A write's event goes out whether it was made or not.
Serve(line) ==
    /\ net.at[line] = "asked"
    /\ LET w == Head(net.chain[line])
           possible == Possible(line, w)
       IN /\ core' = IF possible THEN Written(line, w) ELSE core
          /\ net' = [net EXCEPT !.at[line] = IF possible THEN "ok" ELSE Refusal(line, w)]
          /\ excused' = IF possible /\ ~Misplaced(line, w) THEN excused
                        ELSE excused \cup About(line, w, Refusal(line, w))
    /\ soon' = TRUE
    /\ UNCHANGED <<busy, page, marks, staged, sends, left>>

\* The write fails.
Fail(line) ==
    /\ net.at[line] = "asked"
    /\ Twist
    /\ net' = [net EXCEPT !.at[line] = "refused"]
    /\ excused' = excused \cup About(line, Head(net.chain[line]), "refused")
    /\ soon' = TRUE
    /\ UNCHANGED <<core, busy, page, marks, staged, sends>>

ServeRead(k) ==
    /\ net.reads[k].got = NoList
    /\ net' = [net EXCEPT !.reads[k].got = core]
    /\ UNCHANGED <<core, busy, page, marks, staged, soon, sends, left, excused>>

\* What Galley, the phone or the command line writes: a to-do done or
\* cancelled, an item ticked or removed; also a run that something else opens.
Galley ==
    /\ Twist
    /\ \/ /\ ~busy /\ busy' = TRUE
          /\ UNCHANGED <<core, soon, excused>>
       \/ /\ soon' = TRUE
          /\ \/ \E t \in Todos, to \in {"done", "gone"} :
                   /\ core.todos[t] = "open"
                   /\ core' = [core EXCEPT !.todos[t] = to]
                   /\ excused' = excused \cup {t}
             \/ \E i \in ToSet(core.items) \ core.ticked :
                   /\ core' = [core EXCEPT !.ticked = @ \cup {i}]
                   /\ excused' = excused \cup {i}
             \/ \E i \in ToSet(core.items) :
                   /\ core' = [core EXCEPT !.items = Without(@, i)]
                   /\ excused' = excused \cup {i, "order"}
          /\ UNCHANGED busy
    /\ UNCHANGED <<page, marks, staged, net, sends>>

RunEnds ==
    /\ busy /\ busy' = FALSE
    /\ UNCHANGED <<core, page, marks, staged, net, soon, sends, left, excused>>

-----------------------------------------------------------------------------
Init ==
    /\ core = [todos |-> [t \in Todos |-> "open"], items |-> SetToSeq(Items),
               ticked |-> {}, messages |-> Messages]
    /\ page = core
    /\ busy = FALSE /\ soon = FALSE
    /\ flips = [t \in Todos |-> NoFlip] /\ ticks = [i \in Ids |-> NoTick]
    /\ moved = NoMove /\ adds = <<>>
    /\ staged = [store \in Stores |-> <<>>]
    /\ net = [chain |-> [line \in Lines |-> <<>>], at |-> [line \in Lines |-> "idle"],
              reads |-> <<>>]
    /\ sends = [s \in Sends |-> [at |-> "new", owes |-> {}]]
    /\ left = [clicks |-> Clicks, twists |-> Twists, drafts |-> Drafts]
    /\ excused = {}

\* What goes on by itself.
System ==
    \/ \E store \in Stores : Close(store)
    \/ \E t \in Todos : Settle(t)
    \/ Load
    \/ \E s \in Sends : FlushTodos(s) \/ Deliver(s)
    \/ \E line \in Lines : Serve(line) \/ Answered(line)
    \/ \E k \in DOMAIN net.reads : ServeRead(k) \/ Landed(k)
    \/ RunEnds

Next ==
    \/ User \/ \E s \in Sends : Submit(s)
    \/ System
    \/ Galley
    \/ \E line \in Lines : Fail(line)
    \/ \E k \in DOMAIN net.reads : ReadFails(k)

Spec == Init /\ [][Next]_vars

\* Core answers, timers run out, runs end.
LiveSpec == Spec /\ WF_vars(System)

-----------------------------------------------------------------------------
Row == {"open", "done", "gone"}

\* A mark counts the writes on its line, a line that rests has none, and
\* Core's list names an item once.
TypeOK ==
    /\ core.todos \in [Todos -> Row] /\ page.todos \in [Todos -> Row]
    /\ {ToSet(core.items), ToSet(page.items)} \subseteq SUBSET Ids
    /\ IsInjective(core.items)
    /\ \A i \in Ids : ticks[i].sending = Len(net.chain[i])
    /\ moved.sending = Len(net.chain["moves"])
    /\ adds = net.chain["adds"]
    /\ \A t \in Todos : flips[t].phase = "saving" <=> net.chain[t] # <<>>
    /\ \A line \in Lines : net.at[line] = "idle" <=> net.chain[line] = <<>>

\* A drawn order without what is excused and what is not drawn.
Mine(order, out, hidden) ==
    LET Kept(i) == i \notin out \cup hidden IN SelectSeq(order, Kept)

\* Each where it is drawn first.
First(order) ==
    LET Once(k) == \A j \in 1..k - 1 : order[j] # order[k]
        Pick(o, k) == IF Once(k) THEN Append(o, order[k]) ELSE o
    IN FoldLeft(Pick, <<>>, [k \in DOMAIN order |-> k])

\* "So nothing blinks" (assistant-todo.ts:122-127; 387-389 and 774-775 say it
\* of deletions and adds): what the user did is drawn at once, and nothing
\* but the user's next click changes how it is drawn, whatever answers,
\* events and reads come in between and in whatever order.  It says nothing
\* of what someone else wrote too, what Core refused, or a read that failed.
NoBlink ==
    [][ left'.clicks = left.clicks /\ "read" \notin excused' =>
          /\ \A t \in Todos \ excused' : DrawnTodo(t)' = DrawnTodo(t)
          /\ \A i \in Ids \ excused' : DrawnItem(i)' = DrawnItem(i)
          /\ \A m \in Messages \ excused' : DrawnMessage(m)' = DrawnMessage(m)
          /\ "order" \notin excused' /\ DrawnOrder' # DrawnOrder =>
               LET out == excused' \cup ToSet(adds)
               IN Mine(First(DrawnOrder'), out, Hidden') = Mine(First(DrawnOrder), out, Hidden)
      ]_vars

Quiet ==
    /\ \A line \in Lines : net.at[line] = "idle"
    /\ net.reads = <<>> /\ ~soon

\* read()'s tickets and the read after each event: once nothing is on its way
\* the page's list is Core's, although reads are served and come back in any
\* order and one that a later read overtook is thrown away.
Agrees == Quiet /\ "read" \notin excused => page = core

Goes(s) == sends[s].at # "sent" /\ sends[s].at' = "sent"

\* "Galley reads its list before it answers, and the to-do must not be on it"
\* (useMessageSend.ts:59-61): when a message goes to Core, nothing that was
\* deleted on the page before it was sent is hidden there and alive in Core,
\* be it staged, on its way or behind another batch.
Promised ==
    [][ \A s \in Sends : Goes(s) =>
          \A x \in sends[s].owes \cap Hidden :
             /\ x \in Todos => core.todos[x] = "gone"
             /\ x \in Ids => ~Contains(core.items, x)
             /\ x \in Messages => x \notin core.messages ]_vars

\* Every click is written or given up: in the end no row is hidden or marked,
\* no toast is up, no send waits for a deletion.
Settles ==
    <>[](/\ Quiet /\ Hidden = {}
         /\ \A t \in Todos : flips[t] = NoFlip
         /\ \A s \in Sends : sends[s].at \in {"new", "sent"})

\* "They never blink" (assistant-todo.ts:774-775, of items added): one that is
\* being added is drawn once.
AddedOnce == \A d \in Drafts : Cardinality({k \in DOMAIN DrawnOrder : DrawnOrder[k] = d}) <= 1

\* "A done to-do is never rewritten" (assistant-todo.ts:391-392).
DoneStays == [][ \A t \in Todos : core.todos[t] = "done" => core.todos'[t] # "gone" ]_vars

\* "Each one's place is counted on the order the ones before it leave"
\* (assistant-todo.ts:299-300): while only the user writes, Core moves an
\* item among the items its place was counted on.
PlaceHolds ==
    net.at["moves"] = "asked" /\ Contains(core.items, Head(net.chain["moves"]).item) =>
        ~Misplaced("moves", Head(net.chain["moves"]))
=============================================================================
