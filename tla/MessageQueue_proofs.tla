------------------------ MODULE MessageQueue_proofs ------------------------
(***************************************************************************)
(* Theorems about MessageQueue, for every set of messages and stops and    *)
(* every combination of send paths: its invariant; that it implements      *)
(* Mailbox, step by step; and its run gate.  The first two hold for every  *)
(* number of runner exits, the gate as long as no runner exits.            *)
(***************************************************************************)
EXTENDS MessageQueue, TLAPS

-----------------------------------------------------------------------------
(* The inductive invariant, in named parts.                                *)

\* TypeOK alone does not bound pid: a dead runner's pid can still grow.
Spawnable == alive \/ pid <= Exits
Typed     == TypeOK /\ Spawnable

\* A message waits in the queue exactly while its task says so.
Waits(m) == m \in items <=> pc[m] \in {"queued", "jumping"}

\* Which carrier a message can have at which step.
Carried(m) ==
    /\ pc[m] \in {"new", "looked"} => who[m] = "nobody" /\ m \notin seen
    /\ pc[m] \in {"queued", "jumping", "removed"} => m \in seen
    /\ pc[m] = "check" => who[m] = "wake"
    /\ who[m] \in {"drain", "jump"} => /\ m \in seen
                                       /\ pc[m] \notin {"check", "decide", "ensure"}
    /\ who[m] = "jump" => m \in jumped
    /\ m \in seen /\ pc[m] \in Carrying \cup {"gate", "hand", "release"} =>
         who[m] \in {"drain", "jump"} \/ (who[m] = "socket" /\ m \in jumped)

\* How many rows a message has at which step of its task.
Stored(m) ==
    /\ rows[m] \in {0, 1}
    /\ pc[m] \in {"new", "looked", "queued", "jumping", "removed",
                  "check", "decide", "persist"} => rows[m] = 0
    /\ pc[m] = "ensure" => rows[m] = (IF who[m] \in {"core", "image"} THEN 1 ELSE 0)
    /\ pc[m] \in {"write", "gate", "hand"} => rows[m] = 1
    /\ pc[m] = "release" /\ who[m] \in {"drain", "jump"} => rows[m] = 1
    /\ pc[m] = "over" /\ m \in seen =>
         \/ rows[m] = 1 \/ m \in heard
         \/ who[m] = "socket" /\ m \in jumped

Book(m) == Waits(m) /\ Carried(m) /\ Stored(m)
Books   == \A m \in Msgs : Book(m)

\* What a runner reports as read, it has read.
Reported == \A p \in Pids : \A i \in DOMAIN events[p] :
    events[p][i].kind = "interject_delivered" => events[p][i].ids \subseteq heard

\* `ahead` is the order of the queue, and follows the order of arrival.
Ordered ==
    /\ ahead \subseteq items \X items
    /\ \A m, n \in Msgs : <<m, n>> \in ahead => <<n, m>> \notin ahead
    /\ older \subseteq seen \X seen
    /\ \A m \in Msgs : <<m, m>> \notin older
    /\ \A m, n \in items \ jumped : <<n, m>> \in older => <<n, m>> \in ahead

\* The steps of a message the drain task is done with.
Parked == {"queued", "removed", "over"}

\* The drain task carries one message, and nothing older waits behind it.
Turn ==
    /\ \A m, n \in Msgs :
         /\ who[m] = "drain" /\ pc[m] \notin Parked
         /\ who[n] = "drain" /\ pc[n] \notin Parked
         => m = n
    /\ \A m \in Msgs, n \in items :
         who[m] = "drain" /\ pc[m] = "persist" /\ {m, n} \cap jumped = {}
            => <<n, m>> \notin older

Lined == Ordered /\ Turn /\ QueueOrder

IInv == Typed /\ Reported /\ Books /\ Lined

-----------------------------------------------------------------------------
(* Types.                                                                  *)

\* A runner's pid is an integer, and one more than a pid that still may exit
\* is a pid.
LEMMA PidRange ==
    /\ Exits \in Nat
    /\ 0 \in Pids
    /\ \A p \in Pids : p \in Int /\ (p <= Exits => p + 1 \in Pids)
BY ConstantsAssumption DEF Pids

\* Every variable has its type when the session is first used.
LEMMA TypedInit == Init => Typed
<1> SUFFICES ASSUME Init PROVE Typed
  OBVIOUS
<1>1. TypeQueue
  BY DEF Init, TypeQueue
<1>2. TypeTasks
  BY DEF Init, TypeTasks, PcValues, Carriers
<1>3. TypeRunner
  BY PidRange DEF Init, TypeRunner
<1>4. TypeChannels
  BY DEF Init, TypeChannels
<1>5. TypeHistory
  BY DEF Init, TypeHistory
<1>6. Spawnable
  BY PidRange DEF Init, Spawnable
<1> QED
  BY <1>1, <1>2, <1>3, <1>4, <1>5, <1>6 DEF Typed, TypeOK

\* What a command and an event are.
LEMMA MadeCommand ==
    /\ \A k \in {"user", "answer"}, m \in Msgs : Command(k, m, {}) \in Commands
    /\ \A k \in {"abort", "interject"}, S \in SUBSET Msgs :
         Command(k, NoMsg, S) \in Commands
BY DEF Command, Commands

\* What a runner writes to its stdout is an event.
LEMMA MadeEvent ==
    ASSUME NEW k \in {"ask_user", "interject_delivered", "run_complete", "closed"},
           NEW S \in SUBSET Msgs
    PROVE  Event(k, S) \in Events
BY DEF Event, Events

\* What is taken off, or added to, a channel.
LEMMA PoppedSeq ==
    ASSUME NEW S, NEW s \in Seq(S), s # <<>>
    PROVE  Head(s) \in S /\ Tail(s) \in Seq(S)
OBVIOUS

\* The first step, and the steps after ensuring and persisting, are steps.
LEMMA PcSteps ==
    ASSUME NEW w
    PROVE  /\ FirstStep(w) \in PcValues
           /\ AfterEnsure(w) \in PcValues
           /\ AfterPersist(w) \in PcValues
BY DEF FirstStep, AfterEnsure, AfterPersist, PcValues, Carrying

\* Moving messages in and out of the queue keeps the queue's types.
LEMMA MovesTyped ==
    ASSUME TypeQueue, TypeHistory, marked' \subseteq Msgs,
           {openRun', askPending', stopping'} \subseteq BOOLEAN
    PROVE  /\ \A S : Drop(S) => TypeQueue'
           /\ \A m \in Msgs : PushFront(m) => TypeQueue'
           /\ \A m \in Msgs : PushBack(m) /\ UNCHANGED given
                                => TypeQueue' /\ TypeHistory'
<1>1. ASSUME NEW S, Drop(S) PROVE TypeQueue'
  BY <1>1 DEF Drop, TypeQueue
<1>2. ASSUME NEW m \in Msgs, PushFront(m) PROVE TypeQueue'
  BY <1>2 DEF PushFront, TypeQueue
<1>3. ASSUME NEW m \in Msgs, PushBack(m), UNCHANGED given
      PROVE  TypeQueue' /\ TypeHistory'
  BY <1>3 DEF PushBack, TypeQueue, TypeHistory, given
<1> QED
  BY <1>1, <1>2, <1>3

\* Each part keeps its type under a step that leaves its variables alone.
LEMMA Untouched ==
    ASSUME Typed
    PROVE  /\ UNCHANGED <<gate, queue>> => TypeQueue'
           /\ UNCHANGED <<tasks, handing, stops, rows>> => TypeTasks'
           /\ UNCHANGED <<proc, bridge>> => TypeRunner' /\ Spawnable'
           /\ UNCHANGED <<stdin, events, signals>> => TypeChannels'
           /\ UNCHANGED <<past, given>> => TypeHistory'
<1> USE DEF Typed, TypeOK
<1>1. UNCHANGED <<gate, queue>> => TypeQueue'
  BY DEF gate, queue, TypeQueue
<1>2. UNCHANGED <<tasks, handing, stops, rows>> => TypeTasks'
  BY DEF tasks, TypeTasks
<1>3. UNCHANGED <<proc, bridge>> => TypeRunner' /\ Spawnable'
  BY DEF proc, bridge, TypeRunner, Spawnable
<1>4. UNCHANGED <<stdin, events, signals>> => TypeChannels'
  BY DEF TypeChannels
<1>5. UNCHANGED <<past, given>> => TypeHistory'
  BY DEF past, given, TypeHistory
<1> QED
  BY <1>1, <1>2, <1>3, <1>4, <1>5

\* A queue-or-dispatch decision (queue_offer, queue_offer_interjection) keeps
\* the types.
LEMMA OfferTyped ==
    ASSUME Typed, NEW m \in Msgs, NEW w \in Carriers,
           UNCHANGED <<answer, stops, rows, proc, stdin, bridge, events, signals, given>>
    PROVE  /\ OfferDispatch(m, w) => Typed'
           /\ \A b \in BOOLEAN, step \in PcValues : OfferQueue(m, w, b, step) => Typed'
<1> USE DEF Typed, TypeOK
<1>1. TypeRunner' /\ Spawnable' /\ TypeChannels'
  BY Untouched
<1>2. ASSUME OfferDispatch(m, w) PROVE Typed'
  <2>1. TypeQueue' /\ TypeHistory'
    BY <1>2 DEF OfferDispatch, queue, past, given, TypeQueue, TypeHistory
  <2>2. TypeTasks'
    BY <1>2, PcSteps DEF OfferDispatch, Carry, Go, TypeTasks
  <2> QED
    BY <1>1, <2>1, <2>2
<1>3. ASSUME NEW b \in BOOLEAN, NEW step \in PcValues, OfferQueue(m, w, b, step)
      PROVE  Typed'
  <2>1. TypeQueue' /\ TypeHistory'
    BY <1>3, MovesTyped DEF OfferQueue, gate, TypeQueue
  <2>2. TypeTasks'
    BY <1>3 DEF OfferQueue, Go, TypeTasks, Handing
  <2> QED
    BY <1>1, <2>1, <2>2
<1> QED
  BY <1>2, <1>3

\* Every send path keeps the types.
LEMMA SendTyped == Typed /\ Send => Typed'
<1> SUFFICES ASSUME Typed, Send PROVE Typed'
  OBVIOUS
<1> USE DEF Carriers, PcValues
<1>1. ASSUME NEW m \in Msgs, NEW w \in {"core", "socket"}, SendText(m, w)
      PROVE  Typed'
  <2>1. \A b : (b /\ MayInterject) \in BOOLEAN
    BY DEF MayInterject
  <2> QED
    BY <1>1, <2>1, OfferTyped DEF SendText
<1>2. ASSUME NEW m \in Msgs, SendJump(m) PROVE Typed'
  BY <1>2, OfferTyped DEF SendJump
<1>3. ASSUME NEW m \in Msgs, WakeLook(m) PROVE Typed'
  <2>1. TypeTasks'
    BY <1>3 DEF WakeLook, Go, Typed, TypeOK, TypeTasks
  <2> QED
    BY <1>3, <2>1, Untouched DEF WakeLook, Typed, TypeOK
<1>4. ASSUME NEW m \in Msgs, NEW w \in {"image", "wake"}, TryReserve(m, w)
      PROVE  Typed'
  <2>1. CASE OfferDispatch(m, w)
    BY <1>4, <2>1, OfferTyped DEF TryReserve
  <2>2. CASE ~OfferDispatch(m, w)
    <3>1. TypeTasks'
      BY <1>4, <2>2 DEF TryReserve, Go, Typed, TypeOK, TypeTasks
    <3> QED
      BY <1>4, <2>2, <3>1, Untouched DEF TryReserve, Typed, TypeOK
  <2> QED
    BY <2>1, <2>2
<1> QED
  BY <1>1, <1>2, <1>3, <1>4 DEF Send

\* Jump, remove and stop keep the types.
LEMMA UserActsTyped == Typed /\ UserActs => Typed'
<1> SUFFICES ASSUME Typed, UserActs PROVE Typed'
  OBVIOUS
<1> USE DEF Typed, TypeOK
<1>1. ASSUME NEW m \in Msgs, Remove(m) PROVE Typed'
  <2>1. TypeQueue'
    BY <1>1, MovesTyped DEF Remove, gate, TypeQueue
  <2>2. TypeTasks'
    BY <1>1 DEF Remove, Go, TypeTasks, PcValues
  <2> QED
    BY <1>1, <2>1, <2>2, Untouched DEF Remove
<1>2. ASSUME NEW m \in Msgs, NEW w \in {"jump", "socket"}, Jump(m, w) PROVE Typed'
  <2>1. TypeHistory'
    BY <1>2 DEF Jump, given, TypeHistory
  <2>2. CASE openRun
    <3>1. TypeQueue'
      BY <1>2, <2>2, MovesTyped DEF Jump, gate, TypeQueue
    <3>2. TypeTasks'
      BY <1>2, <2>2 DEF Jump, Go, TypeTasks, PcValues
    <3> QED
      BY <1>2, <2>1, <3>1, <3>2, Untouched DEF Jump
  <2>3. CASE ~openRun
    <3>1. TypeQueue'
      BY <1>2, <2>3, MovesTyped DEF Jump, gate, TypeQueue
    <3>2. TypeTasks'
      BY <1>2, <2>3, PcSteps DEF Jump, Carry, Go, TypeTasks, Carriers
    <3> QED
      BY <1>2, <2>1, <3>1, <3>2, Untouched DEF Jump
  <2> QED
    BY <2>2, <2>3
<1>3. ASSUME NEW a \in Stops, Stop(a) PROVE Typed'
  <2>1. TypeTasks'
    BY <1>3 DEF Stop, tasks, TypeTasks
  <2> QED
    BY <1>3, <2>1, Untouched DEF Stop
<1>4. ASSUME NEW a \in Stops, AbortWrite(a) PROVE Typed'
  <2>1. TypeTasks'
    BY <1>4 DEF AbortWrite, tasks, TypeTasks
  <2>2. TypeChannels'
    <3>1. Command("abort", NoMsg, {}) \in Commands
      BY MadeCommand
    <3> QED
      BY <1>4, <3>1 DEF AbortWrite, TypeChannels
  <2> QED
    BY <1>4, <2>1, <2>2, Untouched DEF AbortWrite
<1>5. ASSUME NEW a \in Stops, AbortMark(a) PROVE Typed'
  <2>1. TypeQueue'
    BY <1>5 DEF AbortMark, queue, TypeQueue
  <2>2. TypeTasks'
    BY <1>5 DEF AbortMark, tasks, TypeTasks
  <2> QED
    BY <1>5, <2>1, <2>2, Untouched DEF AbortMark
<1> QED
  BY <1>1, <1>2, <1>3, <1>4, <1>5 DEF UserActs

\* Every step of the task that carries a message keeps the types.
LEMMA TaskTyped ==
    ASSUME Typed, NEW m \in Msgs, Task(m)
    PROVE  Typed'
<1> USE DEF Typed, TypeOK
<1>1. CASE Check(m)
  <2>1. TypeTasks'
    BY <1>1 DEF Check, TaskRest, Go, TypeTasks, PcValues, Carrying
  <2> QED
    BY <1>1, <2>1, Untouched DEF Check, TaskRest
<1>2. CASE Decide(m)
  <2>1. TypeTasks'
    BY <1>2 DEF Decide, TaskRest, Go, TypeTasks, PcValues, Carrying
  <2> QED
    BY <1>2, <2>1, Untouched DEF Decide, TaskRest
<1>3. CASE Ensure(m)
  <2>1. TypeTasks'
    BY <1>3, PcSteps DEF Ensure, TaskRest, Go, TypeTasks, PcValues
  <2>2. TypeRunner' /\ Spawnable'
    BY <1>3, PidRange DEF Ensure, TaskRest, SpawnRunner, bridge, proc, TypeRunner, Spawnable
  <2> QED
    BY <1>3, <2>1, <2>2, Untouched DEF Ensure, TaskRest
<1>4. CASE Persist(m)
  <2>1. TypeQueue'
    BY <1>4, MovesTyped DEF Persist, gate, queue, TypeQueue
  <2>2. TypeTasks'
    BY <1>4, PcSteps DEF Persist, Go, TypeTasks, PcValues
  <2> QED
    BY <1>4, <2>1, <2>2, Untouched DEF Persist
<1>5. CASE Write(m)
  <2>1. TypeTasks'
    BY <1>5 DEF Write, TaskRest, Go, TypeTasks, PcValues
  <2>2. TypeChannels'
    <3>1. Command(IF m \in answer THEN "answer" ELSE "user", m, {}) \in Commands
      BY MadeCommand
    <3> QED
      BY <1>5, <3>1 DEF Write, TaskRest, TypeChannels
  <2> QED
    BY <1>5, <2>1, <2>2, Untouched DEF Write, TaskRest
<1>6. CASE OpenGate(m)
  <2>1. TypeTasks'
    BY <1>6 DEF OpenGate, TaskRest, Go, TypeTasks, PcValues
  <2>2. TypeQueue'
    BY <1>6 DEF OpenGate, TaskRest, queue, TypeQueue
  <2> QED
    BY <1>6, <2>1, <2>2, Untouched DEF OpenGate, TaskRest
<1>7. CASE HandOver(m)
  <2>1. TypeTasks'
    BY <1>7 DEF HandOver, Go, TypeTasks, PcValues, Handing, TypeQueue
  <2> QED
    BY <1>7, <2>1, Untouched DEF HandOver
<1>8. CASE Release(m)
  <2>1. TypeTasks'
    BY <1>8 DEF Release, TaskRest, Go, TypeTasks, PcValues
  <2>2. TypeQueue'
    BY <1>8 DEF Release, TaskRest, queue, TypeQueue
  <2> QED
    BY <1>8, <2>1, <2>2, Untouched DEF Release, TaskRest
<1> QED
  BY <1>1, <1>2, <1>3, <1>4, <1>5, <1>6, <1>7, <1>8 DEF Task

\* Writing an interject command keeps the types.
LEMMA InterjectTyped ==
    ASSUME Typed, NEW h \in handing, WriteInterject(h)
    PROVE  Typed'
<1> USE DEF Typed, TypeOK
<1>1. TypeTasks'
  BY DEF WriteInterject, tasks, TypeTasks
<1>2. TypeChannels'
  <2>1. h.ids \subseteq Msgs
    BY DEF TypeTasks, Handing
  <2>2. Command("interject", NoMsg, h.ids) \in Commands
    BY <2>1, MadeCommand
  <2> QED
    BY <2>2 DEF WriteInterject, TypeChannels
<1> QED
  BY <1>1, <1>2, Untouched DEF WriteInterject

\* A runner's events stay events when it writes some more.
LEMMA EmitTyped ==
    ASSUME Typed, NEW new \in Seq(Events), Emit(new), UNCHANGED signals, stdin' \in Seq(Commands)
    PROVE  TypeChannels'
BY DEF Typed, TypeOK, Emit, TypeChannels, TypeRunner

\* Every step of the bridge keeps the types.
LEMMA BridgeTyped == Typed /\ Bridge => Typed'
<1> SUFFICES ASSUME Typed, Bridge PROVE Typed'
  OBVIOUS
<1> USE DEF Typed, TypeOK
<1>1. Event("run_complete", {}) \in Events /\ Event("ask_user", {}) \in Events
  BY MadeEvent
<1>2. CASE BridgeCommand
  <2>1. Head(stdin) \in Commands /\ Tail(stdin) \in Seq(Commands)
    BY <1>2, PoppedSeq DEF BridgeCommand, TypeChannels
  <2> DEFINE cmd == Head(stdin)
  <2>2. /\ cmd.ids \subseteq Msgs
        /\ cmd.kind \in {"user", "answer"} => cmd.msg \in Msgs
    BY <2>1 DEF Commands
  <2>3. CASE StartRun(cmd)
    <3>1. TypeRunner' /\ Spawnable'
      BY <1>2, <2>2, <2>3 DEF BridgeCommand, StartRun, proc, bridge, TypeRunner, Spawnable
    <3>2. TypeHistory'
      BY <1>2, <2>2, <2>3 DEF BridgeCommand, StartRun, past, TypeHistory
    <3>3. TypeChannels'
      BY <1>2, <2>1, <2>3 DEF BridgeCommand, StartRun, TypeChannels
    <3> QED
      BY <1>2, <3>1, <3>2, <3>3, Untouched DEF BridgeCommand
  <2>4. CASE AbortRun(cmd)
    <3>1. TypeRunner' /\ Spawnable'
      BY <1>2, <2>4 DEF BridgeCommand, AbortRun, EndRun, proc, TypeRunner, Spawnable
    <3>2. TypeChannels'
      <4>1. CASE EndRun(<<>>)
        <5>1. Append(<<>>, Event("run_complete", {})) \in Seq(Events)
          BY <1>1
        <5>2. Emit(Append(<<>>, Event("run_complete", {})))
          BY <4>1 DEF EndRun
        <5>3. UNCHANGED signals /\ stdin' \in Seq(Commands)
          BY <1>2, <2>1 DEF BridgeCommand
        <5> QED
          BY <5>1, <5>2, <5>3, EmitTyped
      <4>2. CASE UNCHANGED events
        BY <1>2, <2>1, <4>2 DEF BridgeCommand, TypeChannels
      <4> QED
        BY <2>4, <4>1, <4>2 DEF AbortRun
    <3> QED
      BY <1>2, <2>4, <3>1, <3>2, Untouched DEF BridgeCommand, AbortRun
  <2>5. CASE TakeInterject(cmd)
    <3>1. TypeRunner' /\ Spawnable'
      BY <1>2, <2>2, <2>5 DEF BridgeCommand, TakeInterject, proc, TypeRunner, Spawnable
    <3>2. TypeChannels'
      BY <1>2, <2>1, <2>5 DEF BridgeCommand, TakeInterject, TypeChannels
    <3> QED
      BY <1>2, <2>5, <3>1, <3>2, Untouched DEF BridgeCommand, TakeInterject
  <2> QED
    BY <1>2, <2>3, <2>4, <2>5 DEF BridgeCommand
<1>3. CASE BridgeStep
  <2>1. TypeRunner' /\ Spawnable'
    BY <1>3 DEF BridgeStep, proc, TypeRunner, Spawnable
  <2>2. TypeHistory'
    BY <1>3 DEF BridgeStep, past, TypeHistory, TypeRunner
  <2>3. TypeChannels'
    <3>1. <<Event("interject_delivered", unread)>> \in Seq(Events)
      BY MadeEvent DEF TypeRunner
    <3>2. /\ Emit(<<Event("interject_delivered", unread)>>)
          /\ UNCHANGED signals /\ stdin' \in Seq(Commands)
      BY <1>3 DEF BridgeStep, TypeChannels
    <3> QED
      BY <3>1, <3>2, EmitTyped
  <2> QED
    BY <1>3, <2>1, <2>2, <2>3, Untouched DEF BridgeStep
<1>4. ASSUME NEW ask \in BOOLEAN, BridgeFinish(ask) PROVE Typed'
  <2>1. TypeRunner' /\ Spawnable'
    BY <1>4 DEF BridgeFinish, EndRun, proc, TypeRunner, Spawnable
  <2>2. TypeChannels'
    <3> DEFINE new == Append(IF ask THEN <<Event("ask_user", {})>> ELSE <<>>,
                             Event("run_complete", {}))
    <3>1. new \in Seq(Events)
      BY <1>1
    <3>2. Emit(new) /\ UNCHANGED <<signals, stdin>>
      BY <1>4 DEF BridgeFinish, EndRun
    <3> QED
      BY <3>1, <3>2, EmitTyped DEF TypeChannels
  <2> QED
    BY <1>4, <2>1, <2>2, Untouched DEF BridgeFinish
<1> QED
  BY <1>2, <1>3, <1>4 DEF Bridge

\* An exit and a start of a runner keep the types; no runner is started over
\* a live one.
LEMMA RunnerTyped == Typed /\ (RunnerExit \/ OpenSession) => Typed'
<1> SUFFICES ASSUME Typed, RunnerExit \/ OpenSession PROVE Typed'
  OBVIOUS
<1> USE DEF Typed, TypeOK
<1>1. CASE RunnerExit
  <2>1. TypeRunner' /\ Spawnable'
    BY <1>1 DEF RunnerExit, TypeRunner, Spawnable
  <2>2. TypeChannels'
    <3>1. <<Event("closed", {})>> \in Seq(Events)
      BY MadeEvent
    <3>2. /\ Emit(<<Event("closed", {})>>)
          /\ UNCHANGED signals /\ stdin' \in Seq(Commands)
      BY <1>1 DEF RunnerExit
    <3> QED
      BY <3>1, <3>2, EmitTyped
  <2> QED
    BY <1>1, <2>1, <2>2, Untouched DEF RunnerExit
<1>2. CASE OpenSession
  <2>1. TypeRunner' /\ Spawnable'
    BY <1>2, PidRange DEF OpenSession, SpawnRunner, bridge, TypeRunner, Spawnable
  <2> QED
    BY <1>2, <2>1, Untouched DEF OpenSession
<1> QED
  BY <1>1, <1>2

\* What the watcher does with an event keeps the types.
LEMMA WatchTyped ==
    ASSUME Typed, NEW p \in Pids, Watch(p)
    PROVE  Typed'
<1> USE DEF Typed, TypeOK
<1> DEFINE e == Head(events[p])
<1>1. e \in Events /\ Tail(events[p]) \in Seq(Events)
  BY PoppedSeq DEF Watch, TypeChannels
<1>2. events' \in [Pids -> Seq(Events)] /\ stdin' \in Seq(Commands)
  BY <1>1 DEF Watch, TypeChannels
<1>3. CASE WatchAskUser(e)
  <2>1. TypeQueue'
    BY <1>3 DEF WatchAskUser, queue, TypeQueue
  <2>2. TypeChannels'
    BY <1>2, <1>3 DEF WatchAskUser, TypeChannels
  <2> QED
    BY <1>3, <2>1, <2>2, Untouched DEF WatchAskUser, Watch
<1>4. CASE WatchDelivered(e)
  <2>1. TypeQueue'
    <3>1. Drop(items \cap marked \cap e.ids)
      BY <1>4 DEF WatchDelivered
    <3>2. UNCHANGED <<openRun, askPending, stopping, marked>>
      BY <1>4 DEF WatchDelivered, gate
    <3> QED
      BY <3>1, <3>2, MovesTyped DEF TypeQueue
  <2>2. TypeTasks'
    BY <1>4 DEF WatchDelivered, Watch, TypeTasks, PcValues
  <2>3. TypeChannels'
    BY <1>2, <1>4 DEF WatchDelivered, TypeChannels
  <2> QED
    BY <1>4, <2>1, <2>2, <2>3, Untouched DEF WatchDelivered, Watch
<1>5. CASE WatchEnd(e)
  <2>1. TypeChannels'
    BY <1>2, <1>5 DEF WatchEnd, TypeChannels
  <2> QED
    BY <1>5, <2>1, Untouched DEF WatchEnd, Watch
<1> QED
  BY <1>3, <1>4, <1>5 DEF Watch

\* A turn of the drain task keeps the types.
LEMMA DrainTyped == Typed /\ Drain => Typed'
<1> SUFFICES ASSUME Typed, Drain PROVE Typed'
  OBVIOUS
<1> USE DEF Typed, TypeOK
<1>1. TypeChannels'
  BY PoppedSeq DEF Drain, TypeChannels
<1>2. CASE TakeNothing
  <2>1. TypeQueue'
    BY <1>2 DEF Drain, TakeNothing, TypeQueue
  <2> QED
    BY <1>1, <1>2, <2>1, Untouched DEF Drain, TakeNothing
<1>3. ASSUME NEW m \in Msgs, TakeNext(m) PROVE Typed'
  <2>1. TypeQueue'
    BY <1>3, MovesTyped DEF Drain, TakeNext, TypeQueue
  <2>2. TypeTasks'
    BY <1>3, PcSteps DEF Drain, TakeNext, Carry, Go, TypeTasks, Carriers
  <2> QED
    BY <1>1, <1>3, <2>1, <2>2, Untouched DEF Drain
<1> QED
  BY <1>2, <1>3 DEF Drain

\* Every step keeps the types.
LEMMA TypedStep == Typed /\ [Next]_vars => Typed'
<1> SUFFICES ASSUME Typed, [Next]_vars PROVE Typed'
  OBVIOUS
<1>1. CASE UNCHANGED vars
  BY <1>1, Untouched DEF vars, Typed, TypeOK
<1>2. CASE Next
  BY <1>2, SendTyped, UserActsTyped, TaskTyped, InterjectTyped, BridgeTyped,
     RunnerTyped, WatchTyped, DrainTyped DEF Next, Steady
<1> QED
  BY <1>1, <1>2

(* Every variable keeps its type, and no runner is started over a live     *)
(* one, however the senders, the runner and the drain task interleave.     *)
THEOREM TypeCorrect == Spec => []TypeOK
<1>1. Typed => TypeOK
  BY DEF Typed
<1> QED
  BY <1>1, TypedInit, TypedStep, PTL DEF Spec

-----------------------------------------------------------------------------
(* What runners report.                                                    *)

\* What a run has read stays read.
LEMMA HeardGrows == [Next]_vars => heard \subseteq heard'
<1> SUFFICES ASSUME [Next]_vars PROVE heard \subseteq heard'
  OBVIOUS
<1>1. CASE UNCHANGED vars \/ Send \/ UserActs \/ OpenSession \/ Drain \/ RunnerExit
  BY <1>1 DEF vars, given, Send, SendText, SendJump, WakeLook, TryReserve, UserActs,
     Remove, Jump, Stop, AbortWrite, AbortMark, OpenSession, Drain, RunnerExit
<1>2. ASSUME NEW m \in Msgs, Task(m) PROVE heard' = heard
  BY <1>2 DEF Task, TaskRest, given, Check, Decide, Ensure, Persist, Write, OpenGate,
     HandOver, Release
<1>3. CASE Bridge
  BY <1>3 DEF Bridge, BridgeCommand, BridgeStep, BridgeFinish, StartRun, AbortRun,
     TakeInterject, given
<1>4. ASSUME NEW h \in handing, WriteInterject(h) PROVE heard' = heard
  BY <1>4 DEF WriteInterject, given
<1>5. ASSUME NEW p \in Pids, Watch(p) PROVE heard' = heard
  BY <1>5 DEF Watch, given
<1> QED
  BY <1>1, <1>2, <1>3, <1>4, <1>5 DEF Next, Steady

\* A runner never reports as delivered what its run has not read.
LEMMA ReportedStep == Typed /\ Reported /\ [Next]_vars => Reported'
<1> SUFFICES ASSUME Typed, Reported, [Next]_vars PROVE Reported'
  OBVIOUS
<1>1. heard \subseteq heard'
  BY HeardGrows
<1>2. pid \in Pids /\ events \in [Pids -> Seq(Events)] /\ unread \subseteq Msgs
  BY DEF Typed, TypeOK, TypeRunner, TypeChannels
<1>3. ASSUME UNCHANGED events PROVE Reported'
  BY <1>1, <1>3 DEF Reported
<1>4. ASSUME NEW new \in Seq(Events), Emit(new),
             \A i \in DOMAIN new : new[i].kind = "interject_delivered" =>
                                     new[i].ids \subseteq heard'
      PROVE  Reported'
  <2> SUFFICES ASSUME NEW p \in Pids, NEW i \in DOMAIN events'[p],
                      events'[p][i].kind = "interject_delivered"
               PROVE  events'[p][i].ids \subseteq heard'
    BY DEF Reported
  <2>1. CASE p # pid
    BY <1>1, <1>2, <1>4, <2>1 DEF Emit, Reported
  <2>2. CASE p = pid
    <3> DEFINE old == events[pid]
    <3>1. old \in Seq(Events) /\ events'[p] = old \o new
      BY <1>2, <1>4, <2>2 DEF Emit
    <3>2. CASE i \in DOMAIN old
      <4>1. events'[p][i] = old[i]
        BY <3>1, <3>2
      <4> QED
        BY <1>1, <1>2, <3>2, <4>1 DEF Reported
    <3>3. CASE i \notin DOMAIN old
      <4>1. i - Len(old) \in DOMAIN new /\ events'[p][i] = new[i - Len(old)]
        BY <3>1, <3>3
      <4> QED
        BY <1>4, <4>1
    <3> QED
      BY <3>2, <3>3
  <2> QED
    BY <2>1, <2>2
<1>5. CASE UNCHANGED vars \/ Send \/ UserActs \/ OpenSession \/ Drain
  BY <1>3, <1>5 DEF vars, Send, SendText, SendJump, WakeLook, TryReserve, UserActs,
     Remove, Jump, Stop, AbortWrite, AbortMark, OpenSession, Drain
<1>6. ASSUME NEW m \in Msgs, Task(m) PROVE Reported'
  BY <1>3, <1>6 DEF Task, TaskRest, Check, Decide, Ensure, Persist, Write, OpenGate,
     HandOver, Release
<1>7. ASSUME NEW h \in handing, WriteInterject(h) PROVE Reported'
  BY <1>3, <1>7 DEF WriteInterject
<1>8. ASSUME NEW p \in Pids, Watch(p) PROVE Reported'
  <2> SUFFICES ASSUME NEW q \in Pids, NEW i \in DOMAIN events'[q],
                      events'[q][i].kind = "interject_delivered"
               PROVE  events'[q][i].ids \subseteq heard'
    BY DEF Reported
  <2>1. CASE q # p
    BY <1>1, <1>2, <1>8, <2>1 DEF Watch, Reported
  <2>2. CASE q = p
    <3>1. events'[q] = Tail(events[p]) /\ events[p] \in Seq(Events) /\ events[p] # <<>>
      BY <1>2, <1>8, <2>2 DEF Watch
    <3>2. i + 1 \in DOMAIN events[p] /\ events'[q][i] = events[p][i + 1]
      BY <3>1
    <3> QED
      BY <1>1, <3>2 DEF Reported
  <2> QED
    BY <2>1, <2>2
<1>9. CASE RunnerExit
  <2>1. <<Event("closed", {})>> \in Seq(Events) /\ Emit(<<Event("closed", {})>>)
    BY <1>9, MadeEvent DEF RunnerExit
  <2>2. \A i \in DOMAIN <<Event("closed", {})>> :
           <<Event("closed", {})>>[i].kind # "interject_delivered"
    BY DEF Event
  <2> QED
    BY <1>4, <2>1, <2>2
<1>10. ASSUME EndRun(<<>>) PROVE Reported'
  <2> DEFINE new == Append(<<>>, Event("run_complete", {}))
  <2>1. new \in Seq(Events) /\ Emit(new)
    BY <1>10, MadeEvent DEF EndRun
  <2>2. \A i \in DOMAIN new : new[i].kind # "interject_delivered"
    BY DEF Event
  <2> QED
    BY <1>4, <2>1, <2>2
<1>11. CASE Bridge
  <2>1. CASE BridgeCommand
    BY <1>3, <1>10, <2>1 DEF BridgeCommand, StartRun, AbortRun, TakeInterject
  <2>2. CASE BridgeStep
    <3>1. /\ <<Event("interject_delivered", unread)>> \in Seq(Events)
          /\ Emit(<<Event("interject_delivered", unread)>>)
      BY <1>2, <2>2, MadeEvent DEF BridgeStep
    <3>2. \A i \in DOMAIN <<Event("interject_delivered", unread)>> :
             <<Event("interject_delivered", unread)>>[i].ids = unread
      BY DEF Event
    <3>3. unread \subseteq heard'
      BY <2>2 DEF BridgeStep
    <3> QED
      BY <1>4, <3>1, <3>2, <3>3
  <2>3. ASSUME NEW ask \in BOOLEAN, BridgeFinish(ask) PROVE Reported'
    <3> DEFINE new == Append(IF ask THEN <<Event("ask_user", {})>> ELSE <<>>,
                             Event("run_complete", {}))
    <3>1. new \in Seq(Events) /\ Emit(new)
      BY <2>3, MadeEvent DEF BridgeFinish, EndRun
    <3>2. \A i \in DOMAIN new : new[i].kind # "interject_delivered"
      BY DEF Event
    <3> QED
      BY <1>4, <3>1, <3>2
  <2> QED
    BY <1>11, <2>1, <2>2, <2>3 DEF Bridge
<1> QED
  BY <1>5, <1>6, <1>7, <1>8, <1>9, <1>11 DEF Next, Steady

-----------------------------------------------------------------------------
(* The books: where each message is, who carries it, how often stored.     *)

\* The books are right when the session is first used.
LEMMA BooksInit == Init => Books
BY DEF Init, Books, Book, Waits, Carried, Stored, Carrying

\* A message a step leaves alone keeps its book.
LEMMA SameBook ==
    ASSUME NEW n \in Msgs, Book(n), heard \subseteq heard',
           pc'[n] = pc[n], who'[n] = who[n], rows'[n] = rows[n],
           n \in items' <=> n \in items, n \in seen' <=> n \in seen,
           n \in jumped' <=> n \in jumped
    PROVE  Book(n)'
BY DEF Book, Waits, Carried, Stored

\* A step that leaves queue, tasks and rows alone leaves every book right.
LEMMA BooksKept ==
    ASSUME Books, UNCHANGED <<items, pc, who, rows, seen, jumped>>, heard \subseteq heard'
    PROVE  Books'
BY SameBook DEF Books

\* Every send path keeps the books.
LEMMA BooksSend == Typed /\ Books /\ Send => Books'
<1> SUFFICES ASSUME Typed, Books, Send, NEW n \in Msgs PROVE Book(n)'
  BY DEF Books
<1>0. Book(n) /\ pc \in [Msgs -> PcValues] /\ who \in [Msgs -> Carriers]
  BY DEF Books, Typed, TypeOK, TypeTasks
<1> USE DEF Book, Waits, Carried, Stored, Carrying, Carry, Go, FirstStep, past
<1>1. ASSUME NEW m \in Msgs, NEW w \in {"core", "socket"}, SendText(m, w)
      PROVE  Book(n)'
  <2>1. heard \subseteq heard' /\ UNCHANGED rows
    BY <1>1 DEF SendText, given
  <2>2. CASE n # m
    BY <1>0, <1>1, <2>1, <2>2, SameBook
    DEF SendText, OfferDispatch, OfferQueue, PushBack, queue
  <2>3. CASE n = m
    BY <1>0, <1>1, <2>1, <2>3 DEF SendText, OfferDispatch, OfferQueue, PushBack, queue
  <2> QED
    BY <2>2, <2>3
<1>2. ASSUME NEW m \in Msgs, SendJump(m) PROVE Book(n)'
  <2>1. heard \subseteq heard' /\ UNCHANGED rows
    BY <1>2 DEF SendJump, given
  <2> QED
    BY <1>0, <1>2, <2>1 DEF SendJump, OfferDispatch, OfferQueue, PushBack, queue
<1>3. ASSUME NEW m \in Msgs, WakeLook(m) PROVE Book(n)'
  BY <1>0, <1>3 DEF WakeLook, queue, given
<1>4. ASSUME NEW m \in Msgs, NEW w \in {"image", "wake"}, TryReserve(m, w)
      PROVE  Book(n)'
  BY <1>0, <1>4 DEF TryReserve, OfferDispatch, queue, given
<1> QED
  BY <1>1, <1>2, <1>3, <1>4 DEF Send

\* Jump, remove and stop keep the books.
LEMMA BooksUserActs == Typed /\ Books /\ UserActs => Books'
<1> SUFFICES ASSUME Typed, Books, UserActs PROVE Books'
  OBVIOUS
<1>0. pc \in [Msgs -> PcValues] /\ who \in [Msgs -> Carriers]
  BY DEF Typed, TypeOK, TypeTasks
<1>1. ASSUME NEW m \in Msgs, Remove(m), NEW n \in Msgs PROVE Book(n)'
  <2>0. /\ Book(n) /\ who' = who /\ rows' = rows /\ seen' = seen
        /\ jumped' = jumped /\ heard' = heard /\ m \in items
    BY <1>1 DEF Books, Remove, past, given
  <2>1. CASE n # m
    BY <1>0, <1>1, <2>0, <2>1, SameBook DEF Remove, Drop, Go
  <2>2. CASE n = m
    <3>1. n \notin items' /\ pc'[n] = "removed"
      BY <1>0, <1>1, <2>2 DEF Remove, Drop, Go
    <3> QED
      BY <2>0, <2>2, <3>1 DEF Book, Waits, Carried, Stored, Carrying
  <2> QED
    BY <2>1, <2>2
<1>2. ASSUME NEW m \in Msgs, NEW w \in {"jump", "socket"}, Jump(m, w), NEW n \in Msgs
      PROVE  Book(n)'
  <2>0. Book(n) /\ heard' = heard /\ rows' = rows /\ seen' = seen /\ m \in items
    BY <1>2 DEF Books, Jump, given
  <2>1. CASE n # m
    <3>1. n \in items' <=> n \in items
      BY <1>2, <2>1 DEF Jump, PushFront, Drop
    <3>2. pc'[n] = pc[n] /\ who'[n] = who[n]
      BY <1>0, <1>2, <2>1 DEF Jump, Carry, Go
    <3>3. n \in jumped' <=> n \in jumped
      BY <1>2, <2>1 DEF Jump
    <3> QED
      BY <2>0, <3>1, <3>2, <3>3, SameBook
  <2>2. CASE n = m /\ openRun
    BY <1>0, <1>2, <2>0, <2>2
    DEF Jump, PushFront, Go, Book, Waits, Carried, Stored, Carrying
  <2>3. CASE n = m /\ ~openRun
    <3>1. /\ n \notin items' /\ pc'[n] = FirstStep(w) /\ who'[n] = w /\ n \in jumped'
      BY <1>0, <1>2, <2>3 DEF Jump, Drop, Carry, Go
    <3> QED
      BY <2>0, <2>3, <3>1
      DEF FirstStep, Book, Waits, Carried, Stored, Carrying
  <2> QED
    BY <2>1, <2>2, <2>3
<1>3. ASSUME NEW a \in Stops, Stop(a) \/ AbortWrite(a) \/ AbortMark(a) PROVE Books'
  BY <1>3, BooksKept DEF Stop, AbortWrite, AbortMark, queue, tasks, past, given
<1> QED
  BY <1>1, <1>2, <1>3 DEF UserActs, Books

\* Every step of the task that carries a message keeps the books.
LEMMA BooksTask ==
    ASSUME Typed, Books, NEW m \in Msgs, Task(m)
    PROVE  Books'
<1> SUFFICES ASSUME NEW n \in Msgs PROVE Book(n)'
  BY DEF Books
<1>0. /\ pc \in [Msgs -> PcValues] /\ who \in [Msgs -> Carriers]
      /\ rows \in [Msgs -> Nat] /\ Book(n) /\ Book(m)
  BY DEF Typed, TypeOK, TypeTasks, Books
<1>1. who' = who /\ seen' = seen /\ jumped' = jumped /\ heard' = heard
  BY DEF Task, Check, Decide, Ensure, Persist, Write, OpenGate, HandOver, Release,
     TaskRest, past, given
<1>2. ~Persist(m) => items' = items /\ rows' = rows
  BY DEF Task, Check, Decide, Ensure, Write, OpenGate, HandOver, Release, TaskRest, queue
<1>3. CASE n # m
  <2>1. pc'[n] = pc[n]
    BY <1>0, <1>3 DEF Task, Check, Decide, Ensure, Persist, Write, OpenGate, HandOver,
       Release, Go
  <2>2. rows'[n] = rows[n] /\ (n \in items' <=> n \in items)
    BY <1>0, <1>2, <1>3 DEF Persist, PushFront, queue
  <2> QED
    BY <1>0, <1>1, <2>1, <2>2, SameBook
<1>4. CASE n = m /\ ~Persist(m)
  <2>1. \/ pc[m] = "check" /\ pc'[m] \in {"ensure", "release"}
        \/ pc[m] = "decide" /\ pc'[m] \in {"persist", "release"}
        \/ pc[m] = "ensure" /\ pc'[m] \in {AfterEnsure(who[m]), "release"}
        \/ pc[m] = "write" /\ pc'[m] \in {"gate", "release"}
        \/ pc[m] = "gate" /\ pc'[m] \in {"hand", "over"}
        \/ pc[m] \in {"hand", "release"} /\ pc'[m] = "over"
    BY <1>0, <1>4 DEF Task, Check, Decide, Ensure, Write, OpenGate, HandOver, Release, Go
  <2>2. Waits(m)'
    BY <1>0, <1>2, <1>4, <2>1 DEF AfterEnsure, Book, Waits
  <2>3. Carried(m)'
    BY <1>0, <1>1, <1>4, <2>1 DEF AfterEnsure, Book, Carried, Carrying
  <2>4. Stored(m)'
    BY <1>0, <1>1, <1>2, <1>4, <2>1 DEF AfterEnsure, Book, Stored, Carried, Carrying
  <2> QED
    BY <1>4, <2>2, <2>3, <2>4 DEF Book
<1>5. CASE n = m /\ Persist(m)
  <2>1. pc[m] = "persist" /\ rows[m] = 0 /\ m \notin items
    BY <1>0, <1>5 DEF Persist, Book, Waits, Stored
  <2>2. \/ items' = items /\ rows'[m] = 1 /\ pc'[m] = AfterPersist(who[m])
        \/ /\ items' = items /\ rows' = rows /\ pc'[m] = "release"
           /\ who[m] \notin {"drain", "jump"}
        \/ /\ m \in items' /\ rows' = rows /\ pc'[m] = "queued"
           /\ who[m] \in {"drain", "jump"}
    BY <1>0, <1>5, <2>1 DEF Persist, PushFront, queue, Go
  <2> QED
    BY <1>0, <1>1, <1>5, <2>1, <2>2
    DEF AfterPersist, Book, Waits, Carried, Stored, Carrying
<1> QED
  BY <1>3, <1>4, <1>5

\* The watcher stores and drops exactly what was read, and keeps the books.
LEMMA BooksWatch ==
    ASSUME Typed, Reported, Books, NEW p \in Pids, Watch(p)
    PROVE  Books'
<1> DEFINE e == Head(events[p])
<1>0. /\ pc \in [Msgs -> PcValues] /\ who \in [Msgs -> Carriers]
      /\ rows \in [Msgs -> Nat] /\ items \subseteq Msgs
      /\ events[p] \in Seq(Events) /\ events[p] # <<>>
  BY DEF Typed, TypeOK, TypeTasks, TypeQueue, TypeChannels, Watch
<1>1. heard' = heard /\ seen' = seen /\ jumped' = jumped
  BY DEF Watch, past, given
<1>2. CASE WatchAskUser(e) \/ WatchEnd(e)
  BY <1>1, <1>2, BooksKept DEF WatchAskUser, WatchEnd, queue, tasks
<1>3. CASE WatchDelivered(e)
  <2> DEFINE read == items \cap marked \cap e.ids
  <2> SUFFICES ASSUME NEW n \in Msgs PROVE Book(n)'
    BY DEF Books
  <2>1. e.kind = "interject_delivered" /\ e = events[p][1] /\ 1 \in DOMAIN events[p]
    BY <1>0, <1>3 DEF WatchDelivered
  <2>2. read \subseteq heard
    BY <2>1 DEF Reported
  <2>3. /\ items' = items \ read /\ who' = who
        /\ pc'[n] = (IF n \in read THEN "over" ELSE pc[n])
        /\ \/ rows'[n] = rows[n] + (IF n \in read THEN 1 ELSE 0)
           \/ rows'[n] = rows[n]
    BY <1>3 DEF WatchDelivered, Drop
  <2>4. Book(n)
    BY DEF Books
  <2> HIDE DEF e
  <2> QED
    BY <1>0, <1>1, <2>2, <2>3, <2>4 DEF Book, Waits, Carried, Stored, Carrying
<1> QED
  BY <1>2, <1>3 DEF Watch

\* A turn of the drain task keeps the books.
LEMMA BooksDrain == Typed /\ Books /\ Drain => Books'
<1> SUFFICES ASSUME Typed, Books, Drain PROVE Books'
  OBVIOUS
<1>0. /\ pc \in [Msgs -> PcValues] /\ who \in [Msgs -> Carriers]
      /\ heard' = heard /\ seen' = seen /\ jumped' = jumped /\ rows' = rows
  BY DEF Typed, TypeOK, TypeTasks, Drain, past, given
<1>1. CASE TakeNothing
  BY <1>0, <1>1, BooksKept DEF TakeNothing, tasks
<1>2. ASSUME NEW m \in Msgs, TakeNext(m), NEW n \in Msgs PROVE Book(n)'
  <2>1. Book(n) /\ m \in items
    BY <1>2 DEF Books, TakeNext, AtFront
  <2>2. CASE n # m
    BY <1>0, <1>2, <2>1, <2>2, SameBook DEF TakeNext, Drop, Carry, Go
  <2>3. CASE n = m
    <3>1. n \notin items' /\ pc'[n] = "persist" /\ who'[n] = "drain"
      BY <1>0, <1>2, <2>3 DEF TakeNext, Drop, Carry, Go, FirstStep
    <3> QED
      BY <1>0, <2>1, <2>3, <3>1 DEF Book, Waits, Carried, Stored, Carrying
  <2> QED
    BY <2>2, <2>3
<1> QED
  BY <1>1, <1>2 DEF Drain, Books

\* Every step keeps the books.
LEMMA BooksStep == Typed /\ Reported /\ Books /\ [Next]_vars => Books'
<1> SUFFICES ASSUME Typed, Reported, Books, [Next]_vars PROVE Books'
  OBVIOUS
<1>1. heard \subseteq heard'
  BY HeardGrows
<1>2. CASE UNCHANGED vars \/ RunnerExit \/ OpenSession
  BY <1>1, <1>2, BooksKept DEF vars, RunnerExit, OpenSession, queue, tasks, past
<1>3. CASE Bridge
  BY <1>1, <1>3, BooksKept
  DEF Bridge, BridgeCommand, BridgeStep, BridgeFinish, queue, tasks, past
<1>4. ASSUME NEW h \in handing, WriteInterject(h) PROVE Books'
  BY <1>1, <1>4, BooksKept DEF WriteInterject, queue, tasks, past
<1> QED
  BY <1>2, <1>3, <1>4, BooksSend, BooksUserActs, BooksTask, BooksWatch, BooksDrain
  DEF Next, Steady

-----------------------------------------------------------------------------
(* The order of the queue.                                                 *)

\* The variables the order is about.
order == <<items, ahead, marked, pc, who, rows, seen, older, jumped>>

\* The order is right when the session is first used.
LEMMA LinedInit == Init => Lined
BY DEF Init, Lined, Ordered, Turn, QueueOrder

\* A step that touches nothing the order is about keeps it.
LEMMA LinedKept == Lined /\ UNCHANGED order => Lined'
BY DEF Lined, Ordered, Turn, QueueOrder, order

\* A step that only moves tasks, none of them into the drain task's hands.
LEMMA LinedTasks ==
    ASSUME Typed, Lined, UNCHANGED <<items, ahead, marked, rows, seen, older, jumped>>,
           \A n \in Msgs : who'[n] = "drain" =>
               /\ who[n] = "drain"
               /\ pc'[n] \in Parked \/ pc[n] \notin Parked
               /\ pc'[n] = "persist" => pc[n] = "persist"
    PROVE  Lined'
<1>1. Ordered'
  BY DEF Lined, Ordered
<1>2. Turn'
  <2>1. items \subseteq Msgs
    BY DEF Typed, TypeOK, TypeQueue
  <2> QED
    BY <2>1 DEF Lined, Turn
<1>3. QueueOrder'
  <2>1. older \subseteq Msgs \X Msgs
    BY DEF Typed, TypeOK, TypeHistory
  <2> QED
    BY <2>1 DEF Lined, QueueOrder
<1> QED
  BY <1>1, <1>2, <1>3 DEF Lined

\* Every send path keeps the order: what is queued goes to the back.
LEMMA LinedSend == Typed /\ Books /\ Lined /\ Send => Lined'
<1> SUFFICES ASSUME Typed, Books, Lined, Send PROVE Lined'
  OBVIOUS
<1>0. /\ pc \in [Msgs -> PcValues] /\ who \in [Msgs -> Carriers] /\ items \subseteq Msgs
      /\ seen \subseteq Msgs /\ marked \subseteq Msgs /\ jumped \subseteq Msgs
      /\ older \subseteq Msgs \X Msgs /\ ahead \subseteq Msgs \X Msgs
  BY DEF Typed, TypeOK, TypeTasks, TypeQueue, TypeHistory
\* A new message is in no queue, no order and no task.
<1>1. ASSUME NEW m \in Msgs, pc[m] \in {"new", "looked"}
      PROVE  /\ m \notin items /\ m \notin seen /\ rows[m] = 0 /\ who[m] = "nobody"
  BY <1>1 DEF Books, Book, Waits, Carried, Stored
<1>2. ASSUME NEW m \in Msgs, pc[m] \in {"new", "looked"},
             NEW w \in Carriers \ {"drain"}, OfferDispatch(m, w), UNCHANGED rows
      PROVE  Lined'
  <2>1. UNCHANGED <<items, ahead, marked, seen, older, jumped>>
    BY <1>2 DEF OfferDispatch, queue, past
  <2>2. \A n \in Msgs : who'[n] = "drain" => who[n] = "drain" /\ pc'[n] = pc[n]
    BY <1>0, <1>2 DEF OfferDispatch, Carry, Go
  <2> QED
    BY <1>2, <2>1, <2>2, LinedTasks
<1>3. ASSUME NEW m \in Msgs, pc[m] = "new", NEW w \in Carriers \ {"drain"}, NEW b, NEW step,
             OfferQueue(m, w, b, step), UNCHANGED rows
      PROVE  Lined'
  <2>0. /\ m \notin items /\ m \notin seen /\ rows[m] = 0
    BY <1>1, <1>3
  <2>1. \A n \in Msgs : who'[n] = "drain" => n # m /\ who[n] = "drain" /\ pc'[n] = pc[n]
    BY <1>0, <1>3 DEF OfferQueue, Go
  <2>2. /\ items' = items \cup {m} /\ ahead' = ahead \cup (items \X {m})
        /\ seen' = seen \cup {m} /\ older' = older \cup (seen \X {m})
        /\ jumped' = jumped /\ rows' = rows /\ marked \subseteq marked'
    BY <1>3 DEF OfferQueue, PushBack
  <2>3. Ordered'
    BY <1>0, <2>0, <2>2 DEF Lined, Ordered
  <2>4. Turn'
    BY <1>0, <2>0, <2>1, <2>2 DEF Lined, Ordered, Turn
  <2>5. QueueOrder'
    BY <1>0, <2>0, <2>1, <2>2 DEF Lined, Ordered, QueueOrder
  <2> QED
    BY <2>3, <2>4, <2>5 DEF Lined
<1>4. ASSUME NEW m \in Msgs, NEW w \in {"core", "socket"}, SendText(m, w)
      PROVE  Lined'
  BY <1>2, <1>3, <1>4 DEF SendText, Carriers
<1>5. ASSUME NEW m \in Msgs, SendJump(m) PROVE Lined'
  BY <1>2, <1>3, <1>5 DEF SendJump, Carriers
<1>6. ASSUME NEW m \in Msgs, WakeLook(m) PROVE Lined'
  <2>1. UNCHANGED <<items, ahead, marked, who, rows, seen, older, jumped>>
    BY <1>6 DEF WakeLook, queue, past
  <2>2. \A n \in Msgs : who'[n] = "drain" => who[n] = "drain" /\ pc'[n] = pc[n]
    BY <1>0, <1>1, <1>6 DEF WakeLook, Go
  <2> QED
    BY <2>1, <2>2, LinedTasks
<1>7. ASSUME NEW m \in Msgs, NEW w \in {"image", "wake"}, TryReserve(m, w)
      PROVE  Lined'
  <2>1. CASE OfferDispatch(m, w)
    BY <1>2, <1>7, <2>1 DEF TryReserve, Carriers
  <2>2. CASE ~OfferDispatch(m, w)
    <3>1. UNCHANGED <<items, ahead, marked, rows, seen, older, jumped>>
      BY <1>7, <2>2 DEF TryReserve, queue, past
    <3>2. \A n \in Msgs : who'[n] = "drain" => who[n] = "drain" /\ pc'[n] = pc[n]
      BY <1>0, <1>7, <2>2 DEF TryReserve, Go
    <3> QED
      BY <3>1, <3>2, LinedTasks
  <2> QED
    BY <2>1, <2>2
<1> QED
  BY <1>4, <1>5, <1>6, <1>7 DEF Send

\* Jump, remove and stop keep the order of the others.
LEMMA LinedUserActs == Typed /\ Books /\ Lined /\ UserActs => Lined'
<1> SUFFICES ASSUME Typed, Books, Lined, UserActs PROVE Lined'
  OBVIOUS
<1>0. /\ pc \in [Msgs -> PcValues] /\ who \in [Msgs -> Carriers] /\ items \subseteq Msgs
      /\ older \subseteq Msgs \X Msgs /\ ahead \subseteq Msgs \X Msgs
  BY DEF Typed, TypeOK, TypeTasks, TypeQueue, TypeHistory
<1>1. ASSUME NEW m \in Msgs, Remove(m) PROVE Lined'
  <2>1. /\ items' = items \ {m}
        /\ ahead' = {p \in ahead : p[1] \notin {m} /\ p[2] \notin {m}}
        /\ UNCHANGED <<marked, who, rows, seen, older, jumped>>
    BY <1>1 DEF Remove, Drop, past
  <2>2. \A n \in Msgs : pc'[n] = IF n = m THEN "removed" ELSE pc[n]
    BY <1>0, <1>1 DEF Remove, Go
  <2>3. Ordered'
    BY <1>0, <2>1 DEF Lined, Ordered
  <2>4. Turn'
    BY <1>0, <2>1, <2>2 DEF Lined, Turn, Parked
  <2>5. QueueOrder'
    BY <1>0, <2>1, <2>2 DEF Lined, QueueOrder
  <2> QED
    BY <2>3, <2>4, <2>5 DEF Lined
<1>2. ASSUME NEW m \in Msgs, NEW w \in {"jump", "socket"}, Jump(m, w) PROVE Lined'
  <2>1. /\ jumped' = jumped \cup {m} /\ UNCHANGED <<marked, rows, seen, older>>
        /\ m \in items
    BY <1>2 DEF Jump
  <2>2. CASE openRun
    <3>1. /\ items' = items /\ UNCHANGED who
          /\ ahead' = {p \in ahead : p[2] # m} \cup ({m} \X (items \ {m}))
      BY <1>2, <2>1, <2>2 DEF Jump, PushFront
    <3>2. \A n \in Msgs : pc'[n] = pc[n] \/ pc'[n] = "queued"
      BY <1>0, <1>2, <2>2 DEF Jump, Go
    <3>3. Ordered'
      BY <1>0, <2>1, <3>1 DEF Lined, Ordered
    <3>4. Turn'
      BY <1>0, <2>1, <3>1, <3>2 DEF Lined, Turn, Parked
    <3>5. QueueOrder'
      BY <1>0, <2>1, <3>1, <3>2 DEF Lined, QueueOrder
    <3> QED
      BY <3>3, <3>4, <3>5 DEF Lined
  <2>3. CASE ~openRun
    <3>1. /\ items' = items \ {m}
          /\ ahead' = {p \in ahead : p[1] \notin {m} /\ p[2] \notin {m}}
      BY <1>2, <2>3 DEF Jump, Drop
    <3>2. \A n \in Msgs : who'[n] = "drain" => who[n] = "drain" /\ pc'[n] = pc[n]
      BY <1>0, <1>2, <2>3 DEF Jump, Carry, Go
    <3>3. Ordered'
      BY <1>0, <2>1, <3>1 DEF Lined, Ordered
    <3>4. Turn'
      BY <1>0, <2>1, <3>1, <3>2 DEF Lined, Turn, Parked
    <3>5. QueueOrder'
      BY <1>0, <2>1, <3>1, <3>2 DEF Lined, QueueOrder
    <3> QED
      BY <3>3, <3>4, <3>5 DEF Lined
  <2> QED
    BY <2>2, <2>3
<1>3. ASSUME NEW a \in Stops, Stop(a) \/ AbortWrite(a) \/ AbortMark(a) PROVE Lined'
  BY <1>3, LinedKept DEF Stop, AbortWrite, AbortMark, order, queue, tasks, past
<1> QED
  BY <1>1, <1>2, <1>3 DEF UserActs

\* Every step of a task keeps the order; a failed write goes back to the
\* front.
LEMMA LinedTask ==
    ASSUME Typed, Books, Lined, NEW m \in Msgs, Task(m)
    PROVE  Lined'
<1>0. /\ pc \in [Msgs -> PcValues] /\ items \subseteq Msgs /\ rows \in [Msgs -> Nat]
      /\ older \subseteq Msgs \X Msgs /\ ahead \subseteq Msgs \X Msgs
  BY DEF Typed, TypeOK, TypeTasks, TypeQueue, TypeHistory
<1>1. CASE ~Persist(m)
  <2>1. UNCHANGED <<items, ahead, marked, who, rows, seen, older, jumped>>
    BY <1>1 DEF Task, Check, Decide, Ensure, Write, OpenGate, HandOver, Release,
       TaskRest, queue, past
  <2>2. /\ \A n \in Msgs : n # m => pc'[n] = pc[n]
        /\ pc[m] \notin Parked
        /\ pc'[m] = "persist" => pc[m] \in {"decide", "ensure"}
    BY <1>0, <1>1 DEF Task, Check, Decide, Ensure, Write, OpenGate, HandOver, Release,
       Go, AfterEnsure, Parked
  <2>3. pc[m] \in {"decide", "ensure"} => who[m] # "drain"
    BY DEF Books, Book, Carried
  <2> QED
    BY <2>1, <2>2, <2>3, LinedTasks
<1>2. CASE Persist(m)
  <2>0. /\ pc[m] = "persist" /\ rows[m] = 0 /\ m \notin items
        /\ UNCHANGED <<marked, who, seen, older, jumped>>
        /\ who[m] = "jump" => m \in jumped
    BY <1>2 DEF Persist, Books, Book, Waits, Carried, Stored, past, queue, Parked
  <2>1. CASE rows' = [rows EXCEPT ![m] = @ + 1] /\ Go(m, AfterPersist(who[m]))
             /\ UNCHANGED queue
    <3>1. \A n \in Msgs \ {m} : pc'[n] = pc[n] /\ rows'[n] = rows[n]
      BY <1>0, <2>1 DEF Go
    <3>2. pc'[m] \in {"ensure", "write"} /\ rows'[m] = 1
      BY <1>0, <2>0, <2>1 DEF Go, AfterPersist
    <3>3. UNCHANGED <<items, ahead>>
      BY <2>1 DEF queue
    <3>4. Ordered'
      BY <2>0, <3>3 DEF Lined, Ordered
    <3>5. Turn'
      BY <1>0, <2>0, <3>1, <3>2, <3>3 DEF Lined, Turn, Parked
    \* m leaves last: by Turn nothing older waits, and nothing else is popped.
    <3>6. QueueOrder'
      <4> SUFFICES ASSUME NEW n \in Msgs, NEW x \in Msgs, <<n, x>> \in older,
                          {n, x} \cap jumped = {}, x \notin marked, rows'[x] = 1
                   PROVE  n \notin items /\ ~(who[n] = "drain" /\ pc'[n] = "persist")
        BY <1>0, <2>0, <3>3 DEF QueueOrder
      <4>1. CASE x # m
        BY <1>0, <2>0, <3>1, <3>2, <4>1 DEF Lined, QueueOrder
      <4>2. CASE x = m
        <5>1. m \in seen /\ who[m] = "drain"
          BY <1>0, <2>0, <4>2 DEF Lined, Ordered, Books, Book, Carried, Carrying
        <5>2. n # m
          BY <4>2 DEF Lined, Ordered
        <5>3. n \notin items
          BY <2>0, <4>2, <5>1 DEF Lined, Turn
        <5>4. ~(who[n] = "drain" /\ pc'[n] = "persist")
          BY <2>0, <3>1, <5>1, <5>2 DEF Lined, Turn, Parked
        <5> QED
          BY <5>3, <5>4
      <4> QED
        BY <4>1, <4>2
    <3> QED
      BY <3>4, <3>5, <3>6 DEF Lined
  <2>2. CASE UNCHANGED <<queue, rows>> /\ Go(m, "release")
             /\ who[m] \notin {"drain", "jump"}
    <3>1. \A n \in Msgs : who'[n] = "drain" => who[n] = "drain" /\ pc'[n] = pc[n]
      BY <1>0, <2>0, <2>2 DEF Go
    <3> QED
      BY <2>0, <2>2, <3>1, LinedTasks DEF queue
  <2>3. CASE PushFront(m) /\ Go(m, "queued") /\ who[m] \in {"drain", "jump"}
             /\ UNCHANGED rows
    <3>1. \A n \in Msgs : pc'[n] = IF n = m THEN "queued" ELSE pc[n]
      BY <1>0, <2>3 DEF Go
    <3>2. /\ items' = items \cup {m}
          /\ ahead' = {p \in ahead : p[2] # m} \cup ({m} \X (items \ {m}))
      BY <2>3 DEF PushFront
    \* Nothing older than m waits, so the front is m's place.
    <3>3. \A n \in items : {m, n} \cap jumped = {} => <<n, m>> \notin older
      BY <1>0, <2>0, <2>3 DEF Lined, Turn
    <3>4. Ordered'
      <4>1. /\ ahead' \subseteq items' \X items'
            /\ \A x, n \in Msgs : <<x, n>> \in ahead' => <<n, x>> \notin ahead'
        BY <1>0, <2>0, <3>2 DEF Lined, Ordered
      <4>2. \A x, n \in items' \ jumped' : <<n, x>> \in older => <<n, x>> \in ahead'
        BY <1>0, <2>0, <3>2, <3>3 DEF Lined, Ordered
      <4> QED
        BY <2>0, <4>1, <4>2 DEF Lined, Ordered
    <3>5. Turn'
      <4> SUFFICES ASSUME NEW x \in Msgs, who[x] = "drain", pc'[x] \notin Parked
                   PROVE  /\ \A n \in Msgs : who[n] = "drain" /\ pc'[n] \notin Parked
                                               => x = n
                          /\ \A n \in items' : pc'[x] = "persist" /\ {x, n} \cap jumped = {}
                                               => <<n, x>> \notin older
        BY <2>0, <3>1 DEF Turn, Parked
      <4>1. x # m /\ pc'[x] = pc[x]
        BY <3>1 DEF Parked
      <4>2. who[m] # "drain"
        BY <2>0, <4>1 DEF Lined, Turn, Parked
      <4>3. m \in jumped
        BY <2>0, <2>3, <4>2
      <4> QED
        BY <1>0, <3>1, <3>2, <4>1, <4>3 DEF Lined, Turn, Parked
    <3>6. QueueOrder'
      <4> SUFFICES ASSUME NEW n \in Msgs, NEW x \in Msgs, <<n, x>> \in older,
                          {n, x} \cap jumped = {}, x \notin marked, rows[x] = 1
                   PROVE  n \notin items' /\ ~(who[n] = "drain" /\ pc'[n] = "persist")
        BY <1>0, <2>0, <2>3 DEF QueueOrder
      <4>1. n \notin items /\ ~(who[n] = "drain" /\ pc[n] = "persist")
        BY DEF Lined, QueueOrder
      <4>2. n # m
        BY <2>0, <2>3, <4>1
      <4> QED
        BY <3>1, <3>2, <4>1, <4>2
    <3> QED
      BY <3>4, <3>5, <3>6 DEF Lined
  <2> QED
    BY <1>2, <2>1, <2>2, <2>3 DEF Persist
<1> QED
  BY <1>1, <1>2

\* What the watcher takes out of the queue leaves the order of the rest.
LEMMA LinedWatch ==
    ASSUME Typed, Books, Lined, NEW p \in Pids, Watch(p)
    PROVE  Lined'
<1> DEFINE e == Head(events[p])
           read == items \cap marked \cap e.ids
<1>0. /\ pc \in [Msgs -> PcValues] /\ items \subseteq Msgs /\ rows \in [Msgs -> Nat]
      /\ older \subseteq Msgs \X Msgs /\ ahead \subseteq Msgs \X Msgs
  BY DEF Typed, TypeOK, TypeTasks, TypeQueue, TypeHistory
<1>1. UNCHANGED <<seen, older, jumped>>
  BY DEF Watch, past
<1>2. CASE WatchAskUser(e) \/ WatchEnd(e)
  BY <1>1, <1>2, LinedKept DEF WatchAskUser, WatchEnd, queue, tasks, order
<1>3. CASE WatchDelivered(e)
  <2>1. /\ items' = items \ read /\ UNCHANGED <<who, marked>>
        /\ ahead' = {q \in ahead : q[1] \notin read /\ q[2] \notin read}
        /\ \A n \in Msgs : pc'[n] = IF n \in read THEN "over" ELSE pc[n]
        /\ \A n \in Msgs : n \notin marked => rows'[n] = rows[n]
    BY <1>0, <1>3 DEF WatchDelivered, Drop
  <2> HIDE DEF e, read
  <2>2. Ordered'
    BY <1>0, <1>1, <2>1 DEF Lined, Ordered
  <2>3. Turn'
    BY <1>0, <1>1, <2>1 DEF Lined, Turn, Parked
  <2>4. QueueOrder'
    BY <1>0, <1>1, <2>1 DEF Lined, QueueOrder
  <2> QED
    BY <2>2, <2>3, <2>4 DEF Lined
<1> QED
  BY <1>2, <1>3 DEF Watch

\* The drain task takes the front, so nothing older is left behind it.
LEMMA LinedDrain == Typed /\ Books /\ Lined /\ Drain => Lined'
<1> SUFFICES ASSUME Typed, Books, Lined, Drain PROVE Lined'
  OBVIOUS
<1>0. /\ pc \in [Msgs -> PcValues] /\ who \in [Msgs -> Carriers] /\ items \subseteq Msgs
      /\ older \subseteq Msgs \X Msgs /\ ahead \subseteq Msgs \X Msgs
  BY DEF Typed, TypeOK, TypeTasks, TypeQueue, TypeHistory
<1>1. UNCHANGED <<marked, rows, seen, older, jumped>>
  BY DEF Drain, past
<1>2. CASE TakeNothing
  BY <1>1, <1>2, LinedKept DEF TakeNothing, tasks, order
<1>3. ASSUME NEW m \in Msgs, TakeNext(m) PROVE Lined'
  <2>1. /\ m \in items /\ \A n \in items \ {m} : <<m, n>> \in ahead
        /\ items' = items \ {m}
        /\ ahead' = {p \in ahead : p[1] \notin {m} /\ p[2] \notin {m}}
    BY <1>3 DEF TakeNext, AtFront, Drop
  <2>2. /\ who'[m] = "drain" /\ pc'[m] = "persist"
        /\ \A n \in Msgs \ {m} : who'[n] = who[n] /\ pc'[n] = pc[n]
    BY <1>0, <1>3 DEF TakeNext, Carry, Go, FirstStep
  \* The drain task is idle: it carries nothing else.
  <2>3. \A n \in Msgs : who[n] = "drain" => pc[n] \in Parked
    BY DEF Drain, DrainIdle, Parked
  <2>4. Ordered'
    BY <1>0, <1>1, <2>1 DEF Lined, Ordered
  <2>5. Turn'
    \* Whatever is older than the front, and waits, would be ahead of it.
    <3>1. \A n \in items' : {m, n} \cap jumped = {} => <<n, m>> \notin older
      BY <1>0, <2>1 DEF Lined, Ordered
    <3> QED
      BY <1>0, <1>1, <2>1, <2>2, <2>3, <3>1 DEF Turn, Parked
  <2>6. QueueOrder'
    BY <1>0, <1>1, <2>1, <2>2 DEF Lined, QueueOrder
  <2> QED
    BY <2>4, <2>5, <2>6 DEF Lined
<1> QED
  BY <1>2, <1>3 DEF Drain

\* Every step keeps the order.
LEMMA LinedStep == Typed /\ Books /\ Lined /\ [Next]_vars => Lined'
<1> SUFFICES ASSUME Typed, Books, Lined, [Next]_vars PROVE Lined'
  OBVIOUS
<1>1. CASE UNCHANGED vars \/ RunnerExit \/ OpenSession
  BY <1>1, LinedKept DEF vars, RunnerExit, OpenSession, queue, tasks, past, order
<1>2. CASE Bridge
  BY <1>2, LinedKept
  DEF Bridge, BridgeCommand, BridgeStep, BridgeFinish, queue, tasks, past, order
<1>3. ASSUME NEW h \in handing, WriteInterject(h) PROVE Lined'
  BY <1>3, LinedKept DEF WriteInterject, queue, tasks, past, order
<1> QED
  BY <1>1, <1>2, <1>3, LinedSend, LinedUserActs, LinedTask, LinedWatch, LinedDrain
  DEF Next, Steady

-----------------------------------------------------------------------------
(* The invariants, for every instance.                                     *)

\* The inductive invariant: types, reports, books and order hold in every
\* reachable state.
THEOREM Inductive == Spec => []IInv
<1>1. Init => IInv
  BY TypedInit, BooksInit, LinedInit DEF IInv, Init, Reported
<1>2. IInv /\ [Next]_vars => IInv'
  BY TypedStep, ReportedStep, BooksStep, LinedStep DEF IInv
<1> QED
  BY <1>1, <1>2, PTL DEF Spec

(* However a message is popped, re-queued, delivered, jumped or removed,   *)
(* and whatever fails or exits meanwhile, SQLite gets at most one user row *)
(* for it, and none while it still waits (Core and the watcher persist).   *)
THEOREM EveryMessageStoredOnce == Spec => []StoredOnce
<1>1. IInv => StoredOnce
  BY DEF IInv, Books, Book, Waits, Stored, StoredOnce
<1> QED
  BY <1>1, Inductive, PTL

(* A message whose sender was told "queued" is waiting, being carried,     *)
(* stored, read or withdrawn: no interleaving of the drain task, the       *)
(* watcher, a jump and a failed write drops it.                            *)
THEOREM NoQueuedMessageLost == Spec => []NothingLost
<1>1. IInv => NothingLost
  <2> SUFFICES ASSUME IInv, NEW m \in seen
               PROVE  \/ m \in items \/ rows[m] = 1 \/ m \in heard
                      \/ pc[m] = "removed" \/ pc[m] \in Carrying
                      \/ who[m] = "socket" /\ m \in jumped
    BY DEF NothingLost
  <2>1. m \in Msgs /\ pc[m] \in PcValues
    BY DEF IInv, Typed, TypeOK, TypeHistory, TypeTasks
  <2>2. Waits(m) /\ Carried(m) /\ Stored(m)
    BY <2>1 DEF IInv, Books, Book
  <2> QED
    BY <2>1, <2>2 DEF Waits, Carried, Stored, PcValues, Carrying
<1> QED
  BY <1>1, Inductive, PTL

(* An ordinary queued message reaches the database only after everything   *)
(* queued before it: the failed write's push_front, offers made meanwhile  *)
(* and the deliveries in between keep the order of arrival.                *)
THEOREM QueueOrderKept == Spec => []QueueOrder
<1>1. IInv => QueueOrder
  BY DEF IInv, Lined
<1> QED
  BY <1>1, Inductive, PTL

-----------------------------------------------------------------------------
(***************************************************************************)
(* MessageQueue implements Mailbox: Init maps to Mail!Init, and every step *)
(* to a step of Mail or a stutter.                                         *)
(***************************************************************************)

(* What was ever given to a run besides: the second invariant.           *)

\* Whatever is on its way to a run, or was read by one, was marked.
Said ==
    /\ heard \subseteq marked /\ unread \subseteq marked
    /\ \A h \in handing : h.ids \subseteq marked
    /\ \A i \in DOMAIN stdin : stdin[i].ids \subseteq marked

\* A marked message was queued, is not a socket send that jumps itself, and
\* when it is over it is stored or was read.
Marked(m) ==
    m \in marked =>
        /\ m \in seen /\ pc[m] # "jumping"
        /\ who[m] = "socket" => pc[m] \in {"queued", "removed", "over"}
        /\ pc[m] = "over" /\ rows[m] = 0 => m \in heard

Spoken == Said /\ \A m \in Msgs : Marked(m)

\* Both hold when the session is first used.
LEMMA SpokenInit == Init => Spoken
BY DEF Init, Spoken, Said, Marked

\* What has been marked stays marked.
LEMMA MarkedGrows == [Next]_vars => marked \subseteq marked'
<1> SUFFICES ASSUME [Next]_vars PROVE marked \subseteq marked'
  OBVIOUS
<1>1. CASE UNCHANGED vars \/ Send \/ UserActs \/ OpenSession \/ Drain \/ RunnerExit \/ Bridge
  BY <1>1 DEF vars, queue, Send, SendText, SendJump, OfferDispatch, OfferQueue, WakeLook,
     TryReserve, UserActs, Remove, Jump, Stop, AbortWrite, AbortMark, OpenSession, Drain,
     RunnerExit, Bridge, BridgeCommand, BridgeStep, BridgeFinish
<1>2. ASSUME NEW m \in Msgs, Task(m) PROVE marked' = marked
  BY <1>2 DEF Task, TaskRest, queue, Check, Decide, Ensure, Persist, Write, OpenGate,
     HandOver, Release
<1>3. ASSUME NEW h \in handing, WriteInterject(h) PROVE marked' = marked
  BY <1>3 DEF WriteInterject, queue
<1>4. ASSUME NEW p \in Pids, Watch(p) PROVE marked' = marked
  BY <1>4 DEF Watch, WatchAskUser, WatchDelivered, WatchEnd, queue
<1> QED
  BY <1>1, <1>2, <1>3, <1>4 DEF Next, Steady

\* What is appended to stdin says nothing that is not marked.
LEMMA StdinSaid ==
    ASSUME Typed, Spoken, marked \subseteq marked',
           \/ stdin' = stdin \/ stdin' = <<>>
           \/ stdin # <<>> /\ stdin' = Tail(stdin)
           \/ \E k, m : \E S \in SUBSET marked : stdin' = Append(stdin, Command(k, m, S))
    PROVE  \A i \in DOMAIN stdin' : stdin'[i].ids \subseteq marked'
<1>0. stdin \in Seq(Commands) /\ \A i \in DOMAIN stdin : stdin[i].ids \subseteq marked
  BY DEF Typed, TypeOK, TypeChannels, Spoken, Said
<1>1. CASE stdin' = stdin \/ stdin' = <<>>
  BY <1>0, <1>1
<1>2. CASE stdin # <<>> /\ stdin' = Tail(stdin)
  <2> SUFFICES ASSUME NEW i \in DOMAIN stdin' PROVE stdin'[i].ids \subseteq marked'
    OBVIOUS
  <2>1. i + 1 \in DOMAIN stdin /\ stdin'[i] = stdin[i + 1]
    BY <1>0, <1>2
  <2> QED
    BY <1>0, <2>1
<1>3. ASSUME NEW k, NEW m, NEW S \in SUBSET marked, stdin' = Append(stdin, Command(k, m, S))
      PROVE  \A i \in DOMAIN stdin' : stdin'[i].ids \subseteq marked'
  <2> DEFINE c == Command(k, m, S)
  <2>1. c.ids = S
    BY DEF Command
  <2> SUFFICES ASSUME NEW i \in DOMAIN stdin' PROVE stdin'[i].ids \subseteq marked'
    OBVIOUS
  <2> HIDE DEF c
  <2>2. (i \in DOMAIN stdin /\ stdin'[i] = stdin[i]) \/ stdin'[i] = c
    BY <1>0, <1>3 DEF c
  <2> QED
    BY <1>0, <2>1, <2>2
<1> QED
  BY <1>1, <1>2, <1>3

\* Nothing that is not marked is said to a run.
LEMMA SaidStep == Typed /\ Spoken /\ [Next]_vars => Said'
<1> SUFFICES ASSUME Typed, Spoken, [Next]_vars PROVE Said'
  OBVIOUS
<1>0. marked \subseteq marked' /\ Said
  BY MarkedGrows DEF Spoken
<1>1. ASSUME UNCHANGED <<heard, unread, handing, stdin>> PROVE Said'
  BY <1>0, <1>1 DEF Said
<1>2. CASE UNCHANGED vars \/ OpenSession \/ Drain
  BY <1>1, <1>2 DEF vars, given, bridge, OpenSession, Drain
<1>3. CASE Send
  <2>1. heard' = heard /\ unread' = unread /\ stdin' = stdin
    BY <1>3 DEF Send, SendText, SendJump, WakeLook, TryReserve, given, bridge
  <2>2. \A h \in handing' : h \in handing \/ h.ids \subseteq marked'
    BY <1>3 DEF Send, SendText, SendJump, WakeLook, TryReserve, OfferDispatch, OfferQueue
  <2> QED
    BY <1>0, <2>1, <2>2 DEF Said
<1>4. CASE UserActs
  <2>1. heard' = heard /\ unread' = unread /\ handing' = handing
    BY <1>4 DEF UserActs, Remove, Jump, Stop, AbortWrite, AbortMark, given, bridge
  <2>2. stdin' = stdin \/ stdin' = Append(stdin, Command("abort", NoMsg, {}))
    BY <1>4 DEF UserActs, Remove, Jump, Stop, AbortWrite, AbortMark
  <2>3. \A i \in DOMAIN stdin' : stdin'[i].ids \subseteq marked'
    BY <1>0, <2>2, StdinSaid
  <2> QED
    BY <1>0, <2>1, <2>3 DEF Said
<1>5. ASSUME NEW m \in Msgs, Task(m) PROVE Said'
  <2>1. heard' = heard /\ unread' = unread
    BY <1>5 DEF Task, TaskRest, given, bridge, Check, Decide, Ensure, Persist, Write,
       OpenGate, HandOver, Release
  <2>2. stdin' = stdin \/ \E k : stdin' = Append(stdin, Command(k, m, {}))
    BY <1>5 DEF Task, Check, Decide, Ensure, Persist, Write, OpenGate, HandOver, Release
  <2>3. \A i \in DOMAIN stdin' : stdin'[i].ids \subseteq marked'
    BY <1>0, <2>2, StdinSaid
  <2>4. \A h \in handing' : h \in handing \/ h.ids \subseteq marked
    BY <1>5 DEF Task, TaskRest, Check, Decide, Ensure, Persist, Write, OpenGate,
       HandOver, Release
  <2> QED
    BY <1>0, <2>1, <2>3, <2>4 DEF Said
<1>6. ASSUME NEW h \in handing, WriteInterject(h) PROVE Said'
  <2>1. heard' = heard /\ unread' = unread /\ handing' = handing \ {h}
    BY <1>6 DEF WriteInterject, given, bridge
  <2>2. h.ids \subseteq marked
    BY <1>0 DEF Said
  <2>3. stdin' = stdin \/ stdin' = Append(stdin, Command("interject", NoMsg, h.ids))
    BY <1>6 DEF WriteInterject
  <2>4. \A i \in DOMAIN stdin' : stdin'[i].ids \subseteq marked'
    BY <1>0, <2>2, <2>3, StdinSaid
  <2> QED
    BY <1>0, <2>1, <2>4 DEF Said
<1>7. CASE Bridge
  <2>1. handing' = handing
    BY <1>7 DEF Bridge, BridgeCommand, BridgeStep, BridgeFinish
  <2>2. stdin' = stdin \/ (stdin # <<>> /\ stdin' = Tail(stdin))
    BY <1>7 DEF Bridge, BridgeCommand, BridgeStep, BridgeFinish
  <2>3. \A i \in DOMAIN stdin' : stdin'[i].ids \subseteq marked'
    BY <1>0, <2>2, StdinSaid
  <2>4. stdin # <<>> => Head(stdin).ids \subseteq marked
    BY <1>0 DEF Said, Typed, TypeOK, TypeChannels
  <2>5. heard' \subseteq marked /\ unread' \subseteq marked
    BY <1>0, <1>7, <2>4 DEF Said, Bridge, BridgeCommand, StartRun, AbortRun, TakeInterject,
       BridgeStep, BridgeFinish, EndRun, bridge, given
  <2> QED
    BY <1>0, <2>1, <2>3, <2>5 DEF Said
<1>8. ASSUME NEW p \in Pids, Watch(p) PROVE Said'
  BY <1>1, <1>8 DEF Watch, given, bridge
<1>9. CASE RunnerExit
  BY <1>0, <1>9 DEF RunnerExit, Said, given
<1> QED
  BY <1>2, <1>3, <1>4, <1>5, <1>6, <1>7, <1>8, <1>9 DEF Next, Steady

\* A message a step leaves alone stays as it was marked.
LEMMA SameMark ==
    ASSUME NEW n \in Msgs, Marked(n), heard \subseteq heard', seen \subseteq seen',
           pc'[n] = pc[n], who'[n] = who[n], rows'[n] = rows[n],
           n \in marked' => n \in marked
    PROVE  Marked(n)'
BY DEF Marked

\* A marked message was queued, and is over only when stored or read.
LEMMA MarkedStep == IInv /\ Spoken /\ [Next]_vars => \A n \in Msgs : Marked(n)'
<1> SUFFICES ASSUME IInv, Spoken, [Next]_vars, NEW n \in Msgs PROVE Marked(n)'
  OBVIOUS
<1>0. /\ pc \in [Msgs -> PcValues] /\ who \in [Msgs -> Carriers]
      /\ rows \in [Msgs -> Nat] /\ Marked(n) /\ Waits(n) /\ Carried(n) /\ Stored(n)
  BY DEF IInv, Typed, TypeOK, TypeTasks, Books, Book, Spoken
<1>1. heard \subseteq heard'
  BY HeardGrows
<1>2. CASE UNCHANGED vars \/ OpenSession \/ RunnerExit \/ Bridge
  BY <1>0, <1>1, <1>2, SameMark DEF vars, OpenSession, RunnerExit, Bridge, BridgeCommand,
     BridgeStep, BridgeFinish, queue, tasks, past
<1>3. CASE Send
  <2>1. rows' = rows
    BY <1>3 DEF Send, SendText, SendJump, WakeLook, TryReserve
  <2>2. ASSUME NEW m \in Msgs, NEW w \in {"core", "socket"}, SendText(m, w)
        PROVE  Marked(n)'
    <3>1. CASE n # m
      BY <1>0, <1>1, <2>1, <2>2, <3>1, SameMark
      DEF SendText, OfferDispatch, OfferQueue, PushBack, Carry, Go, queue, past
    <3>2. CASE n = m
      BY <1>0, <2>2, <3>2 DEF Marked, Carried, SendText, OfferDispatch, OfferQueue,
         PushBack, Go, queue
    <3> QED
      BY <3>1, <3>2
  <2>3. ASSUME NEW m \in Msgs, SendJump(m) PROVE Marked(n)'
    <3>1. CASE n # m
      BY <1>0, <1>1, <2>1, <2>3, <3>1, SameMark
      DEF SendJump, OfferDispatch, OfferQueue, PushBack, Carry, Go, queue, past
    <3>2. CASE n = m
      BY <1>0, <2>3, <3>2 DEF Marked, Carried, SendJump, OfferDispatch, OfferQueue, queue
    <3> QED
      BY <3>1, <3>2
  <2>4. ASSUME NEW m \in Msgs, WakeLook(m) \/ \E w \in {"image", "wake"} : TryReserve(m, w)
        PROVE  Marked(n)'
    <3>1. CASE n # m
      BY <1>0, <1>1, <2>1, <2>4, <3>1, SameMark
      DEF WakeLook, TryReserve, OfferDispatch, Carry, Go, queue, past
    <3>2. CASE n = m
      BY <1>0, <2>4, <3>2 DEF Marked, Carried, WakeLook, TryReserve, OfferDispatch, queue
    <3> QED
      BY <3>1, <3>2
  <2> QED
    BY <1>3, <2>2, <2>3, <2>4 DEF Send
<1>4. CASE UserActs
  <2>1. UNCHANGED <<marked, rows, seen, heard>>
    BY <1>4 DEF UserActs, Remove, Jump, Stop, AbortWrite, AbortMark, queue, past, given
  <2>2. ASSUME NEW m \in Msgs, Remove(m) PROVE Marked(n)'
    BY <1>0, <2>1, <2>2 DEF Remove, Go, Marked
  <2>3. ASSUME NEW m \in Msgs, NEW w \in {"jump", "socket"}, Jump(m, w) PROVE Marked(n)'
    BY <1>0, <2>1, <2>3 DEF Jump, Carry, Go, FirstStep, Marked
  <2>4. ASSUME NEW a \in Stops, Stop(a) \/ AbortWrite(a) \/ AbortMark(a)
        PROVE  Marked(n)'
    BY <1>0, <2>1, <2>4 DEF Stop, AbortWrite, AbortMark, tasks, Marked
  <2> QED
    BY <1>4, <2>2, <2>3, <2>4 DEF UserActs
<1>5. ASSUME NEW m \in Msgs, Task(m) PROVE Marked(n)'
  <2>1. UNCHANGED <<marked, who, seen, heard>>
    BY <1>5 DEF Task, TaskRest, queue, past, given, Check, Decide, Ensure, Persist, Write,
       OpenGate, HandOver, Release
  <2>2. CASE n # m
    <3>1. pc'[n] = pc[n] /\ rows'[n] = rows[n]
      BY <1>0, <1>5, <2>2 DEF Task, Go, Check, Decide, Ensure, Persist, Write, OpenGate,
         HandOver, Release
    <3> QED
      BY <1>0, <2>1, <3>1, SameMark
  <2>3. CASE n = m /\ n \in marked
    <3>1. n \in seen /\ pc[n] \in Carrying \cup {"gate", "hand", "release"}
      BY <1>0, <1>5, <2>3 DEF Marked, Carrying, Task, Check, Decide, Ensure, Persist, Write,
         OpenGate, HandOver, Release
    <3>2. who[n] \in {"drain", "jump"}
      BY <1>0, <2>3, <3>1 DEF Marked, Carried, Carrying
    <3>3. pc'[n] # "jumping"
      BY <1>0, <1>5, <2>3 DEF Task, Go, AfterEnsure, AfterPersist, Check, Decide, Ensure,
         Persist, Write, OpenGate, HandOver, Release
    <3>4. pc'[n] = "over" => rows'[n] = 1
      BY <1>0, <1>5, <2>3, <3>2 DEF Stored, Task, Go, AfterEnsure, AfterPersist, Check,
         Decide, Ensure, Persist, Write, OpenGate, HandOver, Release
    <3> QED
      BY <1>0, <2>1, <2>3, <3>2, <3>3, <3>4 DEF Marked
  <2>4. CASE n = m /\ n \notin marked
    BY <2>1, <2>4 DEF Marked
  <2> QED
    BY <2>2, <2>3, <2>4
<1>6. ASSUME NEW h \in handing, WriteInterject(h) PROVE Marked(n)'
  BY <1>0, <1>1, <1>6, SameMark DEF WriteInterject, queue, tasks, past
<1>7. ASSUME NEW p \in Pids, Watch(p) PROVE Marked(n)'
  <2> DEFINE e == Head(events[p])
             read == items \cap marked \cap e.ids
  <2>1. UNCHANGED <<marked, who, seen, heard>>
    BY <1>7 DEF Watch, WatchAskUser, WatchDelivered, WatchEnd, queue, tasks, past, given
  <2>2. CASE WatchAskUser(e) \/ WatchEnd(e)
    BY <1>0, <2>1, <2>2, SameMark DEF WatchAskUser, WatchEnd, tasks
  <2>3. CASE WatchDelivered(e)
    <3>1. e.kind = "interject_delivered" /\ e = events[p][1] /\ 1 \in DOMAIN events[p]
      BY <1>7, <2>3 DEF WatchDelivered, Watch, IInv, Typed, TypeOK, TypeChannels
    <3>2. read \subseteq heard
      BY <3>1 DEF IInv, Reported
    <3>3. CASE n \notin read
      BY <1>0, <2>1, <2>3, <3>3, SameMark DEF WatchDelivered
    <3>4. CASE n \in read
      BY <1>0, <2>1, <2>3, <3>2, <3>4 DEF WatchDelivered, Marked
    <3> QED
      BY <3>3, <3>4
  <2> QED
    BY <1>7, <2>2, <2>3 DEF Watch
<1>8. CASE Drain
  BY <1>0, <1>8 DEF Drain, TakeNothing, TakeNext, Carry, Go, FirstStep, tasks, past, given,
     Marked
<1> QED
  BY <1>2, <1>3, <1>4, <1>5, <1>6, <1>7, <1>8 DEF Next, Steady

\* Both invariants hold in every reachable state.
THEOREM SpokenHolds == Spec => [](IInv /\ Spoken)
<1>1. IInv /\ Spoken /\ [Next]_vars => Spoken'
  BY SaidStep, MarkedStep DEF IInv, Spoken
<1> QED
  BY <1>1, SpokenInit, Inductive, PTL DEF Spec
-----------------------------------------------------------------------------
(* Where a message stands, and what a step that moves one does to the    *)
(* mailbox.                                                              *)

\* Where one message stands, outcome by outcome.
Stands(n) ==
    /\ rows[n] > 0 => Fate[n] = "stored"
    /\ ~(rows[n] > 0) =>
         /\ pc[n] \in {"new", "looked"} => Fate[n] = "new"
         /\ pc[n] = "removed" => Fate[n] = "removed"
         /\ pc[n] = "over" => Fate[n] = (IF n \in heard THEN "heard" ELSE "refused")
         /\ pc[n] \notin {"new", "looked", "removed", "over"} =>
              Fate[n] = (IF n \in seen THEN "waiting" ELSE "sending")

\* Before and after every step, each message stands somewhere.
LEMMA FateOf == \A n \in Msgs : Stands(n) /\ Stands(n)'
<1>1. \A n \in Msgs : Stands(n)
  BY DEF Stands, Fate
<1>2. \A n \in Msgs : Stands(n)'
  BY DEF Stands, Fate
<1> QED
  BY <1>1, <1>2

\* A message a step leaves alone stands where it stood.
LEMMA FateKept ==
    ASSUME NEW n \in Msgs, rows'[n] = rows[n], pc'[n] = pc[n],
           n \in heard' <=> n \in heard, n \in seen' <=> n \in seen
    PROVE  Fate'[n] = Fate[n]
BY FateOf DEF Stands

\* A message waits while it was queued and is neither stored nor done with.
LEMMA WaitsWhile ==
    ASSUME IInv, NEW n \in Msgs
    PROVE  Fate[n] = "waiting" <=>
             n \in seen /\ rows[n] = 0 /\ pc[n] \notin {"removed", "over"}
<1>1. Carried(n) /\ rows[n] \in {0, 1}
  BY DEF IInv, Books, Book, Stored
<1> QED
  BY <1>1, FateOf DEF Carried, Stands

\* In particular everything in the queue waits, and a marked item that a run
\* reads was spoken.
LEMMA QueuedWaits == IInv => items \subseteq {n \in Msgs : Fate[n] = "waiting"}
<1> SUFFICES ASSUME IInv, NEW n \in items PROVE n \in Msgs /\ Fate[n] = "waiting"
  OBVIOUS
<1>1. n \in Msgs /\ Waits(n) /\ Carried(n) /\ Stored(n)
  BY DEF IInv, Typed, TypeOK, TypeQueue, Books, Book
<1> QED
  BY <1>1, WaitsWhile DEF Waits, Carried, Stored

\* A step that moves no message is a stutter of the mailbox.
LEMMA Stutters ==
    ASSUME UNCHANGED <<older, jumped, marked>>, \A n \in Msgs : Fate'[n] = Fate[n],
           Typed
    PROVE  UNCHANGED Mail!vars
<1>1. Fate' = Fate
  BY DEF Fate
<1>2. Line' = Line
  BY <1>1 DEF Line
<1> QED
  BY <1>1, <1>2 DEF Mail!vars

\* A step that moves one message out of, or past, the line.
LEMMA Leaves ==
    ASSUME Typed, UNCHANGED <<older, jumped, marked>>, NEW m \in Msgs, NEW f,
           \A n \in Msgs \ {m} : Fate'[n] = Fate[n], Fate'[m] = f, f # "waiting"
    PROVE  /\ Mail!Become(m, f) /\ Mail!Leave({m}) /\ UNCHANGED <<jumped, marked>>
           /\ Fate[m] # "waiting" => UNCHANGED Line
<1>0. older \subseteq Msgs \X Msgs
  BY DEF Typed, TypeOK, TypeHistory
<1>1. /\ Fate = [n \in Msgs |-> Fate[n]] /\ Fate' = [n \in Msgs |-> Fate'[n]]
      /\ DOMAIN Fate = Msgs
  BY DEF Fate
<1>2. Mail!Become(m, f)
  BY <1>1 DEF Mail!Become
<1>3. Line' = {p \in Line : p[1] \notin {m} /\ p[2] \notin {m}}
  BY <1>0 DEF Line
<1>4. Fate[m] # "waiting" => Line' = Line
  BY <1>0 DEF Line
<1> QED
  BY <1>2, <1>3, <1>4 DEF Mail!Leave
-----------------------------------------------------------------------------
(* Every step of the queue is a step of the mailbox, or a stutter.       *)

\* What is accepted joins the line behind everything that waits.
LEMMA Joins ==
    ASSUME IInv, NEW m \in Msgs, m \notin seen,
           older' = older \cup (seen \X {m}), Fate'[m] = "waiting",
           \A n \in Msgs \ {m} : Fate'[n] = Fate[n]
    PROVE  /\ Mail!Become(m, "waiting")
           /\ Line' = Line \cup (Mail!Waiting \X {m})
<1>1. older \subseteq seen \X seen /\ seen \subseteq Msgs
  BY DEF IInv, Lined, Ordered, Typed, TypeOK, TypeHistory
<1>2. \A n \in Msgs : Fate[n] = "waiting" => n \in seen
  BY WaitsWhile
<1>3. Mail!Waiting \subseteq seen \ {m}
  BY <1>2 DEF Mail!Waiting
<1>4. Mail!Become(m, "waiting")
  BY DEF Fate, Mail!Become
<1>5. Line' = Line \cup (Mail!Waiting \X {m})
  <2>1. \A p : p \in Line' => p \in Line \cup (Mail!Waiting \X {m})
    BY <1>1 DEF Line, Mail!Waiting
  <2>2. \A p : p \in Line \cup (Mail!Waiting \X {m}) => p \in Line'
    BY <1>1, <1>3 DEF Line, Mail!Waiting
  <2> QED
    BY <2>1, <2>2
<1> QED
  BY <1>4, <1>5

\* A sender is accepted, refused, or sends on its own task at once.
LEMMA SendMails == IInv /\ Spoken /\ Send => [Mail!Next]_(Mail!vars)
<1> SUFFICES ASSUME IInv, Spoken, Send PROVE [Mail!Next]_(Mail!vars)
  OBVIOUS
<1>0. /\ Typed /\ pc \in [Msgs -> PcValues] /\ UNCHANGED <<rows, heard>>
  BY DEF IInv, Typed, TypeOK, TypeTasks, Send, SendText, SendJump, WakeLook, TryReserve, given
<1>1. ASSUME NEW m \in Msgs, pc[m] \in {"new", "looked"}
      PROVE  m \notin seen /\ m \notin heard /\ rows[m] = 0 /\ Fate[m] = "new"
  BY <1>1, FateOf DEF IInv, Books, Book, Carried, Stored, Spoken, Said, Marked, Stands
<1>2. ASSUME NEW m \in Msgs, NEW w \in {"core", "socket", "image", "wake"},
             pc[m] \in {"new", "looked"}, OfferDispatch(m, w)
      PROVE  Mail!Submit(m)
  <2>1. UNCHANGED <<seen, older, jumped, marked>> /\ pc' = [pc EXCEPT ![m] = FirstStep(w)]
    BY <1>2 DEF OfferDispatch, Carry, Go, past, queue
  <2>2. FirstStep(w) \in Carrying
    BY DEF FirstStep, Carrying
  <2>3. \A n \in Msgs \ {m} : Fate'[n] = Fate[n]
    BY <1>0, <2>1, FateKept
  <2>4. Fate'[m] = "sending"
    BY <1>0, <1>1, <1>2, <2>1, <2>2, FateOf DEF Stands, Carrying
  <2> QED
    BY <1>0, <1>1, <1>2, <2>1, <2>3, <2>4, Leaves DEF Mail!Submit
<1>3. ASSUME NEW m \in Msgs, NEW w, NEW b, NEW step \in {"queued", "jumping"},
             pc[m] \in {"new", "looked"}, OfferQueue(m, w, b, step)
      PROVE  Mail!Accept(m)
  <2>1. /\ seen' = seen \cup {m} /\ older' = older \cup (seen \X {m}) /\ UNCHANGED jumped
        /\ marked' \in {marked, marked \cup {m}} /\ pc' = [pc EXCEPT ![m] = step]
    BY <1>3 DEF OfferQueue, PushBack, Go
  <2>2. \A n \in Msgs \ {m} : Fate'[n] = Fate[n]
    BY <1>0, <2>1, FateKept
  <2>3. Fate'[m] = "waiting"
    BY <1>0, <1>1, <1>3, <2>1, FateOf DEF Stands
  <2>4. Mail!Become(m, "waiting") /\ Line' = Line \cup (Mail!Waiting \X {m})
    BY <1>1, <1>3, <2>1, <2>2, <2>3, Joins
  <2> QED
    BY <1>1, <1>3, <2>1, <2>4 DEF Mail!Accept
<1>4. ASSUME NEW m \in Msgs, WakeLook(m) PROVE UNCHANGED Mail!vars
  <2>1. UNCHANGED <<seen, older, jumped, marked>> /\ pc' = [pc EXCEPT ![m] = "looked"]
    BY <1>4 DEF WakeLook, Go, past, queue
  <2>2. \A n \in Msgs \ {m} : Fate'[n] = Fate[n]
    BY <1>0, <2>1, FateKept
  <2>3. Fate'[m] = Fate[m]
    BY <1>0, <1>1, <1>4, <2>1, FateOf DEF Stands, WakeLook
  <2> QED
    BY <1>0, <2>1, <2>2, <2>3, Stutters
<1>5. ASSUME NEW m \in Msgs, pc[m] \in {"new", "looked"}, Go(m, "over"),
             UNCHANGED <<queue, past>>
      PROVE  Mail!Refuse(m)
  <2>1. UNCHANGED <<seen, older, jumped, marked>> /\ pc' = [pc EXCEPT ![m] = "over"]
    BY <1>5 DEF Go, past, queue
  <2>2. \A n \in Msgs \ {m} : Fate'[n] = Fate[n]
    BY <1>0, <2>1, FateKept
  <2>3. Fate'[m] = "refused"
    BY <1>0, <1>1, <1>5, <2>1, FateOf DEF Stands
  <2> QED
    BY <1>0, <1>1, <1>5, <2>1, <2>2, <2>3, Leaves DEF Mail!Refuse
<1>6. ASSUME NEW m \in Msgs, NEW w \in {"core", "socket"}, SendText(m, w)
      PROVE  Mail!Next
  BY <1>2, <1>3, <1>6 DEF SendText, Mail!Next
<1>7. ASSUME NEW m \in Msgs, SendJump(m) PROVE Mail!Next
  BY <1>2, <1>3, <1>7 DEF SendJump, Mail!Next
<1>8. ASSUME NEW m \in Msgs, NEW w \in {"image", "wake"}, TryReserve(m, w) PROVE Mail!Next
  BY <1>2, <1>5, <1>8 DEF TryReserve, Mail!Next
<1> QED
  BY <1>4, <1>6, <1>7, <1>8 DEF Send

\* A jump hurries, a removal withdraws, a stop is no affair of the mailbox.
LEMMA UserActsMails == IInv /\ Spoken /\ UserActs => [Mail!Next]_(Mail!vars)
<1> SUFFICES ASSUME IInv, Spoken, UserActs PROVE [Mail!Next]_(Mail!vars)
  OBVIOUS
<1>0. /\ Typed /\ pc \in [Msgs -> PcValues]
      /\ UNCHANGED <<rows, heard, seen, older, marked>>
  BY DEF IInv, Typed, TypeOK, TypeTasks, UserActs, Remove, Jump, Stop, AbortWrite, AbortMark,
     queue, past, given
<1>1. ASSUME NEW m \in Msgs, m \in items
      PROVE  Fate[m] = "waiting" /\ m \in seen /\ rows[m] = 0
  BY <1>1, QueuedWaits, WaitsWhile
<1>2. ASSUME NEW m \in Msgs, Remove(m) PROVE Mail!Withdraw(m)
  <2>1. UNCHANGED jumped /\ pc' = [pc EXCEPT ![m] = "removed"] /\ m \in items
    BY <1>2 DEF Remove, Go, past
  <2>2. \A n \in Msgs \ {m} : Fate'[n] = Fate[n]
    BY <1>0, <2>1, FateKept
  <2>3. Fate'[m] = "removed"
    BY <1>0, <1>1, <2>1, FateOf DEF Stands
  <2> QED
    BY <1>0, <1>1, <2>1, <2>2, <2>3, Leaves DEF Mail!Withdraw
<1>3. ASSUME NEW m \in Msgs, NEW w \in {"jump", "socket"}, Jump(m, w) PROVE Mail!Hurry(m)
  <2>1. m \in items /\ jumped' = jumped \cup {m}
    BY <1>3 DEF Jump
  <2>2. Waits(m)
    BY DEF IInv, Books, Book
  <2>3. pc'[m] \in {"queued", "jumping", "ensure", "persist"}
    BY <1>0, <1>3, <2>1, <2>2 DEF Jump, Carry, Go, FirstStep, Waits
  <2>4. \A n \in Msgs \ {m} : pc'[n] = pc[n]
    BY <1>0, <1>3 DEF Jump, Carry, Go
  <2>5. \A n \in Msgs \ {m} : Fate'[n] = Fate[n]
    BY <1>0, <2>4, FateKept
  <2>6. Fate'[m] = "waiting"
    BY <1>0, <1>1, <2>1, <2>3, FateOf DEF Stands
  <2>7. Fate' = Fate
    BY <1>1, <2>1, <2>5, <2>6 DEF Fate
  <2>8. Line' = Line
    BY <1>0, <2>7 DEF Line
  <2> QED
    BY <1>0, <1>1, <2>1, <2>7, <2>8 DEF Mail!Hurry
<1>4. ASSUME NEW a \in Stops, Stop(a) \/ AbortWrite(a) \/ AbortMark(a)
      PROVE  UNCHANGED Mail!vars
  <2>1. UNCHANGED <<pc, jumped>>
    BY <1>4 DEF Stop, AbortWrite, AbortMark, tasks, past
  <2> QED
    BY <1>0, <2>1, FateKept, Stutters
<1> QED
  BY <1>2, <1>3, <1>4 DEF UserActs, Mail!Next

\* A message about to be stored is not overtaking anything that waits in line.
LEMMA MayStore ==
    ASSUME IInv, NEW m \in Msgs, pc[m] = "persist"
    PROVE  Mail!MayBeStored(m)
<1>0. /\ Carried(m) /\ rows[m] = 0 /\ pc \in [Msgs -> PcValues]
      /\ \A n \in Msgs : Waits(n) /\ Carried(n)
  BY DEF IInv, Typed, TypeOK, TypeTasks, Books, Book, Stored
<1>1. CASE m \notin seen
  BY <1>0, <1>1, FateOf DEF Stands, Mail!MayBeStored
<1>2. CASE m \in seen
  <2>1. Fate[m] = "waiting"
    BY <1>0, <1>2, WaitsWhile
  <2>2. who[m] = "drain" \/ m \in jumped
    BY <1>0, <1>2 DEF Carried, Carrying
  <2>3. ASSUME m \notin jumped, NEW n \in Mail!Waiting \ jumped, <<n, m>> \in Line
        PROVE  FALSE
    <3>1. /\ n \in Msgs /\ n \in seen /\ pc[n] \notin {"removed", "over"}
          /\ <<n, m>> \in older /\ n # m
      BY <2>3, WaitsWhile DEF Mail!Waiting, Line, IInv, Lined, Ordered
    <3>2. n \notin items
      BY <1>0, <2>2, <2>3, <3>1 DEF IInv, Lined, Turn
    <3>3. pc[n] \in Carrying \cup {"gate", "hand", "release"}
      BY <1>0, <3>1, <3>2 DEF Waits, Carried, PcValues
    <3>4. who[n] = "drain"
      BY <1>0, <2>3, <3>1, <3>3 DEF Carried
    <3> QED
      BY <1>0, <2>2, <2>3, <3>1, <3>3, <3>4 DEF IInv, Lined, Turn, Parked, Carrying
  <2> QED
    BY <2>1, <2>3 DEF Mail!MayBeStored
<1> QED
  BY <1>1, <1>2

\* A task stores its message, or gives it up, or the mailbox sees nothing.
LEMMA TaskMails ==
    ASSUME IInv, Spoken, NEW m \in Msgs, Task(m)
    PROVE  [Mail!Next]_(Mail!vars)
<1>0. /\ Typed /\ pc \in [Msgs -> PcValues] /\ rows \in [Msgs -> Nat]
      /\ Waits(m) /\ Carried(m) /\ Stored(m) /\ Marked(m) /\ heard \subseteq marked
  BY DEF IInv, Typed, TypeOK, TypeTasks, Books, Book, Spoken, Said
<1>1. UNCHANGED <<who, marked, seen, older, jumped, heard>>
  BY DEF Task, TaskRest, queue, past, given, Check, Decide, Ensure, Persist, Write,
     OpenGate, HandOver, Release
<1>2. \A n \in Msgs \ {m} : pc'[n] = pc[n] /\ rows'[n] = rows[n]
  BY <1>0 DEF Task, Go, Check, Decide, Ensure, Persist, Write, OpenGate, HandOver, Release
<1>3. \A n \in Msgs \ {m} : Fate'[n] = Fate[n]
  BY <1>1, <1>2, FateKept
<1>4. ASSUME Fate'[m] = Fate[m] PROVE UNCHANGED Mail!vars
  BY <1>0, <1>1, <1>3, <1>4, Stutters
<1> DEFINE Busy == Carrying \cup {"gate", "hand", "release", "queued"}
<1>5. ASSUME pc[m] \in Busy, pc'[m] \in Busy, rows' = rows PROVE UNCHANGED Mail!vars
  <2>1. Fate'[m] = Fate[m]
    BY <1>1, <1>5, FateOf DEF Stands, Carrying
  <2> QED
    BY <1>4, <2>1
<1>6. CASE Check(m) \/ Decide(m) \/ Ensure(m) \/ Write(m)
  <2>1. rows' = rows /\ pc[m] \in Busy /\ pc'[m] \in Busy
    BY <1>0, <1>6 DEF Check, Decide, Ensure, Write, Go, AfterEnsure, Carrying
  <2> QED
    BY <1>5, <2>1
<1>7. CASE OpenGate(m) \/ HandOver(m)
  <2>1. rows[m] = 1 /\ rows'[m] = 1
    BY <1>0, <1>7 DEF OpenGate, HandOver, Stored
  <2>2. Fate'[m] = Fate[m]
    BY <2>1, FateOf DEF Stands
  <2> QED
    BY <1>4, <2>2
<1>8. CASE Persist(m)
  <2>1. pc[m] = "persist" /\ rows[m] = 0
    BY <1>0, <1>8 DEF Persist, Stored
  <2>2. CASE rows' = [rows EXCEPT ![m] = @ + 1]
    <3>1. Fate'[m] = "stored"
      BY <1>0, <2>1, <2>2, FateOf DEF Stands
    <3>2. Mail!MayBeStored(m)
      BY <2>1, MayStore
    <3>3. Mail!Store(m)
      BY <1>0, <1>1, <1>3, <3>1, <3>2, Leaves DEF Mail!Store
    <3> QED
      BY <3>3 DEF Mail!Next
  <2>3. CASE rows' = rows /\ pc'[m] \in {"release", "queued"}
    BY <1>5, <2>1, <2>3 DEF Carrying
  <2> QED
    BY <1>0, <1>8, <2>2, <2>3 DEF Persist, Go
<1>9. CASE Release(m)
  <2>1. pc[m] = "release" /\ pc'[m] = "over" /\ rows' = rows /\ rows[m] \in {0, 1}
    BY <1>0, <1>9 DEF Release, Go, Stored
  <2>2. CASE rows[m] = 1
    <3>1. Fate'[m] = Fate[m]
      BY <2>1, <2>2, FateOf DEF Stands
    <3> QED
      BY <1>4, <3>1
  <2>3. CASE rows[m] = 0
    <3>1. m \notin heard
      BY <1>0, <2>1, <2>3 DEF Marked, Carried, Stored
    <3>2. Fate'[m] = "refused"
      BY <1>1, <2>1, <2>3, <3>1, FateOf DEF Stands
    <3>3. m \in seen => m \in jumped
      BY <1>0, <2>1, <2>3 DEF Carried, Stored
    <3>4. Fate[m] = "sending" \/ (Fate[m] = "waiting" /\ m \in jumped)
      BY <2>1, <2>3, <3>3, FateOf DEF Stands
    <3>5. Mail!Refuse(m)
      BY <1>0, <1>1, <1>3, <3>2, <3>4, Leaves DEF Mail!Refuse
    <3> QED
      BY <3>5 DEF Mail!Next
  <2> QED
    BY <2>1, <2>2, <2>3
<1> QED
  BY <1>6, <1>7, <1>8, <1>9 DEF Task

\* What a run read leaves the line with it, stored or not.
LEMMA WatchMails ==
    ASSUME IInv, Spoken, NEW p \in Pids, Watch(p)
    PROVE  [Mail!Next]_(Mail!vars)
<1> DEFINE e == Head(events[p])
           read == items \cap marked \cap e.ids
<1>0. /\ Typed /\ rows \in [Msgs -> Nat] /\ items \subseteq Msgs
      /\ older \subseteq Msgs \X Msgs
  BY DEF IInv, Typed, TypeOK, TypeTasks, TypeQueue, TypeHistory
<1>1. UNCHANGED <<marked, seen, older, jumped, heard>>
  BY DEF Watch, WatchAskUser, WatchDelivered, WatchEnd, queue, past, given
<1>2. CASE WatchAskUser(e) \/ WatchEnd(e)
  <2>1. UNCHANGED <<pc, rows>>
    BY <1>2 DEF WatchAskUser, WatchEnd, tasks
  <2> QED
    BY <1>0, <1>1, <2>1, FateKept, Stutters
<1>3. CASE WatchDelivered(e)
  <2>1. e.kind = "interject_delivered" /\ e = events[p][1] /\ 1 \in DOMAIN events[p]
    BY <1>0, <1>3 DEF WatchDelivered, Watch, Typed, TypeOK, TypeChannels
  <2>2. read \subseteq heard
    BY <2>1 DEF IInv, Reported
  <2>3. read \subseteq Mail!Waiting \cap marked
    BY QueuedWaits DEF Mail!Waiting
  <2>4. \A n \in read : rows[n] = 0
    BY <2>3, WaitsWhile DEF Mail!Waiting
  <2>5. \A n \in Msgs \ read : Fate'[n] = Fate[n]
    <3>1. \A n \in Msgs \ read : pc'[n] = pc[n] /\ rows'[n] = rows[n]
      BY <1>0, <1>3 DEF WatchDelivered
    <3> QED
      BY <1>1, <3>1, FateKept
  <2>6. \E f \in {"stored", "heard"} : \A n \in read : Fate'[n] = f
    <3>1. \A n \in read : n \in Msgs /\ pc'[n] = "over"
      BY <1>0, <1>3 DEF WatchDelivered
    <3>2. CASE \A n \in read : rows'[n] = 1
      BY <3>1, <3>2, FateOf DEF Stands
    <3>3. CASE \A n \in read : rows'[n] = 0
      <4>1. \A n \in read : Fate'[n] = "heard"
        BY <1>1, <2>2, <3>1, <3>3, FateOf DEF Stands
      <4> QED
        BY <4>1
    <3> QED
      BY <1>0, <1>3, <2>4, <3>2, <3>3 DEF WatchDelivered
  <2>7. PICK f \in {"stored", "heard"} : \A n \in read : Fate'[n] = f
    BY <2>6
  <2> HIDE DEF e, read
  <2>8. Fate' = [n \in Msgs |-> IF n \in read THEN f ELSE Fate[n]]
    <3>1. Fate' = [n \in Msgs |-> Fate'[n]]
      BY DEF Fate
    <3> QED
      BY <2>5, <2>7, <3>1
  <2>9. Line' = {q \in Line : q[1] \notin read /\ q[2] \notin read}
    BY <1>0, <1>1, <2>5, <2>7 DEF Line
  <2>10. Mail!Hear(read, f)
    BY <1>1, <2>3, <2>8, <2>9 DEF Mail!Hear, Mail!Leave
  <2>11. read \in SUBSET Msgs
    BY <2>3 DEF Mail!Waiting
  <2> QED
    BY <2>10, <2>11 DEF Mail!Next
<1> QED
  BY <1>2, <1>3 DEF Watch

\* The runner, the drain task and whoever else acts move no message: what a
\* run reads in the middle was spoken, and waits until the watcher hears of it.
LEMMA RestMails ==
    ASSUME IInv, Spoken,
           \/ UNCHANGED vars \/ OpenSession \/ RunnerExit \/ Bridge \/ Drain
           \/ \E h \in handing : WriteInterject(h)
    PROVE  UNCHANGED Mail!vars
<1>0. Typed /\ pc \in [Msgs -> PcValues] /\ items \subseteq Msgs
  BY DEF IInv, Typed, TypeOK, TypeTasks, TypeQueue
<1>1. UNCHANGED <<rows, seen, older, jumped, marked>>
  BY DEF vars, OpenSession, RunnerExit, Bridge, BridgeCommand, BridgeStep, BridgeFinish,
     Drain, WriteInterject, queue, past
<1>2. \A n \in Msgs : Fate'[n] = Fate[n]
  <2> SUFFICES ASSUME NEW n \in Msgs PROVE Fate'[n] = Fate[n]
    OBVIOUS
  <2>1. CASE BridgeStep
    <3>1. pc' = pc /\ heard' = heard \cup unread
      BY <2>1 DEF BridgeStep, tasks
    <3>2. n \in unread /\ pc[n] = "over" /\ rows[n] = 0 => n \in heard
      BY DEF Spoken, Said, Marked
    <3>3. rows[n] \in {0, 1}
      BY DEF IInv, Books, Book, Stored
    <3> QED
      BY <1>1, <3>1, <3>2, <3>3, FateOf DEF Stands
  <2>2. ASSUME NEW m \in Msgs, Drain, TakeNext(m) PROVE Fate'[n] = Fate[n]
    <3>1. heard' = heard /\ m \in items /\ pc' = [pc EXCEPT ![m] = "persist"]
      BY <2>2 DEF Drain, given, TakeNext, AtFront, Carry, Go, FirstStep
    <3>2. pc[m] \in {"queued", "jumping"}
      BY <3>1 DEF IInv, Books, Book, Waits
    <3> QED
      BY <1>0, <1>1, <3>1, <3>2, FateOf DEF Stands
  <2>3. CASE /\ UNCHANGED <<pc, heard>>
    BY <1>1, <2>3, FateKept
  <2> QED
    BY <2>1, <2>2, <2>3 DEF vars, OpenSession, RunnerExit, Bridge, BridgeCommand, StartRun,
       AbortRun, TakeInterject, BridgeFinish, Drain, TakeNothing, WriteInterject, tasks, given
<1> QED
  BY <1>0, <1>1, <1>2, Stutters

(* Whatever the senders, the queue strip, the drain task, the watcher and*)
(* the runner do, and in whatever order (queue.rs, message_queue.rs,     *)
(* session_runner), a sender sees a mailbox: accepted or refused at once,*)
(* stored at most once and, jumps and interjections apart, in turn,      *)
(* withdrawn only by its owner, and refused after "queued" only when the *)
(* sender itself jumped the line.                                        *)
THEOREM ImplementsMailbox == Spec => KeepsPromise
<1>1. Init => Mail!Init
  BY DEF Init, Mail!Init, Fate, Line
<1>2. IInv /\ Spoken /\ [Next]_vars => [Mail!Next]_(Mail!vars)
  BY SendMails, UserActsMails, TaskMails, WatchMails, RestMails DEF Next, Steady
<1> QED
  BY <1>1, <1>2, SpokenHolds, PTL DEF Spec, KeepsPromise, Mail!Spec

-----------------------------------------------------------------------------
(***************************************************************************)
(* The run gate, as long as no runner exits (SteadySpec): one claim to run *)
(* goes from a sender to the runner's stdin, its run, its stdout and the   *)
(* drain task, and nothing else opens a run meanwhile.                     *)
(***************************************************************************)

(* What channels hold.                                                   *)

\* No entry of a channel is of a kind in K; exactly one is.
None(s, K) == \A i \in DOMAIN s : s[i].kind \notin K
Lone(s, K) == \E i \in DOMAIN s : /\ s[i].kind \in K
                                  /\ \A j \in DOMAIN s \ {i} : s[j].kind \notin K

\* A channel with no entries.
LEMMA NoneEmpty == \A K : None(<<>>, K)
BY DEF None

\* What one more entry does to a channel.
LEMMA Pushed ==
    ASSUME NEW S, NEW s \in Seq(S), NEW c \in S, NEW K
    PROVE  /\ c.kind \notin K /\ None(s, K) => None(Append(s, c), K)
           /\ c.kind \notin K /\ Lone(s, K) => Lone(Append(s, c), K)
           /\ c.kind \in K /\ None(s, K) => Lone(Append(s, c), K)
<1> DEFINE t == Append(s, c)
<1>1. /\ Len(s) \in Nat /\ DOMAIN s = 1 .. Len(s) /\ DOMAIN t = 1 .. (Len(s) + 1)
      /\ t[Len(s) + 1] = c /\ \A i \in DOMAIN s : t[i] = s[i]
  OBVIOUS
<1> HIDE DEF t
<1>2. c.kind \notin K /\ None(s, K) => None(t, K)
  BY <1>1 DEF None
<1>3. ASSUME c.kind \notin K, Lone(s, K) PROVE Lone(t, K)
  <2>1. PICK i \in DOMAIN s : s[i].kind \in K /\ \A j \in DOMAIN s \ {i} : s[j].kind \notin K
    BY <1>3 DEF Lone
  <2>2. i \in DOMAIN t /\ t[i].kind \in K
    BY <1>1, <2>1
  <2>3. \A j \in DOMAIN t \ {i} : t[j].kind \notin K
    BY <1>1, <1>3, <2>1
  <2> QED
    BY <2>2, <2>3 DEF Lone
<1>4. ASSUME c.kind \in K, None(s, K) PROVE Lone(t, K)
  <2>1. Len(s) + 1 \in DOMAIN t /\ t[Len(s) + 1].kind \in K
    BY <1>1, <1>4
  <2>2. \A j \in DOMAIN t \ {Len(s) + 1} : t[j].kind \notin K
    BY <1>1, <1>4 DEF None
  <2> QED
    BY <2>1, <2>2 DEF Lone
<1> QED
  BY <1>2, <1>3, <1>4 DEF t

\* What taking the first entry does to a channel.
LEMMA Popped ==
    ASSUME NEW S, NEW s \in Seq(S), s # <<>>, NEW K
    PROVE  /\ None(s, K) => None(Tail(s), K) /\ Head(s).kind \notin K
           /\ Lone(s, K) /\ Head(s).kind \notin K => Lone(Tail(s), K)
           /\ Lone(s, K) /\ Head(s).kind \in K => None(Tail(s), K)
<1> DEFINE t == Tail(s)
<1>1. /\ Len(s) \in Nat /\ Len(s) > 0 /\ DOMAIN s = 1 .. Len(s)
      /\ DOMAIN t = 1 .. (Len(s) - 1)
      /\ Head(s) = s[1] /\ \A i \in DOMAIN t : t[i] = s[i + 1]
  OBVIOUS
<1> HIDE DEF t
<1>2. None(s, K) => None(t, K) /\ Head(s).kind \notin K
  BY <1>1 DEF None
<1>3. ASSUME Lone(s, K) PROVE /\ Head(s).kind \notin K => Lone(t, K)
                              /\ Head(s).kind \in K => None(t, K)
  <2>1. PICK i \in DOMAIN s : s[i].kind \in K /\ \A j \in DOMAIN s \ {i} : s[j].kind \notin K
    BY <1>3 DEF Lone
  <2>2. CASE i = 1
    BY <1>1, <2>1, <2>2 DEF None
  <2>3. CASE i # 1
    <3>1. i - 1 \in DOMAIN t /\ t[i - 1].kind \in K
      BY <1>1, <2>1, <2>3
    <3>2. \A j \in DOMAIN t \ {i - 1} : t[j].kind \notin K
      BY <1>1, <2>1
    <3> QED
      BY <1>1, <2>1, <2>3, <3>1, <3>2 DEF Lone
  <2> QED
    BY <2>2, <2>3
<1> QED
  BY <1>2, <1>3 DEF t

\* What several more entries do to a channel.
LEMMA Joined ==
    ASSUME NEW S, NEW s \in Seq(S), NEW t \in Seq(S), NEW K
    PROVE  /\ None(s, K) /\ None(t, K) => None(s \o t, K)
           /\ Lone(s, K) /\ None(t, K) => Lone(s \o t, K)
           /\ None(s, K) /\ Lone(t, K) => Lone(s \o t, K)
<1> DEFINE u == s \o t
<1>1. /\ Len(s) \in Nat /\ Len(t) \in Nat /\ DOMAIN s = 1 .. Len(s) /\ DOMAIN t = 1 .. Len(t)
      /\ DOMAIN u = 1 .. (Len(s) + Len(t))
      /\ \A i \in DOMAIN s : u[i] = s[i]
      /\ \A i \in DOMAIN u : i \notin DOMAIN s => i - Len(s) \in DOMAIN t /\ u[i] = t[i - Len(s)]
  OBVIOUS
<1> HIDE DEF u
<1>2. None(s, K) /\ None(t, K) => None(u, K)
  BY <1>1 DEF None
<1>3. ASSUME Lone(s, K), None(t, K) PROVE Lone(u, K)
  <2>1. PICK i \in DOMAIN s : s[i].kind \in K /\ \A j \in DOMAIN s \ {i} : s[j].kind \notin K
    BY <1>3 DEF Lone
  <2>2. i \in DOMAIN u /\ u[i].kind \in K
    BY <1>1, <2>1
  <2>3. \A j \in DOMAIN u \ {i} : u[j].kind \notin K
    BY <1>1, <1>3, <2>1 DEF None
  <2> QED
    BY <2>2, <2>3 DEF Lone
<1>4. ASSUME None(s, K), Lone(t, K) PROVE Lone(u, K)
  <2>1. PICK i \in DOMAIN t : t[i].kind \in K /\ \A j \in DOMAIN t \ {i} : t[j].kind \notin K
    BY <1>4 DEF Lone
  <2>2. Len(s) + i \in DOMAIN u /\ u[Len(s) + i].kind \in K
    BY <1>1, <2>1
  <2>3. \A j \in DOMAIN u \ {Len(s) + i} : u[j].kind \notin K
    <3> SUFFICES ASSUME NEW j \in DOMAIN u, j # Len(s) + i PROVE u[j].kind \notin K
      OBVIOUS
    <3>1. CASE j \in DOMAIN s
      BY <1>1, <1>4, <3>1 DEF None
    <3>2. CASE j \notin DOMAIN s
      BY <1>1, <2>1, <3>2
    <3> QED
      BY <3>1, <3>2
  <2> QED
    BY <2>2, <2>3 DEF Lone
<1> QED
  BY <1>2, <1>3, <1>4 DEF u

\* A channel that holds one such entry does not hold none.
LEMMA NotBoth == \A s, K : ~(None(s, K) /\ Lone(s, K))
BY DEF None, Lone

-----------------------------------------------------------------------------
(* The runner, while none exits.                                         *)

\* Before the first runner starts nothing has happened, the others say
\* nothing, and no runner closes.
Living ==
    /\ ~alive => /\ stdin = <<>> /\ run = NoMsg /\ unread = {} /\ signals = <<>>
                 /\ ~askPending
    /\ \A p \in Pids : p # pid \/ ~alive => events[p] = <<>>
    /\ None(events[pid], {"closed"})
    /\ signals \in Seq({"run_complete"})

\* It holds when the session is first used.
LEMMA LivingInit == Init => Living
BY PidRange, NoneEmpty DEF Init, Living

\* A step that leaves the runner and its channels alone keeps it.
LEMMA LivingKept ==
    ASSUME Living, UNCHANGED <<alive, pid, stdin, run, unread, signals, events, askPending>>
    PROVE  Living'
BY DEF Living

\* What a live runner writes is only added to its own stdout.
LEMMA Emitted ==
    ASSUME Typed, NEW new \in Seq(Events), Emit(new)
    PROVE  /\ events[pid] \in Seq(Events) /\ events'[pid] = events[pid] \o new
           /\ \A p \in Pids \ {pid} : events'[p] = events[p]
BY DEF Typed, TypeOK, TypeRunner, TypeChannels, Emit

\* How the end of a run is written.
LEMMA Ending ==
    ASSUME NEW new \in {<<>>, <<Event("ask_user", {})>>}
    PROVE  LET w == Append(new, Event("run_complete", {}))
           IN  /\ w \in Seq(Events) /\ Lone(w, {"run_complete"})
               /\ None(w, {"closed", "interject_delivered"})
               /\ Len(w) > 0 /\ w[Len(w)].kind = "run_complete"
               /\ w[1].kind = "ask_user" => Len(w) = 2
               /\ Len(w) <= 2
<1>1. /\ Event("ask_user", {}) \in Events /\ Event("run_complete", {}) \in Events
      /\ new \in Seq(Events)
  <2>1. Event("ask_user", {}) \in Events /\ Event("run_complete", {}) \in Events
    BY MadeEvent
  <2>2. <<>> \in Seq(Events) /\ <<Event("ask_user", {})>> \in Seq(Events)
    BY <2>1
  <2> QED
    BY <2>1, <2>2
<1>2. \A k : Event(k, {}).kind = k
  BY DEF Event
<1> HIDE DEF Event
<1>3. CASE new = <<>>
  BY <1>1, <1>2, <1>3 DEF Lone, None
<1>4. CASE new = <<Event("ask_user", {})>>
  <2> DEFINE w == Append(new, Event("run_complete", {}))
  <2>1. /\ w \in Seq(Events) /\ Len(w) = 2 /\ DOMAIN w = {1, 2}
        /\ w[1].kind = "ask_user" /\ w[2].kind = "run_complete"
    BY <1>1, <1>2, <1>4
  <2> HIDE DEF w
  <2>2. Lone(w, {"run_complete"}) /\ None(w, {"closed", "interject_delivered"})
    BY <2>1 DEF Lone, None
  <2> QED
    BY <2>1, <2>2 DEF w
<1> QED
  BY <1>3, <1>4

\* What the bridge writes is well formed, and closes nothing.
LEMMA BridgeWrites ==
    ASSUME Typed, Bridge
    PROVE  UNCHANGED events \/ \E new \in Seq(Events) : Emit(new) /\ None(new, {"closed"})
<1>1. ASSUME NEW new \in {<<>>, <<Event("ask_user", {})>>}, EndRun(new)
      PROVE  \E w \in Seq(Events) : Emit(w) /\ None(w, {"closed"})
  <2>1. Emit(Append(new, Event("run_complete", {})))
    BY <1>1 DEF EndRun
  <2> QED
    BY <2>1, Ending DEF None
<1>2. CASE BridgeCommand
  BY <1>1, <1>2 DEF BridgeCommand, StartRun, AbortRun, TakeInterject
<1>3. CASE BridgeStep
  <2> DEFINE w == <<Event("interject_delivered", unread)>>
  <2>1. Event("interject_delivered", unread) \in Events
    BY MadeEvent DEF Typed, TypeOK, TypeRunner
  <2>2. Event("interject_delivered", unread).kind = "interject_delivered"
    BY DEF Event
  <2>3. w \in Seq(Events) /\ None(w, {"closed"})
    BY <2>1, <2>2 DEF None
  <2> QED
    BY <1>3, <2>3 DEF BridgeStep
<1>4. ASSUME NEW ask \in BOOLEAN, BridgeFinish(ask)
      PROVE  \E w \in Seq(Events) : Emit(w) /\ None(w, {"closed"})
  BY <1>1, <1>4 DEF BridgeFinish
<1> QED
  BY <1>2, <1>3, <1>4 DEF Bridge

\* Every step but an exit keeps it.
LEMMA LivingStep == Typed /\ Living /\ [Steady]_vars => Living'
<1> SUFFICES ASSUME Typed, Living, [Steady]_vars PROVE Living'
  OBVIOUS
<1>0. pid \in Pids /\ events \in [Pids -> Seq(Events)] /\ alive \in BOOLEAN
  BY DEF Typed, TypeOK, TypeRunner, TypeChannels
<1>1. CASE UNCHANGED vars \/ Send
  BY <1>1, LivingKept DEF vars, gate, Send, SendText, SendJump, WakeLook, TryReserve,
     OfferDispatch, OfferQueue, proc, bridge
<1>2. CASE UserActs
  <2>1. UNCHANGED <<alive, pid, run, unread, signals, events, askPending>>
    BY <1>2 DEF UserActs, Remove, Jump, Stop, AbortWrite, AbortMark, gate, proc, bridge
  <2>2. ~alive => stdin' = stdin
    BY <1>2 DEF UserActs, Remove, Jump, Stop, AbortWrite, AbortMark
  <2> QED
    BY <2>1, <2>2 DEF Living
<1>3. ASSUME SpawnRunner, UNCHANGED <<stdin, run, unread, signals, events, askPending>>,
             pid' \in Pids
      PROVE  Living'
  <2>1. pid' # pid /\ \A p \in Pids : events[p] = <<>>
    BY <1>0, <1>3, PidRange DEF SpawnRunner, Living
  <2> QED
    BY <1>3, <2>1, NoneEmpty DEF SpawnRunner, Living
<1>4. pid' \in Pids
  BY TypedStep DEF Next, Typed, TypeOK, TypeRunner
<1>5. ASSUME NEW m \in Msgs, Task(m) PROVE Living'
  <2>1. UNCHANGED <<run, unread, signals, events>>
    BY <1>5 DEF Task, TaskRest, Check, Decide, Ensure, Persist, Write, OpenGate, HandOver,
       Release, bridge
  <2>2. CASE Ensure(m)
    BY <1>3, <1>4, <2>1, <2>2, LivingKept DEF Ensure, gate, proc
  <2>3. CASE ~Ensure(m)
    <3>1. UNCHANGED <<alive, pid>> /\ (askPending' = askPending \/ ~askPending')
      BY <1>5, <2>3 DEF Task, Check, Decide, Persist, Write, OpenGate, HandOver, Release,
         proc, gate
    <3>2. ~alive => stdin' = stdin
      BY <1>5, <2>3 DEF Task, Check, Decide, Persist, Write, OpenGate, HandOver, Release
    <3> QED
      BY <2>1, <3>1, <3>2 DEF Living
  <2> QED
    BY <2>2, <2>3
<1>6. ASSUME NEW h \in handing, WriteInterject(h) PROVE Living'
  BY <1>6 DEF WriteInterject, Living, gate, proc, bridge
<1>7. CASE Bridge
  <2>1. alive /\ UNCHANGED <<alive, pid, signals>>
    BY <1>7 DEF Bridge, BridgeCommand, BridgeStep, BridgeFinish, proc
  <2>2. \A p \in Pids \ {pid} : events'[p] = <<>>
    BY <1>7, <2>1, BridgeWrites, Emitted DEF Living
  <2>3. None(events'[pid], {"closed"})
    <3>1. CASE UNCHANGED events
      BY <2>1, <3>1 DEF Living
    <3>2. ASSUME NEW new \in Seq(Events), Emit(new), None(new, {"closed"})
          PROVE  None(events'[pid], {"closed"})
      <4>1. events[pid] \in Seq(Events) /\ events'[pid] = events[pid] \o new
        BY <3>2, Emitted
      <4>2. None(events[pid], {"closed"})
        BY DEF Living
      <4>3. None(events[pid] \o new, {"closed"})
        BY <3>2, <4>1, <4>2, Joined
      <4> QED
        BY <4>1, <4>3
    <3> QED
      BY <1>7, <3>1, <3>2, BridgeWrites
  <2> QED
    BY <2>1, <2>2, <2>3 DEF Living
<1>8. CASE OpenSession
  BY <1>3, <1>4, <1>8 DEF OpenSession, gate, bridge
<1>9. ASSUME NEW p \in Pids, Watch(p) PROVE Living'
  <2>1. /\ events[p] # <<>> /\ events' = [events EXCEPT ![p] = Tail(@)]
        /\ UNCHANGED <<alive, pid, stdin, run, unread>>
    BY <1>9 DEF Watch, proc, bridge
  <2>2. p = pid /\ alive
    BY <2>1 DEF Living
  <2>3. /\ events'[pid] = Tail(events[pid]) /\ events[pid] \in Seq(Events)
        /\ \A q \in Pids \ {pid} : events'[q] = events[q]
    BY <1>0, <2>1, <2>2
  <2>4. None(events'[pid], {"closed"}) /\ Head(events[pid]).kind # "closed"
    BY <2>1, <2>2, <2>3, Popped DEF Living
  <2>5. signals' \in Seq({"run_complete"})
    BY <1>9, <2>2, <2>4 DEF Watch, WatchAskUser, WatchDelivered, WatchEnd, Living
  <2> QED
    BY <2>1, <2>2, <2>3, <2>4, <2>5 DEF Living
<1>10. CASE Drain
  <2>1. /\ signals # <<>> /\ signals' = Tail(signals)
        /\ UNCHANGED <<alive, pid, stdin, run, unread, events, askPending>>
    BY <1>10 DEF Drain, proc, bridge
  <2> QED
    BY <2>1, PoppedSeq DEF Living
<1> QED
  BY <1>1, <1>2, <1>5, <1>6, <1>7, <1>8, <1>9, <1>10 DEF Steady

-----------------------------------------------------------------------------
(* The claim to run.                                                     *)

Message == {"user", "answer"}
End     == {"run_complete"}

\* A task that reserved the gate and has not written to the runner yet.
Holds(m) == pc[m] \in Carrying \cup {"release"}
NoTask   == \A m \in Msgs : ~Holds(m)
LoneTask == \E m \in Msgs : Holds(m) /\ \A n \in Msgs \ {m} : ~Holds(n)

\* Who has the claim: nobody, a task, a command on its way to the runner, the
\* run, the report of its end on its way back, or the drain task's channel.
AtNobody == /\ NoTask /\ None(stdin, Message) /\ run = NoMsg
            /\ None(events[pid], End) /\ signals = <<>>
AtTask   == /\ openRun /\ LoneTask /\ None(stdin, Message) /\ run = NoMsg
            /\ None(events[pid], End) /\ signals = <<>>
AtPipe   == /\ openRun /\ NoTask /\ Lone(stdin, Message) /\ run = NoMsg
            /\ None(events[pid], End) /\ signals = <<>>
AtRun    == /\ openRun /\ NoTask /\ None(stdin, Message) /\ run # NoMsg
            /\ None(events[pid], End) /\ signals = <<>>
AtStdout == /\ openRun /\ NoTask /\ None(stdin, Message) /\ run = NoMsg
            /\ Lone(events[pid], End) /\ signals = <<>>
AtDrain  == /\ openRun /\ NoTask /\ None(stdin, Message) /\ run = NoMsg
            /\ None(events[pid], End) /\ Len(signals) = 1

\* There is at most one claim, and none while the gate is open to senders.
OneClaim == AtNobody \/ AtTask \/ AtPipe \/ AtRun \/ AtStdout \/ AtDrain

\* Nobody has a claim when the session is first used.
LEMMA ClaimInit == Init => AtNobody
BY NoneEmpty, PidRange DEF Init, AtNobody, NoTask, Holds, Carrying

\* A step that moves no claim leaves it where it is.
LEMMA ClaimStays ==
    ASSUME openRun => openRun', \A m \in Msgs : Holds(m)' <=> Holds(m),
           None(stdin, Message) => None(stdin', Message),
           Lone(stdin, Message) => Lone(stdin', Message),
           run = NoMsg <=> run' = NoMsg, signals' = signals,
           None(events[pid], End) => None(events'[pid'], End),
           Lone(events[pid], End) => Lone(events'[pid'], End)
    PROVE  /\ AtNobody => AtNobody'
           /\ AtTask => AtTask'
           /\ AtPipe => AtPipe'
           /\ AtRun => AtRun'
           /\ AtStdout => AtStdout'
           /\ AtDrain => AtDrain'
BY DEF AtNobody, AtTask, AtPipe, AtRun, AtStdout, AtDrain, NoTask, LoneTask, None, Lone

\* A message that reserves a free gate takes the claim.
LEMMA Claims ==
    ASSUME NEW m \in Msgs, AtNobody, openRun', Holds(m)',
           \A n \in Msgs \ {m} : pc'[n] = pc[n],
           UNCHANGED <<stdin, run, events, pid, signals>>
    PROVE  AtTask'
BY DEF AtNobody, AtTask, NoTask, LoneTask, Holds

\* Only one place has the claim, and a closed gate means a claim or none.
LEMMA WhoClaims ==
    ASSUME Typed, OneClaim
    PROVE  /\ ~openRun => AtNobody
           /\ \A m \in Msgs : Holds(m) =>
                AtTask /\ \A n \in Msgs : Holds(n) => n = m
           /\ run # NoMsg => AtRun
           /\ signals # <<>> => AtDrain
           /\ stdin # <<>> /\ Head(stdin).kind \in Message => AtPipe
           /\ events[pid] # <<>> /\ Head(events[pid]).kind \in End => AtStdout
<1>1. \A K : /\ stdin # <<>> /\ Head(stdin).kind \in K => ~None(stdin, K)
             /\ events[pid] # <<>> /\ Head(events[pid]).kind \in K => ~None(events[pid], K)
  BY Popped DEF Typed, TypeOK, TypeRunner, TypeChannels
<1>2. Len(<<>>) = 0
  OBVIOUS
<1> QED
  BY <1>1, <1>2 DEF OneClaim, AtNobody, AtTask, AtPipe, AtRun, AtStdout, AtDrain, NoTask,
     LoneTask

\* With no end reported before its sender reopens the gate, an open gate means
\* a claim, and such a sender's run has not been reported to the drain task.
Held == /\ openRun => ~AtNobody
        /\ \A m \in Msgs : pc[m] = "gate" => AtPipe \/ AtRun \/ AtStdout

\* The places exclude each other.
LEMMA Apart ==
    /\ AtNobody \/ AtTask \/ AtDrain => ~(AtPipe \/ AtRun \/ AtStdout)
    /\ AtTask \/ AtDrain => ~AtNobody
    /\ AtTask => ~AtDrain
<1>1. Len(<<>>) = 0
  OBVIOUS
<1> QED
  BY <1>1, NotBoth DEF AtNobody, AtTask, AtPipe, AtRun, AtStdout, AtDrain, NoTask, LoneTask

\* The same after a step.
LEMMA ApartAfter ==
    /\ AtTask' \/ AtPipe' \/ AtRun' \/ AtStdout' \/ AtDrain' => ~AtNobody'
<1>1. Len(<<>>) = 0
  OBVIOUS
<1> QED
  BY <1>1, NotBoth DEF AtNobody, AtTask, AtPipe, AtRun, AtStdout, AtDrain, NoTask, LoneTask

\* What the lemmas below keep.
Good == Typed /\ Books /\ Living /\ OneClaim

\* A step that leaves the claim where it is keeps both invariants.
LEMMA Unmoved ==
    ASSUME Good, openRun' = openRun, \A m \in Msgs : Holds(m)' <=> Holds(m),
           \A m \in Msgs : pc'[m] = "gate" => pc[m] = "gate",
           None(stdin, Message) => None(stdin', Message),
           Lone(stdin, Message) => Lone(stdin', Message),
           run = NoMsg <=> run' = NoMsg, signals' = signals,
           None(events[pid], End) => None(events'[pid'], End),
           Lone(events[pid], End) => Lone(events'[pid'], End)
    PROVE  OneClaim' /\ (Held => Held')
<1>1. /\ AtNobody => AtNobody'
      /\ AtTask => AtTask'
      /\ AtPipe => AtPipe'
      /\ AtRun => AtRun'
      /\ AtStdout => AtStdout'
      /\ AtDrain => AtDrain'
  BY ClaimStays
<1>2. OneClaim'
  BY <1>1 DEF Good, OneClaim
<1>3. ASSUME Held PROVE Held'
  <2>1. openRun' => ~AtNobody'
    BY <1>1, <1>3, ApartAfter DEF Good, OneClaim, Held
  <2>2. \A m \in Msgs : pc'[m] = "gate" => AtPipe' \/ AtRun' \/ AtStdout'
    BY <1>1, <1>3 DEF Held
  <2> QED
    BY <2>1, <2>2 DEF Held
<1> QED
  BY <1>2, <1>3

\* A message that reserves a free gate: the claim goes from nobody to a task.
LEMMA Reserves ==
    ASSUME Good, NEW m \in Msgs, ~openRun, openRun', Holds(m)', pc'[m] # "gate",
           \A n \in Msgs \ {m} : pc'[n] = pc[n],
           UNCHANGED <<stdin, run, events, pid, signals>>
    PROVE  OneClaim' /\ (Held => Held')
<1>1. AtNobody /\ AtTask'
  BY WhoClaims, Claims DEF Good
<1> QED
  BY <1>1, Apart, ApartAfter DEF OneClaim, Held

\* queue_offer, queue_offer_interjection, queue_try_reserve: a claim is only
\* handed out while there is none.
LEMMA ClaimSend ==
    ASSUME Good, Send
    PROVE  OneClaim' /\ (Held => Held')
<1>0. /\ pc \in [Msgs -> PcValues] /\ UNCHANGED <<stdin, run, events, pid, signals>>
  BY DEF Good, Typed, TypeOK, TypeTasks, Send, SendText, SendJump, WakeLook, TryReserve,
     proc, bridge
<1> USE DEF Holds, Carrying
<1>1. ASSUME NEW m \in Msgs, NEW w, OfferDispatch(m, w)
      PROVE  OneClaim' /\ (Held => Held')
  <2>1. ~openRun /\ openRun' /\ pc' = [pc EXCEPT ![m] = FirstStep(w)]
    BY <1>1 DEF OfferDispatch, MayDispatchNow, Carry, Go
  <2>2. Holds(m)' /\ pc'[m] # "gate"
    BY <1>0, <2>1 DEF FirstStep
  <2> QED
    BY <1>0, <2>1, <2>2, Reserves
<1>2. ASSUME NEW m \in Msgs, pc[m] \in {"new", "looked"}, openRun' = openRun,
             NEW step \in {"queued", "jumping", "looked", "over"}, Go(m, step)
      PROVE  OneClaim' /\ (Held => Held')
  <2>1. \A n \in Msgs : Holds(n)' <=> Holds(n)
    BY <1>0, <1>2 DEF Go
  <2>2. \A n \in Msgs : pc'[n] = "gate" => pc[n] = "gate"
    BY <1>0, <1>2 DEF Go
  <2> QED
    BY <1>0, <1>2, <2>1, <2>2, Unmoved
<1>3. ASSUME NEW m \in Msgs, NEW w \in {"core", "socket"}, SendText(m, w)
      PROVE  OneClaim' /\ (Held => Held')
  BY <1>1, <1>2, <1>3 DEF SendText, OfferQueue, gate
<1>4. ASSUME NEW m \in Msgs, SendJump(m) PROVE OneClaim' /\ (Held => Held')
  BY <1>1, <1>2, <1>4 DEF SendJump, OfferQueue, gate
<1>5. ASSUME NEW m \in Msgs, WakeLook(m) PROVE OneClaim' /\ (Held => Held')
  BY <1>2, <1>5 DEF WakeLook, gate
<1>6. ASSUME NEW m \in Msgs, NEW w \in {"image", "wake"}, TryReserve(m, w)
      PROVE  OneClaim' /\ (Held => Held')
  BY <1>1, <1>2, <1>6 DEF TryReserve, gate
<1> QED
  BY <1>3, <1>4, <1>5, <1>6 DEF Send

\* A jump takes the claim only when nobody has it; the rest leaves it alone.
LEMMA ClaimUserActs ==
    ASSUME Good, UserActs
    PROVE  OneClaim' /\ (Held => Held')
<1>0. /\ pc \in [Msgs -> PcValues] /\ UNCHANGED <<run, events, pid, signals>>
      /\ stdin \in Seq(Commands)
  BY DEF Good, Typed, TypeOK, TypeTasks, TypeChannels, UserActs, Remove, Jump, Stop,
     AbortWrite, AbortMark, proc, bridge
<1>1. \A m \in items : m \in Msgs /\ pc[m] \in {"queued", "jumping"}
  BY DEF Good, Books, Book, Waits, Typed, TypeOK, TypeQueue
<1> USE DEF Holds, Carrying
<1>2. ASSUME NEW m \in Msgs, Remove(m) PROVE OneClaim' /\ (Held => Held')
  <2>1. openRun' = openRun /\ stdin' = stdin /\ pc' = [pc EXCEPT ![m] = "removed"] /\ m \in items
    BY <1>2 DEF Remove, Go, gate
  <2>2. \A n \in Msgs : (Holds(n)' <=> Holds(n)) /\ (pc'[n] = "gate" => pc[n] = "gate")
    BY <1>0, <1>1, <2>1
  <2> QED
    BY <1>0, <2>1, <2>2, Unmoved
<1>3. ASSUME NEW m \in Msgs, NEW w \in {"jump", "socket"}, Jump(m, w)
      PROVE  OneClaim' /\ (Held => Held')
  <2>1. stdin' = stdin /\ m \in items
    BY <1>3 DEF Jump
  <2>2. CASE openRun
    <3>1. openRun' = openRun /\ \E step \in {"queued", pc[m]} : pc' = [pc EXCEPT ![m] = step]
      BY <1>3, <2>2 DEF Jump, Go, gate
    <3>2. \A n \in Msgs : (Holds(n)' <=> Holds(n)) /\ (pc'[n] = "gate" => pc[n] = "gate")
      BY <1>0, <1>1, <2>1, <3>1
    <3> QED
      BY <1>0, <2>1, <3>1, <3>2, Unmoved
  <2>3. CASE ~openRun
    <3>1. openRun' /\ pc' = [pc EXCEPT ![m] = FirstStep(w)]
      BY <1>3, <2>3 DEF Jump, Carry, Go
    <3>2. Holds(m)' /\ pc'[m] # "gate"
      BY <1>0, <3>1 DEF FirstStep
    <3> QED
      BY <1>0, <2>1, <2>3, <3>1, <3>2, Reserves
  <2> QED
    BY <2>2, <2>3
<1>4. ASSUME NEW a \in Stops, Stop(a) \/ AbortWrite(a) \/ AbortMark(a)
      PROVE  OneClaim' /\ (Held => Held')
  <2>1. openRun' = openRun /\ pc' = pc
    BY <1>4 DEF Stop, AbortWrite, AbortMark, gate, tasks
  <2>2. stdin' = stdin \/ stdin' = Append(stdin, Command("abort", NoMsg, {}))
    BY <1>4 DEF Stop, AbortWrite, AbortMark
  <2>3. Command("abort", NoMsg, {}) \in Commands
    BY MadeCommand
  <2>4. Command("abort", NoMsg, {}).kind \notin Message
    BY DEF Command, Message
  <2>5. /\ None(stdin, Message) => None(stdin', Message)
        /\ Lone(stdin, Message) => Lone(stdin', Message)
    BY <1>0, <2>2, <2>3, <2>4, Pushed
  <2> QED
    BY <1>0, <2>1, <2>5, Unmoved
<1> QED
  BY <1>2, <1>3, <1>4 DEF UserActs

\* Starting the first runner moves no claim.
LEMMA Spawned ==
    ASSUME Good, SpawnRunner, pid' \in Pids, UNCHANGED events
    PROVE  /\ None(events[pid], End) => None(events'[pid'], End)
           /\ Lone(events[pid], End) => Lone(events'[pid'], End)
<1>1. events[pid] = <<>> /\ events'[pid'] = <<>>
  BY DEF Good, Typed, TypeOK, TypeRunner, Living, SpawnRunner
<1> QED
  BY <1>1

\* The task with the claim passes it to the runner, or gives it up.
LEMMA ClaimTask ==
    ASSUME Good, NEW m \in Msgs, Task(m), pid' \in Pids
    PROVE  OneClaim' /\ (Held => Held')
<1>0. /\ pc \in [Msgs -> PcValues] /\ UNCHANGED <<run, events, signals>>
      /\ stdin \in Seq(Commands) /\ alive \in BOOLEAN
  BY DEF Good, Typed, TypeOK, TypeTasks, TypeRunner, TypeChannels, Task, Check, Decide,
     Ensure, Persist, Write, OpenGate, HandOver, Release, TaskRest, bridge
<1>1. \A n \in Msgs \ {m} : pc'[n] = pc[n]
  BY <1>0 DEF Task, Go, Check, Decide, Ensure, Persist, Write, OpenGate, HandOver, Release
<1> USE DEF Holds, Carrying
<1>2. ASSUME Holds(m) PROVE AtTask /\ \A n \in Msgs : Holds(n) => n = m
  BY <1>2, WhoClaims DEF Good
\* From one step of the task to another the claim stays with it.
<1>3. ASSUME Holds(m), Holds(m)', pc'[m] # "gate", openRun' = openRun, stdin' = stdin,
             proc' = proc \/ SpawnRunner
      PROVE  OneClaim' /\ (Held => Held')
  <2>1. /\ None(events[pid], End) => None(events'[pid'], End)
        /\ Lone(events[pid], End) => Lone(events'[pid'], End)
    BY <1>0, <1>3, Spawned DEF proc
  <2>2. \A n \in Msgs : (Holds(n)' <=> Holds(n)) /\ (pc'[n] = "gate" => pc[n] = "gate")
    BY <1>1, <1>3
  <2> QED
    BY <1>0, <1>3, <2>1, <2>2, Unmoved
\* A claim that is given up leaves the gate closed to nobody.
<1>4. ASSUME Holds(m), ~Holds(m)', pc'[m] # "gate", ~openRun', stdin' = stdin, pid' = pid
      PROVE  OneClaim' /\ (Held => Held')
  <2>1. NoTask'
    BY <1>1, <1>2, <1>4 DEF NoTask
  <2>2. AtNobody'
    BY <1>0, <1>2, <1>4, <2>1 DEF AtTask, AtNobody
  <2>3. ASSUME Held PROVE \A n \in Msgs : pc'[n] # "gate"
    BY <1>1, <1>2, <1>4, <2>3, Apart DEF Held
  <2> QED
    BY <1>4, <2>2, <2>3 DEF OneClaim, Held
<1>5. CASE Check(m)
  BY <1>0, <1>3, <1>5 DEF Check, Go, gate
<1>6. CASE Decide(m)
  BY <1>0, <1>3, <1>6 DEF Decide, Go, gate
<1>7. CASE Ensure(m)
  <2>1. /\ pc[m] = "ensure" /\ pc'[m] \in {"persist", "write", "release"}
        /\ openRun' = openRun /\ stdin' = stdin /\ (proc' = proc \/ SpawnRunner)
    BY <1>0, <1>7 DEF Ensure, Go, gate, AfterEnsure
  <2> QED
    BY <1>3, <2>1
<1>8. CASE Persist(m)
  <2>1. pc[m] = "persist" /\ stdin' = stdin /\ proc' = proc
    BY <1>8 DEF Persist
  <2>2. \/ openRun' = openRun /\ pc'[m] \in {"ensure", "write", "release"}
        \/ ~openRun' /\ pc'[m] = "queued"
    BY <1>0, <1>8 DEF Persist, Go, gate, AfterPersist
  <2> QED
    BY <1>3, <1>4, <2>1, <2>2 DEF proc
<1>9. CASE Write(m)
  <2> DEFINE c == Command(IF m \in answer THEN "answer" ELSE "user", m, {})
  <2>1. pc[m] = "write" /\ openRun' = openRun /\ proc' = proc
    BY <1>9 DEF Write, gate
  <2>2. CASE stdin' = Append(stdin, c) /\ Go(m, "gate")
    <3>1. c \in Commands /\ c.kind \in Message
      BY MadeCommand DEF Command, Message
    <3>2. AtTask /\ NoTask' /\ pc'[m] = "gate"
      BY <1>0, <1>1, <1>2, <2>1, <2>2 DEF NoTask, Go
    <3>3. Lone(stdin', Message)
      BY <1>0, <2>2, <3>1, <3>2, Pushed DEF AtTask
    <3>4. AtPipe'
      BY <1>0, <2>1, <3>2, <3>3 DEF AtTask, AtPipe, proc
    <3> QED
      BY <3>4, ApartAfter DEF OneClaim, Held
  <2>3. CASE stdin' = stdin /\ Go(m, "release")
    BY <1>0, <1>3, <2>1, <2>3 DEF Go
  <2> QED
    BY <1>9, <2>2, <2>3 DEF Write
<1>10. CASE OpenGate(m) \/ HandOver(m)
  <2>1. /\ stdin' = stdin /\ pid' = pid /\ (openRun => openRun')
        /\ pc[m] \in {"gate", "hand"} /\ pc'[m] \in {"hand", "over"}
        /\ pc[m] = "gate" \/ openRun' = openRun
    BY <1>0, <1>10 DEF OpenGate, HandOver, Go, gate, proc
  <2>2. \A n \in Msgs : (Holds(n)' <=> Holds(n)) /\ (pc'[n] = "gate" => pc[n] = "gate")
    BY <1>1, <2>1
  <2>3. CASE openRun' = openRun
    BY <1>0, <2>1, <2>2, <2>3, Unmoved
  <2>4. CASE pc[m] = "gate"
    <3>1. /\ AtNobody => AtNobody'
          /\ AtTask => AtTask'
          /\ AtPipe => AtPipe'
          /\ AtRun => AtRun'
          /\ AtStdout => AtStdout'
          /\ AtDrain => AtDrain'
      BY <1>0, <2>1, <2>2, ClaimStays
    <3>2. OneClaim'
      BY <3>1 DEF Good, OneClaim
    <3>3. ASSUME Held PROVE AtPipe' \/ AtRun' \/ AtStdout'
      BY <2>4, <3>1, <3>3 DEF Held
    <3> QED
      BY <3>2, <3>3, ApartAfter DEF Held
  <2> QED
    BY <2>1, <2>3, <2>4
<1>11. CASE Release(m)
  <2>1. pc[m] = "release" /\ pc'[m] = "over" /\ ~openRun' /\ stdin' = stdin /\ pid' = pid
    BY <1>0, <1>11 DEF Release, Go, proc
  <2> QED
    BY <1>4, <2>1
<1> QED
  BY <1>5, <1>6, <1>7, <1>8, <1>9, <1>10, <1>11 DEF Task

\* A command that starts a run takes the claim along, and finds no run going;
\* the end of a run passes the claim to the runner's stdout.
LEMMA ClaimBridge ==
    ASSUME Good, Bridge
    PROVE  OneClaim' /\ (Held => Held') /\ rejected' = rejected
<1>0. /\ stdin \in Seq(Commands) /\ events[pid] \in Seq(Events) /\ alive
      /\ UNCHANGED <<openRun, pc, signals, pid>>
  BY DEF Good, Typed, TypeOK, TypeRunner, TypeChannels, Bridge, BridgeCommand, BridgeStep,
     BridgeFinish, gate, tasks, proc
<1>1. NoMsg \notin Msgs
  BY ConstantsAssumption
\* The end of a run.
<1>2. ASSUME NEW new \in {<<>>, <<Event("ask_user", {})>>}, run # NoMsg, EndRun(new),
             None(stdin, Message) => None(stdin', Message)
      PROVE  OneClaim' /\ (Held => Held')
  <2> DEFINE w == Append(new, Event("run_complete", {}))
  <2>1. AtRun
    BY <1>2, WhoClaims DEF Good
  <2>2. w \in Seq(Events) /\ Lone(w, End) /\ Emit(w)
    BY <1>2, Ending DEF EndRun, End
  <2> HIDE DEF w
  <2>3. events'[pid] = events[pid] \o w
    BY <2>2, Emitted DEF Good
  <2>4. Lone(events'[pid], End)
    BY <1>0, <2>1, <2>2, <2>3, Joined DEF AtRun
  <2>5. AtStdout'
    BY <1>0, <1>2, <2>1, <2>4 DEF AtRun, AtStdout, EndRun, NoTask, Holds
  <2> QED
    BY <1>0, <2>5, ApartAfter DEF OneClaim, Held
<1>3. CASE BridgeCommand
  <2> DEFINE c == Head(stdin)
  <2>0. stdin # <<>> /\ c \in Commands /\ stdin' = Tail(stdin)
    BY <1>0, <1>3 DEF BridgeCommand
  <2>1. CASE c.kind \in Message
    <3>1. AtPipe
      BY <2>0, <2>1, WhoClaims DEF Good
    <3>2. c.msg \in Msgs
      BY <2>0, <2>1 DEF Commands, Message
    <3>3. StartRun(c)
      BY <1>3, <2>1 DEF BridgeCommand, AbortRun, TakeInterject, Message
    <3>4. run' # NoMsg /\ UNCHANGED <<events, rejected>>
      BY <1>1, <3>1, <3>2, <3>3 DEF StartRun, AtPipe
    <3>5. None(stdin', Message)
      BY <1>0, <2>0, <2>1, <3>1, Popped DEF AtPipe
    <3>6. AtRun'
      BY <1>0, <3>1, <3>4, <3>5 DEF AtPipe, AtRun, NoTask, Holds
    <3> QED
      BY <1>0, <3>4, <3>6, ApartAfter DEF OneClaim, Held
  <2>2. CASE c.kind \notin Message
    <3>1. /\ None(stdin, Message) => None(stdin', Message)
          /\ Lone(stdin, Message) => Lone(stdin', Message)
      BY <1>0, <2>0, <2>2, Popped
    <3>2. rejected' = rejected /\ (AbortRun(c) \/ TakeInterject(c))
      BY <1>3, <2>2 DEF BridgeCommand, StartRun, AbortRun, TakeInterject, Message, given
    <3>3. CASE run # NoMsg /\ EndRun(<<>>)
      BY <1>2, <3>1, <3>2, <3>3
    <3>4. CASE UNCHANGED <<run, events>>
      <4>1. \A m \in Msgs : Holds(m)' <=> Holds(m)
        BY <1>0 DEF Holds
      <4> QED
        BY <1>0, <3>1, <3>2, <3>4, <4>1, Unmoved
    <3> QED
      BY <3>2, <3>3, <3>4 DEF AbortRun, TakeInterject
  <2> QED
    BY <2>1, <2>2
<1>4. CASE BridgeStep
  <2> DEFINE w == <<Event("interject_delivered", unread)>>
  <2>1. Event("interject_delivered", unread) \in Events
    BY MadeEvent DEF Good, Typed, TypeOK, TypeRunner
  <2>2. Event("interject_delivered", unread).kind = "interject_delivered"
    BY DEF Event
  <2>3. w \in Seq(Events) /\ None(w, End) /\ Emit(w)
    BY <1>4, <2>1, <2>2 DEF None, End, BridgeStep
  <2> HIDE DEF w
  <2>4. events'[pid] = events[pid] \o w
    BY <2>3, Emitted DEF Good
  <2>5. /\ None(events[pid], End) => None(events'[pid], End)
        /\ Lone(events[pid], End) => Lone(events'[pid], End)
    BY <1>0, <2>3, <2>4, Joined
  <2>6. UNCHANGED <<run, stdin, rejected>>
    BY <1>4 DEF BridgeStep
  <2>7. \A m \in Msgs : Holds(m)' <=> Holds(m)
    BY <1>0 DEF Holds
  <2> QED
    BY <1>0, <2>5, <2>6, <2>7, Unmoved
<1>5. ASSUME NEW ask \in BOOLEAN, BridgeFinish(ask)
      PROVE  OneClaim' /\ (Held => Held') /\ rejected' = rejected
  BY <1>2, <1>5 DEF BridgeFinish, given
<1> QED
  BY <1>3, <1>4, <1>5 DEF Bridge

\* Only the watcher of the live runner has anything to read.
LEMMA OnlyLive ==
    ASSUME Typed, Living, NEW p \in Pids, Watch(p)
    PROVE  /\ p = pid /\ alive /\ events[pid] \in Seq(Events) /\ events[pid] # <<>>
           /\ events'[pid] = Tail(events[pid])
           /\ Head(events[pid]) \in Events /\ Head(events[pid]).kind # "closed"
<1>1. events[p] # <<>> /\ events' = [events EXCEPT ![p] = Tail(@)]
  BY DEF Watch
<1>2. p = pid /\ alive
  BY <1>1 DEF Living
<1>3. events[pid] \in Seq(Events) /\ events'[pid] = Tail(events[pid])
  BY <1>1, <1>2 DEF Typed, TypeOK, TypeChannels
<1>4. Head(events[pid]).kind \notin {"closed"}
  BY <1>1, <1>2, <1>3, Popped DEF Living
<1> QED
  BY <1>1, <1>2, <1>3, <1>4

\* The report of a run's end passes the claim to the drain task's channel.
LEMMA ClaimWatch ==
    ASSUME Good, NEW p \in Pids, Watch(p)
    PROVE  OneClaim' /\ (~GateRace /\ Held => Held')
<1> DEFINE e == Head(events[pid])
<1>0. /\ UNCHANGED <<openRun, stdin, run, pid>> /\ pc \in [Msgs -> PcValues]
      /\ p = pid /\ events[pid] \in Seq(Events) /\ events[pid] # <<>>
      /\ events'[pid] = Tail(events[pid]) /\ e.kind # "closed"
  BY OnlyLive DEF Good, Typed, TypeOK, TypeTasks, Watch, WatchAskUser, WatchDelivered,
     WatchEnd, gate, proc, bridge
<1>1. CASE WatchAskUser(e) \/ WatchDelivered(e)
  <2>1. e.kind \notin End /\ signals' = signals
    BY <1>1 DEF WatchAskUser, WatchDelivered, End
  <2>2. /\ None(events[pid], End) => None(events'[pid], End)
        /\ Lone(events[pid], End) => Lone(events'[pid], End)
    BY <1>0, <2>1, Popped
  <2>3. \A m \in Msgs : pc'[m] = pc[m] \/ (m \in items /\ pc'[m] = "over")
    BY <1>1 DEF WatchAskUser, WatchDelivered, tasks
  <2>4. \A m \in items : pc[m] \in {"queued", "jumping"}
    BY DEF Good, Books, Book, Waits, Typed, TypeOK, TypeQueue
  <2>5. \A m \in Msgs : (Holds(m)' <=> Holds(m)) /\ (pc'[m] = "gate" => pc[m] = "gate")
    BY <2>3, <2>4 DEF Holds, Carrying
  <2> QED
    BY <1>0, <2>1, <2>2, <2>5, Unmoved
<1>2. CASE WatchEnd(e)
  <2>1. e.kind \in End /\ signals' = Append(signals, e.kind) /\ pc' = pc
    BY <1>0, <1>2 DEF WatchEnd, End, tasks
  <2>2. AtStdout
    BY <1>0, <2>1, WhoClaims DEF Good
  <2>3. None(events'[pid], End)
    BY <1>0, <2>1, <2>2, Popped DEF AtStdout
  <2>4. Len(signals') = 1
    BY <2>1, <2>2 DEF AtStdout
  <2>5. AtDrain'
    BY <1>0, <2>1, <2>2, <2>3, <2>4 DEF AtStdout, AtDrain, NoTask, Holds
  <2>6. ~GateRace => \A m \in Msgs : pc'[m] # "gate"
    BY <2>1 DEF Watch
  <2> QED
    BY <2>5, <2>6, ApartAfter DEF OneClaim, Held
<1> QED
  BY <1>0, <1>1, <1>2 DEF Watch

\* The drain task passes the claim to the front of the queue, or opens the gate
\* to whoever sends next.
LEMMA ClaimDrain ==
    ASSUME Good, Drain
    PROVE  OneClaim' /\ (Held => Held')
<1>0. /\ UNCHANGED <<stdin, run, pid, events>> /\ pc \in [Msgs -> PcValues]
      /\ signals # <<>> /\ signals' = Tail(signals)
  BY DEF Good, Typed, TypeOK, TypeTasks, Drain, proc, bridge
<1>1. AtDrain /\ (Held => \A m \in Msgs : pc[m] # "gate")
  BY <1>0, WhoClaims, Apart DEF Good, Held
<1>2. signals' = <<>>
  BY <1>0, <1>1 DEF AtDrain, Good, Typed, TypeOK, TypeChannels
<1>3. CASE TakeNothing
  <2>1. ~openRun' /\ pc' = pc
    BY <1>3 DEF TakeNothing, tasks
  <2>2. AtNobody'
    BY <1>0, <1>1, <1>2, <2>1 DEF AtDrain, AtNobody, NoTask, Holds
  <2> QED
    BY <1>1, <2>1, <2>2 DEF OneClaim, Held
<1>4. ASSUME NEW m \in Msgs, TakeNext(m) PROVE OneClaim' /\ (Held => Held')
  <2>1. openRun' /\ pc' = [pc EXCEPT ![m] = "persist"]
    BY <1>4 DEF TakeNext, Carry, Go, FirstStep
  <2>2. LoneTask'
    BY <1>0, <1>1, <2>1 DEF AtDrain, NoTask, LoneTask, Holds, Carrying
  <2>3. AtTask'
    BY <1>0, <1>1, <1>2, <2>1, <2>2 DEF AtDrain, AtTask
  <2>4. Held => \A n \in Msgs : pc'[n] # "gate"
    BY <1>0, <1>1, <2>1
  <2> QED
    BY <2>3, <2>4, ApartAfter DEF OneClaim, Held
<1> QED
  BY <1>3, <1>4 DEF Drain

\* Every step but an exit keeps one claim, and never rejects a message.
LEMMA ClaimStep ==
    ASSUME Good, [Steady]_vars
    PROVE  OneClaim' /\ (~GateRace /\ Held => Held') /\ rejected' = rejected
<1>0. pid' \in Pids
  BY TypedStep DEF Good, Next, Typed, TypeOK, TypeRunner
<1>1. CASE UNCHANGED vars \/ OpenSession
  <2>1. UNCHANGED <<openRun, pc, stdin, run, signals, events, rejected>>
    BY <1>1 DEF vars, OpenSession, gate, tasks, bridge, given
  <2>2. \A m \in Msgs : Holds(m)' <=> Holds(m)
    BY <2>1 DEF Holds
  <2>3. /\ None(events[pid], End) => None(events'[pid'], End)
        /\ Lone(events[pid], End) => Lone(events'[pid'], End)
    BY <1>0, <1>1, <2>1, Spawned DEF vars, proc, OpenSession
  <2> QED
    BY <2>1, <2>2, <2>3, Unmoved
<1>2. ASSUME NEW h \in handing, WriteInterject(h)
      PROVE  OneClaim' /\ (Held => Held') /\ rejected' = rejected
  <2>1. UNCHANGED <<openRun, pc, run, signals, events, pid, rejected>>
    BY <1>2 DEF WriteInterject, gate, tasks, bridge, proc, given
  <2>2. \A m \in Msgs : Holds(m)' <=> Holds(m)
    BY <2>1 DEF Holds
  <2>3. h.ids \in SUBSET Msgs /\ stdin \in Seq(Commands)
    BY DEF Good, Typed, TypeOK, TypeTasks, TypeChannels, Handing
  <2>4. /\ Command("interject", NoMsg, h.ids) \in Commands
        /\ Command("interject", NoMsg, h.ids).kind \notin Message
    BY <2>3, MadeCommand DEF Command, Message
  <2>5. /\ None(stdin, Message) => None(stdin', Message)
        /\ Lone(stdin, Message) => Lone(stdin', Message)
    BY <1>2, <2>3, <2>4, Pushed DEF WriteInterject
  <2> QED
    BY <2>1, <2>2, <2>5, Unmoved
<1>3. CASE Send \/ UserActs \/ Drain
  <2>1. rejected' = rejected
    BY <1>3 DEF Send, SendText, SendJump, WakeLook, TryReserve, UserActs, Remove, Jump, Stop,
       AbortWrite, AbortMark, Drain, given
  <2> QED
    BY <1>3, <2>1, ClaimSend, ClaimUserActs, ClaimDrain
<1>4. ASSUME NEW m \in Msgs, Task(m)
      PROVE  OneClaim' /\ (Held => Held') /\ rejected' = rejected
  <2>1. rejected' = rejected
    BY <1>4 DEF Task, Check, Decide, Ensure, Persist, Write, OpenGate, HandOver, Release,
       TaskRest, given
  <2> QED
    BY <1>0, <1>4, <2>1, ClaimTask
<1>5. ASSUME NEW p \in Pids, Watch(p)
      PROVE  OneClaim' /\ (~GateRace /\ Held => Held') /\ rejected' = rejected
  BY <1>5, ClaimWatch DEF Watch, given
<1> QED
  BY <1>1, <1>2, <1>3, <1>4, <1>5, ClaimBridge DEF Steady

\* The invariant, and that it holds while no runner exits.
Running == IInv /\ Spoken /\ Living /\ OneClaim /\ rejected = {}

\* The claim is invariant.
THEOREM RunningHolds == SteadySpec => []Running
<1>1. Init => Living /\ OneClaim /\ rejected = {}
  BY LivingInit, ClaimInit DEF OneClaim, Init
<1>2. Running /\ [Steady]_vars => (Living /\ OneClaim /\ rejected = {})'
  BY LivingStep, ClaimStep DEF Running, Good, IInv
<1>3. [Steady]_vars => [Next]_vars
  BY DEF Next
<1>4. Init /\ [][Steady]_vars => Spec
  BY <1>3, PTL DEF Spec
<1> QED
  BY <1>1, <1>2, <1>4, SpokenHolds, PTL DEF Running, SteadySpec

(* The run gate is a mutual exclusion while no runner exits: however     *)
(* sends, wakes, jumps, stops, the drain task and the runner interleave  *)
(* (queue.rs, session_send.rs), at most one task is between its          *)
(* reservation and its write, and the bridge is never given a message in *)
(* the middle of a run. With exits it is false (LateClose.cfg).          *)
THEOREM OneRunHolds == SteadySpec => []OneRun
<1>1. Running => OneRun
  <2> SUFFICES ASSUME Running PROVE OneRun
    OBVIOUS
  <2>1. \A m, n \in Msgs : Holds(m) /\ Holds(n) => m = n
    BY WhoClaims DEF Running, IInv
  <2> QED
    BY <2>1 DEF OneRun, Holds, Running
<1> QED
  BY <1>1, RunningHolds, PTL

-----------------------------------------------------------------------------
(* What a run read is not sent again.                                    *)

Delivered == "interject_delivered"

\* A report that a run read m is on its way to the watcher.
InFlight(m) == \E i \in DOMAIN events[pid] :
    events[pid][i].kind = Delivered /\ m \in events[pid][i].ids

\* A message a run read opened one, is over, or waits for the watcher, which
\* takes it out of the queue before it tells of the run's end.
Accounted(m) == m \in opened \/ pc[m] \in {"removed", "over"}
                  \/ (m \in items /\ InFlight(m))

\* After its write a message is on its way to the bridge or has opened a run.
Reaches(m) == m \in opened
                \/ \E i \in DOMAIN stdin : stdin[i].kind \in Message /\ stdin[i].msg = m

\* No message on its way to the bridge has been read by a run.
Unread == \A i \in DOMAIN stdin : stdin[i].kind \in Message /\ stdin[i].msg \in heard
                                     => stdin[i].msg \in opened

\* A run's reports come before the report of its end.
EndsLast == run # NoMsg \/ \A i \in DOMAIN events[pid] : events[pid][i].kind = Delivered =>
    \E j \in DOMAIN events[pid] : j > i /\ events[pid][j].kind \in End

Reading == /\ \A m \in heard : Accounted(m)
           /\ \A m \in Msgs : pc[m] \in {"gate", "hand"} => Reaches(m)
           /\ Unread /\ EndsLast

\* Nothing was read when the session is first used.
LEMMA ReadingInit == Init => Reading
BY PidRange DEF Init, Reading, Unread, EndsLast

\* Who opened a run did; what is over is over.
LEMMA Lasting ==
    ASSUME IInv, [Steady]_vars
    PROVE  /\ opened \subseteq opened'
           /\ \A m \in Msgs : pc[m] \in {"removed", "over"} => pc'[m] = pc[m]
<1>0. pc \in [Msgs -> PcValues] /\ \A m \in items : pc[m] \in {"queued", "jumping"}
  BY DEF IInv, Typed, TypeOK, TypeTasks, TypeQueue, Books, Book, Waits
<1>1. CASE UNCHANGED vars \/ OpenSession \/ Send
  BY <1>0, <1>1 DEF vars, OpenSession, Send, SendText, SendJump, WakeLook, TryReserve,
     OfferDispatch, OfferQueue, Carry, Go, tasks, given
<1>2. CASE UserActs
  BY <1>0, <1>2 DEF UserActs, Remove, Jump, Stop, AbortWrite, AbortMark, Carry, Go, tasks,
     given
<1>3. ASSUME NEW m \in Msgs, Task(m)
      PROVE  /\ opened' = opened /\ pc[m] \notin {"removed", "over"}
             /\ \A n \in Msgs \ {m} : pc'[n] = pc[n]
  BY <1>0, <1>3 DEF Task, TaskRest, Check, Decide, Ensure, Persist, Write, OpenGate,
     HandOver, Release, Go, given
<1>4. ASSUME NEW h \in handing, WriteInterject(h) PROVE opened' = opened /\ pc' = pc
  BY <1>4 DEF WriteInterject, tasks, given
<1>5. CASE Bridge
  BY <1>5 DEF Bridge, BridgeCommand, StartRun, AbortRun, TakeInterject, BridgeStep,
     BridgeFinish, tasks, given
<1>6. ASSUME NEW p \in Pids, Watch(p)
      PROVE  opened' = opened /\ \A m \in Msgs : m \notin items => pc'[m] = pc[m]
  BY <1>6 DEF Watch, WatchAskUser, WatchDelivered, WatchEnd, tasks, given
<1>7. CASE Drain
  BY <1>0, <1>7 DEF Drain, TakeNothing, TakeNext, AtFront, Carry, Go, tasks, given
<1> QED
  BY <1>0, <1>1, <1>2, <1>3, <1>4, <1>5, <1>6, <1>7 DEF Steady

\* What the runner's stdout becomes in a step: nothing of it is lost but to
\* its watcher.
LEMMA Stdout ==
    ASSUME Running, [Steady]_vars
    PROVE  \/ UNCHANGED <<events, pid>> /\ (run # NoMsg => run' # NoMsg)
           \/ events[pid] = <<>> /\ events'[pid'] = <<>>
           \/ /\ pid' = pid /\ run # NoMsg /\ run' # NoMsg /\ BridgeStep
              /\ events'[pid] = events[pid] \o <<Event(Delivered, unread)>>
           \/ /\ pid' = pid /\ run # NoMsg
              /\ \E w \in Seq(Events) : /\ events'[pid] = events[pid] \o w
                                        /\ None(w, {Delivered})
                                        /\ Len(w) > 0 /\ w[Len(w)].kind \in End
           \/ /\ pid' = pid /\ run' = run /\ Watch(pid)
              /\ events[pid] # <<>> /\ events'[pid] = Tail(events[pid])
<1>0. Typed /\ Living /\ pid \in Pids
  BY DEF Running, IInv, Typed, TypeOK, TypeRunner
<1>1. pid' \in Pids
  BY <1>0, TypedStep DEF Next, Typed, TypeOK, TypeRunner
<1>2. CASE SpawnRunner /\ UNCHANGED events
  BY <1>0, <1>1, <1>2 DEF SpawnRunner, Living
<1>3. CASE UNCHANGED vars \/ OpenSession \/ Send \/ UserActs \/ Drain
  BY <1>2, <1>3 DEF vars, OpenSession, Send, SendText, SendJump, WakeLook, TryReserve,
     UserActs, Remove, Jump, Stop, AbortWrite, AbortMark, Drain, proc, bridge
<1>4. ASSUME NEW m \in Msgs, Task(m)
      PROVE  UNCHANGED <<events, run>> /\ (pid' = pid \/ SpawnRunner)
  BY <1>4 DEF Task, TaskRest, Check, Decide, Ensure, Persist, Write, OpenGate, HandOver,
     Release, proc, bridge
<1>5. ASSUME NEW h \in handing, WriteInterject(h) PROVE UNCHANGED <<events, pid, run>>
  BY <1>5 DEF WriteInterject, proc, bridge
<1>6. ASSUME NEW new \in {<<>>, <<Event("ask_user", {})>>}, EndRun(new)
      PROVE  \E w \in Seq(Events) : /\ events'[pid] = events[pid] \o w
                                    /\ None(w, {Delivered})
                                    /\ Len(w) > 0 /\ w[Len(w)].kind \in End
  <2> DEFINE w == Append(new, Event("run_complete", {}))
  <2>1. /\ w \in Seq(Events) /\ None(w, {Delivered}) /\ Len(w) > 0
        /\ w[Len(w)].kind \in End /\ Emit(w)
    BY <1>6, Ending DEF EndRun, End, None, Delivered
  <2> HIDE DEF w
  <2>2. events'[pid] = events[pid] \o w
    BY <1>0, <2>1, Emitted
  <2> QED
    BY <2>1, <2>2
<1>7. CASE BridgeCommand
  <2>1. pid' = pid /\ stdin # <<>> /\ stdin \in Seq(Commands)
    BY <1>0, <1>7 DEF BridgeCommand, proc, Typed, TypeOK, TypeChannels
  <2>2. CASE ~(run # NoMsg /\ EndRun(<<>>))
    <3>1. events' = events /\ (run # NoMsg => run' # NoMsg)
      BY <1>7, <2>2 DEF BridgeCommand, StartRun, AbortRun, TakeInterject, bridge
    <3> QED
      BY <2>1, <3>1
  <2>3. CASE run # NoMsg /\ EndRun(<<>>)
    BY <1>6, <2>1, <2>3
  <2> QED
    BY <2>2, <2>3
<1>8. CASE BridgeStep
  <2>1. <<Event(Delivered, unread)>> \in Seq(Events)
    BY <1>0, MadeEvent DEF Delivered, Typed, TypeOK, TypeRunner
  <2>2. events'[pid] = events[pid] \o <<Event(Delivered, unread)>>
    BY <1>0, <1>8, <2>1, Emitted DEF BridgeStep, Delivered
  <2> QED
    BY <1>8, <2>2 DEF BridgeStep, proc
<1>9. ASSUME NEW ask \in BOOLEAN, BridgeFinish(ask)
      PROVE  pid' = pid /\ run # NoMsg /\ \E new \in {<<>>, <<Event("ask_user", {})>>} : EndRun(new)
  BY <1>9 DEF BridgeFinish, proc
<1>10. ASSUME NEW p \in Pids, Watch(p)
       PROVE  /\ p = pid /\ pid' = pid /\ run' = run
              /\ events[pid] # <<>> /\ events'[pid] = Tail(events[pid])
  BY <1>0, <1>10, OnlyLive DEF Watch, proc, bridge
<1> QED
  BY <1>2, <1>3, <1>4, <1>5, <1>6, <1>7, <1>8, <1>9, <1>10 DEF Steady, Bridge

\* What the runner's stdin becomes in a step; a message that leaves it opens a
\* run, and only a task that writes reaches its gate step.
Popping  == /\ stdin # <<>> /\ stdin' = Tail(stdin)
            /\ opened' = IF Head(stdin).kind \in Message
                         THEN opened \cup {Head(stdin).msg} ELSE opened
Pushing(c) == c \in Commands /\ stdin' = Append(stdin, c) /\ opened' = opened

\* Each step leaves stdin alone, takes its first command, or adds one.
LEMMA Stdin ==
    ASSUME Running, [Steady]_vars
    PROVE  /\ \/ stdin' = stdin /\ opened' = opened
              \/ Popping
              \/ \E c \in Commands : Pushing(c) /\ c.kind \notin Message
              \/ \E c \in Commands : /\ Pushing(c) /\ c.kind \in Message
                                     /\ pc[c.msg] = "write" /\ c.msg \in Msgs
           /\ \A m \in Msgs : pc'[m] \in {"gate", "hand"} =>
                 pc[m] \in {"gate", "hand"}
                   \/ \E c \in Commands : Pushing(c) /\ c.kind \in Message /\ c.msg = m
<1>0. /\ Typed /\ stdin \in Seq(Commands) /\ pc \in [Msgs -> PcValues]
      /\ \A m \in items : pc[m] \in {"queued", "jumping"}
  BY DEF Running, IInv, Typed, TypeOK, TypeChannels, TypeTasks, TypeQueue, Books, Book, Waits
<1>1. CASE UNCHANGED vars \/ OpenSession \/ Send \/ Drain
  <2>1. stdin' = stdin /\ opened' = opened
    BY <1>1 DEF vars, OpenSession, Send, SendText, SendJump, WakeLook, TryReserve, Drain, given
  <2>2. \A m \in Msgs : pc'[m] \in {"gate", "hand"} => pc'[m] = pc[m]
    <3>1. CASE UNCHANGED vars \/ OpenSession
      BY <3>1 DEF vars, OpenSession, tasks
    <3>2. CASE Send
      <4>1. \E m \in Msgs : \E step \in PcValues \ {"gate", "hand"} : Go(m, step)
        BY <3>2 DEF Send, SendText, SendJump, WakeLook, TryReserve, OfferDispatch, OfferQueue,
           Carry, FirstStep, PcValues, Carrying
      <4> QED
        BY <1>0, <4>1 DEF Go
    <3>3. CASE Drain
      BY <1>0, <3>3 DEF Drain, TakeNothing, TakeNext, Carry, Go, FirstStep, tasks
    <3> QED
      BY <1>1, <3>1, <3>2, <3>3
  <2> QED
    BY <2>1, <2>2
<1>2. CASE UserActs
  <2>1. opened' = opened /\ (stdin' = stdin \/ stdin' = Append(stdin, Command("abort", NoMsg, {})))
    BY <1>2 DEF UserActs, Remove, Jump, Stop, AbortWrite, AbortMark, given
  <2>2. /\ Command("abort", NoMsg, {}) \in Commands
        /\ Command("abort", NoMsg, {}).kind \notin Message
    BY MadeCommand DEF Command, Message
  <2>3. \A m \in Msgs : pc'[m] \in {"gate", "hand"} => pc'[m] = pc[m]
    BY <1>0, <1>2 DEF UserActs, Remove, Jump, Stop, AbortWrite, AbortMark, Carry, Go,
       FirstStep, tasks
  <2> QED
    BY <2>1, <2>2, <2>3 DEF Pushing
<1>3. ASSUME NEW m \in Msgs, Task(m)
      PROVE  /\ opened' = opened
             /\ \/ stdin' = stdin /\ (pc'[m] \in {"gate", "hand"} => pc[m] \in {"gate", "hand"})
                \/ \E c \in Commands : /\ Pushing(c) /\ c.kind \in Message
                                       /\ pc[m] = "write" /\ c.msg = m
             /\ \A n \in Msgs \ {m} : pc'[n] = pc[n]
  <2>1. opened' = opened /\ \A n \in Msgs \ {m} : pc'[n] = pc[n]
    BY <1>0, <1>3 DEF Task, TaskRest, Check, Decide, Ensure, Persist, Write, OpenGate,
       HandOver, Release, Go, given
  <2>2. CASE Write(m) /\ pc'[m] = "gate"
    <3> DEFINE c == Command(IF m \in answer THEN "answer" ELSE "user", m, {})
    <3>1. c \in Commands /\ c.kind \in Message /\ c.msg = m
      BY MadeCommand DEF Command, Message
    <3>2. pc[m] = "write" /\ stdin' = Append(stdin, c)
      BY <1>0, <2>2 DEF Write, Go
    <3> QED
      BY <2>1, <3>1, <3>2 DEF Pushing
  <2>3. CASE ~(Write(m) /\ pc'[m] = "gate")
    <3>1. stdin' = stdin /\ (pc'[m] \in {"gate", "hand"} => pc[m] \in {"gate", "hand"})
      BY <1>0, <1>3, <2>3 DEF Task, Check, Decide, Ensure, Persist, Write, OpenGate,
         HandOver, Release, Go, AfterEnsure, AfterPersist
    <3> QED
      BY <2>1, <3>1
  <2> QED
    BY <2>2, <2>3
<1>4. ASSUME NEW h \in handing, WriteInterject(h)
      PROVE  /\ opened' = opened /\ pc' = pc
             /\ stdin' = stdin \/ \E c \in Commands : Pushing(c) /\ c.kind \notin Message
  <2>1. h.ids \in SUBSET Msgs
    BY <1>0 DEF Typed, TypeOK, TypeTasks, Handing
  <2>2. /\ Command("interject", NoMsg, h.ids) \in Commands
        /\ Command("interject", NoMsg, h.ids).kind \notin Message
    BY <2>1, MadeCommand DEF Command, Message
  <2> QED
    BY <1>4, <2>2 DEF WriteInterject, Pushing, tasks, given
<1>5. CASE Bridge
  <2>1. pc' = pc
    BY <1>5 DEF Bridge, BridgeCommand, BridgeStep, BridgeFinish, tasks
  <2>2. CASE BridgeCommand
    <3>1. stdin # <<>> /\ stdin' = Tail(stdin) /\ Head(stdin) \in Commands
      BY <1>0, <2>2 DEF BridgeCommand
    <3>2. CASE Head(stdin).kind \in Message
      <4>1. run = NoMsg /\ StartRun(Head(stdin))
        BY <1>0, <2>2, <3>1, <3>2, WhoClaims
        DEF Running, AtPipe, BridgeCommand, AbortRun, TakeInterject, Message
      <4> QED
        BY <2>1, <3>1, <3>2, <4>1 DEF Popping, StartRun
    <3>3. CASE Head(stdin).kind \notin Message
      <4>1. opened' = opened
        BY <2>2, <3>3 DEF BridgeCommand, StartRun, AbortRun, TakeInterject, Message, given
      <4> QED
        BY <2>1, <3>1, <3>3, <4>1 DEF Popping
    <3> QED
      BY <3>2, <3>3
  <2>3. CASE BridgeStep \/ \E ask \in BOOLEAN : BridgeFinish(ask)
    <3>1. stdin' = stdin /\ opened' = opened
      BY <2>3 DEF BridgeStep, BridgeFinish, given
    <3> QED
      BY <2>1, <3>1
  <2> QED
    BY <1>5, <2>2, <2>3 DEF Bridge
<1>6. ASSUME NEW p \in Pids, Watch(p)
      PROVE  /\ stdin' = stdin /\ opened' = opened
             /\ \A m \in Msgs : pc'[m] \in {"gate", "hand"} => pc'[m] = pc[m]
  BY <1>6 DEF Watch, WatchAskUser, WatchDelivered, WatchEnd, tasks, given
<1> QED
  BY <1>1, <1>2, <1>3, <1>4, <1>5, <1>6 DEF Steady

\* A report on its way stays on its way until its watcher reads it.
LEMMA StillInFlight ==
    ASSUME Running, [Steady]_vars, NEW m, InFlight(m)
    PROVE  \/ InFlight(m)'
           \/ /\ Watch(pid) /\ events[pid] # <<>>
              /\ Head(events[pid]).kind = Delivered /\ m \in Head(events[pid]).ids
<1>0. events[pid] \in Seq(Events)
  BY DEF Running, IInv, Typed, TypeOK, TypeRunner, TypeChannels
<1>1. PICK i \in DOMAIN events[pid] :
        events[pid][i].kind = Delivered /\ m \in events[pid][i].ids
  BY DEF InFlight
<1>2. CASE UNCHANGED <<events, pid>>
  BY <1>1, <1>2 DEF InFlight
<1>3. ASSUME pid' = pid, NEW w \in Seq(Events), events'[pid] = events[pid] \o w
      PROVE  InFlight(m)'
  <2>1. i \in DOMAIN events'[pid] /\ events'[pid][i] = events[pid][i]
    BY <1>0, <1>3
  <2> QED
    BY <1>1, <1>3, <2>1 DEF InFlight
<1>4. CASE pid' = pid /\ Watch(pid) /\ events[pid] # <<>> /\ events'[pid] = Tail(events[pid])
  <2>1. CASE i = 1
    BY <1>1, <1>4, <2>1
  <2>2. CASE i # 1
    <3>1. i - 1 \in DOMAIN events'[pid] /\ events'[pid][i - 1] = events[pid][i]
      BY <1>0, <1>4, <2>2
    <3> QED
      BY <1>1, <1>4, <3>1 DEF InFlight
  <2> QED
    BY <2>1, <2>2
<1>5. events[pid] # <<>>
  BY <1>1
<1>6. <<Event(Delivered, unread)>> \in Seq(Events)
  BY MadeEvent DEF Delivered, Running, IInv, Typed, TypeOK, TypeRunner
<1> QED
  BY <1>2, <1>3, <1>4, <1>5, <1>6, Stdout

\* While such a report is on its way the run goes on or its end is behind it,
\* so neither a jump nor the drain task pops a message.
LEMMA InFlightHolds ==
    ASSUME Running, EndsLast, NEW m, InFlight(m)
    PROVE  openRun /\ signals = <<>>
<1>1. CASE run # NoMsg
  BY <1>1, WhoClaims DEF Running, IInv, AtRun
<1>2. CASE run = NoMsg
  <2>1. ~None(events[pid], End)
    BY <1>2 DEF InFlight, EndsLast, None
  <2> QED
    BY <2>1 DEF Running, OneClaim, AtNobody, AtTask, AtPipe, AtRun, AtStdout, AtDrain
<1> QED
  BY <1>1, <1>2

\* An item whose report is on its way leaves the queue by that report, or
\* because its owner removes it.
LEMMA LeavesRead ==
    ASSUME Running, EndsLast, [Steady]_vars, NEW m \in items, InFlight(m), m \in marked
    PROVE  Accounted(m)'
<1>0. /\ openRun /\ signals = <<>> /\ items \subseteq Msgs /\ pc \in [Msgs -> PcValues]
      /\ Typed /\ Living /\ m \in Msgs
  BY InFlightHolds DEF Running, IInv, Typed, TypeOK, TypeQueue, TypeTasks
<1>1. ASSUME ~Watch(pid), m \in items' PROVE Accounted(m)'
  BY <1>1, StillInFlight DEF Accounted
<1>2. ASSUME NEW n \in Msgs, Remove(n) PROVE m \in items' \/ pc'[m] = "removed"
  BY <1>0, <1>2 DEF Remove, Drop, Go
<1>3. CASE Watch(pid)
  <2> DEFINE e == Head(events[pid])
             read == items \cap marked \cap e.ids
  <2>1. CASE WatchDelivered(e)
    <3>1. items' = items \ read /\ \A n \in read : pc'[n] = "over"
      BY <1>0, <2>1 DEF WatchDelivered, Drop
    <3>2. CASE m \in read
      BY <3>1, <3>2 DEF Accounted
    <3>3. CASE m \notin read
      BY <3>1, <3>3, StillInFlight DEF Accounted
    <3> QED
      BY <3>2, <3>3
  <2>2. CASE WatchAskUser(e) \/ WatchEnd(e)
    <3>1. items' = items /\ e.kind # Delivered
      BY <2>2 DEF WatchAskUser, WatchEnd, queue, Delivered
    <3> QED
      BY <3>1, StillInFlight DEF Accounted
  <2> QED
    BY <1>3, <2>1, <2>2 DEF Watch
<1>4. CASE ~Watch(pid)
  <2>1. CASE UNCHANGED vars \/ OpenSession \/ Send
    <3>1. m \in items'
      BY <2>1 DEF vars, queue, OpenSession, Send, SendText, SendJump, WakeLook, TryReserve,
         OfferDispatch, OfferQueue, PushBack
    <3> QED
      BY <1>1, <1>4, <3>1
  <2>2. CASE UserActs
    <3>1. m \in items' \/ pc'[m] = "removed"
      BY <1>0, <1>2, <2>2 DEF UserActs, Jump, PushFront, Stop, AbortWrite, AbortMark, queue
    <3> QED
      BY <1>1, <1>4, <3>1 DEF Accounted
  <2>3. ASSUME NEW n \in Msgs, Task(n) PROVE m \in items'
    BY <2>3 DEF Task, TaskRest, Check, Decide, Ensure, Persist, Write, OpenGate, HandOver,
       Release, PushFront, queue
  <2>4. ASSUME NEW h \in handing, WriteInterject(h) PROVE m \in items'
    BY <2>4 DEF WriteInterject, queue
  <2>5. CASE Bridge
    BY <1>1, <1>4, <2>5 DEF Bridge, BridgeCommand, BridgeStep, BridgeFinish, queue
  <2>6. ~Drain
    BY <1>0 DEF Drain
  <2>7. \A p \in Pids : ~Watch(p)
    BY <1>0, <1>4, OnlyLive
  <2> QED
    BY <1>1, <1>4, <2>1, <2>2, <2>3, <2>4, <2>5, <2>6, <2>7 DEF Steady
<1> QED
  BY <1>3, <1>4

\* A run's reports stay before the report of its end.
LEMMA EndsLastStep ==
    ASSUME Running, EndsLast, [Steady]_vars
    PROVE  EndsLast'
<1>0. events[pid] \in Seq(Events)
  BY DEF Running, IInv, Typed, TypeOK, TypeRunner, TypeChannels
<1>1. CASE UNCHANGED <<events, pid>> /\ (run # NoMsg => run' # NoMsg)
  BY <1>1 DEF EndsLast
<1>2. CASE events'[pid'] = <<>>
  BY <1>2 DEF EndsLast
<1>3. CASE run' # NoMsg
  BY <1>3 DEF EndsLast
<1>4. ASSUME pid' = pid, NEW w \in Seq(Events), events'[pid] = events[pid] \o w,
             None(w, {Delivered}), Len(w) > 0, w[Len(w)].kind \in End
      PROVE  EndsLast'
  <2> DEFINE s == events[pid]
             j == Len(s) + Len(w)
  <2>1. /\ Len(s) \in Nat /\ Len(w) \in Nat /\ DOMAIN s = 1 .. Len(s)
        /\ DOMAIN events'[pid] = 1 .. j /\ events'[pid][j] = w[Len(w)]
        /\ \A i \in DOMAIN events'[pid] :
             i \notin DOMAIN s => i - Len(s) \in DOMAIN w /\ events'[pid][i] = w[i - Len(s)]
    BY <1>0, <1>4
  <2>2. j \in DOMAIN events'[pid] /\ events'[pid][j].kind \in End
    BY <1>4, <2>1
  <2>3. \A i \in DOMAIN events'[pid] : events'[pid][i].kind = Delivered => i < j
    BY <1>4, <2>1 DEF None
  <2> QED
    BY <1>4, <2>2, <2>3 DEF EndsLast
<1>5. CASE /\ pid' = pid /\ run' = run
           /\ events[pid] # <<>> /\ events'[pid] = Tail(events[pid])
  <2> SUFFICES ASSUME run = NoMsg, NEW i \in DOMAIN events'[pid],
                      events'[pid][i].kind = Delivered
               PROVE  \E j \in DOMAIN events'[pid] : j > i /\ events'[pid][j].kind \in End
    BY <1>5 DEF EndsLast
  <2>1. i + 1 \in DOMAIN events[pid] /\ events[pid][i + 1].kind = Delivered /\ i \in Nat
    BY <1>0, <1>5
  <2>2. PICK j \in DOMAIN events[pid] : j > i + 1 /\ events[pid][j].kind \in End
    BY <2>1 DEF EndsLast
  <2>3. j - 1 \in DOMAIN events'[pid] /\ events'[pid][j - 1] = events[pid][j] /\ j - 1 > i
    BY <1>0, <1>5, <2>1, <2>2
  <2> QED
    BY <2>2, <2>3
<1> QED
  BY <1>1, <1>2, <1>3, <1>4, <1>5, Stdout

\* A message past its write stays on its way, or opens a run.
LEMMA ReachesStep ==
    ASSUME Running, [Steady]_vars, NEW m \in Msgs,
           pc[m] \in {"gate", "hand"} => Reaches(m), pc'[m] \in {"gate", "hand"}
    PROVE  Reaches(m)'
<1>0. stdin \in Seq(Commands)
  BY DEF Running, IInv, Typed, TypeOK, TypeChannels
<1>1. ASSUME NEW c \in Commands, Pushing(c), c.kind \in Message, c.msg = m
      PROVE  Reaches(m)'
  <2>1. Len(stdin) + 1 \in DOMAIN stdin' /\ stdin'[Len(stdin) + 1] = c
    BY <1>0, <1>1 DEF Pushing
  <2> QED
    BY <1>1, <2>1 DEF Reaches
<1>2. ASSUME Reaches(m), NEW c \in Commands, Pushing(c) PROVE Reaches(m)'
  <2>1. \A i \in DOMAIN stdin : i \in DOMAIN stdin' /\ stdin'[i] = stdin[i]
    BY <1>0, <1>2 DEF Pushing
  <2> QED
    BY <1>2, <2>1 DEF Reaches, Pushing
<1>3. ASSUME Reaches(m), Popping PROVE Reaches(m)'
  <2>1. CASE m \in opened
    BY <1>3, <2>1 DEF Reaches, Popping
  <2>2. ASSUME NEW i \in DOMAIN stdin, stdin[i].kind \in Message, stdin[i].msg = m
        PROVE  Reaches(m)'
    <3>1. CASE i = 1
      <4>1. Head(stdin) = stdin[1]
        BY <1>0, <1>3 DEF Popping
      <4> QED
        BY <1>3, <2>2, <3>1, <4>1 DEF Reaches, Popping
    <3>2. CASE i # 1
      <4>1. i - 1 \in DOMAIN stdin' /\ stdin'[i - 1] = stdin[i]
        BY <1>0, <1>3, <3>2 DEF Popping
      <4> QED
        BY <2>2, <4>1 DEF Reaches
    <3> QED
      BY <3>1, <3>2
  <2> QED
    BY <1>3, <2>1, <2>2 DEF Reaches
<1>4. ASSUME Reaches(m), stdin' = stdin, opened' = opened PROVE Reaches(m)'
  BY <1>4 DEF Reaches
<1> QED
  BY <1>1, <1>2, <1>3, <1>4, Stdin

\* A run only reads what was spoken, and no message meanwhile on its way.
LEMMA NewlyHeard ==
    ASSUME Running, Reading, [Steady]_vars, NEW m \in heard', m \notin heard
    PROVE  BridgeStep /\ AtRun /\ Accounted(m)'
<1>1. BridgeStep /\ m \in unread /\ heard' = heard \cup unread
  <2>1. CASE UNCHANGED vars \/ Send \/ UserActs \/ OpenSession \/ Drain
    BY <2>1 DEF vars, given, Send, SendText, SendJump, WakeLook, TryReserve, UserActs,
       Remove, Jump, Stop, AbortWrite, AbortMark, OpenSession, Drain
  <2>2. ASSUME NEW n \in Msgs, Task(n) PROVE heard' = heard
    BY <2>2 DEF Task, TaskRest, given, Check, Decide, Ensure, Persist, Write, OpenGate,
       HandOver, Release
  <2>3. ASSUME NEW h \in handing, WriteInterject(h) PROVE heard' = heard
    BY <2>3 DEF WriteInterject, given
  <2>4. ASSUME NEW p \in Pids, Watch(p) PROVE heard' = heard
    BY <2>4 DEF Watch, given
  <2>5. BridgeCommand \/ (\E ask \in BOOLEAN : BridgeFinish(ask)) => heard' = heard
    BY DEF BridgeCommand, BridgeFinish, StartRun, AbortRun, TakeInterject, given
  <2>6. BridgeStep
    BY <2>1, <2>2, <2>3, <2>4, <2>5 DEF Steady, Bridge
  <2> QED
    BY <2>6 DEF BridgeStep
<1>2. AtRun
  BY <1>1, WhoClaims DEF BridgeStep, Running, IInv
<1>3. /\ m \in Msgs /\ m \in marked /\ m \in seen /\ Waits(m) /\ Carried(m)
      /\ pc[m] \in PcValues /\ ~Holds(m)
  BY <1>1, <1>2 DEF Running, IInv, Typed, TypeOK, TypeTasks, TypeRunner, Books, Book, Spoken,
     Said, Marked, AtRun, NoTask
<1>4. pc[m] \in {"gate", "hand"} => m \in opened
  BY <1>2, <1>3 DEF Reading, Reaches, AtRun, None
<1>5. m \in items \/ m \in opened \/ pc[m] \in {"removed", "over"}
  BY <1>3, <1>4 DEF Waits, Carried, Holds, PcValues
<1>6. UNCHANGED <<items, pc, opened, pid>>
  BY <1>1 DEF BridgeStep, queue, tasks, proc
<1>7. InFlight(m)'
  <2> DEFINE ev == Event(Delivered, unread)
             s  == events[pid]
  <2>1. ev \in Events /\ ev.kind = Delivered /\ ev.ids = unread /\ s \in Seq(Events)
    BY MadeEvent DEF Delivered, Event, Running, IInv, Typed, TypeOK, TypeRunner, TypeChannels
  <2>2. events'[pid] = s \o <<ev>>
    <3>1. <<ev>> \in Seq(Events)
      BY <2>1
    <3>2. Emit(<<ev>>) /\ Typed
      BY <1>1 DEF BridgeStep, Delivered, Running, IInv
    <3> QED
      BY <3>1, <3>2, Emitted
  <2> HIDE DEF ev, s
  <2>3. Len(s) + 1 \in DOMAIN events'[pid] /\ events'[pid][Len(s) + 1] = ev
    BY <2>1, <2>2
  <2> QED
    BY <1>1, <1>6, <2>1, <2>3 DEF InFlight
<1> QED
  BY <1>1, <1>2, <1>5, <1>6, <1>7 DEF Accounted

\* Every step but an exit keeps account of what was read.
LEMMA ReadingStep == Running /\ Reading /\ [Steady]_vars => Reading'
<1> SUFFICES ASSUME Running, Reading, [Steady]_vars PROVE Reading'
  OBVIOUS
<1>0. /\ stdin \in Seq(Commands) /\ heard \subseteq Msgs /\ heard \subseteq marked
      /\ IInv /\ EndsLast
  BY DEF Running, IInv, Typed, TypeOK, TypeChannels, TypeHistory, Spoken, Said, Reading
<1>1. ASSUME NEW m \in heard' PROVE Accounted(m)'
  <2>1. CASE m \notin heard
    BY <2>1, NewlyHeard
  <2>2. CASE m \in heard
    <3>1. Accounted(m) /\ m \in Msgs /\ m \in marked
      BY <1>0, <2>2 DEF Reading
    <3>2. CASE m \in opened \/ pc[m] \in {"removed", "over"}
      BY <1>0, <3>1, <3>2, Lasting DEF Accounted
    <3>3. CASE m \in items /\ InFlight(m)
      BY <1>0, <3>1, <3>3, LeavesRead
    <3> QED
      BY <3>1, <3>2, <3>3 DEF Accounted
  <2> QED
    BY <2>1, <2>2
<1>2. \A m \in Msgs : pc'[m] \in {"gate", "hand"} => Reaches(m)'
  BY ReachesStep DEF Reading
<1>3. Unread'
  <2> SUFFICES ASSUME NEW i \in DOMAIN stdin', stdin'[i].kind \in Message,
                      stdin'[i].msg \in heard'
               PROVE  stdin'[i].msg \in opened'
    BY DEF Unread
  <2>0. opened \subseteq opened'
    BY <1>0, Lasting
  <2>1. ASSUME NEW k \in DOMAIN stdin, stdin'[i] = stdin[k]
        PROVE  stdin'[i].msg \in opened'
    <3>1. CASE stdin[k].msg \in heard
      BY <2>0, <2>1, <3>1 DEF Reading, Unread
    <3>2. CASE stdin[k].msg \notin heard
      BY <2>1, <3>2, NewlyHeard DEF AtRun, None
    <3> QED
      BY <3>1, <3>2
  <2>2. CASE stdin' = stdin
    BY <2>1, <2>2
  <2>3. CASE Popping
    <3>1. i + 1 \in DOMAIN stdin /\ stdin'[i] = stdin[i + 1]
      BY <1>0, <2>3 DEF Popping
    <3> QED
      BY <2>1, <3>1
  <2>4. ASSUME NEW c \in Commands, Pushing(c)
        PROVE  (i \in DOMAIN stdin /\ stdin'[i] = stdin[i]) \/ stdin'[i] = c
    BY <1>0, <2>4 DEF Pushing
  <2>5. ASSUME NEW c \in Commands, Pushing(c), stdin'[i] = c, c.kind \in Message,
               pc[c.msg] = "write", c.msg \in Msgs
        PROVE  stdin'[i].msg \in opened'
    \* A message about to be written waits for no report, and no run goes on.
    <3>1. Waits(c.msg) /\ Holds(c.msg) /\ AtTask
      BY <1>0, <2>5, WhoClaims DEF IInv, Books, Book, Holds, Carrying, Running
    <3>2. c.msg \notin items
      BY <2>5, <3>1 DEF Waits
    <3>3. c.msg \in heard
      BY <2>5, <3>1, NewlyHeard DEF AtTask, AtRun
    <3> QED
      BY <2>0, <2>5, <3>2, <3>3 DEF Reading, Accounted
  <2> QED
    BY <2>1, <2>2, <2>3, <2>4, <2>5, Stdin
<1>4. EndsLast'
  BY <1>0, EndsLastStep
<1> QED
  BY <1>1, <1>2, <1>3, <1>4 DEF Reading

(* An interjection a run reported as read is not sent again as a message *)
(* of its own: the watcher takes it out of the queue before the drain task*)
(* hears of the run's end, and neither a jump nor a re-queued pop gets in*)
(* between (manager.rs, message_queue.rs). While no runner exits.        *)
THEOREM NoResendHolds == SteadySpec => NoResend
<1>1. Running /\ Reading /\ [Steady]_vars
        => [ \A m \in heard : m \notin opened => m \notin opened' ]_vars
  <2> SUFFICES ASSUME Running, Reading, [Steady]_vars, NEW m \in heard, m \notin opened,
                      m \in opened'
               PROVE  FALSE
    BY DEF vars, given
  <2>1. Popping /\ Head(stdin).kind \in Message /\ m = Head(stdin).msg
    BY Stdin DEF Popping, Pushing
  <2>2. 1 \in DOMAIN stdin /\ Head(stdin) = stdin[1]
    BY <2>1 DEF Popping, Running, IInv, Typed, TypeOK, TypeChannels
  <2> QED
    BY <2>1, <2>2 DEF Reading, Unread
<1>2. Init => Reading
  BY ReadingInit
<1> QED
  BY <1>1, <1>2, ReadingStep, RunningHolds, PTL DEF SteadySpec, NoResend

-----------------------------------------------------------------------------
(* Questions and answers, while no run reports its end before its sender *)
(* has reopened the gate.                                                *)

\* A sender has written and not reopened the gate yet.
Gating == \E m \in Msgs : pc[m] = "gate"

\* A question that is pending was asked, and no message is on its way.
Awaited == askPending /\ ~Gating => question /\ None(stdin, Message) /\ run = NoMsg

\* Who is to answer one was told of one.
Answering == \A m \in answer :
    pc[m] \notin {"new", "looked"} /\ (pc[m] \in Carrying => question)

\* A reported question is the last thing its run says.
Asking == \A i \in DOMAIN events[pid] : events[pid][i].kind = "ask_user" =>
    question /\ \E j \in DOMAIN events[pid] : j > i /\ events[pid][j].kind \in End

Asked == Awaited /\ Answering /\ Asking /\ AnswersAsked

\* Nobody asked when the session is first used.
LEMMA AskedInit == Init => Asked /\ Held
BY PidRange DEF Init, Asked, Awaited, Answering, Asking, AnswersAsked, Held

\* No question is reported while a run goes on, or a message may start one.
LEMMA NoneAsking ==
    ASSUME OneClaim, Asking, ~AtStdout
    PROVE  \A i \in DOMAIN events[pid] : events[pid][i].kind # "ask_user"
<1>1. None(events[pid], End)
  BY DEF OneClaim, AtNobody, AtTask, AtPipe, AtRun, AtDrain
<1> QED
  BY <1>1 DEF Asking, None

\* A step that asks, answers and starts nothing keeps questions and answers.
LEMMA AskedKept ==
    ASSUME Asked, question' = question, run = NoMsg => run' = NoMsg,
           askPending' => askPending, answer' \subseteq answer,
           \A m \in Msgs : pc[m] = "gate" /\ askPending' => pc'[m] = "gate",
           \A m \in answer' : /\ pc'[m] \in Carrying => pc[m] \in Carrying
                              /\ pc'[m] \in {"new", "looked"} => pc[m] \in {"new", "looked"},
           None(stdin, Message) => None(stdin', Message),
           \A i \in DOMAIN stdin' : stdin'[i].kind = "answer" =>
               \E j \in DOMAIN stdin : stdin[j].kind = "answer",
           events'[pid'] = events[pid] \/ events'[pid'] = <<>>
    PROVE  Asked'
<1>1. Awaited'
  BY DEF Asked, Awaited, Gating
<1>2. Answering'
  BY DEF Asked, Answering
<1>3. Asking'
  BY DEF Asked, Asking
<1>4. AnswersAsked'
  BY DEF Asked, AnswersAsked
<1> QED
  BY <1>1, <1>2, <1>3, <1>4 DEF Asked

\* Appending to stdin what is no message, or taking the first entry off it,
\* brings no answer and no message.
LEMMA NothingNew ==
    ASSUME Typed, \/ stdin' = stdin
                  \/ stdin # <<>> /\ stdin' = Tail(stdin)
                  \/ \E c \in Commands : stdin' = Append(stdin, c) /\ c.kind \notin Message
    PROVE  /\ None(stdin, Message) => None(stdin', Message)
           /\ \A i \in DOMAIN stdin' : stdin'[i].kind = "answer" =>
                 \E j \in DOMAIN stdin : stdin[j].kind = "answer"
<1>0. stdin \in Seq(Commands)
  BY DEF Typed, TypeOK, TypeChannels
<1>1. CASE stdin' = stdin
  BY <1>1
<1>2. CASE stdin # <<>> /\ stdin' = Tail(stdin)
  <2>1. \A i \in DOMAIN stdin' : i + 1 \in DOMAIN stdin /\ stdin'[i] = stdin[i + 1]
    BY <1>0, <1>2
  <2> QED
    BY <2>1 DEF None
<1>3. ASSUME NEW c \in Commands, stdin' = Append(stdin, c), c.kind \notin Message
      PROVE  /\ None(stdin, Message) => None(stdin', Message)
             /\ \A i \in DOMAIN stdin' : stdin'[i].kind = "answer" =>
                   \E j \in DOMAIN stdin : stdin[j].kind = "answer"
  <2>1. \A i \in DOMAIN stdin' : (i \in DOMAIN stdin /\ stdin'[i] = stdin[i]) \/ stdin'[i] = c
    BY <1>0, <1>3
  <2> QED
    BY <1>3, <2>1 DEF None, Message
<1> QED
  BY <1>1, <1>2, <1>3

\* Sending, jumping, removing and stopping ask and answer nothing.
LEMMA AskedActs ==
    ASSUME Running, Asked, Send \/ UserActs \/ OpenSession \/ UNCHANGED vars, [Steady]_vars
    PROVE  Asked'
<1>0. /\ Typed /\ Living /\ pc \in [Msgs -> PcValues] /\ answer \subseteq Msgs
      /\ \A m \in items : pc[m] \in {"queued", "jumping"}
  BY DEF Running, IInv, Typed, TypeOK, TypeTasks, TypeQueue, Books, Book, Waits
<1>1. UNCHANGED <<question, run, askPending, events>>
  BY DEF Send, SendText, SendJump, WakeLook, TryReserve, OfferDispatch, OfferQueue, UserActs,
     Remove, Jump, Stop, AbortWrite, AbortMark, OpenSession, vars, gate, bridge
<1>2. /\ stdin' = stdin \/ stdin' = Append(stdin, Command("abort", NoMsg, {}))
      /\ answer' \subseteq answer
      /\ \A m \in Msgs : pc[m] = "gate" => pc'[m] = "gate"
      /\ \A m \in answer' : /\ pc'[m] \in Carrying => pc[m] \in Carrying \cup {"new", "looked"}
                            /\ pc'[m] \in {"new", "looked"} => pc[m] \in {"new", "looked"}
  <2>1. CASE OpenSession \/ UNCHANGED vars
    BY <2>1 DEF OpenSession, vars, tasks
  <2>2. ASSUME Send
        PROVE  /\ stdin' = stdin /\ answer' = answer
               /\ \E m \in Msgs : \E step \in PcValues \ {"new"} :
                    pc' = [pc EXCEPT ![m] = step] /\ pc[m] \in {"new", "looked"}
    BY <2>2 DEF Send, SendText, SendJump, WakeLook, TryReserve, OfferDispatch, OfferQueue,
       Carry, Go, FirstStep, PcValues, Carrying
  <2>3. CASE Send
    BY <1>0, <2>2, <2>3
  <2>4. CASE UserActs
    <3>1. ASSUME NEW m \in Msgs, Remove(m)
          PROVE  stdin' = stdin /\ answer' = answer /\ m \in items /\ pc' = [pc EXCEPT ![m] = "removed"]
      BY <3>1 DEF Remove, Go
    <3>2. ASSUME NEW m \in Msgs, NEW w \in {"jump", "socket"}, Jump(m, w)
          PROVE  /\ stdin' = stdin /\ m \in items
                 /\ \/ answer' = answer /\ \E step \in {"queued", pc[m]} : pc' = [pc EXCEPT ![m] = step]
                    \/ answer' = answer \ {m} /\ pc' = [pc EXCEPT ![m] = FirstStep(w)]
      BY <3>2 DEF Jump, Carry, Go
    <3>3. ASSUME NEW a \in Stops, Stop(a) \/ AbortWrite(a) \/ AbortMark(a)
          PROVE  /\ stdin' = stdin \/ stdin' = Append(stdin, Command("abort", NoMsg, {}))
                 /\ UNCHANGED <<pc, answer>>
      BY <3>3 DEF Stop, AbortWrite, AbortMark, tasks
    <3> QED
      BY <1>0, <2>4, <3>1, <3>2, <3>3 DEF UserActs, Carrying
  <2> QED
    BY <2>1, <2>3, <2>4
<1>3. /\ None(stdin, Message) => None(stdin', Message)
      /\ \A i \in DOMAIN stdin' : stdin'[i].kind = "answer" =>
            \E j \in DOMAIN stdin : stdin[j].kind = "answer"
  <2>1. /\ Command("abort", NoMsg, {}) \in Commands
        /\ Command("abort", NoMsg, {}).kind \notin Message
    BY MadeCommand DEF Command, Message
  <2> QED
    BY <1>0, <1>2, <2>1, NothingNew
<1>4. events'[pid'] = events[pid] \/ events'[pid'] = <<>>
  BY <1>1, Stdout DEF Watch
<1>5. \A m \in answer' : pc[m] \notin {"new", "looked"}
  BY <1>2 DEF Asked, Answering
<1> QED
  BY <1>1, <1>2, <1>3, <1>4, <1>5, AskedKept

\* A task that has the claim knows of a pending question from the run that
\* asked it, and its answer is written while the question stands.
LEMMA AskedTask ==
    ASSUME Running, Asked, Held, NEW m \in Msgs, Task(m), [Steady]_vars
    PROVE  Asked'
<1>0. /\ Typed /\ Living /\ pc \in [Msgs -> PcValues] /\ answer \subseteq Msgs
      /\ stdin \in Seq(Commands) /\ OneClaim
      /\ UNCHANGED <<question, run, events>>
  BY DEF Running, IInv, Typed, TypeOK, TypeTasks, TypeChannels, Task, TaskRest, Check, Decide,
     Ensure, Persist, Write, OpenGate, HandOver, Release, bridge
<1>1. \A n \in Msgs \ {m} : pc'[n] = pc[n]
  BY <1>0 DEF Task, Go, Check, Decide, Ensure, Persist, Write, OpenGate, HandOver, Release
<1>2. events'[pid'] = events[pid] \/ events'[pid'] = <<>>
  BY <1>0, Stdout DEF Watch, BridgeStep, Living
\* With the claim at a task a pending question was asked.
<1>3. Holds(m) => (askPending => question) /\ None(stdin, Message)
  <2>1. AtTask => ~Gating
    BY Apart DEF Held, Gating
  <2> QED
    BY <1>0, <2>1, WhoClaims DEF Asked, Awaited, AtTask
\* A step that is not the write.
<1>4. ASSUME stdin' = stdin, askPending' => askPending,
             pc[m] = "gate" /\ askPending' => pc'[m] = "gate",
             pc'[m] \notin {"new", "looked"},
             answer' \subseteq answer \/ (answer' = answer \cup {m} /\ question),
             pc'[m] \in Carrying => pc[m] \in Carrying
      PROVE  Asked'
  <2>1. Awaited'
    BY <1>0, <1>1, <1>4 DEF Asked, Awaited, Gating
  <2>2. Answering'
    BY <1>0, <1>1, <1>4 DEF Asked, Answering
  <2>3. Asking'
    BY <1>0, <1>2 DEF Asked, Asking
  <2>4. AnswersAsked'
    BY <1>0, <1>4 DEF Asked, AnswersAsked
  <2> QED
    BY <2>1, <2>2, <2>3, <2>4 DEF Asked
<1>5. CASE Decide(m)
  BY <1>0, <1>3, <1>4, <1>5 DEF Decide, Go, gate, Holds, Carrying
<1>6. CASE Check(m) \/ Ensure(m) \/ HandOver(m) \/ Release(m)
  <2>1. /\ stdin' = stdin /\ askPending' = askPending /\ answer' = answer /\ pc[m] # "gate"
        /\ pc'[m] \notin {"new", "looked"} /\ (pc'[m] \in Carrying => pc[m] \in Carrying)
    BY <1>0, <1>6 DEF Check, Ensure, HandOver, Release, AfterEnsure, Go, gate, Carrying
  <2> QED
    BY <1>4, <2>1
<1>7. CASE Persist(m)
  <2>1. /\ stdin' = stdin /\ askPending' = askPending /\ answer' = answer /\ pc[m] # "gate"
        /\ pc'[m] \notin {"new", "looked"} /\ (pc'[m] \in Carrying => pc[m] \in Carrying)
    BY <1>0, <1>7 DEF Persist, AfterPersist, Go, gate, Carrying
  <2> QED
    BY <1>4, <2>1
<1>8. CASE OpenGate(m)
  <2>1. /\ stdin' = stdin /\ ~askPending' /\ answer' = answer
        /\ pc'[m] \in {"over", "hand"}
    BY <1>0, <1>8 DEF OpenGate, Go
  <2> QED
    BY <1>4, <2>1 DEF Carrying
<1>9. CASE Write(m)
  <2> DEFINE c == Command(IF m \in answer THEN "answer" ELSE "user", m, {})
  <2>1. pc[m] = "write" /\ UNCHANGED <<askPending, answer>>
    BY <1>9 DEF Write, gate
  <2>2. CASE stdin' = stdin /\ Go(m, "release")
    BY <1>0, <1>4, <2>1, <2>2 DEF Go, Carrying
  <2>3. CASE stdin' = Append(stdin, c) /\ Go(m, "gate")
    <3>1. c \in Commands /\ (c.kind = "answer" => m \in answer)
      BY MadeCommand DEF Command
    <3>2. m \in answer => question
      BY <2>1 DEF Asked, Answering, Carrying
    <3>3. pc'[m] = "gate"
      BY <1>0, <2>3 DEF Go
    <3>4. \A i \in DOMAIN stdin' : (i \in DOMAIN stdin /\ stdin'[i] = stdin[i]) \/ stdin'[i] = c
      BY <1>0, <2>3, <3>1
    <3>5. Awaited'
      BY <3>3 DEF Awaited, Gating
    <3>6. Answering'
      BY <1>0, <1>1, <2>1, <3>3 DEF Asked, Answering, Carrying
    <3>7. Asking'
      BY <1>0, <1>2 DEF Asked, Asking
    <3>8. AnswersAsked'
      BY <1>0, <3>1, <3>2, <3>4 DEF Asked, AnswersAsked
    <3> QED
      BY <3>5, <3>6, <3>7, <3>8 DEF Asked
  <2> QED
    BY <1>9, <2>2, <2>3 DEF Write
<1> QED
  BY <1>5, <1>6, <1>7, <1>8, <1>9 DEF Task

\* Commands that say something into a run ask and answer nothing.
LEMMA AskedInterject ==
    ASSUME Running, Asked, NEW h \in handing, WriteInterject(h), [Steady]_vars
    PROVE  Asked'
<1>1. UNCHANGED <<question, run, askPending, answer, pc, events, pid>>
  BY DEF WriteInterject, gate, tasks, bridge, proc
<1>2. Typed /\ h.ids \in SUBSET Msgs
  BY DEF Running, IInv, Typed, TypeOK, TypeTasks, Handing
<1>3. /\ Command("interject", NoMsg, h.ids) \in Commands
      /\ Command("interject", NoMsg, h.ids).kind \notin Message
  BY <1>2, MadeCommand DEF Command, Message
<1>4. /\ None(stdin, Message) => None(stdin', Message)
      /\ \A i \in DOMAIN stdin' : stdin'[i].kind = "answer" =>
            \E j \in DOMAIN stdin : stdin[j].kind = "answer"
  BY <1>2, <1>3, NothingNew DEF WriteInterject
<1> QED
  BY <1>1, <1>4, AskedKept

\* The drain task hands an answer to a question that was asked.
LEMMA AskedDrain ==
    ASSUME Running, Asked, Held, Drain
    PROVE  Asked'
<1>0. /\ Typed /\ pc \in [Msgs -> PcValues] /\ answer \subseteq Msgs /\ OneClaim /\ signals # <<>>
      /\ UNCHANGED <<question, run, events, stdin, pid, askPending>>
  BY DEF Running, IInv, Typed, TypeOK, TypeTasks, Drain, bridge, proc
<1>1. ~Gating /\ (askPending => question)
  <2>1. AtDrain
    BY <1>0, WhoClaims
  <2>2. ~Gating
    BY <2>1, Apart DEF Held, Gating
  <2> QED
    BY <2>2 DEF Asked, Awaited
<1>2. CASE TakeNothing
  BY <1>0, <1>2, AskedKept DEF TakeNothing, tasks
<1>3. ASSUME NEW m \in Msgs, TakeNext(m) PROVE Asked'
  <2>1. /\ pc' = [pc EXCEPT ![m] = "persist"]
        /\ answer' \subseteq answer \cup {m} /\ (m \in answer' => askPending)
    BY <1>3 DEF TakeNext, Carry, Go, FirstStep
  <2>2. Awaited'
    BY <1>0, <1>1 DEF Asked, Awaited
  <2>3. Answering'
    BY <1>0, <1>1, <2>1 DEF Asked, Answering
  <2> QED
    BY <1>0, <2>2, <2>3 DEF Asked, Asking, AnswersAsked
<1> QED
  BY <1>2, <1>3 DEF Drain

\* A run that ends asks at most once, as the last thing it says.
LEMMA AskedEnd ==
    ASSUME Running, Asked, run # NoMsg, NEW new \in {<<>>, <<Event("ask_user", {})>>},
           EndRun(new), new = <<>> \/ question', question' \in BOOLEAN,
           None(stdin, Message) => None(stdin', Message),
           UNCHANGED <<askPending, pc, answer, pid>>
    PROVE  Asked'
<1> DEFINE w == Append(new, Event("run_complete", {}))
<1>0. /\ Typed /\ OneClaim /\ AtRun /\ events[pid] \in Seq(Events) /\ answer \subseteq Msgs
  BY WhoClaims DEF Running, IInv, Typed, TypeOK, TypeTasks, TypeRunner, TypeChannels
<1>1. /\ w \in Seq(Events) /\ Len(w) > 0 /\ w[Len(w)].kind \in End /\ Emit(w)
      /\ w[1].kind = "ask_user" => Len(w) = 2
      /\ Len(w) <= 2
  BY Ending DEF EndRun, End
<1>2. new = <<>> => Len(w) = 1 /\ w[1].kind = "run_complete"
  <2>1. /\ Event("run_complete", {}).kind = "run_complete"
        /\ Event("run_complete", {}) \in Events
    BY MadeEvent DEF Event
  <2> HIDE DEF Event
  <2> QED
    BY <2>1
<1> HIDE DEF w
<1>3. events'[pid] = events[pid] \o w
  BY <1>0, <1>1, Emitted
<1>4. None(stdin', Message) /\ NoTask
  BY <1>0 DEF AtRun
<1>5. Awaited'
  BY DEF Asked, Awaited, Gating
<1>6. Answering'
  BY <1>0, <1>4 DEF Asked, Answering, NoTask, Holds
<1>7. Asking'
  <2> SUFFICES ASSUME NEW i \in DOMAIN events'[pid], events'[pid][i].kind = "ask_user"
               PROVE  question' /\ \E j \in DOMAIN events'[pid] :
                                      j > i /\ events'[pid][j].kind \in End
    BY DEF Asking
  <2>1. \A k \in DOMAIN events[pid] : events[pid][k].kind # "ask_user"
    BY <1>0, Apart, NotBoth, NoneAsking DEF Asked, AtRun, AtStdout
  <2>2. /\ i \in 1 .. Len(events[pid]) + Len(w)
        /\ i <= Len(events[pid]) => events'[pid][i] = events[pid][i]
        /\ i > Len(events[pid]) => events'[pid][i] = w[i - Len(events[pid])]
        /\ DOMAIN events[pid] = 1 .. Len(events[pid])
        /\ Len(events[pid]) + Len(w) \in DOMAIN events'[pid]
        /\ events'[pid][Len(events[pid]) + Len(w)] = w[Len(w)]
    BY <1>0, <1>1, <1>3
  <2>3. i > Len(events[pid]) /\ w[i - Len(events[pid])].kind = "ask_user"
    BY <2>1, <2>2
  <2>4. i - Len(events[pid]) = 1 /\ Len(w) = 2
    BY <1>0, <1>1, <1>2, <2>2, <2>3 DEF End
  <2> QED
    BY <1>0, <1>1, <1>2, <2>2, <2>3, <2>4
<1>8. AnswersAsked'
  BY <1>4 DEF AnswersAsked, None, Message
<1> QED
  BY <1>5, <1>6, <1>7, <1>8 DEF Asked

\* The bridge asks at the end of a run and forgets the question at the start
\* of the next, by when its answer has been given.
LEMMA AskedBridge ==
    ASSUME Running, Asked, Bridge
    PROVE  Asked'
<1>0. /\ Typed /\ OneClaim /\ stdin \in Seq(Commands) /\ events[pid] \in Seq(Events)
      /\ answer \subseteq Msgs /\ UNCHANGED <<askPending, pc, answer, pid>>
  BY DEF Running, IInv, Typed, TypeOK, TypeTasks, TypeRunner, TypeChannels, Bridge, BridgeCommand,
     BridgeStep, BridgeFinish, gate, tasks, proc
<1>1. CASE BridgeCommand
  <2> DEFINE c == Head(stdin)
  <2>0. stdin # <<>> /\ c \in Commands /\ stdin' = Tail(stdin)
    BY <1>0, <1>1 DEF BridgeCommand
  <2>1. /\ None(stdin, Message) => None(stdin', Message)
        /\ \A i \in DOMAIN stdin' : stdin'[i].kind = "answer" =>
              \E j \in DOMAIN stdin : stdin[j].kind = "answer"
    BY <1>0, <2>0, NothingNew
  <2>2. CASE c.kind \in Message
    <3>1. AtPipe
      BY <1>0, <2>0, <2>2, WhoClaims
    <3>2. UNCHANGED events
      BY <1>1, <2>2 DEF BridgeCommand, StartRun, AbortRun, TakeInterject, Message
    <3>3. None(stdin', Message)
      BY <1>0, <2>0, <2>2, <3>1, Popped DEF AtPipe
    <3>4. askPending => Gating
      BY <3>1, NotBoth DEF AtPipe, Asked, Awaited
    <3>5. Awaited'
      BY <1>0, <3>4 DEF Awaited, Gating
    <3>6. Answering'
      BY <1>0, <3>1 DEF Asked, Answering, AtPipe, NoTask, Holds
    <3>7. Asking'
      BY <1>0, <3>1, <3>2, NoneAsking, NotBoth DEF Asked, Asking, AtPipe, AtStdout
    <3>8. AnswersAsked'
      BY <3>3 DEF AnswersAsked, None, Message
    <3> QED
      BY <3>5, <3>6, <3>7, <3>8 DEF Asked
  <2>3. CASE c.kind \notin Message
    <3>1. question' = question
      BY <1>1, <2>3 DEF BridgeCommand, StartRun, AbortRun, TakeInterject, Message, given
    <3>2. CASE run # NoMsg /\ EndRun(<<>>)
      <4>1. question \in BOOLEAN
        BY <1>0 DEF Typed, TypeOK, TypeRunner
      <4> QED
        BY <1>0, <2>1, <3>1, <3>2, <4>1, AskedEnd
    <3>3. CASE UNCHANGED <<run, events>>
      <4>1. /\ UNCHANGED <<run, events, question, askPending, answer, pc, pid>>
            /\ events'[pid'] = events[pid]
        BY <1>0, <3>1, <3>3
      <4> QED
        BY <2>1, <4>1, AskedKept
    <3> QED
      BY <1>1, <2>3, <3>2, <3>3 DEF BridgeCommand, StartRun, AbortRun, TakeInterject, Message
  <2> QED
    BY <2>2, <2>3
<1>2. CASE BridgeStep
  <2>1. /\ UNCHANGED <<question, run, stdin>> /\ run # NoMsg
        /\ Emit(<<Event("interject_delivered", unread)>>)
    BY <1>2 DEF BridgeStep
  <2>2. Event("interject_delivered", unread) \in Events
    BY <1>0, MadeEvent DEF Typed, TypeOK, TypeRunner
  <2>3. <<Event("interject_delivered", unread)>> \in Seq(Events)
    BY <2>2
  <2>4. events'[pid] = events[pid] \o <<Event("interject_delivered", unread)>>
    BY <1>0, <2>1, <2>3, Emitted
  <2>5. Event("interject_delivered", unread).kind # "ask_user"
    BY DEF Event
  <2>6. \A i \in DOMAIN events'[pid] :
          \/ i \in DOMAIN events[pid] /\ events'[pid][i] = events[pid][i]
          \/ events'[pid][i] = Event("interject_delivered", unread)
    BY <1>0, <2>2, <2>4
  <2>7. \A i \in DOMAIN events[pid] : events[pid][i].kind # "ask_user"
    BY <1>0, <2>1, WhoClaims, NotBoth, NoneAsking DEF Asked, AtRun, AtStdout
  <2>8. Asking'
    BY <1>0, <2>5, <2>6, <2>7 DEF Asking
  <2> QED
    BY <1>0, <2>1, <2>8 DEF Asked, Awaited, Gating, Answering, AnswersAsked
<1>3. ASSUME NEW ask \in BOOLEAN, BridgeFinish(ask) PROVE Asked'
  <2>1. /\ run # NoMsg /\ question' = ask /\ stdin' = stdin
        /\ EndRun(IF ask THEN <<Event("ask_user", {})>> ELSE <<>>)
    BY <1>3 DEF BridgeFinish
  <2>2. CASE ask
    BY <1>0, <2>1, <2>2, AskedEnd
  <2>3. CASE ~ask
    BY <1>0, <2>1, <2>3, AskedEnd
  <2> QED
    BY <2>2, <2>3
<1> QED
  BY <1>1, <1>2, <1>3 DEF Bridge

\* The watcher tells of a question that was asked.
LEMMA AskedWatch ==
    ASSUME Running, Asked, NEW p \in Pids, Watch(p)
    PROVE  Asked'
<1> DEFINE e == Head(events[pid])
<1>0. /\ Typed /\ OneClaim /\ events[pid] \in Seq(Events) /\ events[pid] # <<>> /\ p = pid
      /\ events'[pid] = Tail(events[pid]) /\ pc \in [Msgs -> PcValues] /\ answer \subseteq Msgs
      /\ UNCHANGED <<question, run, stdin, pid, answer>>
      /\ WatchAskUser(e) \/ WatchDelivered(e) \/ WatchEnd(e)
  BY OnlyLive DEF Running, IInv, Typed, TypeOK, TypeTasks, Watch, WatchAskUser, WatchDelivered,
     WatchEnd, tasks, bridge, proc
<1>1. \A m \in Msgs : pc'[m] = pc[m] \/ (pc'[m] = "over" /\ pc[m] # "gate")
  <2>1. \A m \in items : pc[m] \in {"queued", "jumping"}
    BY DEF Running, IInv, Typed, TypeOK, TypeQueue, Books, Book, Waits
  <2> QED
    BY <1>0, <2>1 DEF WatchAskUser, WatchDelivered, WatchEnd, tasks
<1>2. Asking'
  <2> SUFFICES ASSUME NEW i \in DOMAIN events'[pid], events'[pid][i].kind = "ask_user"
               PROVE  question /\ \E j \in DOMAIN events'[pid] :
                                      j > i /\ events'[pid][j].kind \in End
    BY <1>0 DEF Asking
  <2>1. i + 1 \in DOMAIN events[pid] /\ events'[pid][i] = events[pid][i + 1]
    BY <1>0
  <2>2. PICK j \in DOMAIN events[pid] : question /\ j > i + 1 /\ events[pid][j].kind \in End
    BY <2>1 DEF Asked, Asking
  <2>3. j - 1 \in DOMAIN events'[pid] /\ events'[pid][j - 1] = events[pid][j] /\ j - 1 > i
    BY <1>0, <2>1, <2>2
  <2> QED
    BY <2>2, <2>3
<1>3. Answering'
  BY <1>0, <1>1 DEF Asked, Answering, Carrying
<1>4. Awaited'
  <2>1. CASE WatchAskUser(e)
    <3>1. 1 \in DOMAIN events[pid] /\ events[pid][1].kind = "ask_user"
      BY <1>0, <2>1 DEF WatchAskUser
    <3>2. question /\ AtStdout
      BY <1>0, <3>1, NoneAsking DEF Asked, Asking
    <3> QED
      BY <1>0, <3>2 DEF Awaited, AtStdout
  <2>2. CASE ~WatchAskUser(e)
    <3>1. askPending' = askPending
      BY <1>0, <2>2 DEF WatchDelivered, WatchEnd, gate
    <3> QED
      BY <1>0, <1>1, <3>1 DEF Asked, Awaited, Gating
  <2> QED
    BY <2>1, <2>2
<1>5. AnswersAsked'
  BY <1>0 DEF Asked, AnswersAsked
<1> QED
  BY <1>2, <1>3, <1>4, <1>5 DEF Asked

\* Every step but an exit keeps questions and answers together.
LEMMA AskedStep ==
    ASSUME Running, Asked, Held, ~GateRace, [Steady]_vars
    PROVE  Asked' /\ Held'
<1>1. Held'
  BY ClaimStep DEF Running, Good, IInv
<1>2. Asked'
  BY AskedActs, AskedTask, AskedInterject, AskedDrain, AskedBridge, AskedWatch DEF Steady
<1> QED
  BY <1>1, <1>2

\* They stay together.
LEMMA AskedHolds == ASSUME ~GateRace PROVE SteadySpec => [](Asked /\ Held)
<1>1. Running /\ Asked /\ Held /\ [Steady]_vars => Asked' /\ Held'
  BY AskedStep
<1> QED
  BY <1>1, AskedInit, RunningHolds, PTL DEF SteadySpec

(* An answer is only ever written to a bridge whose last run asked: what a*)
(* sender or the drain task read of a pending question before its database*)
(* write and its write to the runner (session_send.rs, queue.rs) is still true*)
(* when it writes. While no runner exits, and no run reports its end     *)
(* before its sender has reopened the gate.                              *)
THEOREM AnswersAskedHolds == ASSUME ~GateRace PROVE SteadySpec => []AnswersAsked
<1>1. Asked => AnswersAsked
  BY DEF Asked
<1> QED
  BY <1>1, AskedHolds, PTL

(* The gate is open only while a run is being started, is going, or has  *)
(* ended without the drain task knowing yet (Pending): nobody is left    *)
(* waiting behind a gate that nobody will open. Under the same conditions.*)
THEOREM GateMeansRunHolds == ASSUME ~GateRace PROVE SteadySpec => []GateMeansRun
<1>1. Running /\ Held => GateMeansRun
  <2> SUFFICES ASSUME Running, Held, openRun PROVE Pending
    BY DEF GateMeansRun
  <2>0. pid \in Pids /\ ~AtNobody
    BY DEF Held, Running, IInv, Typed, TypeOK, TypeRunner
  <2>1. CASE AtTask
    BY <2>1 DEF AtTask, LoneTask, Holds, Pending
  <2>2. CASE AtPipe
    BY <2>2 DEF AtPipe, Lone, Message, Pending
  <2>3. CASE AtRun
    BY <2>3 DEF AtRun, Pending
  <2>4. CASE AtStdout
    BY <2>0, <2>4 DEF AtStdout, Lone, End, Pending
  <2>5. CASE AtDrain
    BY <2>5 DEF AtDrain, Pending
  <2> QED
    BY <2>0, <2>1, <2>2, <2>3, <2>4, <2>5 DEF Running, OneClaim
<1> QED
  BY <1>1, AskedHolds, RunningHolds, PTL

-----------------------------------------------------------------------------
(* Nothing waits on an idle session: without wakes, socket sends and     *)
(* failures (Stranded.cfg shows a wake that breaks it).                  *)

\* How the queue moves: a message comes in at the back or at the front, some
\* leave, or nothing changes.
Back(m)  == items' = items \cup {m} /\ ahead' = ahead \cup (items \X {m})
Moves    == \/ UNCHANGED <<items, ahead>>
            \/ \E m \in Msgs : Back(m) \/ PushFront(m) \/ \E S \in SUBSET Msgs : Drop(S)

\* Every step moves the queue in one of these ways.
LEMMA EveryStepMoves ==
    ASSUME Typed, [Steady]_vars
    PROVE  Moves \/ \E S \in SUBSET Msgs : Drop(S)
<1>0. items \subseteq Msgs
  BY DEF Typed, TypeOK, TypeQueue
<1>1. CASE UNCHANGED vars \/ OpenSession
  BY <1>1 DEF vars, queue, OpenSession, Moves
<1>2. CASE Send
  BY <1>2 DEF Send, SendText, SendJump, WakeLook, TryReserve, OfferDispatch, OfferQueue,
     PushBack, queue, Moves, Back
<1>3. CASE UserActs
  BY <1>3 DEF UserActs, Remove, Jump, Stop, AbortWrite, AbortMark, queue, Moves
<1>4. ASSUME NEW m \in Msgs, Task(m) PROVE Moves
  BY <1>4 DEF Task, TaskRest, Check, Decide, Ensure, Persist, Write, OpenGate, HandOver,
     Release, queue, Moves
<1>5. ASSUME NEW h \in handing, WriteInterject(h) PROVE Moves
  BY <1>5 DEF WriteInterject, queue, Moves
<1>6. CASE Bridge
  BY <1>6 DEF Bridge, BridgeCommand, BridgeStep, BridgeFinish, queue, Moves
<1>7. ASSUME NEW p \in Pids, Watch(p) PROVE Moves \/ \E S \in SUBSET Msgs : Drop(S)
  BY <1>0, <1>7 DEF Watch, WatchAskUser, WatchDelivered, WatchEnd, queue, Moves
<1>8. CASE Drain
  BY <1>8 DEF Drain, TakeNothing, TakeNext, Moves
<1> QED
  BY <1>1, <1>2, <1>3, <1>4, <1>5, <1>6, <1>7, <1>8 DEF Steady

\* Among any messages that wait, one is ahead of all the others.
Fronts == \A T \in SUBSET items : T # {} =>
    \E m \in T : \A n \in T \ {m} : <<m, n>> \in ahead

\* However the queue moves, it keeps a front.
LEMMA FrontsStep == Typed /\ Fronts /\ [Steady]_vars => Fronts'
<1> SUFFICES ASSUME Typed, Fronts, [Steady]_vars, NEW T \in SUBSET items', T # {}
             PROVE  \E m \in T : \A n \in T \ {m} : <<m, n>> \in ahead'
  BY DEF Fronts
<1>1. CASE UNCHANGED <<items, ahead>>
  BY <1>1 DEF Fronts
<1>2. ASSUME NEW m \in Msgs, Back(m)
      PROVE  \E f \in T : \A n \in T \ {f} : <<f, n>> \in ahead'
  <2>1. CASE T \ {m} = {}
    BY <2>1
  <2>2. CASE T \ {m} # {}
    <3>1. T \ {m} \in SUBSET items
      BY <1>2 DEF Back
    <3>2. PICK f \in T \ {m} : \A n \in (T \ {m}) \ {f} : <<f, n>> \in ahead
      BY <2>2, <3>1 DEF Fronts
    <3>3. f \in items /\ \A n \in T \ {f} : <<f, n>> \in ahead'
      BY <1>2, <3>1, <3>2 DEF Back
    <3> QED
      BY <3>2, <3>3
  <2> QED
    BY <2>1, <2>2
<1>3. ASSUME NEW m \in Msgs, PushFront(m)
      PROVE  \E f \in T : \A n \in T \ {f} : <<f, n>> \in ahead'
  <2>1. CASE m \in T
    <3>1. \A n \in T \ {m} : <<m, n>> \in ahead'
      BY <1>3 DEF PushFront
    <3> QED
      BY <2>1, <3>1
  <2>2. CASE m \notin T
    <3>1. T \in SUBSET items
      BY <1>3, <2>2 DEF PushFront
    <3>2. PICK f \in T : \A n \in T \ {f} : <<f, n>> \in ahead
      BY <3>1 DEF Fronts
    <3>3. \A n \in T \ {f} : <<f, n>> \in ahead'
      BY <1>3, <2>2, <3>2 DEF PushFront
    <3> QED
      BY <3>2, <3>3
  <2> QED
    BY <2>1, <2>2
<1>4. ASSUME NEW S \in SUBSET Msgs, Drop(S)
      PROVE  \E f \in T : \A n \in T \ {f} : <<f, n>> \in ahead'
  <2>1. T \in SUBSET items /\ T \cap S = {}
    BY <1>4 DEF Drop
  <2>2. PICK f \in T : \A n \in T \ {f} : <<f, n>> \in ahead
    BY <2>1 DEF Fronts
  <2>3. \A n \in T \ {f} : <<f, n>> \in ahead'
    BY <1>4, <2>1, <2>2 DEF Drop
  <2> QED
    BY <2>2, <2>3
<1> QED
  BY <1>1, <1>2, <1>3, <1>4, EveryStepMoves DEF Moves

\* Only the user's own sends, the strip's jump and the drain task carry.
Plain == \A m \in Msgs : /\ who[m] \notin {"socket", "wake"} /\ pc[m] # "jumping"
                         /\ pc[m] \in Carrying => who[m] # "nobody"

\* A task that writes next, or whose message was popped, has a live runner; a
\* task gives up only before a question; an idle session keeps nothing waiting.
Reach == \A m \in Msgs :
    pc[m] = "write" \/ (pc[m] = "persist" /\ who[m] \in {"drain", "jump"}) => alive
Gives == \A m \in Msgs : pc[m] = "release" => askPending
Served == Plain /\ Reach /\ Gives /\ Fronts /\ NeverStrands

\* All is well when the session is first used.
LEMMA ServedInit == Init => Served
BY DEF Init, Served, Plain, Reach, Gives, Fronts, NeverStrands, Carrying

\* A step that starts no task and opens no gate keeps everything but Fronts.
LEMMA ServedKept ==
    ASSUME Served, alive => alive',
           \A m \in Msgs : \/ pc'[m] = pc[m]
                           \/ pc'[m] \notin Carrying \cup {"jumping", "release"},
           who' = who, askPending => askPending', openRun => openRun' \/ askPending',
           items' \subseteq items
    PROVE  Plain' /\ Reach' /\ Gives' /\ NeverStrands'
<1>1. Plain' /\ Reach' /\ Gives'
  BY DEF Served, Plain, Reach, Gives, Carrying
<1>2. NeverStrands'
  BY DEF Served, NeverStrands
<1> QED
  BY <1>1, <1>2

\* A message queued or sent: it is queued only behind an open gate.
LEMMA ServedSend ==
    ASSUME Running, Served, Send, Paths \subseteq {"core", "image"}
    PROVE  Plain' /\ Reach' /\ Gives' /\ NeverStrands'
<1>0. /\ pc \in [Msgs -> PcValues] /\ who \in [Msgs -> Carriers]
      /\ UNCHANGED <<alive, askPending>>
  BY DEF Running, IInv, Typed, TypeOK, TypeTasks, Send, SendText, SendJump, WakeLook,
     TryReserve, OfferDispatch, OfferQueue, gate, proc
<1>1. PICK m \in Msgs : SendText(m, "core") \/ TryReserve(m, "image")
  BY DEF Send
<1>2. ASSUME NEW w \in {"core", "image"}, OfferDispatch(m, w)
      PROVE  Plain' /\ Reach' /\ Gives' /\ NeverStrands'
  <2>1. openRun' /\ pc' = [pc EXCEPT ![m] = "decide"] /\ who' = [who EXCEPT ![m] = w]
    BY <1>2 DEF OfferDispatch, Carry, Go, FirstStep
  <2>2. Plain' /\ Reach' /\ Gives'
    BY <1>0, <2>1 DEF Served, Plain, Reach, Gives, Carrying
  <2> QED
    BY <2>1, <2>2 DEF NeverStrands
<1>3. ASSUME ~MayDispatchNow, NEW i, OfferQueue(m, "core", i, "queued")
      PROVE  Plain' /\ Reach' /\ Gives' /\ NeverStrands'
  <2>1. /\ pc' = [pc EXCEPT ![m] = "queued"] /\ who' = [who EXCEPT ![m] = "core"]
        /\ openRun' = openRun
    BY <1>3 DEF OfferQueue, Go, gate
  <2>2. openRun
    BY <1>3 DEF MayDispatchNow, Served, NeverStrands
  <2>3. Plain' /\ Reach' /\ Gives'
    BY <1>0, <2>1 DEF Served, Plain, Reach, Gives, Carrying
  <2> QED
    BY <2>1, <2>2, <2>3 DEF NeverStrands
<1>4. ASSUME who' = [who EXCEPT ![m] = "image"], Go(m, "over"), UNCHANGED <<gate, queue>>
      PROVE  Plain' /\ Reach' /\ Gives' /\ NeverStrands'
  <2>1. pc' = [pc EXCEPT ![m] = "over"] /\ UNCHANGED <<openRun, items>>
    BY <1>4 DEF Go, gate, queue
  <2>2. Plain' /\ Reach' /\ Gives'
    BY <1>0, <1>4, <2>1 DEF Served, Plain, Reach, Gives, Carrying
  <2> QED
    BY <1>0, <2>1, <2>2 DEF Served, NeverStrands
<1> QED
  BY <1>1, <1>2, <1>3, <1>4 DEF SendText, TryReserve

\* A jump pops only behind a question, which a live runner asked.
LEMMA ServedUserActs ==
    ASSUME Running, Served, UserActs
    PROVE  Plain' /\ Reach' /\ Gives' /\ NeverStrands'
<1>0. /\ pc \in [Msgs -> PcValues] /\ who \in [Msgs -> Carriers] /\ Living
      /\ UNCHANGED <<alive, askPending>> /\ (openRun => openRun')
  <2>1. pc \in [Msgs -> PcValues] /\ who \in [Msgs -> Carriers] /\ Living
    BY DEF Running, IInv, Typed, TypeOK, TypeTasks
  <2>2. UNCHANGED <<alive, askPending>>
    BY DEF UserActs, Remove, Jump, Stop, AbortWrite, AbortMark, gate, proc
  <2>3. openRun' = openRun \/ openRun'
    BY DEF UserActs, Remove, Jump, Stop, AbortWrite, AbortMark, gate, proc
  <2> QED
    BY <2>1, <2>2, <2>3
<1>1. ASSUME NEW m \in Msgs, Remove(m) PROVE Plain' /\ Reach' /\ Gives' /\ NeverStrands'
  <2>1. pc' = [pc EXCEPT ![m] = "removed"] /\ UNCHANGED <<who, openRun>> /\ items' \subseteq items
    BY <1>1 DEF Remove, Go, Drop, gate
  <2> QED
    BY <1>0, <2>1, ServedKept DEF Carrying
<1>2. ASSUME NEW m \in Msgs, NEW w \in {"jump", "socket"}, Jump(m, w)
      PROVE  Plain' /\ Reach' /\ Gives' /\ NeverStrands'
  <2>1. w = "jump" /\ m \in items
    BY <1>2 DEF Jump, Served, Plain
  <2>2. CASE openRun
    <3>1. pc' = pc /\ who' = who /\ openRun'
      BY <1>0, <1>2, <2>1, <2>2 DEF Jump, Go, gate
    <3>2. Plain' /\ Reach' /\ Gives'
      BY <1>0, <3>1 DEF Served, Plain, Reach, Gives
    <3> QED
      BY <3>1, <3>2 DEF NeverStrands
  <2>3. CASE ~openRun
    <3>1. /\ openRun' /\ pc' = [pc EXCEPT ![m] = "persist"] /\ who' = [who EXCEPT ![m] = "jump"]
      BY <1>2, <2>1, <2>3 DEF Jump, Carry, Go, FirstStep
    <3>2. alive
      BY <1>0, <2>1, <2>3 DEF Served, NeverStrands, Living
    <3>3. Plain' /\ Reach' /\ Gives'
      BY <1>0, <3>1, <3>2 DEF Served, Plain, Reach, Gives, Carrying
    <3> QED
      BY <3>1, <3>3 DEF NeverStrands
  <2> QED
    BY <2>2, <2>3
<1>3. ASSUME NEW a \in Stops, Stop(a) \/ AbortWrite(a) \/ AbortMark(a)
      PROVE  Plain' /\ Reach' /\ Gives' /\ NeverStrands'
  <2>1. UNCHANGED <<pc, who, items>>
    BY <1>3 DEF Stop, AbortWrite, AbortMark, tasks, queue
  <2> QED
    BY <1>0, <2>1, ServedKept
<1> QED
  BY <1>1, <1>2, <1>3 DEF UserActs

\* Without failures a task gives up only because its images cannot answer a
\* question, and that question stays until another task answers it.
LEMMA ServedTask ==
    ASSUME Running, Held, Served, ~Failures, NEW m \in Msgs, Task(m)
    PROVE  Plain' /\ Reach' /\ Gives' /\ NeverStrands'
<1>0. /\ pc \in [Msgs -> PcValues] /\ who \in [Msgs -> Carriers] /\ Typed /\ OneClaim
      /\ UNCHANGED who /\ (alive => alive')
  BY DEF Running, IInv, Typed, TypeOK, TypeTasks, Task, TaskRest, Check, Decide, Ensure,
     Persist, Write, OpenGate, HandOver, Release, proc, SpawnRunner
<1>1. \A n \in Msgs \ {m} : pc'[n] = pc[n]
  BY <1>0 DEF Task, Go, Check, Decide, Ensure, Persist, Write, OpenGate, HandOver, Release
<1>2. pc[m] # "check"
  BY DEF Served, Plain, Running, IInv, Books, Book, Carried
\* From one step of the task to another.
<1>3. ASSUME UNCHANGED <<openRun, askPending, items>>, pc[m] \in Carrying,
             pc'[m] = "release" => askPending,
             pc'[m] = "write" \/ (pc'[m] = "persist" /\ who[m] \in {"drain", "jump"}) => alive',
             pc'[m] # "jumping"
      PROVE  Plain' /\ Reach' /\ Gives' /\ NeverStrands'
  <2>1. Plain' /\ Reach' /\ Gives'
    BY <1>0, <1>1, <1>3 DEF Served, Plain, Reach, Gives
  <2> QED
    BY <1>3, <2>1 DEF Served, NeverStrands
<1>4. CASE Decide(m)
  <2>1. pc'[m] \in {"persist", "release"} /\ who[m] \notin {"drain", "jump"}
    BY <1>0, <1>4 DEF Decide, Go, Running, IInv, Books, Book, Carried
  <2>2. pc'[m] = "release" => askPending
    BY <1>0, <1>4 DEF Decide, Go
  <2> QED
    BY <1>3, <1>4, <2>1, <2>2 DEF Decide, gate, TaskRest, queue, Carrying
<1>5. CASE Ensure(m)
  <2>1. who[m] \in {"core", "image"}
    BY <1>0, <1>5 DEF Ensure, Served, Plain, Running, IInv, Books, Book, Carried, Carrying,
       Carriers
  <2>2. pc'[m] = "write" /\ alive' /\ pc[m] = "ensure" /\ UNCHANGED <<openRun, askPending, items>>
    BY <1>0, <1>5, <2>1 DEF Ensure, Go, AfterEnsure, SpawnRunner, proc, gate, TaskRest, queue
  <2> QED
    BY <1>3, <2>2 DEF Carrying
<1>6. CASE Persist(m)
  <2>1. pc[m] = "persist" /\ pc'[m] = AfterPersist(who[m]) /\ UNCHANGED <<openRun, askPending, items>>
    BY <1>0, <1>6 DEF Persist, Go, gate, queue
  <2>2. \/ pc'[m] = "ensure"
        \/ pc'[m] = "write" /\ who[m] \in {"drain", "jump"}
    BY <1>0, <2>1 DEF AfterPersist, Served, Plain, Carrying, Carriers
  <2>3. pc'[m] = "write" => alive
    BY <2>1, <2>2 DEF Served, Reach
  <2> QED
    BY <1>0, <1>3, <2>1, <2>2, <2>3 DEF Carrying
<1>7. CASE Write(m)
  <2>1. pc[m] = "write" /\ alive
    BY <1>7 DEF Write, Served, Reach
  <2>2. pc'[m] = "gate" /\ UNCHANGED <<openRun, askPending, items>>
    BY <1>0, <1>7, <2>1 DEF Write, Go, gate, TaskRest, queue
  <2> QED
    BY <1>3, <2>1, <2>2 DEF Carrying
<1>8. CASE OpenGate(m)
  <2>1. pc[m] = "gate" /\ pc'[m] \in {"over", "hand"} /\ openRun'
    BY <1>0, <1>8 DEF OpenGate, Go
  <2>2. \A n \in Msgs : pc[n] # "release"
    BY <1>0, <2>1, WhoClaims, Apart DEF Held, Holds
  <2>3. Plain' /\ Reach' /\ Gives'
    BY <1>0, <1>1, <2>1, <2>2 DEF Served, Plain, Reach, Gives, Carrying
  <2> QED
    BY <2>1, <2>3 DEF NeverStrands
<1>9. CASE HandOver(m)
  <2>1. pc'[m] = "over" /\ UNCHANGED <<openRun, askPending, items>>
    BY <1>0, <1>9 DEF HandOver, Go, gate, queue
  <2> QED
    BY <1>0, <1>1, <2>1, ServedKept DEF Carrying
<1>10. CASE Release(m)
  <2>1. pc'[m] = "over" /\ askPending /\ UNCHANGED <<askPending, items>>
    BY <1>0, <1>10 DEF Release, Go, TaskRest, queue, Served, Gives
  <2> QED
    BY <1>0, <1>1, <2>1, ServedKept DEF Carrying
<1> QED
  BY <1>2, <1>4, <1>5, <1>6, <1>7, <1>8, <1>9, <1>10 DEF Task, Check

\* The drain task opens the gate only when nothing waits, or for an answer.
LEMMA ServedDrain ==
    ASSUME Running, Served, Drain
    PROVE  Plain' /\ Reach' /\ Gives' /\ NeverStrands'
<1>0. /\ pc \in [Msgs -> PcValues] /\ who \in [Msgs -> Carriers] /\ Living /\ signals # <<>>
      /\ UNCHANGED <<alive, askPending>> /\ items \subseteq Msgs
  BY DEF Running, IInv, Typed, TypeOK, TypeTasks, TypeQueue, Drain, proc
<1>1. alive /\ Head(signals) = "run_complete"
  BY <1>0 DEF Living
<1>2. CASE TakeNothing
  <2>1. UNCHANGED <<pc, who, items>>
    BY <1>2 DEF TakeNothing, tasks
  <2>2. items # {} => askPending
    <3>1. ASSUME items # {} PROVE \E f \in items : AtFront(f)
      <4>1. PICK f \in items : \A n \in items \ {f} : <<f, n>> \in ahead
        BY <3>1 DEF Served, Fronts
      <4> QED
        BY <4>1 DEF AtFront
    <3> QED
      BY <1>0, <1>1, <1>2, <3>1 DEF TakeNothing
  <2>3. Plain' /\ Reach' /\ Gives'
    BY <1>0, <2>1 DEF Served, Plain, Reach, Gives
  <2> QED
    BY <1>0, <2>1, <2>2, <2>3 DEF NeverStrands
<1>3. ASSUME NEW m \in Msgs, TakeNext(m) PROVE Plain' /\ Reach' /\ Gives' /\ NeverStrands'
  <2>1. openRun' /\ pc' = [pc EXCEPT ![m] = "persist"] /\ who' = [who EXCEPT ![m] = "drain"]
    BY <1>3 DEF TakeNext, Carry, Go, FirstStep
  <2>2. Plain' /\ Reach' /\ Gives'
    BY <1>0, <1>1, <2>1 DEF Served, Plain, Reach, Gives, Carrying
  <2> QED
    BY <2>1, <2>2 DEF NeverStrands
<1> QED
  BY <1>2, <1>3 DEF Drain

\* Every step but an exit keeps it.
LEMMA ServedStep ==
    ASSUME Running, Held, Served, ~Failures, Paths \subseteq {"core", "image"}, [Steady]_vars
    PROVE  Served'
<1>0. Typed /\ Fronts /\ pc \in [Msgs -> PcValues] /\ \A m \in items : pc[m] \in {"queued", "jumping"}
  BY DEF Running, IInv, Served, Typed, TypeOK, TypeTasks, TypeQueue, Books, Book, Waits
<1>1. CASE UNCHANGED vars \/ OpenSession \/ Bridge \/ \E h \in handing : WriteInterject(h)
  <2>1. UNCHANGED <<pc, who, items, openRun, askPending>> /\ (alive => alive')
    BY <1>1 DEF vars, OpenSession, SpawnRunner, Bridge, BridgeCommand, BridgeStep, BridgeFinish,
       WriteInterject, tasks, queue, gate, proc
  <2>2. Plain' /\ Reach' /\ Gives' /\ NeverStrands'
    BY <2>1, ServedKept
  <2> QED
    BY <1>0, <2>2, FrontsStep DEF Served
<1>2. ASSUME NEW p \in Pids, Watch(p) PROVE Served'
  <2>1. /\ UNCHANGED <<who, openRun, alive>> /\ (askPending => askPending') /\ items' \subseteq items
    BY <1>2 DEF Watch, WatchAskUser, WatchDelivered, WatchEnd, Drop, tasks, queue, gate, proc
  <2>2. \A m \in Msgs : pc'[m] = pc[m] \/ pc'[m] = "over"
    BY <1>2 DEF Watch, WatchAskUser, WatchDelivered, WatchEnd, tasks
  <2>3. Plain' /\ Reach' /\ Gives' /\ NeverStrands'
    BY <2>1, <2>2, ServedKept DEF Carrying
  <2> QED
    BY <1>0, <2>3, FrontsStep DEF Served
<1> QED
  BY <1>0, <1>1, <1>2, FrontsStep, ServedSend, ServedUserActs, ServedTask, ServedDrain
  DEF Served, Steady

(* The gate says neither too much nor too little: it is open only for a  *)
(* run, and nothing waits behind a closed one unless a question holds it *)
(* (queue.rs). Without exits, failures, wakes and socket sends, and with *)
(* no run that reports its end before its sender has reopened the gate.  *)
THEOREM GateHonestHolds ==
    ASSUME ~GateRace, ~Failures, Paths \subseteq {"core", "image"}
    PROVE  SteadySpec => []GateHonest
<1>1. Running /\ Held /\ Served /\ [Steady]_vars => Served'
  BY ServedStep
<1>2. Served => NeverStrands
  BY DEF Served
<1> QED
  BY <1>1, <1>2, ServedInit, AskedHolds, RunningHolds, GateMeansRunHolds, PTL
  DEF SteadySpec, GateHonest

\* Where no runner exits, Spec is SteadySpec: a live runner has a number.
LEMMA NoExits == ASSUME Exits = 0 PROVE Spec => SteadySpec
<1> DEFINE Started == alive => pid # 0
<1>1. Init => Started
  BY DEF Init
<1>2. Typed /\ Started /\ [Next]_vars => Started'
  <2> SUFFICES ASSUME Typed, Started, [Next]_vars PROVE Started'
    OBVIOUS
  <2>0. pid \in 0 .. 1
    BY DEF Typed, TypeOK, TypeRunner, Pids
  <2>1. UNCHANGED <<alive, pid>> \/ SpawnRunner \/ ~alive'
    BY DEF Next, Steady, vars, Send, SendText, SendJump, WakeLook, TryReserve, UserActs, Remove,
       Jump, Stop, AbortWrite, AbortMark, Bridge, BridgeCommand, BridgeStep, BridgeFinish,
       OpenSession, Drain, Task, TaskRest, Check, Decide, Ensure, Persist, Write, OpenGate,
       HandOver, Release, WriteInterject, Watch, RunnerExit, proc
  <2>2. CASE SpawnRunner
    BY <2>0, <2>2 DEF SpawnRunner
  <2>3. CASE UNCHANGED <<alive, pid>>
    BY <2>3
  <2> QED
    BY <2>1, <2>2, <2>3
<1>3. Typed /\ Started /\ [Next]_vars => [Steady]_vars
  <2>1. Typed /\ Started => ~RunnerExit
    BY DEF RunnerExit, Typed, TypeOK, TypeRunner, Pids
  <2> QED
    BY <2>1 DEF Next
<1>4. IInv => Typed
  BY DEF IInv
<1> QED
  BY <1>1, <1>2, <1>3, <1>4, SpokenHolds, PTL DEF Spec, SteadySpec
=============================================================================
