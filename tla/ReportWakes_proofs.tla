-------------------------- MODULE ReportWakes_proofs --------------------------
(***************************************************************************)
(* The wakes of the main chat, for every set of subtasks, tags, tasks and  *)
(* lookers: who holds its gate, what it reads, and where each report is.   *)
(* The runner of the main chat does not exit here (Main \notin Mortal).    *)
(***************************************************************************)
EXTENDS ReportStore_proofs

-----------------------------------------------------------------------------
(* The signals of the main chat.                                           *)

Signalling == [kind : {"run_complete", "closed"}, of : Sessions]

NoMain(q)   == \A i \in 1..Len(q) : q[i].of # Main
LoneMain(q) == \E i \in 1..Len(q) : /\ q[i].of = Main
                                    /\ \A k \in 1..Len(q) : k # i => q[k].of # Main
Complete(q) == \A i \in 1..Len(q) : q[i].of = Main => q[i].kind = "run_complete"

\* A signal at the end of the channel.
LEMMA MainAppends ==
    ASSUME NEW q \in Seq(Signalling), NEW e \in Signalling
    PROVE  /\ e.of # Main => /\ NoMain(q) => NoMain(Append(q, e))
                             /\ LoneMain(q) => LoneMain(Append(q, e))
           /\ e.of = Main /\ NoMain(q) => LoneMain(Append(q, e))
           /\ Complete(q) /\ (e.of = Main => e.kind = "run_complete") => Complete(Append(q, e))
<1> DEFINE p == Append(q, e)
<1>1. /\ Len(p) = Len(q) + 1 /\ Len(q) \in Nat /\ p[Len(q) + 1] = e
      /\ \A i \in 1..Len(q) : p[i] = q[i]
  OBVIOUS
<1> HIDE DEF p
<1>2. \A i \in 1..Len(p) : i \in 1..Len(q) \/ i = Len(q) + 1
  BY <1>1
<1>3. 1..Len(q) \subseteq 1..Len(p) /\ Len(q) + 1 \in 1..Len(p) /\ Len(q) + 1 \notin 1..Len(q)
  BY <1>1
<1>4. e.of # Main => (NoMain(q) => NoMain(p))
  BY <1>1, <1>2 DEF NoMain
<1>5. e.of # Main => (LoneMain(q) => LoneMain(p))
  BY <1>1, <1>2, <1>3 DEF LoneMain
<1>6. e.of = Main /\ NoMain(q) => LoneMain(p)
  BY <1>1, <1>2, <1>3 DEF NoMain, LoneMain
<1>7. Complete(q) /\ (e.of = Main => e.kind = "run_complete") => Complete(p)
  BY <1>1, <1>2 DEF Complete
<1> QED
  BY <1>4, <1>5, <1>6, <1>7 DEF p

\* The channel without its first signal.
LEMMA MainTails ==
    ASSUME NEW q \in Seq(Signalling), q # <<>>
    PROVE  /\ NoMain(q) => Head(q).of # Main /\ NoMain(Tail(q))
           /\ LoneMain(q) /\ Head(q).of = Main => NoMain(Tail(q))
           /\ LoneMain(q) /\ Head(q).of # Main => LoneMain(Tail(q))
           /\ Complete(q) => Complete(Tail(q)) /\ (Head(q).of = Main => Head(q).kind = "run_complete")
<1> DEFINE p == Tail(q)
<1>1. /\ Len(q) \in Nat /\ Len(q) >= 1 /\ Len(p) = Len(q) - 1 /\ Head(q) = q[1]
      /\ \A i \in 1..Len(p) : p[i] = q[i + 1]
  OBVIOUS
<1> HIDE DEF p
<1>2. 1 \in 1..Len(q) /\ \A i \in 1..Len(p) : i + 1 \in 1..Len(q) /\ i + 1 # 1
  BY <1>1
<1>3. \A i \in 1..Len(q) : i # 1 => i - 1 \in 1..Len(p) /\ p[i - 1] = q[i]
  BY <1>1
<1>4. NoMain(q) => Head(q).of # Main /\ NoMain(p)
  BY <1>1, <1>2 DEF NoMain
<1>5. LoneMain(q) /\ Head(q).of = Main => NoMain(p)
  BY <1>1, <1>2 DEF NoMain, LoneMain
<1>6. ASSUME LoneMain(q), Head(q).of # Main PROVE LoneMain(p)
  <2>1. PICK i \in 1..Len(q) : q[i].of = Main /\ \A k \in 1..Len(q) : k # i => q[k].of # Main
    BY <1>6 DEF LoneMain
  <2>2. i # 1
    BY <1>1, <1>6, <2>1
  <2>3. i - 1 \in 1..Len(p) /\ p[i - 1].of = Main
    BY <1>3, <2>1, <2>2
  <2>4. \A k \in 1..Len(p) : k # i - 1 => k + 1 # i
    BY <1>1, <2>1
  <2>5. \A k \in 1..Len(p) : k # i - 1 => p[k].of # Main
    BY <1>1, <1>2, <2>1, <2>4
  <2> QED
    BY <2>3, <2>5 DEF LoneMain
<1>7. Complete(q) => Complete(p) /\ (Head(q).of = Main => Head(q).kind = "run_complete")
  BY <1>1, <1>2 DEF Complete
<1> QED
  BY <1>4, <1>5, <1>6, <1>7 DEF p

-----------------------------------------------------------------------------
(* Who holds the gate of the main chat: nobody, a looker that took it, a   *)
(* wake under way, a run, or the signal of a run's end; and what is in     *)
(* flight and being read meanwhile.                                        *)

Takers   == {c \in Lookers : step[c] \in {"take", "release"}}
Abroad   == {j \in jobs : j.at # "restore"}
Settling == step["drain"] = "queue" /\ Head(signals).of = Main

NoRun == Main \notin running /\ reading = {}

AtNobody == /\ ~open[Main] /\ Takers = {} /\ Abroad = {} /\ NoRun /\ NoMain(signals)
            /\ inFlight = {}
AtLook   == /\ open[Main] /\ Abroad = {} /\ NoRun /\ NoMain(signals)
            /\ inFlight = {}
            /\ \E c \in Lookers : Takers = {c}
AtWake   == /\ open[Main] /\ Takers = {} /\ NoRun /\ NoMain(signals)
            /\ \E j \in jobs : Abroad = {j} /\ inFlight = IF j.at = "send" THEN j.load ELSE {}
AtRun    == /\ open[Main] /\ Takers = {} /\ Abroad = {} /\ NoMain(signals)
            /\ Main \in running /\ reading = inFlight
AtSignal == /\ open[Main] /\ Takers = {} /\ Abroad = {} /\ NoRun /\ LoneMain(signals)
            /\ KeysOf(inFlight) \subseteq (IF exit[Main] = "failed" THEN failed ELSE heard)
            /\ exit[Main] = "failed" => ~ask[Main]
            /\ Settling => inFlight = {}

Claimed == AtNobody \/ AtLook \/ AtWake \/ AtRun \/ AtSignal
Claim   == Typed /\ Complete(signals) /\ Claimed

\* Nothing has no key.
LEMMA NoKeys == KeysOf({}) = {}
BY DEF KeysOf

\* Nobody holds it when Core starts.
LEMMA ClaimInit == Init => Claim
<1> SUFFICES ASSUME Init PROVE Claim
  OBVIOUS
<1>1. /\ jobs = {} /\ step = [c \in Lookers |-> "idle"] /\ running = Batch /\ reading = {}
      /\ inFlight = {} /\ signals = <<>> /\ open = [s \in Sessions |-> s \in Batch]
  BY DEF Init
<1>2. Len(signals) = 0
  BY <1>1
<1>3. NoMain(signals) /\ Complete(signals)
  BY <1>2 DEF NoMain, Complete
<1>4. ~open[Main] /\ Main \notin running
  BY <1>1, ConstantsAssumption DEF Sessions
<1>5. Takers = {} /\ Abroad = {}
  BY <1>1 DEF Takers, Abroad
<1> QED
  BY <1>1, <1>3, <1>4, <1>5, TypedInit DEF Claim, Claimed, AtNobody, NoRun

\* A step that touches none of this leaves the claim where it was.
LEMMA ClaimStays ==
    ASSUME Claimed, open'[Main] = open[Main], Takers' = Takers, Abroad' = Abroad,
           Main \in running' <=> Main \in running, reading' = reading, inFlight' = inFlight,
           NoMain(signals) => NoMain(signals'), LoneMain(signals) => LoneMain(signals'),
           exit'[Main] = exit[Main], ask'[Main] = ask[Main],
           heard \subseteq heard', failed \subseteq failed',
           LoneMain(signals) /\ Settling' => Settling
    PROVE  Claimed'
<1>1. CASE AtNobody
  BY <1>1 DEF AtNobody, NoRun, Claimed
<1>2. CASE AtLook
  BY <1>2 DEF AtLook, NoRun, Claimed
<1>3. CASE AtWake
  BY <1>3 DEF AtWake, NoRun, Claimed, Abroad
<1>4. CASE AtRun
  BY <1>4 DEF AtRun, Claimed
<1>5. CASE AtSignal
  BY <1>5 DEF AtSignal, NoRun, Claimed
<1> QED
  BY <1>1, <1>2, <1>3, <1>4, <1>5 DEF Claimed

\* The records of a run's end, and what does not touch the gate of the main chat.
LEMMA ClaimQuiet ==
    ASSUME Claim, \/ TickHeld \/ (\E s \in Subs : RecordRunEnd(s) \/ StartSub(s))
                  \/ (\E c \in Lookers : ReadPending(c) \/ AddPending(c) \/ LookDue(c) \/ LookAsk(c))
                  \/ (\E t \in Tasks : Fire(t)) \/ (\E x \in Tags \cup Subs : TagFails(x))
                  \/ (\E w \in waiting : BatchWait(w)) \/ (\E x \in Subs \cup Tasks : Leave(x))
                  \/ UNCHANGED vars
    PROVE  Claimed' /\ Complete(signals')
<1>0. /\ step \in [Lookers -> Steps] /\ "drain" \in Lookers /\ open \in [Sessions -> BOOLEAN]
      /\ ask \in [Sessions -> BOOLEAN] /\ Main \in Sessions /\ Main \notin Subs /\ Subs \subseteq Sessions
      /\ Claimed /\ Complete(signals)
  BY ConstantsAssumption DEF Claim, Typed, TypeOK, TypeStore, TypeGates, Sessions
<1>1. ASSUME UNCHANGED <<inFlight, jobs, reading, signals, exit, heard, failed>>,
             open'[Main] = open[Main], ask'[Main] = ask[Main], Main \in running' <=> Main \in running,
             step' = step \/ \E c \in Lookers : \E x \in Steps \ {"take", "release"} :
                                 /\ step' = [step EXCEPT ![c] = x]
                                 /\ step[c] \notin {"take", "release"}
                                 /\ c = "drain" /\ x = "queue" => Head(signals).of # Main
      PROVE  Claimed' /\ Complete(signals')
  <2>1. Takers' = Takers
    BY <1>0, <1>1 DEF Takers
  <2>2. Abroad' = Abroad
    BY <1>1 DEF Abroad
  <2>3. Settling' => Settling
    BY <1>0, <1>1 DEF Settling
  <2> QED
    BY <1>0, <1>1, <2>1, <2>2, <2>3, ClaimStays
<1>2. CASE UNCHANGED vars
  BY <1>1, <1>2 DEF vars, store, lookers, gates, runners, history
<1>3. CASE TickHeld
  <2>1. "tick" \in Lookers /\ step["tick"] = "idle" /\ step' = [step EXCEPT !["tick"] = "due"]
    BY <1>3 DEF TickHeld
  <2>2. UNCHANGED <<inFlight, jobs, gates, runners, signals, history>>
    BY <1>3 DEF TickHeld, store
  <2> QED
    BY <1>1, <2>1, <2>2 DEF gates, runners, history, Steps
<1>4. ASSUME NEW s \in Subs, RecordRunEnd(s) PROVE Claimed' /\ Complete(signals')
  <2>1. /\ step["drain"] = "idle" /\ step' = [step EXCEPT !["drain"] = "queue"]
        /\ Head(signals).of = s
        /\ UNCHANGED <<inFlight, jobs, gates, runners, signals, history>>
    BY <1>4 DEF RecordRunEnd
  <2>2. Head(signals).of # Main
    BY <1>0, <2>1
  <2> QED
    BY <1>0, <1>1, <2>1, <2>2 DEF gates, runners, history, Steps
<1>5. ASSUME NEW s \in Subs, StartSub(s) PROVE Claimed' /\ Complete(signals')
  <2>1. /\ open' = [open EXCEPT ![s] = TRUE] /\ ask' = [ask EXCEPT ![s] = FALSE]
        /\ running' = running \cup {s} /\ s # Main
        /\ UNCHANGED <<inFlight, step, jobs, exit, reading, signals, heard, failed>>
    BY <1>0, <1>5 DEF StartSub, store, lookers, history
  <2>2. open'[Main] = open[Main] /\ ask'[Main] = ask[Main] /\ (Main \in running' <=> Main \in running)
    BY <1>0, <2>1
  <2> QED
    BY <1>1, <2>1, <2>2
<1>6. ASSUME NEW c \in Lookers, ReadPending(c) \/ AddPending(c) \/ LookDue(c) \/ LookAsk(c)
      PROVE  Claimed' /\ Complete(signals')
  <2>1. /\ UNCHANGED <<inFlight, jobs, gates, runners, signals, heard, failed>>
        /\ step[c] \in {"idle", "add", "due", "ask"}
        /\ \E x \in {"idle", "add", "due", "ask", "reserve"} : step' = [step EXCEPT ![c] = x]
    BY <1>6 DEF ReadPending, AddPending, LookDue, LookAsk, store, history
  <2>2. PICK x \in {"idle", "add", "due", "ask", "reserve"} : step' = [step EXCEPT ![c] = x]
    BY <2>1
  <2>3. x \in Steps \ {"take", "release"} /\ x # "queue"
    BY DEF Steps
  <2> QED
    BY <1>1, <2>1, <2>2, <2>3 DEF gates, runners
<1>7. ASSUME NEW t \in Tasks, Fire(t) PROVE Claimed' /\ Complete(signals')
  BY <1>1, <1>7 DEF Fire, store, lookers, gates, runners, history
<1>8. ASSUME NEW x \in Tags \cup Subs, TagFails(x) PROVE Claimed' /\ Complete(signals')
  <2>1. "task" \in Lookers /\ step["task"] = "idle" /\ step' = [step EXCEPT !["task"] = "due"]
    BY <1>8 DEF TagFails
  <2>2. UNCHANGED <<inFlight, jobs, gates, runners, signals, history>>
    BY <1>8 DEF TagFails
  <2> QED
    BY <1>1, <2>1, <2>2 DEF gates, runners, history, Steps
<1>9. ASSUME NEW w \in waiting, BatchWait(w) PROVE Claimed' /\ Complete(signals')
  BY <1>1, <1>9 DEF BatchWait, lookers, gates, runners, history
<1>10. ASSUME NEW x \in Subs \cup Tasks, Leave(x) PROVE Claimed' /\ Complete(signals')
  BY <1>1, <1>10 DEF Leave, store, lookers, gates, runners, history
<1> QED
  BY <1>2, <1>3, <1>4, <1>5, <1>6, <1>7, <1>8, <1>9, <1>10

\* The drain task's records and hand-overs of the main chat's turns.
LEMMA ClaimDrain ==
    ASSUME Claim, RecordWakeRunEnd \/ QueueStep
    PROVE  Claimed' /\ Complete(signals')
<1>0. /\ step \in [Lookers -> Steps] /\ "drain" \in Lookers /\ open \in [Sessions -> BOOLEAN]
      /\ ask \in [Sessions -> BOOLEAN] /\ Main \in Sessions
      /\ Claimed /\ Complete(signals) /\ signals \in Seq(Signalling)
      /\ step["drain"] = "queue" => signals # <<>>
  BY ConstantsAssumption DEF Claim, Typed, TypeOK, TypeStore, TypeGates, Sessions, Signalling
<1>1. CASE RecordWakeRunEnd
  <2>1. /\ signals # <<>> /\ Head(signals).of = Main /\ inFlight' = {}
        /\ step["drain"] = "idle" /\ step' = [step EXCEPT !["drain"] = "queue"]
        /\ UNCHANGED <<jobs, gates, runners, signals, heard, failed>>
    BY <1>1 DEF RecordWakeRunEnd
  <2>2. AtSignal
    BY <1>0, <2>1, MainTails DEF Claimed, AtNobody, AtLook, AtWake, AtRun
  <2>3. Takers' = Takers /\ Abroad' = Abroad
    BY <1>0, <2>1 DEF Takers, Abroad
  <2>4. AtSignal'
    BY <2>1, <2>2, <2>3, NoKeys DEF AtSignal, NoRun, gates, runners
  <2> QED
    BY <1>0, <2>1, <2>4 DEF Claimed
<1>2. CASE QueueStep
  <2> DEFINE sig == Head(signals)
  <2>1. /\ step["drain"] = "queue" /\ signals' = Tail(signals) /\ signals # <<>>
        /\ UNCHANGED <<inFlight, jobs, exit, heard, failed>>
        /\ \E x \in {"idle", "due"} : step' = [step EXCEPT !["drain"] = x]
    BY <1>0, <1>2 DEF QueueStep, store, history
  <2>2. Takers' = Takers /\ Abroad' = Abroad /\ step'["drain"] # "queue"
    BY <1>0, <2>1 DEF Takers, Abroad
  <2>3. Complete(signals')
    BY <1>0, <2>1, MainTails
  <2>4. CASE sig.of # Main
    <3>1. /\ open' = [open EXCEPT ![sig.of] = FALSE] /\ UNCHANGED <<ask, running, reading>>
      BY <1>2, <2>4 DEF QueueStep, Takes
    <3>2. open'[Main] = open[Main]
      BY <1>0, <2>4, <3>1
    <3>3. (NoMain(signals) => NoMain(signals')) /\ (LoneMain(signals) => LoneMain(signals'))
      BY <1>0, <2>1, <2>4, MainTails
    <3>4. ~Settling'
      BY <2>2 DEF Settling
    <3> QED
      BY <1>0, <2>1, <2>2, <2>3, <3>1, <3>2, <3>3, <3>4, ClaimStays
  <2>5. CASE sig.of = Main
    <3>1. AtSignal
      BY <1>0, <2>1, <2>5, MainTails DEF Claimed, AtNobody, AtLook, AtWake, AtRun
    <3>2. inFlight = {} /\ NoMain(signals')
      BY <1>0, <2>1, <2>5, <3>1, MainTails DEF AtSignal, Settling
    <3>3. \/ /\ open' = [open EXCEPT ![Main] = TRUE] /\ running' = running \cup {Main}
             /\ reading' = (IF Main \in running THEN reading ELSE {})
          \/ open' = [open EXCEPT ![Main] = FALSE] /\ UNCHANGED <<running, reading>>
      BY <1>2, <2>5 DEF QueueStep, Dispatched
    <3>4. CASE /\ open' = [open EXCEPT ![Main] = TRUE] /\ running' = running \cup {Main}
               /\ reading' = (IF Main \in running THEN reading ELSE {})
      <4>1. AtRun'
        BY <1>0, <2>1, <2>2, <3>1, <3>2, <3>4 DEF AtRun, AtSignal, NoRun
      <4> QED
        BY <2>3, <4>1 DEF Claimed
    <3>5. CASE open' = [open EXCEPT ![Main] = FALSE] /\ UNCHANGED <<running, reading>>
      <4>1. AtNobody'
        BY <1>0, <2>1, <2>2, <3>1, <3>2, <3>5 DEF AtNobody, AtSignal, NoRun
      <4> QED
        BY <2>3, <4>1 DEF Claimed
    <3> QED
      BY <3>3, <3>4, <3>5
  <2> QED
    BY <2>4, <2>5
<1> QED
  BY <1>1, <1>2

\* A looker that takes the gate, takes the reports, or gives it back.
LEMMA ClaimLook ==
    ASSUME Claim, NEW c \in Lookers, Reserve(c) \/ Take(c) \/ Release(c)
    PROVE  Claimed' /\ Complete(signals')
<1>0. /\ step \in [Lookers -> Steps] /\ "drain" \in Lookers /\ open \in [Sessions -> BOOLEAN]
      /\ Main \in Sessions /\ Claimed /\ Complete(signals)
      /\ jobs \subseteq [at : Stages, load : SUBSET Waiting]
  BY ConstantsAssumption DEF Claim, Typed, TypeOK, TypeStore, TypeGates, Sessions
<1>1. /\ UNCHANGED <<inFlight, ask, exit, runners, signals, heard, failed>>
      /\ \E x \in {"idle", "take", "release"} : step' = [step EXCEPT ![c] = x]
      /\ step[c] \in {"reserve", "take", "release"}
  BY DEF Reserve, Take, Release, store, gates, history
<1>2. UNCHANGED <<reading, running>> /\ Complete(signals')
  BY <1>0, <1>1 DEF runners
<1>3. Settling' => Settling
  BY <1>0, <1>1 DEF Settling
<1>4. CASE Reserve(c)
  <2>1. step[c] = "reserve" /\ UNCHANGED jobs /\ UNCHANGED Abroad
    BY <1>4 DEF Reserve, Abroad
  <2>2. CASE MayDispatchNow
    <3>1. ~open[Main] /\ open' = [open EXCEPT ![Main] = TRUE] /\ step' = [step EXCEPT ![c] = "take"]
      BY <1>4, <2>2 DEF Reserve, MayDispatchNow
    <3>2. AtNobody
      BY <1>0, <3>1 DEF Claimed, AtLook, AtWake, AtRun, AtSignal
    <3>3. Takers' = {c}
      BY <1>0, <3>1, <3>2 DEF Takers, AtNobody
    <3>4. AtLook'
      BY <1>0, <1>1, <1>2, <2>1, <3>1, <3>2, <3>3 DEF AtNobody, AtLook, NoRun
    <3> QED
      BY <1>2, <3>4 DEF Claimed
  <2>3. CASE ~MayDispatchNow
    <3>1. UNCHANGED open /\ step' = [step EXCEPT ![c] = "idle"]
      BY <1>4, <2>3 DEF Reserve
    <3>2. Takers' = Takers
      BY <1>0, <2>1, <3>1 DEF Takers
    <3> QED
      BY <1>0, <1>1, <1>2, <1>3, <2>1, <3>1, <3>2, ClaimStays
  <2> QED
    BY <2>2, <2>3
<1>5. CASE Take(c)
  <2>1. step[c] = "take" /\ UNCHANGED open
    BY <1>5 DEF Take, gates
  <2>2. AtLook /\ Takers = {c}
    BY <1>0, <2>1 DEF Claimed, AtNobody, AtLook, AtWake, AtRun, AtSignal, Takers
  <2>3. CASE waiting = {}
    <3>1. step' = [step EXCEPT ![c] = "release"] /\ UNCHANGED jobs
      BY <1>5, <2>3 DEF Take
    <3>2. Takers' = Takers /\ Abroad' = Abroad
      BY <1>0, <2>1, <3>1 DEF Takers, Abroad
    <3> QED
      BY <1>0, <1>1, <1>2, <1>3, <2>1, <3>1, <3>2, ClaimStays
  <2>4. CASE waiting # {}
    <3> DEFINE j == [at |-> "check", load |-> waiting]
    <3>1. step' = [step EXCEPT ![c] = "idle"] /\ jobs' = jobs \cup {j}
      BY <1>5, <2>4 DEF Take
    <3>2. Takers' = {}
      BY <1>0, <2>2, <3>1 DEF Takers
    <3>3. j.at = "check"
      OBVIOUS
    <3> HIDE DEF j
    <3>4. Abroad' = {j}
      BY <2>2, <3>1, <3>3 DEF Abroad, AtLook
    <3>5. AtWake'
      BY <1>1, <1>2, <2>1, <2>2, <3>1, <3>2, <3>3, <3>4 DEF AtWake, AtLook, NoRun
    <3> QED
      BY <1>2, <3>5 DEF Claimed
  <2> QED
    BY <2>3, <2>4
<1>6. CASE Release(c)
  <2>1. /\ step[c] = "release" /\ open' = [open EXCEPT ![Main] = FALSE]
        /\ step' = [step EXCEPT ![c] = "idle"] /\ UNCHANGED jobs
    BY <1>6 DEF Release
  <2>2. AtLook /\ Takers = {c}
    BY <1>0, <2>1 DEF Claimed, AtNobody, AtLook, AtWake, AtRun, AtSignal, Takers
  <2>3. Takers' = {} /\ Abroad' = {}
    BY <1>0, <2>1, <2>2 DEF Takers, Abroad, AtLook
  <2>4. AtNobody'
    BY <1>0, <1>1, <1>2, <2>1, <2>2, <2>3 DEF AtNobody, AtLook, NoRun
  <2> QED
    BY <1>2, <2>4 DEF Claimed
<1> QED
  BY <1>4, <1>5, <1>6

\* A wake under way: what its steps do to who is under way.
LEMMA AbroadIs ==
    ASSUME Typed, NEW j \in jobs, NEW at \in Stages, Moves(j, at), Abroad \subseteq {j}
    PROVE  LET i == [j EXCEPT !.at = at]
           IN  /\ i.at = at /\ i.load = j.load /\ i \in jobs'
               /\ Abroad' = IF at = "restore" THEN {} ELSE {i}
<1> DEFINE i == [j EXCEPT !.at = at]
<1>1. i.at = at /\ i.load = j.load
  BY DEF Typed, TypeOK, TypeStore
<1>2. jobs' = (jobs \ {j}) \cup {i}
  BY DEF Moves
<1> HIDE DEF i
<1>3. \A k \in jobs' : k.at # "restore" => k = i
  BY <1>2 DEF Abroad
<1>4. Abroad' = IF at = "restore" THEN {} ELSE {i}
  BY <1>1, <1>2, <1>3 DEF Abroad
<1> QED
  BY <1>1, <1>2, <1>4 DEF i

\* The steps of a wake.
LEMMA ClaimWake ==
    ASSUME Claim, NEW j \in jobs, Deliver(j)
    PROVE  Claimed' /\ Complete(signals')
<1>0. /\ step \in [Lookers -> Steps] /\ "drain" \in Lookers /\ open \in [Sessions -> BOOLEAN]
      /\ Main \in Sessions /\ Claimed /\ Complete(signals) /\ Typed
      /\ jobs \subseteq [at : Stages, load : SUBSET Waiting]
  BY ConstantsAssumption DEF Claim, Typed, TypeOK, TypeStore, TypeGates, Sessions
<1>1. UNCHANGED <<step, exit, signals, heard, failed>>
  BY DEF Deliver, Check, Ensure, Flight, Send, Keep, Restore, JobRest, lookers
<1>2. Complete(signals') /\ Takers' = Takers /\ (Settling' => Settling)
  BY <1>0, <1>1 DEF Takers, Settling
<1>3. j.at # "restore" => /\ AtWake /\ Abroad = {j} /\ open[Main] /\ Takers = {} /\ NoRun
                          /\ NoMain(signals)
                          /\ inFlight = IF j.at = "send" THEN j.load ELSE {}
  <2>1. j.at # "restore" => j \in Abroad
    BY DEF Abroad
  <2> QED
    BY <1>0, <2>1 DEF Claimed, AtNobody, AtLook, AtWake, AtRun, AtSignal
<1>4. CASE Restore(j)
  <2>1. j.at = "restore" /\ jobs' = jobs \ {j} /\ UNCHANGED <<inFlight, open, ask, runners>>
    BY <1>4 DEF Restore
  <2>2. Abroad' = Abroad
    BY <2>1 DEF Abroad
  <2> QED
    BY <1>0, <1>1, <1>2, <2>1, <2>2, ClaimStays DEF runners
<1>5. CASE Check(j)
  <2> DEFINE due == {w \in j.load : StillDue(w.rep)}
             i   == [at |-> "ensure", load |-> due]
  <2>1. j.at = "check" /\ UNCHANGED <<inFlight, runners>>
    BY <1>5 DEF Check
  <2>2. CASE due = {}
    <3>1. jobs' = jobs \ {j} /\ open' = [open EXCEPT ![Main] = FALSE]
      BY <1>5, <2>2 DEF Check
    <3>2. Abroad' = {}
      BY <1>3, <2>1, <3>1 DEF Abroad
    <3>3. AtNobody'
      BY <1>0, <1>1, <1>2, <1>3, <2>1, <3>1, <3>2 DEF AtNobody, NoRun, runners
    <3> QED
      BY <1>2, <3>3 DEF Claimed
  <2>3. CASE due # {}
    <3>1. jobs' = (jobs \ {j}) \cup {i} /\ UNCHANGED open
      BY <1>5, <2>3 DEF Check
    <3>2. i.at = "ensure"
      OBVIOUS
    <3> HIDE DEF i
    <3>3. Abroad' = {i} /\ i \in jobs'
      BY <1>3, <2>1, <3>1, <3>2 DEF Abroad
    <3>4. AtWake'
      BY <1>1, <1>2, <1>3, <2>1, <3>1, <3>2, <3>3 DEF AtWake, NoRun, runners
    <3> QED
      BY <1>2, <3>4 DEF Claimed
  <2> QED
    BY <2>2, <2>3
<1>6. ASSUME NEW at \in Stages, Moves(j, at), UNCHANGED <<running, reading>>, j.at # "restore",
             IF at = "restore" THEN open' = [open EXCEPT ![Main] = FALSE] ELSE open' = open,
             inFlight' = IF at = "send" THEN j.load ELSE {}
      PROVE  Claimed'
  <2> DEFINE i == [j EXCEPT !.at = at]
  <2>1. i.at = at /\ i.load = j.load /\ i \in jobs' /\ Abroad' = IF at = "restore" THEN {} ELSE {i}
    BY <1>0, <1>3, <1>6, AbroadIs
  <2> HIDE DEF i
  <2>2. CASE at = "restore"
    <3>1. AtNobody'
      BY <1>0, <1>1, <1>2, <1>3, <1>6, <2>1, <2>2 DEF AtNobody, NoRun
    <3> QED
      BY <3>1 DEF Claimed
  <2>3. CASE at # "restore"
    <3>1. AtWake'
      BY <1>1, <1>2, <1>3, <1>6, <2>1, <2>3 DEF AtWake, NoRun
    <3> QED
      BY <3>1 DEF Claimed
  <2> QED
    BY <2>2, <2>3
<1>7. CASE Ensure(j)
  BY <1>2, <1>3, <1>6, <1>7 DEF Ensure, Stages
<1>8. CASE Flight(j)
  BY <1>2, <1>3, <1>6, <1>8 DEF Flight, Stages, runners
<1>9. CASE Keep(j)
  BY <1>2, <1>3, <1>6, <1>9 DEF Keep, Stages, runners
<1>10. CASE Send(j)
  <2>1. j.at = "send"
    BY <1>10 DEF Send
  <2>2. CASE /\ jobs' = jobs \ {j} /\ open' = [open EXCEPT ![Main] = TRUE]
             /\ Dispatched(j.load) /\ UNCHANGED inFlight
    <3>1. Abroad' = {}
      BY <1>3, <2>1, <2>2 DEF Abroad
    <3>2. AtRun'
      BY <1>0, <1>1, <1>2, <1>3, <2>1, <2>2, <3>1 DEF AtRun, NoRun, Dispatched
    <3> QED
      BY <1>2, <3>2 DEF Claimed
  <2>3. CASE Moves(j, "keep") /\ inFlight' = {} /\ UNCHANGED <<open, running, reading>>
    BY <1>2, <1>6, <2>1, <2>3 DEF Stages
  <2> QED
    BY <1>10, <2>2, <2>3 DEF Send
<1> QED
  BY <1>4, <1>5, <1>7, <1>8, <1>9, <1>10 DEF Deliver

\* Runs, the user, exits and restarts.
LEMMA ClaimAround ==
    ASSUME Main \notin Mortal, Claim,
           \/ UserSends \/ Crash
           \/ \E s \in Sessions : RunnerExit(s) \/ \E how \in Ends : EndRun(s, how)
    PROVE  Claimed' /\ Complete(signals')
<1>0. /\ step \in [Lookers -> Steps] /\ "drain" \in Lookers /\ open \in [Sessions -> BOOLEAN]
      /\ ask \in [Sessions -> BOOLEAN] /\ Main \in Sessions
      /\ exit \in [Sessions -> {"none", "done", "asked", "failed", "stopped"}]
      /\ Claimed /\ Complete(signals) /\ signals \in Seq(Signalling)
      /\ step["drain"] = "queue" => signals # <<>>
  BY ConstantsAssumption DEF Claim, Typed, TypeOK, TypeStore, TypeGates, Sessions, Signalling
<1>1. CASE UserSends
  <2>1. UNCHANGED <<inFlight, step, jobs, exit, signals, heard, failed>>
    BY <1>1 DEF UserSends, store, lookers, history
  <2>2. Takers' = Takers /\ Abroad' = Abroad /\ Complete(signals') /\ (Settling' => Settling)
    BY <1>0, <2>1 DEF Takers, Abroad, Settling
  <2>3. CASE MayDispatchNow
    <3>1. ~open[Main] /\ open' = [open EXCEPT ![Main] = TRUE] /\ Dispatched({})
      BY <1>1, <2>3 DEF UserSends, MayDispatchNow
    <3>2. AtNobody
      BY <1>0, <3>1 DEF Claimed, AtLook, AtWake, AtRun, AtSignal
    <3>3. AtRun'
      BY <1>0, <2>1, <2>2, <3>1, <3>2 DEF AtNobody, AtRun, NoRun, Dispatched
    <3> QED
      BY <2>2, <3>3 DEF Claimed
  <2>4. CASE ~MayDispatchNow
    <3>1. UNCHANGED <<open, ask, runners>>
      BY <1>1, <2>4 DEF UserSends
    <3> QED
      BY <1>0, <2>1, <2>2, <3>1, ClaimStays DEF runners
  <2> QED
    BY <2>3, <2>4
<1>2. CASE Crash
  <2>1. /\ step' = [c \in Lookers |-> "idle"] /\ jobs' = {} /\ open' = [s \in Sessions |-> FALSE]
        /\ running' = {} /\ reading' = {} /\ inFlight' = {} /\ signals' = <<>>
    BY <1>2 DEF Crash
  <2>2. Len(signals') = 0
    BY <2>1
  <2>3. NoMain(signals') /\ Complete(signals')
    BY <2>2 DEF NoMain, Complete
  <2>4. ~open'[Main] /\ Takers' = {} /\ Abroad' = {}
    BY <1>0, <2>1 DEF Takers, Abroad
  <2>5. AtNobody'
    BY <2>1, <2>3, <2>4 DEF AtNobody, NoRun
  <2> QED
    BY <2>3, <2>5 DEF Claimed
<1>3. ASSUME NEW s \in Sessions, NEW kind \in {"run_complete", "closed"}, Signal(kind, s)
      PROVE  /\ s # Main => /\ NoMain(signals) => NoMain(signals')
                            /\ LoneMain(signals) => LoneMain(signals')
             /\ s = Main /\ NoMain(signals) => LoneMain(signals')
             /\ s = Main /\ kind = "run_complete" => Complete(signals')
             /\ s # Main => Complete(signals')
             /\ signals # <<>> => Head(signals') = Head(signals)
  <2> DEFINE e == [kind |-> kind, of |-> s]
  <2>1. e \in Signalling /\ e.of = s /\ e.kind = kind
    BY DEF Signalling
  <2>2. signals' = Append(signals, e)
    BY <1>3 DEF Signal
  <2> HIDE DEF e
  <2>3. signals # <<>> => Head(signals') = Head(signals)
    BY <1>3, Signals DEF Claim
  <2> QED
    BY <1>0, <2>1, <2>2, <2>3, MainAppends
<1>4. ASSUME NEW s \in Sessions, s # Main, RunnerExit(s) \/ \E how \in Ends : EndRun(s, how)
      PROVE  Claimed' /\ Complete(signals')
  <2>1. /\ UNCHANGED <<inFlight, step, jobs, open, heard, failed, reading>>
        /\ running' = running \ {s}
        /\ exit' = exit \/ \E how \in Ends : exit' = [exit EXCEPT ![s] = how]
        /\ ask' = ask \/ \E b \in BOOLEAN : ask' = [ask EXCEPT ![s] = b]
    BY <1>4 DEF RunnerExit, EndRun, store, lookers, gates
  <2>2. PICK kind \in {"run_complete", "closed"} : Signal(kind, s)
    BY <1>4 DEF RunnerExit, EndRun
  <2>3. exit'[Main] = exit[Main] /\ ask'[Main] = ask[Main] /\ (Main \in running' <=> Main \in running)
    BY <1>0, <1>4, <2>1
  <2>4. Takers' = Takers /\ Abroad' = Abroad
    BY <2>1 DEF Takers, Abroad
  <2>5. /\ NoMain(signals) => NoMain(signals')
        /\ LoneMain(signals) => LoneMain(signals')
        /\ Complete(signals')
        /\ signals # <<>> => Head(signals') = Head(signals)
    BY <1>3, <1>4, <2>2
  <2>6. Settling' => Settling
    BY <1>0, <2>1, <2>5 DEF Settling
  <2> QED
    BY <1>0, <2>1, <2>3, <2>4, <2>5, <2>6, ClaimStays
<1>5. ASSUME NEW how \in Ends, EndRun(Main, how) PROVE Claimed' /\ Complete(signals')
  <2>1. /\ Main \in running /\ running' = running \ {Main} /\ reading' = {}
        /\ exit' = [exit EXCEPT ![Main] = how] /\ ask' = [ask EXCEPT ![Main] = how = "asked"]
        /\ Signal("run_complete", Main)
        /\ heard' = (IF how # "failed" THEN heard \cup KeysOf(reading) ELSE heard)
        /\ failed' = (IF how = "failed" THEN failed \cup KeysOf(reading) ELSE failed)
        /\ UNCHANGED <<inFlight, step, jobs, open>>
    BY <1>5 DEF EndRun, store, lookers
  <2>2. AtRun
    BY <1>0, <2>1 DEF Claimed, AtNobody, AtLook, AtWake, AtSignal, NoRun
  <2>3. LoneMain(signals') /\ Complete(signals') /\ (signals # <<>> => Head(signals') = Head(signals))
    BY <1>0, <1>3, <2>1, <2>2 DEF AtRun
  <2>4. Takers' = {} /\ Abroad' = {}
    BY <2>1, <2>2 DEF AtRun, Takers, Abroad
  <2>5. exit'[Main] = how /\ ask'[Main] = (how = "asked")
    BY <1>0, <2>1
  <2>6. ~Settling'
    <3>1. signals # <<>> => Head(signals).of # Main
      BY <1>0, <2>2, MainTails DEF AtRun
    <3> QED
      BY <1>0, <2>1, <2>3, <3>1 DEF Settling
  <2>7. KeysOf(inFlight') \subseteq IF exit'[Main] = "failed" THEN failed' ELSE heard'
    <3>1. KeysOf(inFlight') = KeysOf(reading)
      BY <2>1, <2>2 DEF AtRun
    <3> QED
      BY <2>1, <2>5, <3>1
  <2>8. AtSignal'
    BY <2>1, <2>2, <2>3, <2>4, <2>5, <2>6, <2>7 DEF AtSignal, AtRun, NoRun
  <2> QED
    BY <2>3, <2>8 DEF Claimed
<1>6. ~RunnerExit(Main)
  BY DEF RunnerExit
<1> QED
  BY <1>1, <1>2, <1>4, <1>5, <1>6

\* Every step keeps the claim one.
LEMMA ClaimStep == ASSUME Main \notin Mortal, Claim, [Next]_vars PROVE Claim'
<1>1. Typed'
  BY TypedStep DEF Claim
<1>2. Claimed' /\ Complete(signals')
  BY ClaimQuiet, ClaimDrain, ClaimLook, ClaimWake, ClaimAround DEF Next, Core, Around, Look
<1> QED
  BY <1>1, <1>2 DEF Claim

(* The gate lets one wake through at a time (OneWake), for every number of *)
(* tasks that look, races, failures and restarts.                          *)
THEOREM OneWakeHolds == ASSUME Main \notin Mortal PROVE Spec => []OneWake
<1>1. ASSUME Claim PROVE OneWake
  <2> SUFFICES ASSUME NEW i \in Abroad, NEW j \in Abroad PROVE i = j
    BY DEF OneWake, Abroad
  <2> QED
    BY <1>1 DEF Claim, Claimed, AtNobody, AtLook, AtWake, AtRun, AtSignal
<1>2. ASSUME Claim, [Next]_vars PROVE Claim'
  BY <1>2, ClaimStep
<1> QED
  BY <1>1, <1>2, ClaimInit, PTL DEF Spec

-----------------------------------------------------------------------------
(* A question of the main chat's, when no two tasks look at once.          *)

Busy == {"ask", "reserve", "take", "release", "queue"}

\* A step moves one looker at most, and it gets busy undisturbed.
LEMMA OneSteps ==
    ASSUME Typed, [Next]_vars
    PROVE  \/ step' = step \/ Crash
           \/ \E c \in Lookers : \E x \in Steps :
                 /\ step' = [step EXCEPT ![c] = x]
                 /\ x \in Busy => step[c] \in Busy \/ Undisturbed(c)
<1> DEFINE One(c) == \E x \in Steps : /\ step' = [step EXCEPT ![c] = x]
                                      /\ x \in Busy => step[c] \in Busy \/ Undisturbed(c)
           Goal == step' = step \/ Crash \/ \E c \in Lookers : One(c)
<1>0. "drain" \in Lookers
  BY ConstantsAssumption
<1>1. CASE UNCHANGED vars \/ UserSends
  BY <1>1 DEF vars, UserSends, lookers
<1>2. ASSUME NEW s \in Subs, RecordRunEnd(s) PROVE Goal
  BY <1>0, <1>2 DEF RecordRunEnd, Steps
<1>3. CASE RecordWakeRunEnd
  BY <1>0, <1>3 DEF RecordWakeRunEnd, Steps
<1>4. CASE QueueStep
  <2>1. \E x \in {"idle", "due"} : step' = [step EXCEPT !["drain"] = x]
    BY <1>4 DEF QueueStep
  <2> QED
    BY <1>0, <2>1 DEF Busy, Steps
<1>5. CASE TickHeld
  BY <1>5 DEF TickHeld, Busy, Steps
<1>6. ASSUME NEW c \in Lookers, ReadPending(c) \/ AddPending(c) PROVE Goal
  <2>1. \E x \in {"add", "due", "idle"} : step' = [step EXCEPT ![c] = x]
    BY <1>6 DEF ReadPending, AddPending
  <2> QED
    BY <2>1 DEF Busy, Steps
<1>7. ASSUME NEW c \in Lookers, Look(c) PROVE Goal
  <2>1. Undisturbed(c) /\ \E x \in Steps : step' = [step EXCEPT ![c] = x]
    BY <1>7 DEF Look, LookDue, LookAsk, Reserve, Take, Release, Steps
  <2> QED
    BY <2>1
<1>8. ASSUME NEW j \in jobs, Deliver(j) PROVE Goal
  BY <1>8 DEF Deliver, Check, Ensure, Flight, Send, Keep, Restore, JobRest, lookers
<1>9. ASSUME NEW x \in Tags \cup Subs, TagFails(x) PROVE Goal
  BY <1>9 DEF TagFails, Busy, Steps
<1>10. /\ \A t \in Tasks : Fire(t) => step' = step
       /\ \A w \in waiting : BatchWait(w) => step' = step
       /\ \A x \in Subs \cup Tasks : Leave(x) => step' = step
       /\ \A s \in Subs : StartSub(s) => step' = step
       /\ \A s \in Sessions : RunnerExit(s) \/ (\E how \in Ends : EndRun(s, how)) => step' = step
  BY DEF Fire, BatchWait, Leave, StartSub, RunnerExit, EndRun, lookers
<1> QED
  BY <1>1, <1>2, <1>3, <1>4, <1>5, <1>6, <1>7, <1>8, <1>9, <1>10 DEF Next, Core, Around

\* Who looks, and who handles a run's end, is alone.
Solo == \A c, d \in Lookers : c # d /\ step[c] \in Busy => step[d] \notin Busy

\* Without races a look keeps every other look out.
LEMMA SoloStep == ASSUME ~Races, Typed, Solo, [Next]_vars PROVE Solo'
<1>0. step \in [Lookers -> Steps]
  BY DEF Typed, TypeOK, TypeStore
<1>1. CASE step' = step
  BY <1>1 DEF Solo
<1>2. CASE Crash
  BY <1>2 DEF Crash, Solo, Busy
<1>3. ASSUME NEW e \in Lookers, NEW x \in Steps, step' = [step EXCEPT ![e] = x],
             x \in Busy => step[e] \in Busy \/ Undisturbed(e)
      PROVE  Solo'
  <2>1. \A c \in Lookers : c # e => step'[c] = step[c]
    BY <1>0, <1>3
  <2>2. step'[e] = x
    BY <1>0, <1>3
  <2>3. ASSUME NEW c \in Lookers, c # e, step[c] \in Busy PROVE step'[e] \notin Busy
    <3>1. step[e] \notin Busy
      BY <2>3 DEF Solo
    <3>2. ~Undisturbed(e)
      BY <2>3 DEF Undisturbed, Busy
    <3> QED
      BY <1>3, <2>2, <3>1, <3>2
  <2> QED
    BY <2>1, <2>3 DEF Solo
<1> QED
  BY <1>1, <1>2, <1>3, OneSteps

\* A question of the main chat's is asked at the end of its run, and a signal of it
\* is taken only by the drain task's step.
LEMMA MainAsked ==
    ASSUME Typed, [Next]_vars
    PROVE  /\ ask'[Main] => ask[Main] \/ \E how \in Ends : EndRun(Main, how)
           /\ ~NoMain(signals) => ~NoMain(signals') \/ QueueStep \/ Crash
<1> DEFINE Goal == /\ ask'[Main] => ask[Main] \/ \E how \in Ends : EndRun(Main, how)
                   /\ ~NoMain(signals) => ~NoMain(signals') \/ QueueStep \/ Crash
<1>0. /\ ask \in [Sessions -> BOOLEAN] /\ Main \in Sessions /\ Main \notin Subs
      /\ signals \in Seq(Signalling)
  BY ConstantsAssumption DEF Typed, TypeOK, TypeGates, Sessions, Signalling
<1>1. ASSUME UNCHANGED signals, ask' = ask \/ ask' = [ask EXCEPT ![Main] = FALSE]
      PROVE  Goal
  BY <1>0, <1>1
<1>2. CASE UNCHANGED vars \/ RecordWakeRunEnd \/ TickHeld \/ UserSends
  BY <1>1, <1>2 DEF vars, RecordWakeRunEnd, TickHeld, UserSends, gates
<1>3. CASE QueueStep
  BY <1>0, <1>3 DEF QueueStep
<1>4. CASE Crash
  BY <1>0, <1>4 DEF Crash
<1>5. ASSUME NEW s \in Subs, RecordRunEnd(s) PROVE Goal
  BY <1>1, <1>5 DEF RecordRunEnd, gates
<1>6. ASSUME NEW s \in Subs, StartSub(s) PROVE Goal
  BY <1>0, <1>6 DEF StartSub
<1>7. ASSUME NEW c \in Lookers, ReadPending(c) \/ AddPending(c) \/ Look(c) PROVE Goal
  BY <1>1, <1>7 DEF ReadPending, AddPending, Look, LookDue, LookAsk, Reserve, Take, Release, gates
<1>8. ASSUME NEW j \in jobs, Deliver(j) PROVE Goal
  BY <1>1, <1>8 DEF Deliver, Check, Ensure, Flight, Send, Keep, Restore, JobRest
<1>9. /\ \A t \in Tasks : Fire(t) => Goal
      /\ \A x \in Tags \cup Subs : TagFails(x) => Goal
      /\ \A w \in waiting : BatchWait(w) => Goal
      /\ \A x \in Subs \cup Tasks : Leave(x) => Goal
  BY <1>1 DEF Fire, TagFails, BatchWait, Leave, gates
<1>10. ASSUME NEW s \in Sessions, NEW kind \in {"run_complete", "closed"}, Signal(kind, s)
       PROVE  ~NoMain(signals) => ~NoMain(signals')
  <2> DEFINE e == [kind |-> kind, of |-> s]
  <2>1. signals' = Append(signals, e) /\ e \in Signalling
    BY <1>10 DEF Signal, Signalling
  <2> HIDE DEF e
  <2>2. \A i \in 1..Len(signals) : i \in 1..Len(signals') /\ signals'[i] = signals[i]
    BY <1>0, <2>1
  <2> QED
    BY <2>2 DEF NoMain
<1>11. ASSUME NEW s \in Sessions, RunnerExit(s) PROVE Goal
  <2>1. UNCHANGED ask /\ Signal("closed", s)
    BY <1>11 DEF RunnerExit, gates
  <2> QED
    BY <1>10, <2>1
<1>12. ASSUME NEW s \in Sessions, NEW how \in Ends, EndRun(s, how) PROVE Goal
  <2>1. ask' = [ask EXCEPT ![s] = how = "asked"] /\ Signal("run_complete", s)
    BY <1>12 DEF EndRun
  <2>2. ~NoMain(signals) => ~NoMain(signals')
    BY <1>10, <2>1
  <2>3. ask'[Main] => ask[Main] \/ s = Main
    BY <1>0, <2>1
  <2> QED
    BY <1>12, <2>2, <2>3
<1> QED
  BY <1>2, <1>3, <1>4, <1>5, <1>6, <1>7, <1>8, <1>9, <1>11, <1>12 DEF Next, Core, Around

\* Past ask_user's check, a question can come only with the end of a run that has the gate.
Quest == /\ \A c \in Lookers : step[c] = "reserve" /\ ask[Main] => ~NoMain(signals)
         /\ QuestionKept

\* So what a look saw of the question holds when it reserves.
LEMMA QuestStep ==
    ASSUME ~Races, Main \notin Mortal, Claim, Solo, Quest, [Next]_vars
    PROVE  Quest'
<1>0. /\ Typed /\ Claimed /\ Claim' /\ Claimed' /\ step \in [Lookers -> Steps] /\ "drain" \in Lookers
  BY ClaimStep, ConstantsAssumption DEF Claim, Typed, TypeOK, TypeStore
<1>1. ASSUME NEW how \in Ends, EndRun(Main, how)
      PROVE  ~NoMain(signals') /\ Takers' = {}
  <2>1. Main \in running /\ step' = step
    BY <1>1 DEF EndRun, lookers
  <2>2. AtRun
    BY <1>0, <2>1 DEF Claimed, AtNobody, AtLook, AtWake, AtSignal, NoRun
  <2>3. open'[Main] /\ Main \notin running' /\ Takers' = {} /\ jobs' = jobs /\ Abroad' = {}
    BY <1>1, <2>1, <2>2 DEF EndRun, AtRun, Takers, Abroad
  <2>4. AtSignal'
    BY <1>0, <2>3 DEF Claimed, AtNobody, AtLook, AtWake, AtRun
  <2>5. LoneMain(signals')
    BY <2>4 DEF AtSignal
  <2>6. ~NoMain(signals')
    BY <2>5 DEF LoneMain, NoMain
  <2> QED
    BY <2>3, <2>6
<1>2. ASSUME NEW c \in Lookers, step'[c] = "reserve", ask'[Main] PROVE ~NoMain(signals')
  <2>1. CASE step[c] = "reserve" /\ ask[Main]
    <3>1. ~NoMain(signals)
      BY <2>1 DEF Quest
    <3>2. ~QueueStep
      <4>1. QueueStep => step["drain"] = "queue"
        BY DEF QueueStep
      <4> QED
        BY <1>0, <2>1, <4>1 DEF Solo, Busy
    <3>3. ~Crash
      BY <1>2 DEF Crash
    <3> QED
      BY <1>0, <3>1, <3>2, <3>3, MainAsked
  <2>2. CASE ~ask[Main]
    BY <1>0, <1>1, <1>2, <2>2, MainAsked
  <2>3. CASE step[c] # "reserve" /\ ask[Main]
    BY <1>0, <1>2, <2>3, PastDue
  <2> QED
    BY <2>1, <2>2, <2>3
<1>3. ASSUME NEW c \in Lookers, step'[c] = "take", ask'[Main] PROVE FALSE
  <2>1. \A how \in Ends : ~EndRun(Main, how)
    <3>1. Takers' # {}
      BY <1>3 DEF Takers
    <3> QED
      BY <1>1, <3>1
  <2>2. ask[Main]
    BY <1>0, <1>3, <2>1, MainAsked
  <2>3. step[c] # "take"
    BY <2>2 DEF Quest, QuestionKept
  <2>4. Reserve(c) /\ MayDispatchNow
    BY <1>0, <1>3, <2>3, PastDue
  <2>5. AtNobody
    BY <1>0, <2>4 DEF MayDispatchNow, Claimed, AtLook, AtWake, AtRun, AtSignal
  <2> QED
    BY <2>2, <2>4, <2>5 DEF Reserve, AtNobody, Quest
<1> QED
  BY <1>2, <1>3 DEF Quest, QuestionKept

(* A wake never takes the gate while a question of the main chat's waits   *)
(* (QuestionKept), as long as no two tasks look at once.                   *)
THEOREM QuestionKeptHolds == ASSUME ~Races, Main \notin Mortal PROVE Spec => []QuestionKept
<1>1. ASSUME Init PROVE Claim /\ Solo /\ Quest
  <2>1. \A c \in Lookers : step[c] = "idle"
    BY <1>1 DEF Init
  <2> QED
    BY <1>1, <2>1, ClaimInit DEF Solo, Quest, QuestionKept, Busy
<1>2. ASSUME Claim, Solo, Quest, [Next]_vars PROVE Claim' /\ Solo' /\ Quest'
  BY <1>2, ClaimStep, SoloStep, QuestStep DEF Claim
<1>3. Quest => QuestionKept
  BY DEF Quest
<1> QED
  BY <1>1, <1>2, <1>3, PTL DEF Spec

-----------------------------------------------------------------------------
(* Where each report is.                                                   *)

\* The steps that move or mark reports, or say what became of them.
Moving == \/ Adds \/ RecordWakeRunEnd \/ Crash
          \/ (\E c \in Lookers : Take(c) \/ LookAsk(c))
          \/ (\E w \in waiting : BatchWait(w))
          \/ (\E j \in jobs : Deliver(j))
          \/ \E how \in Ends : EndRun(Main, how)

\* The others leave them where they are.
LEMMA Unmoved ==
    ASSUME Main \notin Mortal, [Next]_vars, ~Moving
    PROVE  /\ UNCHANGED <<waiting, seen, inFlight, jobs, told, again, noted, dropped, heard, failed>>
           /\ reading' \in {reading, {}}
           /\ UNCHANGED lastWake \/ \E t \in Tasks : Fire(t)
<1> DEFINE Goal == /\ UNCHANGED <<waiting, seen, inFlight, jobs, told, again, noted, dropped, heard, failed>>
                   /\ reading' \in {reading, {}}
                   /\ UNCHANGED lastWake \/ \E t \in Tasks : Fire(t)
<1>1. CASE UNCHANGED vars
  BY <1>1 DEF vars, store, runners, history, db
<1>2. CASE QueueStep
  BY <1>2 DEF QueueStep, Dispatched, store, history, db
<1>3. CASE UserSends
  BY <1>3 DEF UserSends, Dispatched, store, history, db, runners
<1>4. CASE TickHeld
  BY <1>4 DEF TickHeld, store, runners, history, db
<1>5. ASSUME NEW c \in Lookers, ReadPending(c) \/ LookDue(c) \/ Reserve(c) \/ Release(c) PROVE Goal
  BY <1>5 DEF ReadPending, LookDue, Reserve, Release, store, runners, history, db
<1>6. ASSUME NEW t \in Tasks, Fire(t) PROVE Goal
  BY <1>6 DEF Fire, store, runners, history
<1>7. ASSUME NEW x \in Subs \cup Tasks, Leave(x) PROVE Goal
  BY <1>7 DEF Leave, store, runners, history
<1>8. ASSUME NEW s \in Subs, StartSub(s) PROVE Goal
  BY <1>8 DEF StartSub, store, history
<1>9. ASSUME NEW s \in Sessions, RunnerExit(s) PROVE Goal
  <2>1. s # Main
    BY <1>9 DEF RunnerExit
  <2> QED
    BY <1>9, <2>1 DEF RunnerExit, store, db
<1>10. ASSUME NEW s \in Sessions, NEW how \in Ends, EndRun(s, how), s # Main PROVE Goal
  BY <1>10 DEF EndRun, store, db
<1> QED
  BY <1>1, <1>2, <1>3, <1>4, <1>5, <1>6, <1>7, <1>8, <1>9, <1>10
     DEF Next, Core, Around, Look, Moving, Adds

\* No two reports of the one have, or one of each has, the same key.
Distinct(ws)  == \A w, x \in ws : Key(w.rep) = Key(x.rep) => w = x
Apart(us, ws) == \A w \in us, x \in ws : Key(w.rep) # Key(x.rep)

\* A report is in one place, and there once.
Placed == /\ Distinct(waiting) /\ Distinct(inFlight) /\ Apart(inFlight, waiting)
          /\ \A j \in jobs : /\ Distinct(j.load) /\ Apart(j.load, waiting)
                             /\ j.at # "send" => Apart(j.load, inFlight)
          /\ \A i, j \in jobs : i # j => Apart(i.load, j.load)

\* A step does not record a run's end and a tag both: two tasks record them.
LEMMA EndOrTag ==
    ASSUME Typed, NEW s \in Subs, NEW x, RecordRunEnd(s), TagFails(x)
    PROVE  FALSE
<1>1. step \in [Lookers -> Steps] /\ "drain" \in Lookers
  BY ConstantsAssumption DEF Typed, TypeOK, TypeStore
<1>2. step["drain"] = "idle" /\ step'["drain"] = "queue"
  BY <1>1 DEF RecordRunEnd
<1>3. step'["drain"] = step["drain"]
  BY <1>1 DEF TagFails
<1> QED
  BY <1>2, <1>3

\* Two reports that appear with one key are the same.
LEMMA OneAppears ==
    ASSUME Known, NEW r \in Reports, NEW q \in Reports, Appears(r), Appears(q), Key(r) = Key(q)
    PROVE  r = q
<1>1. r.of = q.of /\ r.n = q.n
  BY DEF Key
<1>2. r.of \in Sources /\ r.kind \in Outcomes /\ q.kind \in Outcomes
  BY DEF Reports
<1>3. r.kind = q.kind
  <2>1. CASE r.of \in Subs
    <3>1. ~(RecordRunEnd(r.of) /\ TagFails(r.of))
      BY <2>1, EndOrTag DEF Known
    <3> QED
      BY <1>1, <2>1, <3>1, Appeared
  <2> QED
    BY <1>1, <1>2, <2>1, Appeared DEF Sources
<1> QED
  BY <1>1, <1>3 DEF Reports

\* An addition puts what appears in the store, apart from all that is held.
LEMMA PlacedAdds ==
    ASSUME Known, Placed, Adds
    PROVE  Placed' /\ UNCHANGED <<jobs, inFlight, reading>>
<1>0. /\ Typed /\ waiting \subseteq Waiting /\ seen \subseteq Keys
      /\ UNCHANGED <<jobs, inFlight, reading>>
  BY Addition DEF Known, Typed, TypeOK, TypeStore
<1>1. CASE UNCHANGED <<waiting, seen>>
  BY <1>0, <1>1 DEF Placed
<1>2. ASSUME NEW rs \in SUBSET Reports, NEW held \in {"no", "held", "late"},
             Added(rs, held), \A r \in rs : Key(r) \notin seen => Appears(r)
      PROVE  Placed'
  <2>1. \A w \in waiting' :
          \/ w \in waiting
          \/ \E r \in rs : /\ Key(r) \notin seen /\ w.rep = r
                           /\ w = [rep |-> r, told |-> FALSE, held |-> held]
    BY <1>0, <1>2, AddedIs
  <2>2. \A w \in Undelivered \cup inFlight : Key(w.rep) \in seen
    BY DEF Known, Recorded, Held
  <2>3. Distinct(waiting')
    <3> SUFFICES ASSUME NEW w \in waiting', NEW x \in waiting', Key(w.rep) = Key(x.rep)
                 PROVE  w = x
      BY DEF Distinct
    <3>1. CASE w \in waiting /\ x \in waiting
      BY <3>1 DEF Placed, Distinct
    <3>2. CASE w \in waiting /\ x \notin waiting
      BY <2>1, <2>2, <3>2 DEF Undelivered
    <3>3. CASE w \notin waiting /\ x \in waiting
      BY <2>1, <2>2, <3>3 DEF Undelivered
    <3>4. CASE w \notin waiting /\ x \notin waiting
      <4>1. PICK r \in rs : Key(r) \notin seen /\ w.rep = r /\ w = [rep |-> r, told |-> FALSE, held |-> held]
        BY <2>1, <3>4
      <4>2. PICK q \in rs : Key(q) \notin seen /\ x.rep = q /\ x = [rep |-> q, told |-> FALSE, held |-> held]
        BY <2>1, <3>4
      <4>3. Appears(r) /\ Appears(q)
        BY <1>2, <4>1, <4>2
      <4>4. r = q
        BY <4>1, <4>2, <4>3, OneAppears
      <4> QED
        BY <4>1, <4>2, <4>4
    <3> QED
      BY <3>1, <3>2, <3>3, <3>4
  <2>4. \A us : us \subseteq Undelivered \cup inFlight /\ Apart(us, waiting) => Apart(us, waiting')
    BY <2>1, <2>2 DEF Apart
  <2>5. \A j \in jobs : j.load \subseteq Undelivered
    BY DEF Undelivered, Carried
  <2> QED
    BY <1>0, <2>3, <2>4, <2>5 DEF Placed
<1> QED
  BY <1>0, <1>1, <1>2, Addition

\* Marking what waits, or taking it.
LEMMA PlacedLooks ==
    ASSUME Known, Placed,
           (\E c \in Lookers : Take(c) \/ LookAsk(c)) \/ (\E w \in waiting : BatchWait(w))
    PROVE  Placed'
<1>0. Typed /\ waiting \subseteq Waiting /\ Waiting' = Waiting
  BY DEF Known, Typed, TypeOK, TypeStore, Waiting, Reports
<1>1. ASSUME UNCHANGED <<jobs, inFlight>>, Distinct(waiting'),
             \A w \in waiting' : \E x \in waiting : w.rep = x.rep
      PROVE  Placed'
  <2>1. \A us : Apart(us, waiting) => Apart(us, waiting')
    BY <1>1 DEF Apart
  <2> QED
    BY <1>1, <2>1 DEF Placed
<1>2. ASSUME NEW c \in Lookers, Take(c) PROVE Placed'
  <2>1. CASE waiting = {}
    BY <1>2, <2>1 DEF Take, Placed
  <2>2. CASE waiting # {}
    <3> DEFINE n == [at |-> "check", load |-> waiting]
    <3>1. jobs' = jobs \cup {n} /\ waiting' = {} /\ UNCHANGED inFlight
      BY <1>2, <2>2 DEF Take
    <3>2. n.load = waiting
      OBVIOUS
    <3> HIDE DEF n
    <3>3. \A j \in jobs' : /\ Distinct(j.load) /\ Apart(j.load, {})
                           /\ j.at # "send" => Apart(j.load, inFlight)
      BY <3>1, <3>2 DEF Placed, Apart
    <3>4. \A i, j \in jobs' : i # j => Apart(i.load, j.load)
      BY <3>1, <3>2 DEF Placed, Apart
    <3>5. Distinct({}) /\ Apart(inFlight, {})
      BY DEF Distinct, Apart
    <3> QED
      BY <3>1, <3>3, <3>4, <3>5 DEF Placed
  <2> QED
    BY <2>1, <2>2
<1>3. ASSUME NEW c \in Lookers, LookAsk(c) PROVE Placed'
  <2> DEFINE kept   == waiting \ Due(waiting)
             marked == {[w EXCEPT !.told = TRUE] : w \in kept}
  <2>1. UNCHANGED <<jobs, inFlight>> /\ (waiting' = waiting \/ waiting' = marked)
    BY <1>3 DEF LookAsk
  <2>2. kept \in SUBSET Waiting /\ kept \subseteq waiting
    BY <1>0
  <2> HIDE DEF kept
  <2>3. /\ marked \subseteq Waiting
        /\ \A w \in marked : \E x \in kept : w = [x EXCEPT !.told = TRUE] /\ w.rep = x.rep
    BY <2>2, ToldIs
  <2>4. Distinct(marked)
    <3> SUFFICES ASSUME NEW v \in marked, NEW w \in marked, Key(v.rep) = Key(w.rep) PROVE v = w
      BY DEF Distinct
    <3>1. PICK x \in kept : v = [x EXCEPT !.told = TRUE] /\ v.rep = x.rep
      BY <2>3
    <3>2. PICK y \in kept : w = [y EXCEPT !.told = TRUE] /\ w.rep = y.rep
      BY <2>3
    <3>3. x = y
      BY <2>2, <3>1, <3>2 DEF Placed, Distinct
    <3> QED
      BY <3>1, <3>2, <3>3
  <2> HIDE DEF marked
  <2>5. Distinct(waiting') /\ \A w \in waiting' : \E x \in waiting : w.rep = x.rep
    BY <2>1, <2>2, <2>3, <2>4 DEF Placed
  <2> QED
    BY <1>1, <2>1, <2>5
<1>4. ASSUME NEW v \in waiting, BatchWait(v) PROVE Placed'
  <2> DEFINE late == [v EXCEPT !.held = "late"]
  <2>1. /\ waiting' = (waiting \ {v}) \cup {late} /\ UNCHANGED <<jobs, inFlight>>
    BY <1>4 DEF BatchWait
  <2>2. late.rep = v.rep
    BY <1>0, Marked
  <2> HIDE DEF late
  <2>3. Distinct(waiting')
    BY <2>1, <2>2 DEF Placed, Distinct
  <2>4. \A w \in waiting' : \E x \in waiting : w.rep = x.rep
    BY <2>1, <2>2
  <2> QED
    BY <1>1, <2>1, <2>3, <2>4
<1> QED
  BY <1>2, <1>3, <1>4

\* A wake's steps: what it drops, sends or gives back was its own.
LEMMA PlacedWake ==
    ASSUME Known, Claim, Placed, NEW j \in jobs, Deliver(j)
    PROVE  Placed'
<1>0. /\ Typed /\ jobs \subseteq [at : Stages, load : SUBSET Waiting]
      /\ waiting \subseteq Waiting /\ j.load \subseteq Waiting
      /\ \A us : Distinct(us) => \A ws \in SUBSET us : Distinct(ws)
      /\ \A us, vs : Apart(us, vs) => \A ws \in SUBSET us : Apart(ws, vs) /\ Apart(vs, ws)
      /\ \A us : Apart(us, {}) /\ Apart({}, us)
      /\ Distinct({})
  BY DEF Known, Typed, TypeOK, TypeStore, Distinct, Apart
<1>1. j.at # "restore" => inFlight = IF j.at = "send" THEN j.load ELSE {}
  <2>1. j.at # "restore" => j \in Abroad
    BY DEF Abroad
  <2> QED
    BY <2>1 DEF Claim, Claimed, AtNobody, AtLook, AtWake, AtRun, AtSignal
<1>2. ASSUME UNCHANGED waiting, NEW i, jobs' = (jobs \ {j}) \cup {i}, i.load \subseteq j.load,
             \/ inFlight' = {}
             \/ inFlight' = j.load /\ i.at = "send"
      PROVE  Placed'
  <2>1. \A k \in jobs' : Distinct(k.load) /\ Apart(k.load, waiting)
    BY <1>0, <1>2 DEF Placed
  <2>2. \A k, l \in jobs' : k # l => Apart(k.load, l.load)
    BY <1>0, <1>2 DEF Placed
  <2>3. Distinct(inFlight') /\ Apart(inFlight', waiting)
    BY <1>0, <1>2 DEF Placed
  <2>4. \A k \in jobs' : k.at # "send" => Apart(k.load, inFlight')
    BY <1>0, <1>2 DEF Placed
  <2> QED
    BY <1>2, <2>1, <2>2, <2>3, <2>4 DEF Placed
<1>3. ASSUME UNCHANGED waiting, jobs' = jobs \ {j}, inFlight' = inFlight, inFlight \in {{}, j.load}
      PROVE  Placed'
  <2>1. \A k \in jobs' : k.at # "send" => Apart(k.load, inFlight')
    BY <1>0, <1>3 DEF Placed
  <2> QED
    BY <1>0, <1>3, <2>1 DEF Placed
<1>4. CASE Check(j)
  <2> DEFINE due == {w \in j.load : StillDue(w.rep)}
             i   == [at |-> "ensure", load |-> due]
  <2>1. j.at = "check" /\ UNCHANGED <<waiting, inFlight>>
    BY <1>4 DEF Check
  <2>2. \/ jobs' = jobs \ {j}
        \/ jobs' = (jobs \ {j}) \cup {i}
    BY <1>4 DEF Check
  <2>3. i.load \subseteq j.load
    OBVIOUS
  <2> HIDE DEF i
  <2> QED
    BY <1>1, <1>2, <1>3, <2>1, <2>2, <2>3
<1>5. ASSUME NEW at \in Stages, Moves(j, at), UNCHANGED waiting,
             inFlight' = {} \/ (inFlight' = j.load /\ at = "send")
      PROVE  Placed'
  <2> DEFINE i == [j EXCEPT !.at = at]
  <2>1. i.at = at /\ i.load = j.load /\ jobs' = (jobs \ {j}) \cup {i}
    BY <1>0, <1>5 DEF Moves
  <2> HIDE DEF i
  <2> QED
    BY <1>2, <1>5, <2>1
<1>6. CASE Ensure(j)
  BY <1>1, <1>5, <1>6 DEF Ensure, Stages
<1>7. CASE Flight(j)
  BY <1>1, <1>5, <1>7 DEF Flight, Stages
<1>8. CASE Keep(j)
  BY <1>1, <1>5, <1>8 DEF Keep, Stages
<1>9. CASE Send(j)
  <2>1. j.at = "send" /\ inFlight = j.load /\ UNCHANGED waiting
    BY <1>1, <1>9 DEF Send
  <2>2. \/ jobs' = jobs \ {j} /\ inFlight' = inFlight
        \/ Moves(j, "keep") /\ inFlight' = {}
    BY <1>9 DEF Send
  <2> QED
    BY <1>3, <1>5, <2>1, <2>2 DEF Stages
<1>10. CASE Restore(j)
  <2> DEFINE kept == j.load \ Due(j.load)
             some == Restored(kept)
             back == {[w EXCEPT !.told = TRUE] : w \in some}
  <2>1. j.at = "restore" /\ jobs' = jobs \ {j} /\ waiting' = waiting \cup back /\ UNCHANGED inFlight
    BY <1>10 DEF Restore
  <2>2. kept \in SUBSET Waiting /\ kept \subseteq j.load
    BY <1>0
  <2> HIDE DEF kept
  <2>3. /\ some \in SUBSET Waiting
        /\ \A w \in some : \E x \in kept : w = [x EXCEPT !.held = "no"] /\ w.rep = x.rep
    BY <2>2, RestoredIs
  <2> HIDE DEF some
  <2>4. \A w \in back : \E x \in some : w = [x EXCEPT !.told = TRUE] /\ w.rep = x.rep
    BY <2>3, ToldIs
  <2> HIDE DEF back
  <2>5. \A w \in back : \E x \in j.load : w.rep = x.rep
    BY <2>2, <2>3, <2>4
  <2>6. Distinct(back)
    <3> SUFFICES ASSUME NEW v \in back, NEW w \in back, Key(v.rep) = Key(w.rep) PROVE v = w
      BY DEF Distinct
    <3>1. PICK x \in some : v = [x EXCEPT !.told = TRUE] /\ v.rep = x.rep
      BY <2>4
    <3>2. PICK y \in some : w = [y EXCEPT !.told = TRUE] /\ w.rep = y.rep
      BY <2>4
    <3>3. PICK a \in kept : x = [a EXCEPT !.held = "no"] /\ x.rep = a.rep
      BY <2>3
    <3>4. PICK b \in kept : y = [b EXCEPT !.held = "no"] /\ y.rep = b.rep
      BY <2>3
    <3>5. a = b
      BY <2>2, <3>1, <3>2, <3>3, <3>4 DEF Placed, Distinct
    <3> QED
      BY <3>1, <3>2, <3>3, <3>4, <3>5
  <2>7. \A us : Apart(us, j.load) => Apart(us, back)
    BY <2>5 DEF Apart
  <2>8. \A us : Apart(us, waiting) /\ Apart(us, back) => Apart(us, waiting')
    BY <2>1 DEF Apart
  <2>9. Apart(inFlight, back) /\ Apart(waiting, back)
    BY <1>0, <2>1, <2>7 DEF Placed
  <2>10. Distinct(waiting')
    BY <2>1, <2>6, <2>9 DEF Placed, Distinct, Apart
  <2>11. \A k \in jobs' : Apart(k.load, waiting')
    BY <2>1, <2>7, <2>8 DEF Placed
  <2> QED
    BY <2>1, <2>8, <2>9, <2>10, <2>11 DEF Placed
<1> QED
  BY <1>4, <1>6, <1>7, <1>8, <1>9, <1>10 DEF Deliver

\* Every step keeps each report in one place.
LEMMA PlacedStep ==
    ASSUME Main \notin Mortal, Known, Claim, Placed, [Next]_vars
    PROVE  Placed'
<1>1. CASE ~Moving
  BY <1>1, Unmoved DEF Placed
<1>2. CASE RecordWakeRunEnd
  <2>1. inFlight' = {} /\ UNCHANGED <<waiting, jobs>>
    BY <1>2 DEF RecordWakeRunEnd
  <2>2. Distinct({}) /\ Apart({}, waiting) /\ \A j \in jobs : Apart(j.load, {})
    BY DEF Distinct, Apart
  <2> QED
    BY <2>1, <2>2 DEF Placed
<1>3. CASE Crash
  <2>1. inFlight' = {} /\ waiting' = {} /\ jobs' = {}
    BY <1>3 DEF Crash
  <2>2. Distinct({}) /\ Apart({}, {})
    BY DEF Distinct, Apart
  <2> QED
    BY <2>1, <2>2 DEF Placed
<1>4. ASSUME NEW how \in Ends, EndRun(Main, how) PROVE Placed'
  BY <1>4 DEF EndRun, store, Placed
<1> QED
  BY <1>1, <1>2, <1>3, <1>4, PlacedAdds, PlacedLooks, PlacedWake DEF Moving

\* Everything is in one place when Core starts, and what is placed is in one place.
LEMMA PlacedIs == (Init => Placed) /\ (Known /\ Placed => OnePlace)
<1>1. Init => Placed
  BY DEF Init, Placed, Distinct, Apart
<1>2. ASSUME Known, Placed PROVE OnePlace
  <2>1. \A us, ws : Apart(us, ws) => KeysOf(us) \cap KeysOf(ws) = {} /\ KeysOf(ws) \cap KeysOf(us) = {}
    BY DEF Apart, KeysOf
  <2>2. Apart(Carried, waiting)
    BY <1>2 DEF Placed, Carried, Apart
  <2> QED
    BY <1>2, <2>1, <2>2 DEF OnePlace, Placed
<1> QED
  BY <1>1, <1>2

-----------------------------------------------------------------------------
(* What the desktop is told.                                               *)

\* A report held is marked as told when the desktop was told of it, and only then.
TellOnce == /\ told \subseteq seen /\ again = {}
            /\ \A w \in Undelivered \cup inFlight :
                  w.rep.of \in Subs => (w.told = TRUE <=> Key(w.rep) \in told)

\* What is held is well formed, and of the kind its source makes.
LEMMA HeldTypes ==
    ASSUME Known
    PROVE  /\ Undelivered \cup inFlight \subseteq Waiting /\ Undelivered \cup inFlight \subseteq Held
           /\ waiting \subseteq Undelivered /\ \A j \in jobs : j.load \subseteq Undelivered
           /\ told \subseteq Keys /\ again \subseteq Keys /\ noted \subseteq Keys /\ seen \subseteq Keys
           /\ heard \subseteq Keys /\ failed \subseteq Keys
           /\ fired \in [Tasks -> Nat]
           /\ lastWake \in [Tasks -> {"none", "pending", "delivered", "notified"}]
BY CarriedType DEF Known, Typed, TypeOK, TypeStore, TypeHistory, TypeDB, Held, Undelivered, Carried

\* Telling the desktop of what is held tells it nothing twice.
LEMMA Telling ==
    ASSUME Known, TellOnce, NEW us \in SUBSET (Undelivered \cup inFlight), Announced(us)
    PROVE  /\ again' = {} /\ told' \subseteq seen /\ told \subseteq told'
           /\ \A w \in us : w.rep.of \in Subs => Key(w.rep) \in told'
           /\ \A ws : Apart(ws, us) => \A w \in ws : Key(w.rep) \in told' => Key(w.rep) \in told
<1>1. us \in SUBSET Waiting /\ told \subseteq Keys /\ again \subseteq Keys
  BY HeldTypes
<1>2. /\ told \subseteq told'
      /\ \A k \in told' : k \in told \/ \E w \in us : k = Key(w.rep) /\ ~w.told /\ w.rep.of \in Subs
      /\ \A w \in us : ~w.told /\ w.rep.of \in Subs => Key(w.rep) \in told'
      /\ \A k \in again' : \/ k \in again
                           \/ k \in told /\ \E w \in us : k = Key(w.rep) /\ ~w.told /\ w.rep.of \in Subs
  BY <1>1, AnnouncedIs
<1>3. \A w \in us : w.rep.of \in Subs => (w.told = TRUE <=> Key(w.rep) \in told)
  BY DEF TellOnce
<1>4. \A w \in us : w.told \in BOOLEAN /\ Key(w.rep) \in seen
  BY <1>1, HeldTypes DEF Waiting, Known, Recorded
<1>5. again' = {}
  BY <1>2, <1>3, <1>4 DEF TellOnce
<1>6. told' \subseteq seen
  BY <1>2, <1>4 DEF TellOnce
<1>7. \A w \in us : w.rep.of \in Subs => Key(w.rep) \in told'
  BY <1>2, <1>3, <1>4
<1>8. \A ws : Apart(ws, us) => \A w \in ws : Key(w.rep) \in told' => Key(w.rep) \in told
  BY <1>2 DEF Apart
<1> QED
  BY <1>2, <1>5, <1>6, <1>7, <1>8

\* Every step keeps what the desktop was told and what is marked together.
LEMMA TellStep ==
    ASSUME Main \notin Mortal, Known, Claim, Placed, TellOnce, [Next]_vars
    PROVE  TellOnce'
<1> DEFINE All == Undelivered \cup inFlight
<1>0. /\ Typed /\ All \subseteq Waiting /\ waiting \subseteq All /\ seen \subseteq Keys
      /\ \A j \in jobs : j.load \subseteq All
      /\ \A w \in All : w.rep.of \in Subs => w.rep.kind # "due"
  <2>1. \A w \in Held : w.rep.of \in Subs => w.rep.kind # "due"
    BY ConstantsAssumption DEF Known, Kinds
  <2> QED
    BY <2>1, HeldTypes DEF Known
<1>1. ASSUME UNCHANGED <<told, again>>, seen \subseteq seen',
             \A w \in All' : \E x \in All : w.rep = x.rep /\ w.told = x.told
      PROVE  TellOnce'
  BY <1>1 DEF TellOnce
<1>2. CASE ~Moving
  BY <1>1, <1>2, Unmoved DEF Undelivered, Carried
<1>3. CASE Adds
  <2>1. UNCHANGED <<inFlight, jobs, told, again>>
    BY <1>0, <1>3, Addition DEF Adds, RecordRunEnd, TagFails, AddPending, history
  <2>2. CASE UNCHANGED <<waiting, seen>>
    BY <1>1, <2>1, <2>2 DEF Undelivered, Carried
  <2>3. ASSUME NEW rs \in SUBSET Reports, NEW held \in {"no", "held", "late"}, Added(rs, held)
        PROVE  TellOnce'
    <3>1. /\ seen \subseteq seen'
          /\ \A w \in waiting' : \/ w \in waiting
                                 \/ Key(w.rep) \notin seen /\ w.told = FALSE
      <4>1. waiting \subseteq Waiting
        BY <1>0
      <4>2. /\ seen \subseteq seen'
            /\ \A w \in waiting' :
                 \/ w \in waiting
                 \/ \E r \in rs : /\ Key(r) \notin seen
                                  /\ w = [rep |-> r, told |-> FALSE, held |-> held] /\ w.rep = r
        BY <1>0, <2>3, <4>1, AddedIs
      <4> QED
        BY <4>2
    <3>2. Undelivered' = waiting' \cup Carried
      BY <2>1 DEF Undelivered, Carried
    <3>3. \A w \in All' : \/ w \in All
                          \/ Key(w.rep) \notin seen /\ w.told = FALSE
      BY <2>1, <3>1, <3>2 DEF Undelivered
    <3>4. told' \subseteq seen' /\ again' = {}
      BY <2>1, <3>1 DEF TellOnce
    <3>5. \A w \in All' : w.rep.of \in Subs => (w.told = TRUE <=> Key(w.rep) \in told)
      BY <3>3 DEF TellOnce
    <3> QED
      BY <2>1, <3>4, <3>5 DEF TellOnce
  <2> QED
    BY <1>0, <1>3, <2>2, <2>3, Addition
<1>4. ASSUME NEW c \in Lookers, Take(c) PROVE TellOnce'
  <2>1. UNCHANGED <<seen, inFlight, told, again>>
    BY <1>4 DEF Take, history
  <2>2. Undelivered' = Undelivered
    <3> DEFINE n == [at |-> "check", load |-> waiting]
    <3>1. n.load = waiting
      OBVIOUS
    <3>2. /\ waiting' = {}
          /\ \/ jobs' = jobs \cup {n}
             \/ jobs' = jobs /\ waiting = {}
      BY <1>4 DEF Take
    <3> HIDE DEF n
    <3> QED
      BY <3>1, <3>2 DEF Undelivered, Carried
  <2> QED
    BY <1>1, <2>1, <2>2
<1>5. ASSUME NEW v \in waiting, BatchWait(v) PROVE TellOnce'
  <2> DEFINE late == [v EXCEPT !.held = "late"]
  <2>1. /\ waiting' = (waiting \ {v}) \cup {late}
        /\ UNCHANGED <<jobs, inFlight, seen, told, again>>
    BY <1>5 DEF BatchWait, history
  <2>2. late.rep = v.rep /\ late.told = v.told
    BY <1>0, Marked
  <2> HIDE DEF late
  <2>3. \A w \in All' : \E x \in All : w.rep = x.rep /\ w.told = x.told
    BY <2>1, <2>2 DEF Undelivered, Carried
  <2> QED
    BY <1>1, <2>1, <2>3
<1>6. ASSUME NEW c \in Lookers, LookAsk(c) PROVE TellOnce'
  <2> DEFINE kept   == waiting \ Due(waiting)
             marked == {[w EXCEPT !.told = TRUE] : w \in kept}
  <2>1. /\ UNCHANGED <<seen, inFlight, jobs>>
        /\ \/ UNCHANGED <<waiting, told, again>>
           \/ waiting' = marked /\ Announced(waiting)
    BY <1>6 DEF LookAsk
  <2>2. CASE UNCHANGED <<waiting, told, again>>
    BY <1>1, <2>1, <2>2 DEF Undelivered, Carried
  <2>3. CASE waiting' = marked /\ Announced(waiting)
    <3>1. kept \in SUBSET Waiting /\ kept \subseteq waiting
      BY <1>0
    <3> HIDE DEF kept
    <3>2. /\ \A w \in marked : w.told = TRUE
          /\ \A w \in marked : \E x \in kept : w.rep = x.rep
      <4>1. \A w \in marked : w.told = TRUE /\ \E x \in kept : w.rep = x.rep /\ w.held = x.held
        BY <3>1, ToldIs
      <4> HIDE DEF marked
      <4> QED
        BY <4>1
    <3> HIDE DEF marked
    <3>3. /\ again' = {} /\ told' \subseteq seen /\ told \subseteq told'
          /\ \A w \in waiting : w.rep.of \in Subs => Key(w.rep) \in told'
          /\ \A ws : Apart(ws, waiting) => \A w \in ws : Key(w.rep) \in told' => Key(w.rep) \in told
      <4>1. waiting \in SUBSET (Undelivered \cup inFlight)
        BY <1>0
      <4> QED
        BY <2>3, <4>1, Telling
    <3>4. \A w \in waiting' : w.rep.of \in Subs => (w.told = TRUE <=> Key(w.rep) \in told')
      BY <2>3, <3>1, <3>2, <3>3
    <3>5. Apart(Carried, waiting) /\ Apart(inFlight, waiting)
      BY DEF Placed, Carried, Apart
    <3>6. \A w \in Carried \cup inFlight : w.rep.of \in Subs => (w.told = TRUE <=> Key(w.rep) \in told')
      BY <3>3, <3>5 DEF TellOnce, Undelivered
    <3>7. All' = waiting' \cup Carried \cup inFlight
      BY <2>1 DEF Undelivered, Carried
    <3> QED
      BY <2>1, <3>3, <3>4, <3>6, <3>7 DEF TellOnce
  <2> QED
    BY <2>1, <2>2, <2>3
<1>7. CASE RecordWakeRunEnd
  <2>1. /\ UNCHANGED <<seen, waiting, jobs>> /\ inFlight' = {}
        /\ UNCHANGED <<told, again>> \/ Announced(inFlight)
    BY <1>7 DEF RecordWakeRunEnd
  <2>2. CASE UNCHANGED <<told, again>>
    BY <1>1, <2>1, <2>2 DEF Undelivered, Carried
  <2>3. CASE Announced(inFlight)
    <3>1. Abroad = {}
      <4>1. ~NoMain(signals)
        <5>1. signals # <<>> /\ Head(signals).of = Main /\ signals \in Seq(Signalling)
          BY <1>0, <1>7 DEF RecordWakeRunEnd, Typed, TypeOK, TypeGates, Signalling
        <5> QED
          BY <5>1, MainTails
      <4> QED
        BY <4>1 DEF Claim, Claimed, AtNobody, AtLook, AtWake, AtRun, AtSignal
    <3>2. \A j \in jobs : j.at # "send"
      BY <3>1 DEF Abroad
    <3>3. Apart(Undelivered, inFlight)
      <4>1. Apart(Carried, inFlight)
        BY <3>2 DEF Placed, Carried, Apart
      <4>2. Apart(waiting, inFlight)
        BY DEF Placed, Apart
      <4> QED
        BY <4>1, <4>2 DEF Apart, Undelivered
    <3>4. /\ again' = {} /\ told' \subseteq seen /\ told \subseteq told'
          /\ \A w \in Undelivered : Key(w.rep) \in told' => Key(w.rep) \in told
      BY <2>3, <3>3, Telling
    <3>5. All' = Undelivered
      BY <2>1 DEF Undelivered, Carried
    <3> QED
      BY <2>1, <3>4, <3>5 DEF TellOnce
  <2> QED
    BY <2>1, <2>2, <2>3
<1>8. CASE Crash
  <2>1. told' = {} /\ again' = {} /\ waiting' = {} /\ jobs' = {} /\ inFlight' = {} /\ seen' = {}
    BY <1>8 DEF Crash
  <2> QED
    BY <2>1 DEF TellOnce, Undelivered, Carried
<1>9. ASSUME NEW how \in Ends, EndRun(Main, how) PROVE TellOnce'
  <2>1. UNCHANGED <<store, jobs, told, again>>
    BY <1>9 DEF EndRun
  <2> QED
    BY <1>1, <2>1 DEF store, Undelivered, Carried
<1>10. ASSUME NEW j \in jobs, Deliver(j), ~Restore(j) PROVE TellOnce'
  <2>1. UNCHANGED <<seen, waiting, told, again>>
    BY <1>10 DEF Deliver, Check, Ensure, Flight, Send, Keep, JobRest
  <2>2. Carried' \subseteq Carried /\ inFlight' \in {inFlight, j.load, {}} /\ j.load \subseteq Carried
    BY <1>0, <1>10, Carries
  <2>3. All' \subseteq All
    BY <2>1, <2>2 DEF Undelivered
  <2> QED
    BY <1>1, <2>1, <2>3
<1>11. ASSUME NEW j \in jobs, Restore(j) PROVE TellOnce'
  <2> DEFINE kept == j.load \ Due(j.load)
             some == Restored(kept)
             back == {[w EXCEPT !.told = TRUE] : w \in some}
  <2>1. /\ j.at = "restore" /\ jobs' = jobs \ {j} /\ waiting' = waiting \cup back
        /\ UNCHANGED <<inFlight, seen>> /\ Announced(kept)
    BY <1>11 DEF Restore, JobRest
  <2>2. kept \in SUBSET Waiting /\ kept \subseteq j.load
    BY <1>0
  <2> HIDE DEF kept
  <2>3. some \in SUBSET Waiting /\ \A w \in some : \E x \in kept : w.rep = x.rep
    BY <2>2, RestoredIs
  <2> HIDE DEF some
  <2>4. \A w \in back : w.told = TRUE /\ \E x \in some : w.rep = x.rep /\ w.held = x.held
    BY <2>3, ToldIs
  <2> HIDE DEF back
  <2>5. \A w \in back : w.told = TRUE /\ \E x \in kept : w.rep = x.rep
    BY <2>3, <2>4
  <2>6. kept \in SUBSET All
    BY <1>0, <2>2
  <2>7. /\ again' = {} /\ told' \subseteq seen /\ told \subseteq told'
        /\ \A w \in kept : w.rep.of \in Subs => Key(w.rep) \in told'
        /\ \A ws : Apart(ws, kept) => \A w \in ws : Key(w.rep) \in told' => Key(w.rep) \in told
    BY <2>1, <2>6, Telling
  <2>8. \A w \in back : w.rep.of \in Subs => (w.told = TRUE <=> Key(w.rep) \in told')
    BY <2>5, <2>7
  <2> DEFINE others == UNION {k.load : k \in jobs'}
             rest == waiting \cup others \cup inFlight
  <2> HIDE DEF others
  <2>9. others = Carried' /\ (\A w \in others : \E k \in jobs' : w \in k.load)
    BY DEF others, Carried
  <2>10. rest \subseteq All
    BY <2>1, <2>9 DEF Undelivered, Carried
  <2>11. Apart(rest, kept)
    <3>1. Apart(waiting, kept) /\ Apart(inFlight, kept)
      BY <2>1, <2>2 DEF Placed, Apart
    <3>2. Apart(others, kept)
      BY <2>1, <2>2, <2>9 DEF Placed, Apart
    <3> QED
      BY <3>1, <3>2 DEF Apart
  <2>12. All' = rest \cup back
    BY <2>1, <2>9 DEF Undelivered
  <2> HIDE DEF rest
  <2>13. \A w \in rest : w.rep.of \in Subs => (w.told = TRUE <=> Key(w.rep) \in told')
    BY <2>7, <2>10, <2>11 DEF TellOnce
  <2> QED
    BY <2>1, <2>7, <2>8, <2>12, <2>13 DEF TellOnce
<1> QED
  BY <1>2, <1>3, <1>4, <1>5, <1>6, <1>7, <1>8, <1>9, <1>10, <1>11 DEF Moving

\* What the proofs about one report rest on.
Ground == Known /\ Claim /\ Placed

\* It holds when Core starts and after every step.
LEMMA GroundHolds ==
    ASSUME Main \notin Mortal
    PROVE  (Init => Ground) /\ (Ground /\ [Next]_vars => Ground')
BY KnownInit, ClaimInit, PlacedIs, KnownStep, ClaimStep, PlacedStep DEF Ground

(* The desktop is told at most once that a report was not delivered        *)
(* (ToldOnce), whatever waits, fails, races or restarts.                   *)
THEOREM ToldOnceHolds == ASSUME Main \notin Mortal PROVE Spec => []ToldOnce
<1>1. Init => TellOnce
  BY DEF Init, TellOnce, Undelivered, Carried
<1>2. Ground /\ TellOnce /\ [Next]_vars => TellOnce'
  BY TellStep DEF Ground
<1>3. TellOnce => ToldOnce
  BY DEF TellOnce, ToldOnce
<1> QED
  BY <1>1, <1>2, <1>3, GroundHolds, PTL DEF Spec

-----------------------------------------------------------------------------
(* Nothing is forgotten.                                                   *)

\* A tag of a reply that started nothing is recorded once.
TagsFirst == \A k \in seen : k[1] \in Tags => k[2] = 0

\* A step records no tag's second report.
LEMMA TagsStep == ASSUME Known, TagsFirst, [Next]_vars PROVE TagsFirst'
<1>0. Typed
  BY DEF Known
<1>1. \A r \in Reports : Appears(r) /\ r.of \in Tags => r.n = 0
  BY Appeared
<1>2. \A r \in Reports : Key(r)[1] = r.of /\ Key(r)[2] = r.n
  BY DEF Key
<1>3. Crash => seen' = {}
  BY DEF Crash
<1> QED
  BY <1>0, <1>1, <1>2, <1>3, Records DEF TagsFirst

\* What is kept.
LEMMA KeptIs == \A k : k \in Kept <=> \E w \in Undelivered \cup inFlight : k = Key(w.rep)
BY DEF Kept, KeysOf, Undelivered

\* A step that records nothing, and keeps the reports or says what became of them,
\* forgets nothing.
LEMMA KeepsAll ==
    ASSUME NothingForgotten, seen' = seen,
           heard \subseteq heard', failed \subseteq failed', told \subseteq told',
           dropped \subseteq dropped',
           \A w \in Undelivered \cup inFlight : \/ w.rep.of \in Tasks
                                                \/ Key(w.rep) \in Kept' \cup heard' \cup failed'
                                                                        \cup told' \cup dropped'
    PROVE  NothingForgotten'
<1>1. \A k \in seen : k[1] \notin Tasks /\ k \in Kept =>
          k \in Kept' \cup heard' \cup failed' \cup told' \cup dropped'
  BY KeptIs DEF Key
<1>2. \A k : Newer(k) => Newer(k)'
  BY DEF Newer
<1> QED
  BY <1>1, <1>2 DEF NothingForgotten

\* What an addition replaces has a newer report.
LEMMA Replaced ==
    ASSUME Known, TagsFirst, NEW r \in Reports, Appears(r), NEW w \in Held, w.rep.of = r.of,
           w.rep \in Reports, r.of \notin Tasks
    PROVE  Newer(Key(w.rep))'
<1>1. /\ Key(r) \notin seen /\ Key(r) \in seen' /\ Key(w.rep) \in seen
      /\ Key(r) = <<r.of, r.n>> /\ Key(w.rep) = <<r.of, w.rep.n>>
      /\ r.n \in Nat /\ w.rep.n \in Nat /\ r.of \in Subs \cup Tags
  BY DEF Known, Recorded, Key, Appears, Reports, Sources
<1>2. CASE r.of \in Subs
  <2>1. r.n = turn[r.of]
    BY <1>2, Appeared
  <2>2. w.rep.n <= turn[r.of] /\ w.rep.n # r.n
    BY <1>1, <1>2 DEF Known, Numbered
  <2>3. r.n > w.rep.n
    BY <1>1, <2>1, <2>2
  <2> QED
    BY <1>1, <2>3 DEF Newer
<1>3. CASE r.of \in Tags
  <2>1. r.n = 0
    BY <1>3, Appeared
  <2>2. w.rep.n = 0
    BY <1>1, <1>3 DEF TagsFirst
  <2> QED
    BY <1>1, <2>1, <2>2
<1> QED
  BY <1>1, <1>2, <1>3

\* An addition forgets nothing.
LEMMA AddsKeep ==
    ASSUME Known, TagsFirst, NothingForgotten, Adds
    PROVE  NothingForgotten'
<1>0. /\ Typed /\ UNCHANGED <<inFlight, jobs>> /\ waiting \subseteq Waiting /\ seen \subseteq Keys
      /\ UNCHANGED <<heard, failed, told, dropped>>
  BY Addition DEF Known, Typed, TypeOK, TypeStore, Adds, RecordRunEnd, TagFails, AddPending, history
<1>1. CASE UNCHANGED <<waiting, seen>>
  BY <1>0, <1>1 DEF NothingForgotten, Newer, Kept, Carried
<1>2. ASSUME NEW rs \in SUBSET Reports, NEW held \in {"no", "held", "late"},
             Added(rs, held), \A r \in rs : Key(r) \notin seen => Appears(r)
      PROVE  NothingForgotten'
  <2>1. /\ seen \subseteq seen'
        /\ \A k \in seen' : k \in seen \/ \E r \in rs : k = Key(r) /\ Key(r) \notin seen
        /\ \A w \in waiting : \/ w \in waiting'
                              \/ \E r \in rs : Key(r) \notin seen /\ r.of = w.rep.of
        /\ \A r \in rs : Key(r) \in seen \/ \E w \in waiting' : w.rep = r
    BY <1>0, <1>2, AddedIs
  <2>2. /\ Undelivered' = waiting' \cup Carried /\ Undelivered = waiting \cup Carried
        /\ inFlight' = inFlight
    BY <1>0 DEF Undelivered, Carried
  <2>3. ASSUME NEW w \in waiting, w \notin waiting', w.rep.of \notin Tasks
        PROVE  Newer(Key(w.rep))'
    <3>1. PICK r \in rs : Key(r) \notin seen /\ r.of = w.rep.of
      BY <2>1, <2>3
    <3>2. r \in Reports /\ Appears(r)
      BY <1>2, <3>1
    <3>3. w.rep \in Reports /\ w \in Held
      BY <1>0, <2>2 DEF Waiting, Held
    <3> QED
      BY <2>3, <3>1, <3>2, <3>3, Replaced
  <2>4. ASSUME NEW k \in seen, k[1] \notin Tasks, k \in Kept
        PROVE  k \in Kept' \/ Newer(k)'
    <3>1. PICK w \in Undelivered \cup inFlight : k = Key(w.rep)
      BY <2>4, KeptIs
    <3>2. CASE w \in waiting /\ w \notin waiting'
      <4>1. w.rep.of \notin Tasks
        BY <2>4, <3>1 DEF Key
      <4> QED
        BY <2>3, <3>1, <3>2, <4>1
    <3>3. CASE w \in Undelivered' \cup inFlight'
      BY <3>1, <3>3 DEF Kept, KeysOf, Undelivered
    <3> QED
      BY <2>2, <3>2, <3>3
  <2>5. \A k : Newer(k) => Newer(k)'
    BY <2>1 DEF Newer
  <2>6. \A k \in seen' : k \in seen \/ k \in Kept'
    <3>1. \A r \in rs : Key(r) \in seen \/ Key(r) \in Kept'
      BY <2>1 DEF Kept, KeysOf
    <3> QED
      BY <2>1, <3>1
  <2> QED
    BY <1>0, <2>4, <2>5, <2>6 DEF NothingForgotten
<1> QED
  BY <1>0, <1>1, <1>2, Addition

\* A wake's step keeps what is held, but for what it checks and drops or gives back.
LEMMA WakeCarries ==
    ASSUME Known, Claim, NEW j \in jobs, Deliver(j)
    PROVE  \A w \in Undelivered \cup inFlight :
              \/ w \in Undelivered' \cup inFlight'
              \/ Check(j) /\ w \in j.load /\ ~StillDue(w.rep)
              \/ Restore(j) /\ w \in j.load
<1> DEFINE All  == Undelivered \cup inFlight
           Goal == \A w \in All : \/ w \in Undelivered' \cup inFlight'
                                  \/ Check(j) /\ w \in j.load /\ ~StillDue(w.rep)
                                  \/ Restore(j) /\ w \in j.load
<1>1. j.at # "restore" => inFlight = IF j.at = "send" THEN j.load ELSE {}
  <2>1. j.at # "restore" => j \in Abroad
    BY DEF Abroad
  <2> QED
    BY <2>1 DEF Claim, Claimed, AtNobody, AtLook, AtWake, AtRun, AtSignal
<1>2. \A w \in All : \/ w \in waiting \/ w \in inFlight \/ w \in j.load
                     \/ \E k \in jobs : k # j /\ w \in k.load
  BY DEF Undelivered, Carried
<1>3. ASSUME NEW at \in Stages, Moves(j, at), UNCHANGED waiting, inFlight \subseteq j.load
      PROVE  Goal
  <2> DEFINE i == [j EXCEPT !.at = at]
  <2>1. i.load = j.load /\ jobs' = (jobs \ {j}) \cup {i}
    BY <1>3 DEF Moves, Known, Typed, TypeOK, TypeStore
  <2> HIDE DEF i
  <2> QED
    BY <1>2, <1>3, <2>1 DEF Undelivered, Carried
<1>4. CASE Ensure(j)
  BY <1>1, <1>3, <1>4 DEF Ensure, Stages
<1>5. CASE Flight(j)
  BY <1>1, <1>3, <1>5 DEF Flight, Stages
<1>6. CASE Keep(j)
  BY <1>1, <1>3, <1>6 DEF Keep, Stages
<1>7. CASE Send(j)
  <2>1. j.at = "send" /\ UNCHANGED waiting /\ inFlight = j.load
    BY <1>1, <1>7 DEF Send
  <2>2. CASE Moves(j, "keep")
    BY <1>3, <2>1, <2>2 DEF Stages
  <2>3. CASE jobs' = jobs \ {j} /\ UNCHANGED inFlight
    BY <1>2, <2>1, <2>3 DEF Undelivered, Carried
  <2> QED
    BY <1>7, <2>2, <2>3 DEF Send
<1>8. CASE Check(j)
  <2> DEFINE due == {w \in j.load : StillDue(w.rep)}
             i   == [at |-> "ensure", load |-> due]
  <2>1. /\ UNCHANGED <<waiting, inFlight>>
        /\ \/ jobs' = jobs \ {j} /\ due = {}
           \/ jobs' = (jobs \ {j}) \cup {i}
    BY <1>8 DEF Check
  <2>2. i.load = due /\ \A w \in j.load : w \in due \/ ~StillDue(w.rep)
    OBVIOUS
  <2> HIDE DEF i, due
  <2>3. \A w \in All : w \in Undelivered' \cup inFlight' \/ w \in j.load \ due
    BY <1>2, <2>1, <2>2 DEF Undelivered, Carried
  <2> QED
    BY <1>8, <2>2, <2>3
<1>9. CASE Restore(j)
  <2>1. jobs' = jobs \ {j} /\ waiting \subseteq waiting' /\ UNCHANGED inFlight
    BY <1>9 DEF Restore
  <2>2. \A w \in All : w \in Undelivered' \cup inFlight' \/ w \in j.load
    BY <1>2, <2>1 DEF Undelivered, Carried
  <2> QED
    BY <1>9, <2>2
<1> QED
  BY <1>4, <1>5, <1>6, <1>7, <1>8, <1>9 DEF Deliver

\* A wake's step keeps what it carries, or says what became of it.
LEMMA WakeKeeps ==
    ASSUME Known, Claim, TellOnce, NothingForgotten, NEW j \in jobs, Deliver(j)
    PROVE  NothingForgotten'
<1> DEFINE All   == Undelivered \cup inFlight
           Fate(w) == Key(w.rep) \in Kept' \cup heard' \cup failed' \cup told' \cup dropped'
<1>0. /\ j.load \subseteq Waiting /\ j.load \subseteq All
      /\ seen' = seen /\ heard' = heard /\ failed' = failed
      /\ \A w \in j.load : w.rep.kind = "due" => w.rep.of \in Tasks
  <2>1. All \subseteq Held /\ j.load \subseteq All /\ j.load \subseteq Waiting
    BY HeldTypes DEF Known, Typed, TypeOK, TypeStore
  <2>2. seen' = seen /\ heard' = heard /\ failed' = failed
    BY DEF Deliver, Check, Ensure, Flight, Send, Keep, Restore, JobRest
  <2> QED
    BY <2>1, <2>2 DEF Known, Kinds
<1>1. \A w \in Undelivered' \cup inFlight' : Fate(w)
  BY DEF Kept, KeysOf, Undelivered
<1>2. CASE Check(j)
  <2> DEFINE due == {w \in j.load : StillDue(w.rep)}
  <2>1. UNCHANGED told /\ dropped' = dropped \cup KeysOf(j.load \ due)
    BY <1>2 DEF Check
  <2>2. \A w \in j.load : ~StillDue(w.rep) => Key(w.rep) \in dropped'
    BY <2>1 DEF KeysOf
  <2>3. ~Restore(j)
    BY <1>2 DEF Check, Restore
  <2>4. \A w \in All : Fate(w)
    BY <1>1, <2>2, <2>3, WakeCarries
  <2> QED
    BY <1>0, <2>1, <2>4, KeepsAll
<1>3. CASE Restore(j)
  <2> DEFINE kept == j.load \ Due(j.load)
             some == Restored(kept)
             back == {[w EXCEPT !.told = TRUE] : w \in some}
  <2>1. /\ j.at = "restore" /\ waiting' = waiting \cup back /\ UNCHANGED dropped /\ Announced(kept)
    BY <1>3 DEF Restore
  <2>2. kept \in SUBSET Waiting /\ kept \subseteq j.load
    BY <1>0
  <2>3. \A w \in j.load : w \in kept \/ w.rep.of \in Tasks
    BY <1>0 DEF Due
  <2>4. \A w \in j.load : w.rep.of \in Sources
    BY <1>0, Stored
  <2> HIDE DEF kept
  <2>5. told \subseteq told' /\ \A w \in kept : w.rep.of \in Subs => Key(w.rep) \in told'
    <3>1. kept \in SUBSET (Undelivered \cup inFlight)
      BY <1>0, <2>2
    <3> QED
      BY <2>1, <3>1, Telling
  <2>6. /\ some \in SUBSET Waiting
        /\ \A x \in kept : x.rep.of \in Subs \/ \E w \in some : w.rep = x.rep /\ w.told = x.told
    BY <2>2, RestoredIs
  <2> HIDE DEF some
  <2>7. \A x \in some : \E w \in back : w.told /\ w.rep = x.rep /\ w.held = x.held
    BY <2>6, ToldIs
  <2> HIDE DEF back
  <2>8. \A w \in back : Fate(w)
    BY <1>1, <2>1 DEF Undelivered
  <2>9. \A w \in kept : w.rep.of \in Subs \/ Fate(w)
    <3> SUFFICES ASSUME NEW w \in kept, w.rep.of \notin Subs PROVE Fate(w)
      OBVIOUS
    <3>1. PICK x \in some : x.rep = w.rep
      BY <2>6
    <3>2. PICK y \in back : y.rep = x.rep
      BY <2>7
    <3> QED
      BY <2>8, <3>1, <3>2
  <2>10. ~Check(j)
    BY <2>1 DEF Check
  <2>11. \A w \in All : w \in Undelivered' \cup inFlight' \/ w \in j.load
    BY <2>10, WakeCarries
  <2>12. \A w \in All : w.rep.of \in Tasks \/ Fate(w)
    BY <1>1, <2>3, <2>5, <2>9, <2>11
  <2> QED
    BY <1>0, <2>1, <2>5, <2>12, KeepsAll
<1>4. CASE ~Check(j) /\ ~Restore(j)
  <2>1. UNCHANGED <<dropped, told>>
    BY <1>4 DEF Deliver, Ensure, Flight, Send, Keep
  <2>2. \A w \in All : Fate(w)
    BY <1>1, <1>4, WakeCarries
  <2> QED
    BY <1>0, <2>1, <2>2, KeepsAll
<1> QED
  BY <1>2, <1>3, <1>4

\* Every step keeps what was recorded, or says what became of it.
LEMMA KeepStep ==
    ASSUME Main \notin Mortal, Ground, TagsFirst, TellOnce, NothingForgotten, [Next]_vars
    PROVE  NothingForgotten'
<1> DEFINE All   == Undelivered \cup inFlight
           Fate(w) == Key(w.rep) \in Kept' \cup heard' \cup failed' \cup told' \cup dropped'
<1>0. /\ Known /\ Typed /\ waiting \subseteq All /\ waiting \subseteq Waiting
      /\ \A w \in waiting : w.rep.kind = "due" => w.rep.of \in Tasks
      /\ \A w \in Undelivered' \cup inFlight' : Fate(w)
  BY HeldTypes DEF Ground, Known, Kinds, Kept, KeysOf, Undelivered
<1>1. ASSUME UNCHANGED <<waiting, jobs, inFlight, seen, dropped>>,
             heard \subseteq heard', failed \subseteq failed', told \subseteq told'
      PROVE  NothingForgotten'
  <2>1. \A w \in All : Fate(w)
    BY <1>0, <1>1 DEF Undelivered, Carried
  <2> QED
    BY <1>1, <2>1, KeepsAll
<1>2. CASE ~Moving
  BY <1>1, <1>2, Unmoved
<1>3. ASSUME NEW how \in Ends, EndRun(Main, how) PROVE NothingForgotten'
  BY <1>1, <1>3 DEF EndRun, store
<1>4. CASE Crash
  BY <1>4 DEF Crash, NothingForgotten
<1>5. ASSUME NEW c \in Lookers, Take(c) PROVE NothingForgotten'
  <2>1. UNCHANGED <<seen, inFlight, heard, failed, told, dropped>>
    BY <1>5 DEF Take, history
  <2>2. Undelivered' = Undelivered
    <3> DEFINE n == [at |-> "check", load |-> waiting]
    <3>1. n.load = waiting
      OBVIOUS
    <3>2. /\ waiting' = {}
          /\ \/ jobs' = jobs \cup {n}
             \/ jobs' = jobs /\ waiting = {}
      BY <1>5 DEF Take
    <3> HIDE DEF n
    <3> QED
      BY <3>1, <3>2 DEF Undelivered, Carried
  <2>3. \A w \in All : Fate(w)
    BY <1>0, <2>1, <2>2
  <2> QED
    BY <2>1, <2>3, KeepsAll
<1>6. ASSUME NEW v \in waiting, BatchWait(v) PROVE NothingForgotten'
  <2> DEFINE late == [v EXCEPT !.held = "late"]
  <2>1. /\ waiting' = (waiting \ {v}) \cup {late}
        /\ UNCHANGED <<jobs, inFlight, seen, heard, failed, told, dropped>>
    BY <1>6 DEF BatchWait, history
  <2>2. late.rep = v.rep
    BY <1>0, Marked
  <2> HIDE DEF late
  <2>3. \A w \in All : w = v \/ w \in Undelivered' \cup inFlight'
    BY <2>1 DEF Undelivered, Carried
  <2>4. late \in Undelivered'
    BY <2>1 DEF Undelivered
  <2>5. \A w \in All : Fate(w)
    BY <1>0, <2>2, <2>3, <2>4
  <2> QED
    BY <2>1, <2>5, KeepsAll
<1>7. ASSUME NEW c \in Lookers, LookAsk(c) PROVE NothingForgotten'
  <2> DEFINE kept   == waiting \ Due(waiting)
             marked == {[w EXCEPT !.told = TRUE] : w \in kept}
  <2>1. /\ UNCHANGED <<seen, inFlight, jobs, heard, failed, dropped>>
        /\ \/ UNCHANGED <<waiting, told>>
           \/ waiting' = marked /\ told \subseteq told'
    BY <1>7 DEF LookAsk, Announced
  <2>2. CASE UNCHANGED <<waiting, told>>
    BY <1>1, <2>1, <2>2
  <2>3. CASE waiting' = marked /\ told \subseteq told'
    <3>1. kept \in SUBSET Waiting /\ \A w \in waiting : w \in kept \/ w.rep.of \in Tasks
      BY <1>0 DEF Due
    <3> HIDE DEF kept
    <3>2. \A x \in kept : \E w \in marked : w.told /\ w.rep = x.rep /\ w.held = x.held
      BY <3>1, ToldIs
    <3> HIDE DEF marked
    <3>3. \A w \in kept : Fate(w)
      <4>1. \A w \in marked : Fate(w)
        BY <1>0, <2>3 DEF Undelivered
      <4> QED
        BY <3>2, <4>1
    <3>4. \A w \in All : w \in waiting \/ Fate(w)
      BY <1>0, <2>1 DEF Undelivered, Carried
    <3>5. \A w \in All : w.rep.of \in Tasks \/ Fate(w)
      BY <3>1, <3>3, <3>4
    <3> QED
      BY <2>1, <2>3, <3>5, KeepsAll
  <2> QED
    BY <2>1, <2>2, <2>3
<1>8. CASE RecordWakeRunEnd
  <2>1. /\ UNCHANGED <<seen, waiting, jobs, heard, failed, dropped>> /\ told \subseteq told'
        /\ signals # <<>> /\ Head(signals).of = Main /\ step["drain"] = "idle"
    BY <1>8 DEF RecordWakeRunEnd, Announced
  <2>2. AtSignal
    <3>1. signals \in Seq(Signalling)
      BY <1>0 DEF Typed, TypeOK, TypeGates, Signalling
    <3>2. ~NoMain(signals)
      BY <2>1, <3>1, MainTails
    <3> QED
      BY <3>2 DEF Ground, Claim, Claimed, AtNobody, AtLook, AtWake, AtRun
  <2>3. KeysOf(inFlight) \subseteq heard \cup failed
    BY <2>2 DEF AtSignal
  <2>4. \A w \in inFlight : Fate(w)
    BY <2>1, <2>3 DEF KeysOf
  <2>5. \A w \in All : w \in inFlight \/ Fate(w)
    BY <1>0, <2>1 DEF Undelivered, Carried
  <2> QED
    BY <2>1, <2>4, <2>5, KeepsAll
<1> QED
  BY <1>0, <1>2, <1>3, <1>4, <1>5, <1>6, <1>7, <1>8, AddsKeep, WakeKeeps DEF Moving, Ground

(* What was recorded is held, and held once (HeldOnce): nothing is         *)
(* forgotten, and no report is in two places.                              *)
THEOREM HeldOnceHolds == ASSUME Main \notin Mortal PROVE Spec => []HeldOnce
<1> DEFINE I == Ground /\ TagsFirst /\ TellOnce /\ NothingForgotten
<1>1. Init => I
  <2>1. Init => TagsFirst /\ TellOnce /\ NothingForgotten
    BY DEF Init, TagsFirst, TellOnce, NothingForgotten, Undelivered, Carried
  <2> QED
    BY <2>1, GroundHolds
<1>2. I /\ [Next]_vars => I'
  BY GroundHolds, TagsStep, TellStep, KeepStep DEF Ground
<1>3. I => HeldOnce
  BY PlacedIs DEF HeldOnce, Ground
<1> QED
  BY <1>1, <1>2, <1>3, PTL DEF Spec

-----------------------------------------------------------------------------
(* What became of the fires.                                               *)

\* The end of the main chat's turn is taken as the turn left it.
LEMMA TurnTaken ==
    ASSUME Claim, RecordWakeRunEnd
    PROVE  /\ AtSignal
           /\ IF TurnFailed(Head(signals)) THEN KeysOf(inFlight) \subseteq failed
                                           ELSE KeysOf(inFlight) \subseteq heard
<1>0. /\ signals \in Seq(Signalling) /\ signals # <<>> /\ Head(signals).of = Main
      /\ exit[Main] \in {"none", "done", "asked", "failed", "stopped"}
  BY DEF RecordWakeRunEnd, Claim, Typed, TypeOK, TypeGates, Signalling, Sessions
<1>1. Head(signals).kind = "run_complete" /\ ~NoMain(signals)
  BY <1>0, MainTails DEF Claim
<1>2. AtSignal
  BY <1>1 DEF Claim, Claimed, AtNobody, AtLook, AtWake, AtRun
<1>3. TurnFailed(Head(signals)) <=> exit[Main] = "failed"
  BY <1>0, <1>1, <1>2 DEF TurnFailed, RunEnd, AtSignal
<1> QED
  BY <1>2, <1>3 DEF AtSignal

\* The fires of what is held that a step notes or settles.
LEMMA Noting ==
    ASSUME Known, NEW us \in SUBSET (Undelivered \cup inFlight)
    PROVE  /\ \A t \in Settles(us) : <<t, fired[t]>> \in KeysOf(us)
           /\ Returned(us) => /\ noted \subseteq noted'
                              /\ \A k \in noted' : k \in noted
                                    \/ \E w \in us : w.rep.kind = "due" /\ k = Key(w.rep)
                              /\ \A t \in Tasks : lastWake'[t] = "delivered" => lastWake[t] = "delivered"
           /\ Delivered(us) => \A t \in Tasks : lastWake'[t] = "delivered" =>
                                  lastWake[t] = "delivered" \/ <<t, fired[t]>> \in KeysOf(us)
<1>0. us \in SUBSET Waiting /\ fired \in [Tasks -> Nat] /\ noted \subseteq Keys
      /\ lastWake \in [Tasks -> {"none", "pending", "delivered", "notified"}]
  BY HeldTypes
<1>1. ASSUME NEW t \in Settles(us)
      PROVE  \E w \in us : w.rep.kind = "due" /\ <<t, fired[t]>> = Key(w.rep)
  <2>1. PICK w \in us : w.rep.kind = "due" /\ t = w.rep.of /\ fired[t] = w.rep.n
    BY <1>0, SettlesIs
  <2> QED
    BY <2>1 DEF Key
<1>2. \A t \in Settles(us) : <<t, fired[t]>> \in KeysOf(us)
  BY <1>1 DEF KeysOf
<1>3. ASSUME Returned(us)
      PROVE  /\ noted \subseteq noted'
             /\ \A k \in noted' : k \in noted \/ \E w \in us : w.rep.kind = "due" /\ k = Key(w.rep)
             /\ \A t \in Tasks : lastWake'[t] = "delivered" => lastWake[t] = "delivered"
  <2>1. /\ \A t \in Tasks : lastWake'[t] = lastWake[t]
                \/ (t \in Settles(us) /\ lastWake'[t] \in {"none", "notified"})
        /\ noted \subseteq noted'
        /\ \A k \in noted' : k \in noted \/ \E t \in Settles(us) : k = <<t, fired[t]>>
    BY <1>0, <1>3, ReturnedIs
  <2>2. \A t \in Tasks : lastWake'[t] = "delivered" => lastWake[t] = "delivered"
    BY <2>1
  <2> QED
    BY <1>1, <2>1, <2>2
<1>4. ASSUME Delivered(us), NEW t \in Tasks, lastWake'[t] = "delivered"
      PROVE  lastWake[t] = "delivered" \/ <<t, fired[t]>> \in KeysOf(us)
  BY <1>2, <1>4 DEF Delivered
<1> QED
  BY <1>2, <1>3, <1>4

\* A step settles a fire as delivered only when a turn that did not fail read it.
LEMMA SettleStep ==
    ASSUME Main \notin Mortal, Ground, SettledTruly, [Next]_vars
    PROVE  SettledTruly'
<1>0. /\ Known /\ Typed /\ waiting \subseteq Undelivered /\ fired \in [Tasks -> Nat]
      /\ \A j \in jobs : j.load \subseteq Undelivered
      /\ lastWake \in [Tasks -> {"none", "pending", "delivered", "notified"}]
  BY HeldTypes DEF Ground, Known
<1>1. ASSUME heard \subseteq heard', UNCHANGED fired,
             \A t \in Tasks : lastWake'[t] = "delivered" =>
                                  lastWake[t] = "delivered" \/ <<t, fired[t]>> \in heard'
      PROVE  SettledTruly'
  BY <1>1 DEF SettledTruly
<1>2. ASSUME NEW t \in Tasks, Fire(t) PROVE SettledTruly'
  <2>1. /\ fired' = [fired EXCEPT ![t] = @ + 1] /\ lastWake' = [lastWake EXCEPT ![t] = "pending"]
        /\ heard' = heard
    BY <1>2 DEF Fire, history
  <2>2. \A u \in Tasks : u # t => fired'[u] = fired[u] /\ lastWake'[u] = lastWake[u]
    BY <1>0, <2>1
  <2>3. lastWake'[t] = "pending"
    BY <1>0, <2>1
  <2> QED
    BY <2>1, <2>2, <2>3 DEF SettledTruly
<1>3. ASSUME \A t \in Tasks : ~Fire(t) PROVE UNCHANGED fired
  BY <1>0, <1>3, Database
<1>4. CASE ~Moving
  BY <1>1, <1>2, <1>3, <1>4, Unmoved
<1>5. CASE Adds
  <2>1. UNCHANGED <<fired, lastWake, heard>>
    BY <1>5 DEF Adds, RecordRunEnd, TagFails, AddPending, db, history
  <2> QED
    BY <1>1, <2>1
<1>6. CASE RecordWakeRunEnd
  <2>1. UNCHANGED <<fired, heard>> /\ inFlight \in SUBSET (Undelivered \cup inFlight)
    BY <1>6 DEF RecordWakeRunEnd
  <2>2. CASE TurnFailed(Head(signals))
    <3>1. Returned(inFlight)
      BY <1>6, <2>2 DEF RecordWakeRunEnd
    <3> QED
      BY <1>0, <1>1, <2>1, <3>1, Noting
  <2>3. CASE ~TurnFailed(Head(signals))
    <3>1. Delivered(inFlight)
      BY <1>6, <2>3 DEF RecordWakeRunEnd
    <3>2. KeysOf(inFlight) \subseteq heard
      BY <1>6, <2>3, TurnTaken DEF Ground
    <3>3. \A t \in Tasks : lastWake'[t] = "delivered" =>
                                  lastWake[t] = "delivered" \/ <<t, fired[t]>> \in KeysOf(inFlight)
      BY <1>0, <2>1, <3>1, Noting
    <3> QED
      BY <1>1, <2>1, <3>2, <3>3
  <2> QED
    BY <2>2, <2>3
<1>7. CASE Crash
  BY <1>1, <1>7 DEF Crash, db
<1>8. ASSUME NEW c \in Lookers, Take(c) PROVE SettledTruly'
  BY <1>1, <1>8 DEF Take, db, history
<1>9. ASSUME NEW c \in Lookers, LookAsk(c) PROVE SettledTruly'
  <2>1. UNCHANGED <<fired, heard>> /\ (UNCHANGED lastWake \/ Returned(waiting))
    BY <1>9 DEF LookAsk
  <2>2. waiting \in SUBSET (Undelivered \cup inFlight)
    BY <1>0
  <2> QED
    BY <1>0, <1>1, <2>1, <2>2, Noting
<1>10. ASSUME NEW w \in waiting, BatchWait(w) PROVE SettledTruly'
  BY <1>1, <1>10 DEF BatchWait, db, history
<1>11. ASSUME NEW j \in jobs, Deliver(j) PROVE SettledTruly'
  <2>1. UNCHANGED <<fired, heard>> /\ (UNCHANGED lastWake \/ Returned(j.load))
    BY <1>11 DEF Deliver, Check, Ensure, Flight, Send, Keep, Restore, JobRest
  <2>2. j.load \in SUBSET (Undelivered \cup inFlight)
    BY <1>0
  <2> QED
    BY <1>0, <1>1, <2>1, <2>2, Noting
<1>12. ASSUME NEW how \in Ends, EndRun(Main, how) PROVE SettledTruly'
  BY <1>1, <1>12 DEF EndRun, db
<1> QED
  BY <1>4, <1>5, <1>6, <1>7, <1>8, <1>9, <1>10, <1>11, <1>12 DEF Moving

(* A fire settled as delivered was read by a turn that did not fail        *)
(* (SettledTruly), also when Core restarts in between.                     *)
THEOREM SettledTrulyHolds == ASSUME Main \notin Mortal PROVE Spec => []SettledTruly
<1>1. Init => SettledTruly
  BY DEF Init, SettledTruly
<1>2. Ground /\ SettledTruly /\ [Next]_vars => SettledTruly'
  BY SettleStep
<1> QED
  BY <1>1, <1>2, GroundHolds, PTL DEF Spec

-----------------------------------------------------------------------------
(* What a turn has read is not read again, nor shown to the user, as long  *)
(* as Core does not restart: a restart forgets what was read.              *)

Fresh == /\ crashes = 0
         /\ KeysOf(Undelivered \cup reading) \cap (heard \cup failed) = {}
         /\ heard \cap failed = {} /\ heard \cup failed \cup noted \subseteq seen
         /\ noted \cap (KeysOf(Held) \cup heard) = {}

\* A step that ends no turn and shows only what it takes away from what is held.
LEMMA FreshStays ==
    ASSUME Known, Fresh, UNCHANGED <<crashes, heard, failed>>, seen \subseteq seen',
           \A w \in Undelivered' \cup reading' :
              (\E x \in Undelivered \cup reading : Key(w.rep) = Key(x.rep)) \/ Key(w.rep) \notin seen,
           \A w \in inFlight' : \E x \in Held : Key(w.rep) = Key(x.rep),
           \A k \in noted' : k \in noted \/ (k \in KeysOf(Undelivered) /\ k \notin KeysOf(Held'))
    PROVE  Fresh'
<1>1. KeysOf(Undelivered') \cup KeysOf(reading') \subseteq KeysOf(Undelivered \cup reading) \cup {k \in KeysOf(Held') : k \notin seen}
  BY DEF KeysOf, Held
<1>2. \A us, ws : KeysOf(us \cup ws) = KeysOf(us) \cup KeysOf(ws)
  BY DEF KeysOf
<1>3. KeysOf(inFlight') \subseteq KeysOf(Held)
  BY DEF KeysOf
<1>4. KeysOf(Undelivered' \cup reading') \cap (heard \cup failed) = {}
  BY <1>1, <1>2 DEF Fresh
<1>5. KeysOf(Undelivered) \subseteq seen /\ KeysOf(Undelivered) \cap heard = {}
  <2>1. KeysOf(Undelivered) \subseteq seen
    BY DEF KeysOf, Known, Recorded, Held
  <2> QED
    BY <1>2, <2>1 DEF Fresh
<1>6. noted \cap KeysOf(Held') = {}
  <2>1. KeysOf(Undelivered \cup reading) \subseteq KeysOf(Held)
    BY DEF KeysOf, Held
  <2>2. KeysOf(Held') \subseteq KeysOf(Held) \cup {k \in KeysOf(Held') : k \notin seen}
    <3>1. KeysOf(Held') = KeysOf(Undelivered') \cup KeysOf(inFlight') \cup KeysOf(reading')
      BY DEF KeysOf, Held
    <3> QED
      BY <1>1, <1>3, <2>1, <3>1
  <2> QED
    BY <2>2 DEF Fresh
<1>7. noted' \cap (KeysOf(Held') \cup heard) = {}
  BY <1>5, <1>6 DEF Fresh
<1>8. heard \cup failed \cup noted' \subseteq seen'
  BY <1>5 DEF Fresh
<1> QED
  BY <1>4, <1>7, <1>8 DEF Fresh

\* Only a restart counts as one.
LEMMA Restarts == ASSUME Next, ~Crash PROVE UNCHANGED crashes
<1>1. RecordWakeRunEnd \/ QueueStep \/ TickHeld \/ UserSends => UNCHANGED crashes
  BY DEF RecordWakeRunEnd, QueueStep, TickHeld, UserSends, counts
<1>2. \A s \in Subs : RecordRunEnd(s) \/ StartSub(s) => UNCHANGED crashes
  BY DEF RecordRunEnd, StartSub, counts
<1>3. \A c \in Lookers : ReadPending(c) \/ AddPending(c) \/ Look(c) => UNCHANGED crashes
  BY DEF ReadPending, AddPending, Look, LookDue, LookAsk, Reserve, Take, Release, counts
<1>4. \A j \in jobs : Deliver(j) => UNCHANGED crashes
  BY DEF Deliver, Check, Ensure, Flight, Send, Keep, Restore, JobRest, counts
<1>5. /\ \A t \in Tasks : Fire(t) => UNCHANGED crashes
      /\ \A x \in Tags \cup Subs : TagFails(x) => UNCHANGED crashes
      /\ \A w \in waiting : BatchWait(w) => UNCHANGED crashes
      /\ \A x \in Subs \cup Tasks : Leave(x) => UNCHANGED crashes
      /\ \A s \in Sessions : RunnerExit(s) \/ (\E how \in Ends : EndRun(s, how)) => UNCHANGED crashes
  BY DEF Fire, TagFails, BatchWait, Leave, RunnerExit, EndRun, counts
<1> QED
  BY <1>1, <1>2, <1>3, <1>4, <1>5 DEF Next, Core, Around

\* Every step keeps it.
LEMMA FreshStep ==
    ASSUME Main \notin Mortal, Crashes = 0, Ground, Fresh, [Next]_vars
    PROVE  Fresh'
<1> DEFINE Same == \A w \in Undelivered' \cup reading' :
              (\E x \in Undelivered \cup reading : Key(w.rep) = Key(x.rep)) \/ Key(w.rep) \notin seen
<1>0. /\ Known /\ Typed /\ waiting \subseteq Undelivered /\ waiting \subseteq Waiting
      /\ \A j \in jobs : j.load \subseteq Undelivered /\ j.load \subseteq Waiting
      /\ inFlight \subseteq Held /\ Undelivered \subseteq Held
      /\ waiting \in SUBSET (Undelivered \cup inFlight) /\ inFlight \in SUBSET (Undelivered \cup inFlight)
  BY HeldTypes DEF Ground, Known, Held, Typed, TypeOK, TypeStore
<1>1. UNCHANGED crashes /\ ~Crash
  <2>1. ~Crash
    BY DEF Crash, Fresh
  <2> QED
    BY <2>1, Restarts DEF vars, counts
<1>2. reading \subseteq inFlight
  BY DEF Ground, Claim, Claimed, AtNobody, AtLook, AtWake, AtRun, AtSignal, NoRun
<1>3. ASSUME UNCHANGED <<waiting, seen, inFlight, jobs, noted, heard, failed>>,
             reading' \in {reading, {}}
      PROVE  Fresh'
  <2>1. Undelivered' = Undelivered
    BY <1>3 DEF Undelivered, Carried
  <2> QED
    BY <1>0, <1>1, <1>3, <2>1, FreshStays
<1>4. CASE ~Moving
  BY <1>3, <1>4, Unmoved
<1>5. CASE Adds
  <2>1. UNCHANGED <<inFlight, jobs, reading, noted, heard, failed>>
    BY <1>0, <1>5, Addition DEF Adds, RecordRunEnd, TagFails, AddPending, history
  <2>2. CASE UNCHANGED <<waiting, seen>>
    BY <1>3, <2>1, <2>2
  <2>3. ASSUME NEW rs \in SUBSET Reports, NEW held \in {"no", "held", "late"}, Added(rs, held)
        PROVE  Fresh'
    <3>1. seen \subseteq seen' /\ \A w \in waiting' : w \in waiting \/ Key(w.rep) \notin seen
      <4>1. seen \subseteq Keys
        BY HeldTypes DEF Ground
      <4>2. /\ seen \subseteq seen'
            /\ \A w \in waiting' :
                 \/ w \in waiting
                 \/ \E r \in rs : /\ Key(r) \notin seen
                                  /\ w = [rep |-> r, told |-> FALSE, held |-> held] /\ w.rep = r
        BY <1>0, <2>3, <4>1, AddedIs
      <4> QED
        BY <4>2
    <3>2. Undelivered' = waiting' \cup Carried /\ Undelivered = waiting \cup Carried
      BY <2>1 DEF Undelivered, Carried
    <3>3. Same
      BY <2>1, <3>1, <3>2
    <3> QED
      BY <1>0, <1>1, <2>1, <3>1, <3>3, FreshStays
  <2> QED
    BY <1>0, <1>5, <2>2, <2>3, Addition
<1>6. ASSUME NEW c \in Lookers, Take(c) PROVE Fresh'
  <2>1. UNCHANGED <<seen, inFlight, reading, noted, heard, failed>>
    BY <1>6 DEF Take, history, runners
  <2>2. Undelivered' = Undelivered
    <3> DEFINE n == [at |-> "check", load |-> waiting]
    <3>1. n.load = waiting
      OBVIOUS
    <3>2. /\ waiting' = {}
          /\ \/ jobs' = jobs \cup {n}
             \/ jobs' = jobs /\ waiting = {}
      BY <1>6 DEF Take
    <3> HIDE DEF n
    <3> QED
      BY <3>1, <3>2 DEF Undelivered, Carried
  <2> QED
    BY <1>0, <1>1, <2>1, <2>2, FreshStays
<1>7. ASSUME NEW v \in waiting, BatchWait(v) PROVE Fresh'
  <2> DEFINE late == [v EXCEPT !.held = "late"]
  <2>1. /\ waiting' = (waiting \ {v}) \cup {late}
        /\ UNCHANGED <<jobs, inFlight, seen, reading, noted, heard, failed>>
    BY <1>7 DEF BatchWait, history, runners
  <2>2. late.rep = v.rep
    BY <1>0, Marked
  <2> HIDE DEF late
  <2>3. Same
    BY <1>0, <2>1, <2>2 DEF Undelivered, Carried
  <2> QED
    BY <1>0, <1>1, <2>1, <2>3, FreshStays
<1>8. ASSUME NEW c \in Lookers, LookAsk(c) PROVE Fresh'
  <2> DEFINE kept   == waiting \ Due(waiting)
             marked == {[w EXCEPT !.told = TRUE] : w \in kept}
  <2>1. /\ UNCHANGED <<seen, inFlight, jobs, reading, heard, failed>>
        /\ \/ UNCHANGED <<waiting, noted>>
           \/ waiting' = marked /\ Returned(waiting)
    BY <1>8 DEF LookAsk, runners
  <2>2. CASE UNCHANGED <<waiting, noted>>
    BY <1>3, <2>1, <2>2
  <2>3. CASE waiting' = marked /\ Returned(waiting)
    <3>1. kept \in SUBSET Waiting /\ kept \subseteq waiting /\ (\A w \in kept : w.rep.kind # "due")
      BY <1>0 DEF Due
    <3> HIDE DEF kept
    <3>2. \A w \in marked : \E x \in kept : w = [x EXCEPT !.told = TRUE] /\ w.rep = x.rep
      BY <3>1, ToldIs
    <3> HIDE DEF marked
    <3>3. Undelivered' = waiting' \cup Carried /\ Undelivered = waiting \cup Carried
      BY <2>1 DEF Undelivered, Carried
    <3>4. Same
      BY <2>1, <2>3, <3>1, <3>2, <3>3
    <3>5. ASSUME NEW w \in waiting, w.rep.kind = "due" PROVE Key(w.rep) \notin KeysOf(Held')
      <4> SUFFICES ASSUME NEW x \in Held', Key(w.rep) = Key(x.rep) PROVE FALSE
        BY DEF KeysOf
      <4>1. CASE x \in marked
        <5>1. PICK y \in kept : x.rep = y.rep
          BY <3>2, <4>1
        <5>2. y = w
          BY <3>1, <5>1 DEF Ground, Placed, Distinct
        <5> QED
          BY <3>1, <3>5, <5>2
      <4>2. CASE x \in Carried
        BY <4>2 DEF Carried, Ground, Placed, Apart
      <4>3. CASE x \in inFlight
        BY <4>3 DEF Ground, Placed, Apart
      <4> QED
        BY <1>2, <2>1, <2>3, <3>3, <4>1, <4>2, <4>3 DEF Held
    <3>6. \A k \in noted' : k \in noted \/ (k \in KeysOf(Undelivered) /\ k \notin KeysOf(Held'))
      <4>1. \A k \in noted' : k \in noted \/ \E w \in waiting : w.rep.kind = "due" /\ k = Key(w.rep)
        BY <1>0, <2>3, Noting
      <4>2. \A w \in waiting : Key(w.rep) \in KeysOf(Undelivered)
        BY <1>0 DEF KeysOf
      <4> QED
        BY <3>5, <4>1, <4>2
    <3> QED
      BY <1>0, <1>1, <2>1, <3>4, <3>6, FreshStays
  <2> QED
    BY <2>1, <2>2, <2>3
<1>9. CASE RecordWakeRunEnd
  <2>1. /\ UNCHANGED <<seen, waiting, jobs, reading, heard, failed>> /\ inFlight' = {}
        /\ IF TurnFailed(Head(signals)) THEN Returned(inFlight) ELSE UNCHANGED noted
    BY <1>9 DEF RecordWakeRunEnd, runners, Delivered
  <2>2. /\ AtSignal /\ reading = {}
        /\ TurnFailed(Head(signals)) => KeysOf(inFlight) \subseteq failed
    BY <1>9, TurnTaken DEF Ground, AtSignal, NoRun
  <2>3. Undelivered' = Undelivered /\ Held' = Undelivered
    BY <2>1, <2>2 DEF Undelivered, Carried, Held
  <2>4. \A k \in noted' : k \in noted \/ (k \in KeysOf(inFlight) /\ k \in failed)
    <3>1. CASE TurnFailed(Head(signals))
      <4>1. Returned(inFlight)
        BY <2>1, <3>1
      <4>2. \A k \in noted' : k \in noted \/ \E w \in inFlight : w.rep.kind = "due" /\ k = Key(w.rep)
        BY <1>0, <4>1, Noting
      <4> QED
        BY <2>2, <3>1, <4>2 DEF KeysOf
    <3>2. CASE ~TurnFailed(Head(signals))
      BY <2>1, <3>2
    <3> QED
      BY <3>1, <3>2
  <2>5. KeysOf(Undelivered) \subseteq KeysOf(Undelivered \cup reading) /\ KeysOf(Undelivered) \subseteq KeysOf(Held)
    BY DEF KeysOf, Held
  <2>6. noted' \cap (KeysOf(Undelivered) \cup heard) = {}
    BY <2>4, <2>5 DEF Fresh
  <2>7. heard \cup failed \cup noted' \subseteq seen
    BY <2>4 DEF Fresh
  <2>8. Undelivered' \cup reading' = Undelivered \cup reading
    BY <2>1, <2>3
  <2> QED
    BY <1>1, <2>1, <2>3, <2>6, <2>7, <2>8 DEF Fresh
<1>10. ASSUME NEW how \in Ends, EndRun(Main, how) PROVE Fresh'
  <2>1. /\ UNCHANGED <<store, jobs, noted>> /\ reading' = {} /\ Main \in running
        /\ \/ heard' = heard \cup KeysOf(reading) /\ failed' = failed
           \/ heard' = heard /\ failed' = failed \cup KeysOf(reading)
    BY <1>10 DEF EndRun
  <2>2. AtRun
    BY <2>1 DEF Ground, Claim, Claimed, AtNobody, AtLook, AtWake, AtRun, AtSignal, NoRun
  <2>3. reading = inFlight /\ \A j \in jobs : j.at # "send"
    BY <2>2 DEF AtRun, Abroad
  <2>4. Apart(Undelivered, inFlight)
    <3>1. Apart(Carried, inFlight)
      BY <2>3 DEF Ground, Placed, Carried, Apart
    <3>2. Apart(waiting, inFlight)
      BY DEF Ground, Placed, Apart
    <3> QED
      BY <3>1, <3>2 DEF Apart, Undelivered
  <2>5. KeysOf(Undelivered) \cap KeysOf(reading) = {}
    BY <2>3, <2>4 DEF Apart, KeysOf
  <2>6. /\ KeysOf(reading) \subseteq KeysOf(Undelivered \cup reading)
        /\ KeysOf(Undelivered) \subseteq KeysOf(Undelivered \cup reading)
        /\ KeysOf(reading) \subseteq KeysOf(Held) /\ KeysOf(Undelivered \cup inFlight) \subseteq KeysOf(Held)
    BY DEF KeysOf, Held
  <2>7. KeysOf(reading) \subseteq seen
    BY <1>0 DEF KeysOf, Known, Recorded, Held
  <2>8. /\ Undelivered' = Undelivered /\ Undelivered' \cup reading' = Undelivered
        /\ Held' = Undelivered \cup inFlight /\ seen' = seen
    BY <2>1 DEF Undelivered, Carried, Held, store
  <2>9. KeysOf(Undelivered) \cap (heard' \cup failed') = {} /\ heard' \cap failed' = {}
    BY <2>1, <2>5, <2>6 DEF Fresh
  <2>10. heard' \cup failed' \cup noted' \subseteq seen' /\ noted' \cap (KeysOf(Held') \cup heard') = {}
    BY <2>1, <2>6, <2>7, <2>8 DEF Fresh
  <2> QED
    BY <1>1, <2>8, <2>9, <2>10 DEF Fresh
<1>11. ASSUME NEW j \in jobs, Deliver(j), ~Restore(j) PROVE Fresh'
  <2>1. UNCHANGED <<seen, waiting, noted, heard, failed>>
    BY <1>11 DEF Deliver, Check, Ensure, Flight, Send, Keep, JobRest
  <2>2. /\ Carried' \subseteq Carried /\ j.load \subseteq Carried
        /\ inFlight' \in {inFlight, j.load, {}} /\ reading' \in {reading, j.load}
    BY <1>0, <1>11, Carries
  <2>3. Undelivered' \subseteq Undelivered /\ Carried \subseteq Undelivered
    BY <2>1, <2>2 DEF Undelivered
  <2> QED
    BY <1>0, <1>1, <2>1, <2>2, <2>3, FreshStays
<1>12. ASSUME NEW j \in jobs, Restore(j) PROVE Fresh'
  <2> DEFINE kept == j.load \ Due(j.load)
             some == Restored(kept)
             back == {[w EXCEPT !.told = TRUE] : w \in some}
             rest == UNION {k.load : k \in jobs'}
  <2>1. /\ j.at = "restore" /\ jobs' = jobs \ {j} /\ waiting' = waiting \cup back
        /\ UNCHANGED <<inFlight, seen, reading, heard, failed>> /\ Returned(j.load)
    BY <1>12 DEF Restore, JobRest, runners
  <2>2. kept \in SUBSET Waiting /\ kept \subseteq j.load /\ (\A w \in kept : w.rep.kind # "due")
    BY <1>0 DEF Due
  <2> HIDE DEF kept
  <2>3. some \in SUBSET Waiting /\ \A w \in some : \E x \in kept : w = [x EXCEPT !.held = "no"] /\ w.rep = x.rep
    BY <2>2, RestoredIs
  <2> HIDE DEF some
  <2>4. \A w \in back : \E x \in some : w = [x EXCEPT !.told = TRUE] /\ w.rep = x.rep
    BY <2>3, ToldIs
  <2> HIDE DEF back
  <2>5. \A w \in back : \E x \in kept : w.rep = x.rep
    BY <2>3, <2>4
  <2> HIDE DEF rest
  <2>6. rest = Carried' /\ (\A w \in rest : \E k \in jobs' : w \in k.load)
    BY DEF rest, Carried
  <2>7. Undelivered' = waiting \cup back \cup rest /\ rest \subseteq Undelivered
    BY <1>0, <2>1, <2>6 DEF Undelivered
  <2>8. Same
    BY <1>0, <2>1, <2>2, <2>5, <2>7
  <2>9. ASSUME NEW w \in j.load, w.rep.kind = "due" PROVE Key(w.rep) \notin KeysOf(Held')
    <3> SUFFICES ASSUME NEW x \in Held', Key(w.rep) = Key(x.rep) PROVE FALSE
      BY DEF KeysOf
    <3>1. CASE x \in back
      <4>1. PICK y \in kept : x.rep = y.rep
        BY <2>5, <3>1
      <4>2. y = w
        BY <2>2, <4>1 DEF Ground, Placed, Distinct
      <4> QED
        BY <2>2, <2>9, <4>2
    <3>2. CASE x \in rest
      BY <2>1, <2>6, <3>2 DEF Ground, Placed, Apart
    <3>3. CASE x \in inFlight \/ x \in waiting
      BY <2>1, <3>3 DEF Ground, Placed, Apart
    <3> QED
      BY <1>2, <2>1, <2>7, <3>1, <3>2, <3>3 DEF Held
  <2>10. \A k \in noted' : k \in noted \/ (k \in KeysOf(Undelivered) /\ k \notin KeysOf(Held'))
    <3>1. \A k \in noted' : k \in noted \/ \E w \in j.load : w.rep.kind = "due" /\ k = Key(w.rep)
      <4>1. j.load \in SUBSET (Undelivered \cup inFlight)
        BY <1>0
      <4> QED
        BY <1>0, <2>1, <4>1, Noting
    <3>2. \A w \in j.load : Key(w.rep) \in KeysOf(Undelivered)
      BY <1>0 DEF KeysOf
    <3> QED
      BY <2>9, <3>1, <3>2
  <2> QED
    BY <1>0, <1>1, <2>1, <2>8, <2>10, FreshStays
<1> QED
  BY <1>1, <1>4, <1>5, <1>6, <1>7, <1>8, <1>9, <1>10, <1>11, <1>12 DEF Moving

\* It holds throughout while Core does not restart.
LEMMA FreshHolds == ASSUME Main \notin Mortal, Crashes = 0 PROVE Spec => [](Ground /\ Fresh)
<1>1. Init => Fresh
  BY DEF Init, Fresh, Undelivered, Carried, Held, KeysOf
<1>2. Ground /\ Fresh /\ [Next]_vars => Fresh'
  BY FreshStep
<1> QED
  BY <1>1, <1>2, GroundHolds, PTL DEF Spec

(* What the database and the desktop say of a fire is what happened to it  *)
(* (Truthful), as long as Core does not restart.                           *)
THEOREM TruthfulHolds ==
    ASSUME Main \notin Mortal, Crashes = 0 PROVE Spec => []Truthful
<1>1. Fresh => NoFalseAlarm
  <2>1. KeysOf(reading) \subseteq KeysOf(Held)
    BY DEF KeysOf, Held
  <2> QED
    BY <2>1 DEF Fresh, NoFalseAlarm
<1>2. NoFalseAlarm /\ SettledTruly => Truthful
  BY DEF Truthful
<1> QED
  BY <1>1, <1>2, FreshHolds, SettledTrulyHolds, PTL

(* A wake never brings a report a turn of the main chat already ended on   *)
(* (NeverReread), as long as Core does not restart.                        *)
THEOREM NeverRereadHolds ==
    ASSUME Main \notin Mortal, Crashes = 0 PROVE Spec => NeverReread
<1>1. ASSUME Ground, Fresh, [Next]_vars
      PROVE  KeysOf(reading' \ reading) \cap (heard \cup failed) = {}
  <2>1. reading' \subseteq Carried \cup reading
    BY <1>1, Origin DEF Ground, Known
  <2>2. KeysOf(reading' \ reading) \subseteq KeysOf(Undelivered \cup reading)
    BY <2>1 DEF KeysOf, Undelivered
  <2> QED
    BY <1>1, <2>2 DEF Fresh
<1>2. Ground /\ Fresh /\ [Next]_vars => [KeysOf(reading' \ reading) \cap (heard \cup failed) = {}]_vars
  BY <1>1
<1> QED
  BY <1>2, FreshHolds, PTL DEF Spec, NeverReread

-----------------------------------------------------------------------------
(* Pending fires are held, when one task at a time reads them.             *)

OneReader == \A c, d \in Lookers \ {"drain"} : c = d

\* What was read of the tasks is not older than what was recorded of them.
ReadLatest == \A c \in Lookers : \A r \in found[c] :
                  c # "drain" /\ \A k \in seen : k[1] = r.of => k[2] <= r.n

\* Every step keeps it: nobody records a fire while another has read of the task.
LEMMA LatestStep ==
    ASSUME OneReader, Known, ReadLatest, [Next]_vars
    PROVE  ReadLatest'
<1>0. /\ Typed /\ found \in [Lookers -> SUBSET Reports] /\ (Crash => seen' = {})
  BY DEF Known, Typed, TypeOK, TypeStore, TypeDB, Crash
<1> SUFFICES ASSUME NEW c \in Lookers, NEW r \in found'[c]
             PROVE  c # "drain" /\ \A k \in seen' : k[1] = r.of => k[2] <= r.n
  BY DEF ReadLatest
<1>1. /\ c # "drain" /\ r.of \in Tasks
      /\ \A k \in seen : k[1] = r.of => k[2] <= r.n
  <2>1. CASE r \in found[c]
    BY <2>1 DEF Known, FoundFires, ReadLatest
  <2>2. CASE r \notin found[c]
    <3>1. ReadPending(c) /\ r.of \in Tasks /\ r.n = fired[r.of]
      BY <1>0, <2>2, Reads
    <3> QED
      BY <3>1 DEF ReadPending, Known, Numbered
  <2> QED
    BY <2>1, <2>2
<1>2. ASSUME NEW q \in Reports, Appears(q), q.of = r.of PROVE FALSE
  <2>1. PICK d \in Lookers : AddPending(d) /\ q \in found[d]
    BY <1>1, <1>2, ConstantsAssumption DEF Appears
  <2>2. d = c
    BY <1>1, <2>1 DEF OneReader, ReadLatest
  <2>3. found'[c] = {}
    BY <1>0, <2>1, <2>2 DEF AddPending
  <2> QED
    BY <2>3
<1>3. ASSUME NEW k \in seen', k[1] = r.of PROVE k[2] <= r.n
  <2>1. k \in seen \/ \E q \in Reports : k = Key(q) /\ Appears(q)
    BY <1>0, Records
  <2>2. \A q \in Reports : k = Key(q) => q.of = r.of
    BY <1>3 DEF Key
  <2> QED
    BY <1>1, <1>2, <1>3, <2>1, <2>2
<1> QED
  BY <1>1, <1>3

\* A fire that is pending, not cancelled, and recorded is held.
Pending(t) == lastWake[t] = "pending" /\ t \notin cancelled /\ <<t, fired[t]>> \in seen

\* Settling what is held leaves none of its fires pending.
LEMMA Settled ==
    ASSUME Known, NEW us \in SUBSET (Undelivered \cup inFlight), Returned(us) \/ Delivered(us),
           NEW t \in Tasks, lastWake'[t] = "pending"
    PROVE  lastWake[t] = "pending" /\ <<t, fired[t]>> \notin KeysOf(us)
<1>0. /\ us \in SUBSET Waiting /\ us \subseteq Held /\ fired \in [Tasks -> Nat]
      /\ lastWake \in [Tasks -> {"none", "pending", "delivered", "notified"}]
  BY HeldTypes
<1>1. lastWake[t] = "pending" /\ t \notin Settles(us)
  BY <1>0 DEF Returned, Delivered
<1>2. ASSUME NEW w \in us, <<t, fired[t]>> = Key(w.rep) PROVE FALSE
  <2>1. w.rep.of = t /\ w.rep.n = fired[t]
    BY <1>2 DEF Key
  <2>2. w.rep.kind = "due"
    BY <1>0, <2>1 DEF Known, Kinds
  <2> QED
    BY <1>0, <1>1, <2>1, <2>2, SettlesIs
<1> QED
  BY <1>1, <1>2 DEF KeysOf

\* A step that records and fires nothing, and keeps or settles what is held, leaves
\* no pending fire behind.
LEMMA HoldsPending ==
    ASSUME Known, PendingHeld, UNCHANGED fired, seen' \subseteq seen, cancelled \subseteq cancelled',
           \A t \in Tasks : lastWake'[t] = "pending" => lastWake[t] = "pending",
           \A w \in Undelivered \cup inFlight :
              \/ Key(w.rep) \in Kept'
              \/ \A t \in Tasks : lastWake'[t] = "pending" /\ t \notin cancelled'
                                     => <<t, fired[t]>> # Key(w.rep)
    PROVE  PendingHeld'
<1> SUFFICES ASSUME NEW t \in Tasks, Pending(t)' PROVE <<t, fired[t]>> \in Kept'
  BY DEF PendingHeld, Pending
<1>1. Pending(t)
  BY DEF Pending
<1>2. <<t, fired[t]>> \in Kept
  BY <1>1 DEF PendingHeld, Pending
<1>3. PICK w \in Undelivered \cup inFlight : <<t, fired[t]>> = Key(w.rep)
  BY <1>2, KeptIs
<1> QED
  BY <1>3 DEF Pending

\* Every step keeps the pending fires held.
LEMMA PendingStep ==
    ASSUME OneReader, Main \notin Mortal, Ground, ReadLatest, PendingHeld, [Next]_vars
    PROVE  PendingHeld'
<1> DEFINE All == Undelivered \cup inFlight
           Gone(w) == \A t \in Tasks : lastWake'[t] = "pending" /\ t \notin cancelled'
                                     => <<t, fired[t]>> # Key(w.rep)
<1>0. /\ Known /\ Typed /\ waiting \subseteq All /\ waiting \subseteq Waiting /\ All \subseteq Held
      /\ inFlight \subseteq All
      /\ \A j \in jobs : j.load \subseteq Waiting /\ j.load \subseteq All
      /\ \A w \in Undelivered' \cup inFlight' : Key(w.rep) \in Kept'
      /\ fired \in [Tasks -> Nat] /\ cancelled \subseteq cancelled' /\ seen \subseteq Keys
      /\ \A w \in All : w.rep.kind = "due" <=> w.rep.of \in Tasks
      /\ lastWake \in [Tasks -> {"none", "pending", "delivered", "notified"}]
  <2>1. All \subseteq Held /\ waiting \subseteq Waiting /\ Typed
    BY HeldTypes DEF Ground, Known
  <2>2. \A w \in All : w.rep.kind = "due" <=> w.rep.of \in Tasks
    BY <2>1 DEF Ground, Known, Kinds
  <2>3. \A w \in Undelivered' \cup inFlight' : Key(w.rep) \in Kept'
    BY DEF Kept, KeysOf, Undelivered
  <2> QED
    BY <2>1, <2>2, <2>3, HeldTypes, Database DEF Ground, Known, Typed, TypeOK, TypeStore
<1>1. ASSUME NEW us \in SUBSET All, Returned(us) \/ Delivered(us)
      PROVE  /\ \A w \in us : Gone(w)
             /\ \A t \in Tasks : lastWake'[t] = "pending" => lastWake[t] = "pending"
  BY <1>0, <1>1, Settled DEF KeysOf
<1>2. ASSUME NEW t \in Tasks, Fire(t) PROVE PendingHeld'
  <2>1. /\ fired' = [fired EXCEPT ![t] = @ + 1] /\ lastWake' = [lastWake EXCEPT ![t] = "pending"]
        /\ UNCHANGED <<store, jobs, cancelled>>
    BY <1>2 DEF Fire
  <2>2. Kept' = Kept /\ seen' = seen
    BY <2>1 DEF Kept, Carried, store
  <2>3. <<t, fired'[t]>> \notin seen
    <3>1. fired'[t] = fired[t] + 1 /\ fired[t] \in Nat
      BY <1>0, <2>1
    <3>2. <<t, fired'[t]>> \in seen => fired'[t] <= fired[t]
      BY <1>0 DEF Known, Numbered
    <3> QED
      BY <3>1, <3>2
  <2>4. \A u \in Tasks : u # t => fired'[u] = fired[u] /\ lastWake'[u] = lastWake[u]
    BY <1>0, <2>1
  <2> QED
    BY <2>1, <2>2, <2>3, <2>4 DEF PendingHeld
<1>3. ASSUME UNCHANGED <<waiting, jobs, inFlight, seen, lastWake, fired>> PROVE PendingHeld'
  <2>1. Kept' = Kept
    BY <1>3 DEF Kept, Carried
  <2> QED
    BY <1>0, <1>3, <2>1 DEF PendingHeld
<1>4. (\A t \in Tasks : ~Fire(t)) => UNCHANGED fired
  BY <1>0, Database
<1>5. CASE ~Moving
  BY <1>2, <1>3, <1>4, <1>5, Unmoved
<1>6. CASE Adds
  <2>1. UNCHANGED <<inFlight, jobs, fired, lastWake, cancelled>>
    BY <1>0, <1>6, Addition DEF Adds, RecordRunEnd, TagFails, AddPending, db
  <2>2. CASE UNCHANGED <<waiting, seen>>
    BY <1>3, <2>1, <2>2
  <2>3. ASSUME NEW rs \in SUBSET Reports, NEW held \in {"no", "held", "late"},
               Added(rs, held), \A r \in rs : Key(r) \notin seen => Appears(r)
        PROVE  PendingHeld'
    <3>1. /\ \A k \in seen' : k \in seen \/ \E r \in rs : k = Key(r) /\ Key(r) \notin seen
          /\ \A w \in waiting : \/ w \in waiting'
                                \/ \E r \in rs : Key(r) \notin seen /\ r.of = w.rep.of
          /\ \A r \in rs : Key(r) \in seen \/ \E w \in waiting' : w.rep = r
      BY <1>0, <2>3, AddedIs
    <3>2. \A r \in rs : Key(r) \in seen \/ Key(r) \in Kept'
      BY <3>1 DEF Kept, KeysOf
    <3>3. Undelivered' = waiting' \cup Carried
      BY <2>1 DEF Undelivered, Carried
    <3>4. ASSUME NEW t \in Tasks, lastWake[t] = "pending", t \notin cancelled,
                 <<t, fired[t]>> \in seen
          PROVE  <<t, fired[t]>> \in Kept'
      <4>1. PICK w \in All : <<t, fired[t]>> = Key(w.rep)
        <5>1. <<t, fired[t]>> \in Kept
          BY <3>4 DEF PendingHeld
        <5> QED
          BY <5>1, KeptIs
      <4>2. ASSUME NEW r \in rs, Key(r) \notin seen, r.of = w.rep.of PROVE FALSE
        <5>1. r \in Reports /\ Appears(r) /\ r.of = t
          BY <2>3, <4>1, <4>2 DEF Key
        <5>2. PICK c \in Lookers : r \in found[c]
          BY <5>1, ConstantsAssumption DEF Appears
        <5>3. r.n <= fired[t]
          BY <5>1, <5>2 DEF Ground, Known, FoundFires
        <5>4. fired[t] <= r.n
          BY <3>4, <5>1, <5>2 DEF ReadLatest
        <5>5. r.n = fired[t]
          BY <1>0, <5>1, <5>3, <5>4 DEF Reports
        <5> QED
          BY <3>4, <4>2, <5>1, <5>5 DEF Key
      <4>3. w \in Undelivered' \cup inFlight'
        BY <2>1, <3>1, <3>3, <4>2 DEF Undelivered
      <4> QED
        BY <1>0, <4>1, <4>3
    <3> QED
      BY <2>1, <3>1, <3>2, <3>4 DEF PendingHeld
  <2> QED
    BY <1>0, <1>6, <2>2, <2>3, Addition
<1>7. CASE RecordWakeRunEnd
  <2>1. /\ UNCHANGED <<seen, waiting, jobs, fired, cancelled>>
        /\ Returned(inFlight) \/ Delivered(inFlight)
    BY <1>7 DEF RecordWakeRunEnd
  <2>2. \A w \in All : w \in inFlight \/ Key(w.rep) \in Kept'
    BY <1>0, <2>1 DEF Undelivered, Carried
  <2> QED
    BY <1>0, <1>1, <2>1, <2>2, HoldsPending
<1>8. CASE Crash
  BY <1>8 DEF Crash, PendingHeld
<1>9. ASSUME NEW c \in Lookers, Take(c) PROVE PendingHeld'
  <2>1. UNCHANGED <<seen, inFlight, fired, lastWake, cancelled>>
    BY <1>9 DEF Take, db
  <2>2. Undelivered' = Undelivered
    <3> DEFINE n == [at |-> "check", load |-> waiting]
    <3>1. n.load = waiting
      OBVIOUS
    <3>2. /\ waiting' = {}
          /\ \/ jobs' = jobs \cup {n}
             \/ jobs' = jobs /\ waiting = {}
      BY <1>9 DEF Take
    <3> HIDE DEF n
    <3> QED
      BY <3>1, <3>2 DEF Undelivered, Carried
  <2> QED
    BY <1>0, <2>1, <2>2, HoldsPending
<1>10. ASSUME NEW v \in waiting, BatchWait(v) PROVE PendingHeld'
  <2> DEFINE late == [v EXCEPT !.held = "late"]
  <2>1. /\ waiting' = (waiting \ {v}) \cup {late}
        /\ UNCHANGED <<jobs, inFlight, seen, fired, lastWake, cancelled>>
    BY <1>10 DEF BatchWait, db
  <2>2. late.rep = v.rep
    BY <1>0, Marked
  <2> HIDE DEF late
  <2>3. \A w \in All : w = v \/ w \in Undelivered' \cup inFlight'
    BY <2>1 DEF Undelivered, Carried
  <2>4. late \in Undelivered'
    BY <2>1 DEF Undelivered
  <2>5. \A w \in All : Key(w.rep) \in Kept'
    BY <1>0, <2>2, <2>3, <2>4
  <2> QED
    BY <1>0, <2>1, <2>5, HoldsPending
<1>11. ASSUME NEW c \in Lookers, LookAsk(c) PROVE PendingHeld'
  <2> DEFINE kept   == waiting \ Due(waiting)
             marked == {[w EXCEPT !.told = TRUE] : w \in kept}
  <2>1. /\ UNCHANGED <<seen, inFlight, jobs, fired, cancelled>>
        /\ \/ UNCHANGED <<waiting, lastWake>>
           \/ waiting' = marked /\ Returned(waiting)
    BY <1>11 DEF LookAsk
  <2>2. CASE UNCHANGED <<waiting, lastWake>>
    BY <1>3, <2>1, <2>2
  <2>3. CASE waiting' = marked /\ Returned(waiting)
    <3>1. \A w \in All : w \in waiting \/ Key(w.rep) \in Kept'
      BY <1>0, <2>1 DEF Undelivered, Carried
    <3>2. waiting \in SUBSET All
      BY <1>0
    <3> HIDE DEF marked
    <3> QED
      BY <1>0, <1>1, <2>1, <2>3, <3>1, <3>2, HoldsPending
  <2> QED
    BY <2>1, <2>2, <2>3
<1>12. ASSUME NEW j \in jobs, Deliver(j) PROVE PendingHeld'
  <2>1. UNCHANGED <<seen, fired, cancelled>>
    BY <1>12 DEF Deliver, Check, Ensure, Flight, Send, Keep, Restore, JobRest
  <2>2. \A w \in All : \/ Key(w.rep) \in Kept'
                       \/ Check(j) /\ w \in j.load /\ ~StillDue(w.rep)
                       \/ Restore(j) /\ w \in j.load
    BY <1>0, <1>12, WakeCarries DEF Ground
  <2>3. CASE Restore(j)
    <3>1. Returned(j.load) /\ j.load \in SUBSET All
      BY <1>0, <2>3 DEF Restore
    <3>2. ~Check(j)
      BY <2>3 DEF Restore, Check
    <3> QED
      BY <1>0, <1>1, <2>1, <2>2, <3>1, <3>2, HoldsPending
  <2>4. CASE ~Restore(j)
    <3>1. UNCHANGED lastWake
      BY <1>12, <2>4 DEF Deliver, Check, Ensure, Flight, Send, Keep
    <3>2. \A w \in j.load : ~StillDue(w.rep) => Gone(w)
      <4> SUFFICES ASSUME NEW w \in j.load, NEW t \in Tasks, lastWake[t] = "pending",
                          t \notin cancelled, <<t, fired[t]>> = Key(w.rep)
                   PROVE  StillDue(w.rep)
        BY <2>1, <3>1
      <4>1. w.rep.of = t /\ w.rep.n = fired[t]
        BY DEF Key
      <4>2. w.rep.kind = "due"
        BY <1>0, <4>1
      <4> QED
        BY <4>1, <4>2 DEF StillDue
    <3>3. \A w \in All : Key(w.rep) \in Kept' \/ Gone(w)
      BY <2>2, <2>4, <3>2
    <3> QED
      BY <1>0, <2>1, <3>1, <3>3, HoldsPending
  <2> QED
    BY <2>3, <2>4
<1>13. ASSUME NEW how \in Ends, EndRun(Main, how) PROVE PendingHeld'
  BY <1>3, <1>13 DEF EndRun, store, db
<1> QED
  BY <1>5, <1>6, <1>7, <1>8, <1>9, <1>10, <1>11, <1>12, <1>13 DEF Moving

(* A fire still pending in the database that this process has recorded is  *)
(* held by somebody who will settle it (PendingHeld), as long as one task  *)
(* reads the pending fires: the tick, not also run_now.                    *)
THEOREM PendingHeldHolds ==
    ASSUME OneReader, Main \notin Mortal PROVE Spec => []PendingHeld
<1>1. Init => ReadLatest /\ PendingHeld
  BY DEF Init, ReadLatest, PendingHeld
<1>2. Ground /\ ReadLatest /\ PendingHeld /\ [Next]_vars => ReadLatest' /\ PendingHeld'
  BY LatestStep, PendingStep DEF Ground
<1> QED
  BY <1>1, <1>2, GroundHolds, PTL DEF Spec
=============================================================================
