------------------------- MODULE ReportStore_proofs -------------------------
(***************************************************************************)
(* The store of reports, for every set of subtasks, tags, tasks and        *)
(* lookers and every bound: its types, what a report in it says, what is   *)
(* dropped, and what a batch waits for.                                    *)
(***************************************************************************)
EXTENDS ReportStore, TLAPS

-----------------------------------------------------------------------------
(* Reports and keys.                                                       *)

\* A report has the source, number and kind it was made with, and a key.
LEMMA MadeReport ==
    ASSUME NEW x \in Sources, NEW n \in Nat, NEW kind \in Outcomes
    PROVE  LET r == Report(x, n, kind)
           IN  /\ r \in Reports /\ r.of = x /\ r.n = n /\ r.kind = kind
               /\ Key(r) = <<x, n>> /\ Key(r) \in Keys
BY DEF Report, Reports, Key, Keys

\* What is in the store has a report with a key.
LEMMA Stored ==
    ASSUME NEW ws \in SUBSET Waiting
    PROVE  /\ KeysOf(ws) \in SUBSET Keys
           /\ \A w \in ws : /\ w.rep \in Reports /\ w.rep.of \in Sources /\ w.rep.n \in Nat
                            /\ w.rep.kind \in Outcomes /\ Key(w.rep) \in Keys
                            /\ Key(w.rep) = <<w.rep.of, w.rep.n>>
                            /\ Key(w.rep)[1] = w.rep.of /\ Key(w.rep)[2] = w.rep.n
<1>1. \A w \in ws : w.rep \in Reports
  BY DEF Waiting
<1>2. \A r \in Reports : /\ r.of \in Sources /\ r.n \in Nat /\ r.kind \in Outcomes
                         /\ Key(r) = <<r.of, r.n>> /\ Key(r) \in Keys
                         /\ Key(r)[1] = r.of /\ Key(r)[2] = r.n
  BY DEF Reports, Key, Keys
<1> QED
  BY <1>1, <1>2 DEF KeysOf

\* A report in the store, marked as told or as held, has the report it had.
LEMMA Marked ==
    ASSUME NEW w \in Waiting
    PROVE  /\ \A h \in {"no", "held", "late"} : LET x == [w EXCEPT !.held = h]
               IN  x \in Waiting /\ x.rep = w.rep /\ x.told = w.told /\ x.held = h
           /\ LET x == [w EXCEPT !.told = TRUE]
              IN  x \in Waiting /\ x.rep = w.rep /\ x.told = TRUE /\ x.held = w.held
BY DEF Waiting

\* What the store holds after an addition.
LEMMA AddedIs ==
    ASSUME waiting \subseteq Waiting, seen \subseteq Keys, NEW rs \in SUBSET Reports,
           NEW held \in {"no", "held", "late"}, Added(rs, held)
    PROVE  /\ waiting' \subseteq Waiting /\ seen' \subseteq Keys /\ seen \subseteq seen'
           /\ \A k \in seen' : k \in seen \/ \E r \in rs : k = Key(r) /\ Key(r) \notin seen
           /\ \A r \in rs : Key(r) \in seen'
           /\ \A w \in waiting' :
                \/ w \in waiting /\ \A r \in rs : Key(r) \notin seen => r.of # w.rep.of
                \/ \E r \in rs : /\ Key(r) \notin seen
                                 /\ w = [rep |-> r, told |-> FALSE, held |-> held]
                                 /\ w.rep = r /\ ~w.told /\ w.held = held
           /\ \A w \in waiting : \/ w \in waiting'
                                 \/ \E r \in rs : Key(r) \notin seen /\ r.of = w.rep.of
           /\ \A r \in rs : Key(r) \in seen \/ \E w \in waiting' :
                w.rep = r /\ ~w.told /\ w.held = held
<1> DEFINE new == {r \in rs : Key(r) \notin seen}
           W(r) == [rep |-> r, told |-> FALSE, held |-> held]
<1>1. /\ seen' = seen \cup {Key(r) : r \in new}
      /\ waiting' = {w \in waiting : \A r \in new : r.of # w.rep.of} \cup {W(r) : r \in new}
  BY DEF Added
<1>2. \A r \in rs : /\ W(r) \in Waiting /\ W(r).rep = r /\ ~W(r).told /\ W(r).held = held
                    /\ Key(r) \in Keys
  BY DEF Waiting, Reports, Key, Keys
<1> HIDE DEF W
<1>3. waiting' \subseteq Waiting /\ seen' \subseteq Keys /\ seen \subseteq seen'
  BY <1>1, <1>2
<1>4. /\ \A k \in seen' : k \in seen \/ \E r \in rs : k = Key(r) /\ Key(r) \notin seen
      /\ \A r \in rs : Key(r) \in seen'
  BY <1>1
<1>5. \A w \in waiting' :
         \/ w \in waiting /\ \A r \in rs : Key(r) \notin seen => r.of # w.rep.of
         \/ \E r \in rs : Key(r) \notin seen /\ w = W(r)
  BY <1>1
<1>6. \A w \in waiting : \/ w \in waiting'
                         \/ \E r \in rs : Key(r) \notin seen /\ r.of = w.rep.of
  BY <1>1
<1>7. \A r \in rs : Key(r) \in seen \/ W(r) \in waiting'
  BY <1>1
<1>8. \A w \in waiting' :
         \/ w \in waiting /\ \A r \in rs : Key(r) \notin seen => r.of # w.rep.of
         \/ \E r \in rs : Key(r) \notin seen /\ w = W(r) /\ w.rep = r /\ ~w.told /\ w.held = held
  BY <1>2, <1>5
<1>9. \A r \in rs : Key(r) \in seen \/ \E w \in waiting' : w.rep = r /\ ~w.told /\ w.held = held
  BY <1>2, <1>7
<1> QED
  BY <1>3, <1>4, <1>6, <1>8, <1>9 DEF W

\* What goes back to the store is what was there, never held again.
LEMMA RestoredIs ==
    ASSUME NEW ws \in SUBSET Waiting
    PROVE  /\ Restored(ws) \subseteq Waiting
           /\ \A w \in Restored(ws) : \E x \in ws : /\ w.rep = x.rep /\ w.told = x.told
                                                    /\ w.held = "no"
           /\ \A w \in Restored(ws) : \E x \in ws : w = [x EXCEPT !.held = "no"] /\ w.rep = x.rep
           /\ \A x \in ws : x.rep.of \in Subs \/ \E w \in Restored(ws) :
                w.rep = x.rep /\ w.told = x.told
<1> DEFINE back == {x \in ws : x.rep.of \in Subs => \A y \in waiting : y.rep.of # x.rep.of}
           N(x) == [x EXCEPT !.held = "no"]
<1>1. Restored(ws) = {N(x) : x \in back}
  BY DEF Restored
<1>2. \A x \in ws : N(x) \in Waiting /\ N(x).rep = x.rep /\ N(x).told = x.told /\ N(x).held = "no"
  BY Marked
<1> HIDE DEF N
<1> QED
  BY <1>1, <1>2 DEF N

\* Marking reports as told changes nothing else of them.
LEMMA ToldIs ==
    ASSUME NEW ws \in SUBSET Waiting
    PROVE  LET marked == {[w EXCEPT !.told = TRUE] : w \in ws}
           IN  /\ marked \subseteq Waiting
               /\ \A w \in marked : w.told = TRUE /\ \E x \in ws : w.rep = x.rep /\ w.held = x.held
               /\ \A w \in marked : \E x \in ws : w = [x EXCEPT !.told = TRUE] /\ w.rep = x.rep
               /\ \A x \in ws : \E w \in marked : w.told /\ w.rep = x.rep /\ w.held = x.held
<1> DEFINE N(x) == [x EXCEPT !.told = TRUE]
<1>1. \A x \in ws : N(x) \in Waiting /\ N(x).rep = x.rep /\ N(x).told = TRUE /\ N(x).held = x.held
  BY Marked
<1>2. {[w EXCEPT !.told = TRUE] : w \in ws} = {N(w) : w \in ws}
  OBVIOUS
<1> HIDE DEF N
<1>3. LET marked == {N(w) : w \in ws}
      IN  /\ marked \subseteq Waiting
          /\ \A w \in marked : w.told = TRUE /\ \E x \in ws : w.rep = x.rep /\ w.held = x.held
          /\ \A w \in marked : \E x \in ws : w = N(x) /\ w.rep = x.rep
          /\ \A x \in ws : \E w \in marked : w.told /\ w.rep = x.rep /\ w.held = x.held
  BY <1>1
<1> QED
  BY <1>2, <1>3 DEF N

\* What telling the desktop of reports adds to what it was told.
LEMMA AnnouncedIs ==
    ASSUME NEW ws \in SUBSET Waiting, Announced(ws), told \subseteq Keys, again \subseteq Keys
    PROVE  /\ told' \subseteq Keys /\ again' \subseteq Keys /\ told \subseteq told'
           /\ \A k \in told' : k \in told \/ \E w \in ws : /\ k = Key(w.rep) /\ ~w.told
                                                           /\ w.rep.of \in Subs
           /\ \A w \in ws : ~w.told /\ w.rep.of \in Subs => Key(w.rep) \in told'
           /\ \A k \in again' : \/ k \in again
                                 \/ /\ k \in told
                                    /\ \E w \in ws : /\ k = Key(w.rep) /\ ~w.told
                                                     /\ w.rep.of \in Subs
<1> DEFINE us == {w \in ws : ~w.told /\ w.rep.of \in Subs}
<1>1. told' = told \cup KeysOf(us) /\ again' = again \cup (told \cap KeysOf(us))
  BY DEF Announced
<1>2. KeysOf(us) \subseteq Keys
  BY Stored
<1>3. /\ \A k \in KeysOf(us) : \E w \in ws : k = Key(w.rep) /\ ~w.told /\ w.rep.of \in Subs
      /\ \A w \in ws : ~w.told /\ w.rep.of \in Subs => Key(w.rep) \in KeysOf(us)
  BY DEF KeysOf
<1> QED
  BY <1>1, <1>2, <1>3

\* Which fires settling reports can move, and what it writes of them.
LEMMA SettlesIs ==
    ASSUME NEW ws \in SUBSET Waiting, fired \in [Tasks -> Nat]
    PROVE  \A t : t \in Settles(ws) <=> \E w \in ws : /\ w.rep.kind = "due" /\ t = w.rep.of
                                                      /\ lastWake[t] = "pending"
                                                      /\ fired[t] = w.rep.n
BY DEF Settles, Due

\* Returning and delivering fires keep the types.
LEMMA ReturnedIs ==
    ASSUME NEW ws \in SUBSET Waiting, Returned(ws), noted \subseteq Keys,
           fired \in [Tasks -> Nat],
           lastWake \in [Tasks -> {"none", "pending", "delivered", "notified"}]
    PROVE  /\ lastWake' \in [Tasks -> {"none", "pending", "delivered", "notified"}]
           /\ \A t \in Tasks : lastWake'[t] = lastWake[t]
                \/ (t \in Settles(ws) /\ lastWake'[t] \in {"none", "notified"})
           /\ \A t \in Settles(ws) : t \in Tasks => lastWake'[t] \in {"none", "notified"}
           /\ noted' \subseteq Keys /\ noted \subseteq noted'
           /\ \A k \in noted' : k \in noted \/ \E t \in Settles(ws) : k = <<t, fired[t]>>
<1>1. /\ lastWake' = [t \in Tasks |-> IF t \notin Settles(ws) THEN lastWake[t]
                                    ELSE IF t \in Reviews THEN "none" ELSE "notified"]
      /\ noted' = noted \cup {<<t, fired[t]>> : t \in Settles(ws) \ Reviews}
  BY DEF Returned
<1>2. \A t \in Settles(ws) : t \in Sources /\ fired[t] \in Nat
  <2> SUFFICES ASSUME NEW t \in Settles(ws) PROVE t \in Sources /\ fired[t] \in Nat
    OBVIOUS
  <2>1. PICK w \in ws : t = w.rep.of /\ fired[t] = w.rep.n
    BY SettlesIs
  <2> QED
    BY <2>1, Stored
<1>3. noted' \subseteq Keys
  BY <1>1, <1>2 DEF Keys
<1> QED
  BY <1>1, <1>3

-----------------------------------------------------------------------------
(* The types.                                                              *)

\* The drain task takes its step after a run's end with the signal at hand.
Typed == TypeOK /\ (step["drain"] = "queue" => signals # <<>>)

\* They hold when Core starts.
LEMMA TypedInit == Init => Typed
<1> SUFFICES ASSUME Init PROVE Typed
  OBVIOUS
<1>1. TypeStore
  BY DEF Init, TypeStore, Steps
<1>2. TypeGates
  <2>1. signals \in Seq([kind : {"run_complete", "closed"}, of : Sessions])
    <3>1. signals = <<>>
      BY DEF Init
    <3> HIDE DEF Init
    <3> QED
      BY <3>1
  <2>2. /\ open \in [Sessions -> BOOLEAN] /\ ask \in [Sessions -> BOOLEAN]
        /\ exit \in [Sessions -> {"none", "done", "asked", "failed", "stopped"}]
        /\ queued \in Nat /\ alive \in BOOLEAN /\ reading \subseteq Waiting
    <3>1. open = [s \in Sessions |-> s \in Batch] /\ ask = [s \in Sessions |-> FALSE]
      BY DEF Init
    <3>2. open \in [Sessions -> BOOLEAN] /\ ask \in [Sessions -> BOOLEAN]
      <4>1. \A s \in Sessions : (s \in Batch) \in BOOLEAN
        OBVIOUS
      <4>2. [s \in Sessions |-> s \in Batch] \in [Sessions -> BOOLEAN]
        BY <4>1
      <4> QED
        BY <3>1, <4>2, Zenon
    <3>3. /\ exit = [s \in Sessions |-> "none"] /\ queued = 0 /\ alive = FALSE
          /\ reading = {}
      BY DEF Init
    <3> QED
      BY <3>2, <3>3
  <2>3. running \subseteq Sessions
    BY ConstantsAssumption DEF Init, Sessions
  <2> QED
    BY <2>1, <2>2, <2>3 DEF TypeGates
<1>3. TypeDB
  BY DEF Init, TypeDB
<1>4. TypeHistory
  BY DEF Init, TypeHistory
<1> QED
  BY <1>1, <1>2, <1>3, <1>4, ConstantsAssumption DEF Typed, TypeOK, Init

\* What holds of each signal.
LEMMA Signalled ==
    ASSUME Typed, signals # <<>>
    PROVE  /\ Head(signals).of \in Sessions
           /\ Head(signals).kind \in {"run_complete", "closed"}
           /\ Tail(signals) \in Seq([kind : {"run_complete", "closed"}, of : Sessions])
<1> DEFINE S == [kind : {"run_complete", "closed"}, of : Sessions]
<1>1. signals \in Seq(S)
  BY DEF Typed, TypeOK, TypeGates
<1> HIDE DEF S
<1>2. Head(signals) \in S /\ Tail(signals) \in Seq(S)
  BY <1>1
<1> QED
  BY <1>2 DEF S

\* One more signal is one at the end.
LEMMA Signals ==
    ASSUME Typed, NEW s \in Sessions, NEW kind \in {"run_complete", "closed"}, Signal(kind, s)
    PROVE  /\ signals' \in Seq([kind : {"run_complete", "closed"}, of : Sessions])
           /\ signals' # <<>>
           /\ signals # <<>> => Head(signals') = Head(signals)
<1> DEFINE S == [kind : {"run_complete", "closed"}, of : Sessions]
           e == [kind |-> kind, of |-> s]
<1>1. signals \in Seq(S) /\ e \in S /\ signals' = Append(signals, e)
  BY DEF Typed, TypeOK, TypeGates, Signal
<1> HIDE DEF S, e
<1>2. signals' \in Seq(S) /\ signals' # <<>> /\ (signals # <<>> => Head(signals') = Head(signals))
  BY <1>1
<1> QED
  BY <1>2 DEF S

\* The drain task's steps keep the types.
LEMMA TypedDrain ==
    ASSUME Typed, RecordWakeRunEnd \/ QueueStep \/ \E s \in Subs : RecordRunEnd(s)
    PROVE  Typed'
<1>0. /\ TypeStore /\ TypeGates /\ TypeDB /\ TypeHistory /\ "drain" \in Lookers
  BY ConstantsAssumption DEF Typed, TypeOK
<1>1. ASSUME NEW s \in Subs, RecordRunEnd(s) PROVE Typed'
  <2> DEFINE end == RunEnd(Head(signals))
             r   == Report(s, turn[s], end)
  <2>1. UNCHANGED <<inFlight, found, jobs, gates, runners, signals, db, counts, history>>
    BY <1>1 DEF RecordRunEnd
  <2>2. TypeGates' /\ TypeDB' /\ TypeHistory'
    BY <1>0, <2>1 DEF TypeGates, TypeDB, TypeHistory, gates, runners, db, counts, history
  <2>3. step' = [step EXCEPT !["drain"] = "queue"] /\ signals # <<>>
    BY <1>1 DEF RecordRunEnd
  <2>4. wakes' \in BOOLEAN
    BY <1>0, <1>1 DEF RecordRunEnd, Holding
  <2>5. waiting' \subseteq Waiting /\ seen' \subseteq Keys
    <3>1. CASE end # "nothing" /\ s \notin left /\ Key(r) \notin seen
      <4>1. end \in Outcomes /\ turn[s] \in Nat /\ s \in Sources
        BY <1>0, <3>1 DEF RunEnd, Outcomes, TypeDB, Sources
      <4>2. {r} \in SUBSET Reports
        BY <4>1, MadeReport
      <4>3. HoldFor(s, end) \in {"no", "held", "late"} /\ Added({r}, HoldFor(s, end))
        BY <1>1, <3>1 DEF RecordRunEnd, HoldFor
      <4> QED
        BY <1>0, <4>2, <4>3, AddedIs DEF TypeStore
    <3>2. CASE ~(end # "nothing" /\ s \notin left /\ Key(r) \notin seen)
      BY <1>0, <1>1, <3>2 DEF RecordRunEnd, TypeStore
    <3> QED
      BY <3>1, <3>2
  <2>6. TypeStore'
    BY <1>0, <2>1, <2>3, <2>4, <2>5 DEF TypeStore, Steps
  <2> QED
    BY <1>0, <2>1, <2>2, <2>3, <2>6 DEF Typed, TypeOK
<1>2. CASE RecordWakeRunEnd
  <2>1. /\ UNCHANGED <<waiting, seen, found, wakes, jobs, gates, runners, signals, turn,
                       left, fired, cancelled, counts, heard, failed, dropped>>
        /\ inFlight' = {} /\ step' = [step EXCEPT !["drain"] = "queue"] /\ signals # <<>>
    BY <1>2 DEF RecordWakeRunEnd
  <2>2. TypeStore' /\ TypeGates'
    BY <1>0, <2>1 DEF TypeStore, TypeGates, gates, runners, Steps
  <2>3. /\ lastWake' \in [Tasks -> {"none", "pending", "delivered", "notified"}]
        /\ noted' \subseteq Keys /\ told' \subseteq Keys /\ again' \subseteq Keys
    <3>1. CASE Returned(inFlight) /\ Announced(inFlight)
      BY <1>0, <3>1, ReturnedIs, AnnouncedIs DEF TypeStore, TypeDB, TypeHistory
    <3>2. CASE Delivered(inFlight) /\ UNCHANGED <<told, again>>
      BY <1>0, <3>2 DEF Delivered, TypeDB, TypeHistory
    <3> QED
      BY <1>2, <3>1, <3>2 DEF RecordWakeRunEnd
  <2>4. TypeDB' /\ TypeHistory'
    BY <1>0, <2>1, <2>3 DEF TypeDB, TypeHistory, counts
  <2> QED
    BY <1>0, <2>1, <2>2, <2>4 DEF Typed, TypeOK
<1>3. CASE QueueStep
  <2>1. /\ step["drain"] = "queue" /\ signals' = Tail(signals) /\ wakes' = FALSE
        /\ UNCHANGED <<store, found, jobs, exit, alive, db, counts, history>>
        /\ \E next \in {"idle", "due"} : step' = [step EXCEPT !["drain"] = next]
    BY <1>3 DEF QueueStep
  <2>2. Head(signals).of \in Sessions /\ Main \in Sessions /\ signals' \in Seq([kind : {"run_complete", "closed"}, of : Sessions])
    BY <2>1, Signalled DEF Typed, Sessions
  <2>3. TypeStore' /\ TypeDB' /\ TypeHistory'
    BY <1>0, <2>1 DEF TypeStore, TypeDB, TypeHistory, store, db, counts, history, Steps
  <2>4. /\ open' \in [Sessions -> BOOLEAN] /\ ask' \in [Sessions -> BOOLEAN] /\ queued' \in Nat
        /\ running' \subseteq Sessions
    <3>1. /\ \/ open' = open
             \/ \E x \in Sessions : \E b \in BOOLEAN : open' = [open EXCEPT ![x] = b]
          /\ ask' = ask \/ ask' = [ask EXCEPT ![Main] = FALSE]
          /\ running' \in {running, running \cup {Main}}
      BY <1>3, <2>2 DEF QueueStep, Dispatched
    <3>2. queued' = queued \/ (queued > 0 /\ queued' = queued - 1)
      BY <1>3 DEF QueueStep, Takes
    <3>3. queued' \in Nat
      BY <1>0, <3>2 DEF TypeGates
    <3>4. open' \in [Sessions -> BOOLEAN] /\ ask' \in [Sessions -> BOOLEAN]
      BY <1>0, <2>2, <3>1 DEF TypeGates
    <3> QED
      BY <1>0, <2>2, <3>1, <3>3, <3>4 DEF TypeGates
  <2>5. reading' \subseteq Waiting
    BY <1>0, <1>3 DEF QueueStep, TypeGates, Dispatched
  <2>6. TypeGates'
    BY <1>0, <2>1, <2>2, <2>4, <2>5 DEF TypeGates
  <2>7. step'["drain"] # "queue"
    BY <1>0, <2>1 DEF TypeStore
  <2> QED
    BY <2>3, <2>6, <2>7 DEF Typed, TypeOK
<1> QED
  BY <1>1, <1>2, <1>3

\* The scheduler's steps, and the looks, keep them.
LEMMA TypedLooks ==
    ASSUME Typed, \/ TickHeld \/ (\E t \in Tasks : Fire(t)) \/ (\E x \in Tags \cup Subs : TagFails(x))
                  \/ (\E w \in waiting : BatchWait(w))
                  \/ \E c \in Lookers : ReadPending(c) \/ AddPending(c) \/ Look(c)
    PROVE  Typed'
<1>0. /\ TypeStore /\ TypeGates /\ TypeDB /\ TypeHistory /\ "drain" \in Lookers
      /\ step["drain"] = "queue" => signals # <<>>
  BY ConstantsAssumption DEF Typed, TypeOK
<1>1. CASE TickHeld
  BY <1>0, <1>1 DEF TickHeld, Typed, TypeOK, TypeStore, TypeGates, TypeDB, TypeHistory, store,
     gates, runners, db, counts, history, Steps
<1>2. ASSUME NEW t \in Tasks, Fire(t) PROVE Typed'
  BY <1>0, <1>2 DEF Fire, Typed, TypeOK, TypeStore, TypeGates, TypeDB, TypeHistory, store,
     lookers, gates, runners, counts, history
<1>3. ASSUME NEW x \in Tags \cup Subs, TagFails(x) PROVE Typed'
  <2>1. /\ UNCHANGED <<inFlight, found, wakes, jobs, gates, runners, signals, db, counts, history>>
        /\ step' = [step EXCEPT !["task"] = "due"] /\ "task" \in Lookers
        /\ Added({Report(x, 0, "tag")}, "no")
    BY <1>3 DEF TagFails
  <2>2. {Report(x, 0, "tag")} \in SUBSET Reports
    BY MadeReport DEF Sources, Outcomes
  <2>3. waiting' \subseteq Waiting /\ seen' \subseteq Keys
    BY <1>0, <2>1, <2>2, AddedIs DEF TypeStore
  <2>4. TypeStore'
    BY <1>0, <2>1, <2>3 DEF TypeStore, Steps
  <2>5. TypeGates' /\ TypeDB' /\ TypeHistory'
    BY <1>0, <2>1 DEF TypeGates, TypeDB, TypeHistory, gates, runners, db, counts, history
  <2> QED
    BY <1>0, <2>1, <2>4, <2>5 DEF Typed, TypeOK, TypeStore
<1>4. ASSUME NEW w \in waiting, BatchWait(w) PROVE Typed'
  <2>1. /\ UNCHANGED <<seen, inFlight, lookers, jobs, gates, runners, signals, db, counts, history>>
        /\ waiting' = (waiting \ {w}) \cup {[w EXCEPT !.held = "late"]}
    BY <1>4 DEF BatchWait
  <2>2. waiting' \subseteq Waiting
    BY <1>0, <2>1, Marked DEF TypeStore
  <2>3. TypeStore' /\ TypeGates' /\ TypeDB' /\ TypeHistory'
    BY <1>0, <2>1, <2>2 DEF TypeStore, TypeGates, TypeDB, TypeHistory, lookers, gates, runners,
       db, counts, history
  <2> QED
    BY <1>0, <2>1, <2>3 DEF Typed, TypeOK, lookers
<1>5. ASSUME NEW c \in Lookers, ReadPending(c) PROVE Typed'
  <2>1. /\ UNCHANGED <<store, wakes, jobs, gates, runners, signals, db, counts, history>>
        /\ step' = [step EXCEPT ![c] = "add"]
        /\ found' = [found EXCEPT ![c] = {FireOf(t) : t \in {u \in Tasks \ cancelled : lastWake[u] = "pending"}}]
    BY <1>5 DEF ReadPending
  <2>2. \A t \in Tasks : FireOf(t) \in Reports
    BY <1>0, MadeReport DEF FireOf, TypeDB, Sources, Outcomes
  <2>3. TypeStore' /\ TypeGates' /\ TypeDB' /\ TypeHistory'
    BY <1>0, <2>1, <2>2 DEF TypeStore, TypeGates, TypeDB, TypeHistory, store, gates, runners,
       db, counts, history, Steps
  <2> QED
    BY <1>0, <2>1, <2>3 DEF Typed, TypeOK, TypeStore
<1>6. ASSUME NEW c \in Lookers, AddPending(c) PROVE Typed'
  <2>1. /\ UNCHANGED <<inFlight, wakes, jobs, gates, runners, signals, db, counts, history>>
        /\ \E next \in {"due", "idle"} : step' = [step EXCEPT ![c] = next]
        /\ found' = [found EXCEPT ![c] = {}] /\ Added(found[c], "no")
    BY <1>6 DEF AddPending
  <2>2. waiting' \subseteq Waiting /\ seen' \subseteq Keys
    BY <1>0, <2>1, AddedIs DEF TypeStore
  <2>3. TypeStore' /\ TypeGates' /\ TypeDB' /\ TypeHistory'
    BY <1>0, <2>1, <2>2 DEF TypeStore, TypeGates, TypeDB, TypeHistory, gates, runners,
       db, counts, history, Steps
  <2> QED
    BY <1>0, <2>1, <2>3 DEF Typed, TypeOK, TypeStore
<1>7. ASSUME NEW c \in Lookers, Look(c) PROVE Typed'
  <2>1. /\ UNCHANGED <<seen, inFlight, found, wakes, exit, queued, runners, signals, turn, left,
                       fired, cancelled, counts, heard, failed, dropped, ask>>
        /\ \E next \in Steps \ {"queue"} : step' = [step EXCEPT ![c] = next]
    BY <1>7 DEF Look, LookDue, LookAsk, Reserve, Take, Release, store, gates, db, history, Steps
  <2>2. open' = open \/ \E b \in BOOLEAN : open' = [open EXCEPT ![Main] = b]
    BY <1>7 DEF Look, LookDue, LookAsk, Reserve, Take, Release, gates
  <2>3. \/ UNCHANGED <<waiting, jobs>>
        \/ waiting' = {[w EXCEPT !.told = TRUE] : w \in waiting \ Due(waiting)} /\ jobs' = jobs
        \/ waiting' = {} /\ jobs' \subseteq jobs \cup {[at |-> "check", load |-> waiting]}
    BY <1>7 DEF Look, LookDue, LookAsk, Reserve, Take, Release, store
  <2>4. \/ UNCHANGED <<lastWake, told, again, noted>>
        \/ Returned(waiting) /\ Announced(waiting)
    BY <1>7 DEF Look, LookDue, LookAsk, Reserve, Take, Release, db, history
  <2>5. waiting' \subseteq Waiting /\ jobs' \subseteq [at : Stages, load : SUBSET Waiting]
    <3>1. {[w EXCEPT !.told = TRUE] : w \in waiting \ Due(waiting)} \subseteq Waiting
      BY <1>0, ToldIs DEF TypeStore
    <3>2. [at |-> "check", load |-> waiting] \in [at : Stages, load : SUBSET Waiting]
      BY <1>0 DEF TypeStore, Stages
    <3> QED
      BY <1>0, <2>3, <3>1, <3>2 DEF TypeStore
  <2>6. /\ lastWake' \in [Tasks -> {"none", "pending", "delivered", "notified"}]
        /\ noted' \subseteq Keys /\ told' \subseteq Keys /\ again' \subseteq Keys
    BY <1>0, <2>4, ReturnedIs, AnnouncedIs DEF TypeStore, TypeDB, TypeHistory
  <2>7. TypeStore' /\ TypeGates'
    BY <1>0, <2>1, <2>2, <2>5 DEF TypeStore, TypeGates, runners
  <2>8. TypeDB' /\ TypeHistory'
    BY <1>0, <2>1, <2>6 DEF TypeDB, TypeHistory, counts
  <2> QED
    BY <1>0, <2>1, <2>7, <2>8 DEF Typed, TypeOK, TypeStore
<1> QED
  BY <1>1, <1>2, <1>3, <1>4, <1>5, <1>6, <1>7

\* A wake's steps keep them.
LEMMA TypedDeliver ==
    ASSUME Typed, NEW j \in jobs, Deliver(j)
    PROVE  Typed'
<1> DEFINE Jobs == [at : Stages, load : SUBSET Waiting]
<1>0. /\ TypeStore /\ TypeGates /\ TypeDB /\ TypeHistory /\ j \in Jobs /\ j.load \subseteq Waiting
      /\ step["drain"] = "queue" => signals # <<>>
  BY DEF Typed, TypeOK, TypeStore
<1>1. UNCHANGED JobRest
  BY DEF Deliver, Check, Ensure, Flight, Send, Keep, Restore
<1>2. \A at \in Stages : [j EXCEPT !.at = at] \in Jobs
  BY <1>0
<1>3. jobs' \subseteq Jobs
  <2>1. \A ws \in SUBSET j.load : [at |-> "ensure", load |-> ws] \in Jobs
    BY <1>0 DEF Stages
  <2>2. CASE Check(j)
    BY <1>0, <2>1, <2>2 DEF Check, TypeStore
  <2>3. CASE ~Check(j)
    <3>1. jobs' = jobs \ {j} \/ \E at \in Stages : Moves(j, at)
      BY <2>3 DEF Deliver, Ensure, Flight, Send, Keep, Restore, Stages
    <3> QED
      BY <1>0, <1>2, <3>1 DEF Moves, TypeStore
  <2> QED
    BY <2>2, <2>3
<1>4. inFlight' \in {inFlight, j.load, {}} /\ reading' \in {reading, j.load}
  BY DEF Deliver, Check, Ensure, Flight, Send, Keep, Restore, runners, Dispatched
<1>5. waiting' \subseteq Waiting
  <2>1. CASE Restore(j)
    <3> DEFINE back == Restored(j.load \ Due(j.load))
    <3>1. back \subseteq Waiting
      BY <1>0, RestoredIs
    <3>2. {[w EXCEPT !.told = TRUE] : w \in back} \subseteq Waiting
      BY <3>1, ToldIs
    <3> QED
      BY <1>0, <2>1, <3>2 DEF Restore, TypeStore
  <2>2. CASE ~Restore(j)
    BY <1>0, <2>2 DEF Deliver, Check, Ensure, Flight, Send, Keep, TypeStore
  <2> QED
    BY <2>1, <2>2
<1>6. /\ lastWake' \in [Tasks -> {"none", "pending", "delivered", "notified"}]
      /\ noted' \subseteq Keys /\ told' \subseteq Keys /\ again' \subseteq Keys
  <2>1. CASE Restore(j)
    <3>1. j.load \ Due(j.load) \in SUBSET Waiting /\ Announced(j.load \ Due(j.load))
      BY <1>0, <2>1 DEF Restore
    <3>2. told' \subseteq Keys /\ again' \subseteq Keys
      BY <1>0, <3>1, AnnouncedIs DEF TypeHistory
    <3> QED
      BY <1>0, <2>1, <3>2, ReturnedIs DEF Restore, TypeDB, TypeHistory
  <2>2. CASE ~Restore(j)
    BY <1>0, <2>2 DEF Deliver, Check, Ensure, Flight, Send, Keep, TypeDB, TypeHistory
  <2> QED
    BY <2>1, <2>2
<1>7. dropped' \subseteq Keys
  <2>1. \A ws \in SUBSET j.load : KeysOf(ws) \subseteq Keys
    BY <1>0, Stored
  <2>2. dropped' = dropped \/ \E ws \in SUBSET j.load : dropped' = dropped \cup KeysOf(ws)
    BY DEF Deliver, Check, Ensure, Flight, Send, Keep, Restore
  <2> QED
    BY <1>0, <2>1, <2>2 DEF TypeHistory
<1>8. /\ open' \in [Sessions -> BOOLEAN] /\ ask' \in [Sessions -> BOOLEAN] /\ alive' \in BOOLEAN
      /\ running' \subseteq Sessions
  <2>1. /\ open' = open \/ \E b \in BOOLEAN : open' = [open EXCEPT ![Main] = b]
        /\ ask' = ask \/ ask' = [ask EXCEPT ![Main] = FALSE]
        /\ alive' \in {alive, TRUE} /\ running' \in {running, running \cup {Main}}
    BY DEF Deliver, Check, Ensure, Flight, Send, Keep, Restore, runners, Dispatched
  <2> QED
    BY <1>0, <2>1 DEF TypeGates, Sessions
<1>9. TypeStore' /\ TypeGates'
  BY <1>0, <1>1, <1>3, <1>4, <1>5, <1>8 DEF TypeStore, TypeGates, JobRest, lookers
<1>10. TypeDB' /\ TypeHistory'
  BY <1>0, <1>1, <1>6, <1>7 DEF TypeDB, TypeHistory, JobRest, counts
<1> QED
  BY <1>0, <1>1, <1>9, <1>10 DEF Typed, TypeOK, JobRest, lookers

\* What happens around the store keeps them.
LEMMA TypedAround ==
    ASSUME Typed, \/ UserSends \/ Crash \/ (\E s \in Subs : StartSub(s))
                  \/ (\E x \in Subs \cup Tasks : Leave(x))
                  \/ \E s \in Sessions : RunnerExit(s) \/ \E how \in Ends : EndRun(s, how)
    PROVE  Typed'
<1>0. /\ TypeStore /\ TypeGates /\ TypeDB /\ TypeHistory /\ "drain" \in Lookers
      /\ step["drain"] = "queue" => signals # <<>>
      /\ Ends \subseteq {"done", "asked", "failed", "stopped"} /\ Main \in Sessions
      /\ Subs \subseteq Sessions
  BY ConstantsAssumption DEF Typed, TypeOK, Sessions
<1>1. CASE UserSends
  <2>1. /\ UNCHANGED <<store, lookers, jobs, exit, signals, db, exits, crashes, history>>
        /\ chats' = chats + 1
    BY <1>1 DEF UserSends
  <2>2. /\ open' = open \/ open' = [open EXCEPT ![Main] = TRUE]
        /\ ask' = ask \/ ask' = [ask EXCEPT ![Main] = FALSE]
        /\ alive' \in {alive, TRUE} /\ running' \in {running, running \cup {Main}}
        /\ reading' \in {reading, {}} /\ queued' \in {queued, queued + 1}
    BY <1>1 DEF UserSends, Dispatched, runners
  <2>3. TypeGates'
    <3>1. queued' \in Nat
      BY <1>0, <2>2 DEF TypeGates
    <3>2. /\ open' \in [Sessions -> BOOLEAN] /\ ask' \in [Sessions -> BOOLEAN]
          /\ alive' \in BOOLEAN /\ running' \subseteq Sessions /\ reading' \subseteq Waiting
      BY <1>0, <2>2 DEF TypeGates
    <3> QED
      BY <1>0, <2>1, <3>1, <3>2 DEF TypeGates
  <2>4. TypeStore' /\ TypeDB' /\ TypeHistory'
    BY <1>0, <2>1 DEF TypeStore, TypeDB, TypeHistory, store, lookers, db, history
  <2> QED
    BY <1>0, <2>1, <2>3, <2>4 DEF Typed, TypeOK, lookers
<1>2. CASE Crash
  <2>1. <<>> \in Seq([kind : {"run_complete", "closed"}, of : Sessions])
    OBVIOUS
  <2>2. TypeStore' /\ step'["drain"] # "queue"
    <3>1. /\ waiting' = {} /\ seen' = {} /\ inFlight' = {} /\ jobs' = {} /\ wakes' = FALSE
          /\ step' = [c \in Lookers |-> "idle"] /\ found' = [c \in Lookers |-> {}]
      BY <1>2 DEF Crash
    <3>2. step' \in [Lookers -> Steps] /\ step'["drain"] # "queue"
      BY <1>0, <3>1 DEF Steps
    <3>3. found' \in [Lookers -> SUBSET Reports]
      BY <3>1
    <3> QED
      BY <3>1, <3>2, <3>3 DEF TypeStore
  <2>3. TypeGates' /\ TypeDB' /\ TypeHistory'
    <3>1. /\ open' = [s \in Sessions |-> FALSE] /\ ask' = [s \in Sessions |-> FALSE]
          /\ exit' = [s \in Sessions |-> "none"] /\ queued' = 0
          /\ alive' = FALSE /\ running' = {} /\ reading' = {} /\ signals' = <<>>
          /\ told' = {} /\ again' = {} /\ crashes' = crashes + 1
          /\ UNCHANGED <<db, chats, exits, heard, failed, dropped, noted>>
      BY <1>2 DEF Crash
    <3>2. open' \in [Sessions -> BOOLEAN] /\ ask' \in [Sessions -> BOOLEAN]
      BY <3>1, Zenon
    <3>3. TypeGates'
      BY <2>1, <3>1, <3>2 DEF TypeGates
    <3>4. crashes' \in Nat
      BY <1>0, <3>1 DEF TypeHistory
    <3>5. TypeDB' /\ TypeHistory'
      BY <1>0, <3>1, <3>4 DEF TypeDB, TypeHistory, db
    <3> QED
      BY <3>3, <3>5
  <2> QED
    BY <2>2, <2>3 DEF Typed, TypeOK
<1>3. ASSUME NEW s \in Subs, StartSub(s) PROVE Typed'
  BY <1>0, <1>3 DEF StartSub, Typed, TypeOK, TypeStore, TypeGates, TypeDB,
     TypeHistory, store, lookers, db, counts, history
<1>4. ASSUME NEW x \in Subs \cup Tasks, Leave(x) PROVE Typed'
  BY <1>0, <1>4 DEF Leave, Typed, TypeOK, TypeStore, TypeGates, TypeDB, TypeHistory, store,
     lookers, gates, runners, counts, history
<1>5. ASSUME NEW s \in Sessions, RunnerExit(s) \/ \E how \in Ends : EndRun(s, how)
      PROVE  Typed'
  <2>1. UNCHANGED <<store, lookers, jobs, open, queued, db, dropped, told, again, noted, crashes, chats>>
    BY <1>5 DEF RunnerExit, EndRun, gates, counts
  <2>2. PICK kind \in {"run_complete", "closed"} : Signal(kind, s)
    BY <1>5 DEF RunnerExit, EndRun
  <2>3. signals' \in Seq([kind : {"run_complete", "closed"}, of : Sessions]) /\ signals' # <<>>
    BY <2>2, Signals
  <2>4. /\ alive' \in BOOLEAN /\ running' \subseteq Sessions /\ reading' \subseteq Waiting
        /\ exits' \in Nat
    <3>1. /\ alive' \in {alive, FALSE} \/ alive' = (alive /\ s # Main)
          /\ running' = running \ {s} /\ reading' \in {reading, {}}
          /\ exits' \in {exits, exits + 1}
      BY <1>5 DEF RunnerExit, EndRun, counts
    <3>2. exits' \in Nat
      BY <1>0, <3>1 DEF TypeHistory
    <3>3. alive' \in BOOLEAN
      BY <1>0, <3>1 DEF TypeGates
    <3> QED
      BY <1>0, <3>1, <3>2, <3>3 DEF TypeGates
  <2>5. /\ exit' = exit \/ \E how \in Ends : exit' = [exit EXCEPT ![s] = how]
        /\ ask' = ask \/ \E b \in BOOLEAN : ask' = [ask EXCEPT ![s] = b]
    BY <1>5 DEF RunnerExit, EndRun, gates
  <2>6. KeysOf(reading) \subseteq Keys
    BY <1>0, Stored DEF TypeGates
  <2>7. heard' \subseteq Keys /\ failed' \subseteq Keys
    BY <1>0, <1>5, <2>6 DEF RunnerExit, EndRun, TypeHistory
  <2>8. TypeGates'
    BY <1>0, <2>1, <2>3, <2>4, <2>5 DEF TypeGates
  <2>9. TypeStore' /\ TypeDB' /\ TypeHistory'
    BY <1>0, <2>1, <2>4, <2>7 DEF TypeStore, TypeDB, TypeHistory, store, lookers, db
  <2> QED
    BY <2>3, <2>8, <2>9 DEF Typed, TypeOK
<1> QED
  BY <1>1, <1>2, <1>3, <1>4, <1>5

\* Every step keeps them.
LEMMA TypedStep == Typed /\ [Next]_vars => Typed'
<1> SUFFICES ASSUME Typed, [Next]_vars PROVE Typed'
  OBVIOUS
<1>1. CASE UNCHANGED vars
  BY <1>1 DEF vars, Typed, TypeOK, TypeStore, TypeGates, TypeDB, TypeHistory, store, lookers,
     gates, runners, db, counts, history
<1> QED
  BY <1>1, TypedDrain, TypedLooks, TypedDeliver, TypedAround DEF Next, Core, Around

(* Every variable has its type: what the store, the wakes, the gates and   *)
(* the database hold is well formed, after every step and every restart.   *)
THEOREM TypeOKHolds == Spec => []TypeOK
<1>1. Typed => TypeOK
  BY DEF Typed
<1> QED
  BY <1>1, TypedInit, TypedStep, PTL DEF Spec

-----------------------------------------------------------------------------
(* What a step does to the database, and where the reports of the next     *)
(* state come from.                                                        *)

Undelivered == waiting \cup Carried

\* A report that this step records: the end of a run, a tag, a fire that was read.
Appears(r) ==
    /\ Key(r) \notin seen /\ Key(r) \in seen'
    /\ \/ /\ r.of \in Subs /\ RecordRunEnd(r.of) /\ r.n = turn[r.of]
          /\ r.kind = RunEnd(Head(signals)) /\ r.kind \in {"done", "asking", "error"}
       \/ r.of \in Tags \cup Subs /\ TagFails(r.of) /\ r.n = 0 /\ r.kind = "tag"
       \/ \E c \in Lookers : AddPending(c) /\ r \in found[c]

\* What the database keeps only grows or moves on, one action at a time.
LEMMA Database ==
    ASSUME Typed, [Next]_vars
    PROVE  /\ UNCHANGED turn \/ \E s \in Subs : StartSub(s)
           /\ UNCHANGED fired \/ \E t \in Tasks : Fire(t)
           /\ left \subseteq left' /\ cancelled \subseteq cancelled'
<1>1. CASE UNCHANGED vars
  BY <1>1 DEF vars, db
<1>2. CASE RecordWakeRunEnd \/ QueueStep \/ TickHeld \/ UserSends \/ Crash
  BY <1>2 DEF RecordWakeRunEnd, QueueStep, TickHeld, UserSends, Crash, db
<1>3. ASSUME NEW s \in Subs, RecordRunEnd(s) \/ StartSub(s)
      PROVE  /\ UNCHANGED turn \/ StartSub(s)
             /\ UNCHANGED <<fired, left, cancelled>>
  BY <1>3 DEF RecordRunEnd, StartSub, db
<1>4. ASSUME NEW c \in Lookers, ReadPending(c) \/ AddPending(c) \/ Look(c)
      PROVE  UNCHANGED <<turn, fired, left, cancelled>>
  BY <1>4 DEF ReadPending, AddPending, Look, LookDue, LookAsk, Reserve, Take, Release, db
<1>5. ASSUME NEW j \in jobs, Deliver(j) PROVE UNCHANGED <<turn, fired, left, cancelled>>
  BY <1>5 DEF Deliver, Check, Ensure, Flight, Send, Keep, Restore, JobRest
<1>6. ASSUME NEW t \in Tasks, Fire(t) PROVE UNCHANGED <<turn, left, cancelled>>
  BY <1>6 DEF Fire
<1>7. ASSUME NEW x \in Tags \cup Subs, TagFails(x) PROVE UNCHANGED <<turn, fired, left, cancelled>>
  BY <1>7 DEF TagFails, db
<1>8. ASSUME NEW w \in waiting, BatchWait(w) PROVE UNCHANGED <<turn, fired, left, cancelled>>
  BY <1>8 DEF BatchWait, db
<1>9. ASSUME NEW s \in Sessions, RunnerExit(s) \/ \E how \in Ends : EndRun(s, how)
      PROVE  UNCHANGED <<turn, fired, left, cancelled>>
  BY <1>9 DEF RunnerExit, EndRun, db
<1>10. ASSUME NEW x \in Subs \cup Tasks, Leave(x)
       PROVE  UNCHANGED <<turn, fired>> /\ left \subseteq left' /\ cancelled \subseteq cancelled'
  BY <1>10 DEF Leave
<1> QED
  BY <1>1, <1>2, <1>3, <1>4, <1>5, <1>6, <1>7, <1>8, <1>9, <1>10 DEF Next, Core, Around

\* What a wake's step does to the reports it carries.
LEMMA Carries ==
    ASSUME Typed, NEW j \in jobs, Deliver(j)
    PROVE  /\ Carried' \subseteq Carried
           /\ inFlight' \in {inFlight, j.load, {}} /\ reading' \in {reading, j.load}
           /\ j.load \subseteq Carried
<1>1. \A i \in jobs' : i.load \subseteq Carried
  <2>1. \A i \in jobs : i.load \subseteq Carried
    BY DEF Carried
  <2>2. CASE Check(j)
    BY <2>1, <2>2 DEF Check
  <2>3. CASE ~Check(j)
    <3>1. jobs' = jobs \ {j} \/ \E at \in Stages : Moves(j, at)
      BY <2>3 DEF Deliver, Ensure, Flight, Send, Keep, Restore, Stages
    <3>2. \A at \in Stages : [j EXCEPT !.at = at].load = j.load
      BY DEF Typed, TypeOK, TypeStore
    <3> QED
      BY <2>1, <3>1, <3>2 DEF Moves
  <2> QED
    BY <2>2, <2>3
<1>2. Carried' \subseteq Carried
  BY <1>1 DEF Carried
<1>3. inFlight' \in {inFlight, j.load, {}} /\ reading' \in {reading, j.load}
  BY DEF Deliver, Check, Ensure, Flight, Send, Keep, Restore, runners, Dispatched
<1> QED
  BY <1>2, <1>3 DEF Carried

\* Everything carried is well formed.
LEMMA CarriedType == Typed => Carried \subseteq Waiting /\ Undelivered \subseteq Waiting
BY DEF Typed, TypeOK, TypeStore, Carried, Undelivered

\* A run's end that is recorded is one of three.
LEMMA RecordedEnd ==
    ASSUME NEW s \in Subs, RecordRunEnd(s), seen' # seen
    PROVE  LET r == Report(s, turn[s], RunEnd(Head(signals)))
           IN  /\ r.kind \in {"done", "asking", "error"} /\ s \notin left /\ Key(r) \notin seen
               /\ Added({r}, HoldFor(s, r.kind))
<1>1. RunEnd(Head(signals)) # "nothing" /\ s \notin left
  BY DEF RecordRunEnd
<1> QED
  BY <1>1 DEF RecordRunEnd, RunEnd, Report

\* The steps that record anything.
Adds == (\E s \in Subs : RecordRunEnd(s)) \/ (\E x \in Tags \cup Subs : TagFails(x))
            \/ (\E c \in Lookers : AddPending(c))

\* They add reports that appear, and leave alone what is carried.
LEMMA Addition ==
    ASSUME Typed, Adds
    PROVE  /\ UNCHANGED <<inFlight, jobs, reading>>
           /\ \/ UNCHANGED <<waiting, seen>>
              \/ \E rs \in SUBSET Reports, held \in {"no", "held", "late"} :
                    Added(rs, held) /\ \A r \in rs : Key(r) \notin seen => Appears(r)
<1> DEFINE Goal == \/ UNCHANGED <<waiting, seen>>
                   \/ \E rs \in SUBSET Reports, held \in {"no", "held", "late"} :
                         Added(rs, held) /\ \A r \in rs : Key(r) \notin seen => Appears(r)
<1>0. /\ TypeStore /\ TypeDB /\ waiting \subseteq Waiting /\ seen \subseteq Keys
      /\ UNCHANGED <<inFlight, jobs, reading>>
  BY DEF Typed, TypeOK, TypeStore, Adds, RecordRunEnd, TagFails, AddPending, runners
<1>1. ASSUME NEW s \in Subs, RecordRunEnd(s) PROVE Goal
  <2> DEFINE r == Report(s, turn[s], RunEnd(Head(signals)))
  <2>0. CASE UNCHANGED seen
    <3>1. \/ UNCHANGED waiting
          \/ Key(r) \notin seen /\ Added({r}, HoldFor(s, RunEnd(Head(signals))))
      BY <1>1 DEF RecordRunEnd
    <3>2. Key(r) \notin seen /\ Added({r}, HoldFor(s, RunEnd(Head(signals)))) => FALSE
      BY <2>0 DEF Added
    <3> QED
      BY <2>0, <3>1, <3>2
  <2> SUFFICES ASSUME seen' # seen PROVE Goal
    BY <2>0
  <2>1. /\ r.kind \in {"done", "asking", "error"} /\ Key(r) \notin seen
        /\ Added({r}, HoldFor(s, r.kind))
    BY <1>1, RecordedEnd
  <2>2. r \in Reports /\ r.of = s /\ r.n = turn[s] /\ r.kind = RunEnd(Head(signals))
    <3>1. RunEnd(Head(signals)) \in Outcomes /\ s \in Sources /\ turn[s] \in Nat
      BY <1>0, <2>1 DEF Report, Outcomes, Sources, TypeDB
    <3> QED
      BY <3>1, MadeReport
  <2>3. HoldFor(s, r.kind) \in {"no", "held", "late"}
    BY DEF HoldFor
  <2> HIDE DEF r
  <2>4. Key(r) \in seen'
    BY <1>0, <2>1, <2>2, <2>3, AddedIs
  <2>5. Appears(r)
    BY <1>1, <2>1, <2>2, <2>4 DEF Appears
  <2> QED
    BY <2>1, <2>2, <2>3, <2>5
<1>2. ASSUME NEW x \in Tags \cup Subs, TagFails(x) PROVE Goal
  <2> DEFINE r == Report(x, 0, "tag")
  <2>1. r \in Reports /\ r.of = x /\ r.n = 0 /\ r.kind = "tag" /\ Key(r) = <<x, 0>>
    BY MadeReport DEF Sources, Outcomes
  <2>2. Added({r}, "no") /\ <<x, 0>> \notin seen
    BY <1>2 DEF TagFails
  <2> HIDE DEF r
  <2>4. Key(r) \in seen'
    BY <1>0, <2>1, <2>2, AddedIs
  <2>5. Appears(r)
    BY <1>2, <2>1, <2>2, <2>4 DEF Appears
  <2> QED
    BY <2>1, <2>2, <2>5
<1>3. ASSUME NEW c \in Lookers, AddPending(c) PROVE Goal
  <2>1. Added(found[c], "no") /\ found[c] \in SUBSET Reports
    BY <1>0, <1>3 DEF AddPending, TypeStore
  <2>2. \A r \in found[c] : Key(r) \in seen'
    BY <1>0, <2>1, AddedIs
  <2>3. \A r \in found[c] : Key(r) \notin seen => Appears(r)
    BY <1>3, <2>2 DEF Appears
  <2> QED
    BY <2>1, <2>3
<1> QED
  BY <1>0, <1>1, <1>2, <1>3 DEF Adds

\* Nothing else but a restart changes what was recorded.
LEMMA Others ==
    ASSUME Typed, [Next]_vars, ~Adds
    PROVE  UNCHANGED seen \/ Crash
<1>4. CASE UNCHANGED vars
  BY <1>4 DEF vars, store
<1>5. CASE RecordWakeRunEnd \/ QueueStep \/ TickHeld \/ UserSends \/ Crash
  BY <1>5 DEF RecordWakeRunEnd, QueueStep, TickHeld, UserSends, store
<1>6. ASSUME NEW c \in Lookers, ReadPending(c) \/ Look(c) PROVE UNCHANGED seen
  BY <1>6 DEF ReadPending, Look, LookDue, LookAsk, Reserve, Take, Release, store
<1>7. ASSUME NEW j \in jobs, Deliver(j) PROVE UNCHANGED seen
  BY <1>7 DEF Deliver, Check, Ensure, Flight, Send, Keep, Restore, JobRest
<1>8. ASSUME NEW t \in Tasks, Fire(t) PROVE UNCHANGED seen
  BY <1>8 DEF Fire, store
<1>9. ASSUME NEW w \in waiting, BatchWait(w) PROVE UNCHANGED seen
  BY <1>9 DEF BatchWait
<1>10. ASSUME NEW s \in Sessions, RunnerExit(s) \/ \E how \in Ends : EndRun(s, how)
       PROVE  UNCHANGED seen
  BY <1>10 DEF RunnerExit, EndRun, store
<1>11. ASSUME NEW s \in Subs, StartSub(s) PROVE UNCHANGED seen
  BY <1>11 DEF StartSub, store
<1>12. ASSUME NEW x \in Subs \cup Tasks, Leave(x) PROVE UNCHANGED seen
  BY <1>12 DEF Leave, store
<1> QED
  BY <1>4, <1>5, <1>6, <1>7, <1>8, <1>9, <1>10, <1>11, <1>12
     DEF Next, Core, Around, Adds

\* A step that changes what was recorded is a restart or records what appears.
LEMMA Records ==
    ASSUME Typed, [Next]_vars
    PROVE  \/ UNCHANGED seen
           \/ Crash
           \/ /\ seen \subseteq seen'
              /\ \A k \in seen' : k \in seen \/ \E r \in Reports : k = Key(r) /\ Appears(r)
<1>0. waiting \subseteq Waiting /\ seen \subseteq Keys
  BY DEF Typed, TypeOK, TypeStore
<1>1. CASE Adds
  <2> SUFFICES ASSUME NEW rs \in SUBSET Reports, NEW held \in {"no", "held", "late"},
                      Added(rs, held), \A r \in rs : Key(r) \notin seen => Appears(r)
               PROVE  /\ seen \subseteq seen'
                      /\ \A k \in seen' : k \in seen \/ \E r \in Reports : k = Key(r) /\ Appears(r)
    BY <1>1, Addition
  <2> QED
    BY <1>0, AddedIs
<1> QED
  BY <1>1, Others

\* Where the reports of the next state come from.
LEMMA Origin ==
    ASSUME Typed, [Next]_vars
    PROVE  /\ \A w \in Undelivered' : \/ \E x \in Undelivered : w.rep = x.rep
                                      \/ w \in waiting' /\ Appears(w.rep) /\ ~w.told
           /\ \A w \in inFlight' : w \in inFlight \/ w \in Carried
           /\ \A w \in reading' : w \in reading \/ w \in Carried
<1> DEFINE From(w) == \E x \in Undelivered : w.rep = x.rep
           Rest == /\ \A w \in inFlight' : w \in inFlight \/ w \in Carried
                   /\ \A w \in reading' : w \in reading \/ w \in Carried
<1>0. /\ waiting \subseteq Waiting /\ seen \subseteq Keys
      /\ Carried \subseteq Waiting /\ Undelivered \subseteq Waiting
      /\ \A w \in Undelivered : From(w)
  BY CarriedType DEF Typed, TypeOK, TypeStore
<1>1. CASE Adds
  <2>1. UNCHANGED <<inFlight, jobs, reading>>
    BY <1>1, Addition
  <2>2. UNCHANGED Carried
    BY <2>1 DEF Carried
  <2>3. \A w \in waiting' : w \in waiting \/ (Appears(w.rep) /\ ~w.told)
    <3> SUFFICES ASSUME NEW rs \in SUBSET Reports, NEW held \in {"no", "held", "late"},
                        Added(rs, held), \A r \in rs : Key(r) \notin seen => Appears(r)
                 PROVE  \A w \in waiting' : w \in waiting \/ (Appears(w.rep) /\ ~w.told)
      BY <1>1, Addition
    <3> QED
      BY <1>0, AddedIs
  <2> QED
    BY <2>1, <2>2, <2>3 DEF Undelivered
<1>2. ASSUME NEW j \in jobs, Deliver(j)
      PROVE  (\A w \in Undelivered' : From(w)) /\ Rest
  <2>1. /\ Carried' \subseteq Carried
        /\ inFlight' \in {inFlight, j.load, {}} /\ reading' \in {reading, j.load}
        /\ j.load \subseteq Carried
    BY <1>2, Carries
  <2>2. \A w \in waiting' : From(w)
    <3>1. CASE Restore(j)
      <4> DEFINE kept == j.load \ Due(j.load)
                 back == {[w EXCEPT !.told = TRUE] : w \in Restored(kept)}
      <4>1. waiting' = waiting \cup back
        BY <3>1 DEF Restore
      <4>2. kept \in SUBSET Waiting /\ kept \subseteq Carried
        BY <1>0, <2>1
      <4>3. Restored(kept) \subseteq Waiting /\ \A w \in Restored(kept) : \E x \in kept : w.rep = x.rep
        BY <4>2, RestoredIs
      <4>4. \A w \in back : w.told = TRUE /\ \E x \in Restored(kept) : w.rep = x.rep /\ w.held = x.held
        <5> HIDE DEF kept
        <5> QED
          BY <4>3, ToldIs
      <4> HIDE DEF kept, back
      <4> QED
        BY <4>1, <4>2, <4>3, <4>4 DEF Undelivered
    <3>2. CASE ~Restore(j)
      BY <1>2, <3>2 DEF Deliver, Check, Ensure, Flight, Send, Keep, Undelivered
    <3> QED
      BY <3>1, <3>2
  <2> QED
    BY <2>1, <2>2 DEF Undelivered
<1>3. ASSUME NEW c \in Lookers, Look(c)
      PROVE  (\A w \in Undelivered' : From(w)) /\ Rest
  <2>1. UNCHANGED <<inFlight, reading>>
    BY <1>3 DEF Look, LookDue, LookAsk, Reserve, Take, Release, store, runners
  <2>2. CASE Take(c)
    <3>1. waiting' = {} /\ \A i \in jobs' : i \in jobs \/ i.load = waiting
      BY <2>2 DEF Take
    <3>2. Carried' \subseteq Undelivered
      BY <3>1 DEF Carried, Undelivered
    <3> QED
      BY <1>0, <2>1, <3>1, <3>2 DEF Undelivered
  <2>3. CASE ~Take(c)
    <3>1. UNCHANGED jobs
      BY <1>3, <2>3 DEF Look, LookDue, LookAsk, Reserve, Release
    <3>2. \/ waiting' = waiting
          \/ waiting' = {[w EXCEPT !.told = TRUE] : w \in waiting \ Due(waiting)}
      BY <1>3, <2>3 DEF Look, LookDue, LookAsk, Reserve, Release, store
    <3>3. \A w \in waiting' : \E x \in waiting : w.rep = x.rep
      <4> DEFINE kept == waiting \ Due(waiting)
                 back == {[w EXCEPT !.told = TRUE] : w \in kept}
      <4>1. waiting' = waiting \/ waiting' = back
        BY <3>2
      <4>2. kept \in SUBSET Waiting /\ kept \subseteq waiting
        BY <1>0
      <4> HIDE DEF kept
      <4>3. \A w \in back : w.told = TRUE /\ \E x \in kept : w.rep = x.rep /\ w.held = x.held
        BY <4>2, ToldIs
      <4> HIDE DEF back
      <4> QED
        BY <4>1, <4>2, <4>3
    <3>4. UNCHANGED Carried
      BY <3>1 DEF Carried
    <3> QED
      BY <1>0, <2>1, <3>3, <3>4 DEF Undelivered
  <2> QED
    BY <2>2, <2>3
<1>4. ASSUME NEW v \in waiting, BatchWait(v)
      PROVE  (\A w \in Undelivered' : From(w)) /\ Rest
  <2>1. /\ waiting' = (waiting \ {v}) \cup {[v EXCEPT !.held = "late"]}
        /\ UNCHANGED <<inFlight, jobs, reading>>
    BY <1>4 DEF BatchWait, runners
  <2>2. \A w \in waiting' : \E x \in waiting : w.rep = x.rep
    <3> DEFINE late == [v EXCEPT !.held = "late"]
    <3>1. late.rep = v.rep
      BY <1>0, Marked
    <3> HIDE DEF late
    <3>2. \A w \in waiting' : w \in waiting \/ w = late
      BY <2>1 DEF late
    <3> QED
      BY <3>1, <3>2
  <2>3. UNCHANGED Carried
    BY <2>1 DEF Carried
  <2> QED
    BY <1>0, <2>1, <2>2, <2>3 DEF Undelivered
<1>5. ASSUME UNCHANGED <<waiting, jobs>>, inFlight' \in {inFlight, {}}, reading' \in {reading, {}}
      PROVE  (\A w \in Undelivered' : From(w)) /\ Rest
  BY <1>0, <1>5 DEF Undelivered, Carried
<1>6. CASE Crash
  <2>1. waiting' = {} /\ jobs' = {} /\ inFlight' = {} /\ reading' = {}
    BY <1>6 DEF Crash
  <2>2. Carried' = {}
    BY <2>1 DEF Carried
  <2> QED
    BY <2>1, <2>2 DEF Undelivered
<1>7. CASE UNCHANGED vars
  BY <1>5, <1>7 DEF vars, store, runners
<1>8. CASE RecordWakeRunEnd \/ QueueStep \/ TickHeld \/ UserSends
  BY <1>5, <1>8 DEF RecordWakeRunEnd, QueueStep, TickHeld, UserSends, store, runners, Dispatched
<1>9. ASSUME NEW t \in Tasks, Fire(t) PROVE UNCHANGED <<waiting, jobs, inFlight, reading>>
  BY <1>9 DEF Fire, store, runners
<1>10. ASSUME NEW s \in Sessions, RunnerExit(s) \/ \E how \in Ends : EndRun(s, how)
       PROVE  UNCHANGED <<waiting, jobs, inFlight>> /\ reading' \in {reading, {}}
  BY <1>10 DEF RunnerExit, EndRun, store
<1>11. ASSUME NEW s \in Subs, StartSub(s) PROVE UNCHANGED <<waiting, jobs, inFlight, reading>>
  BY <1>11 DEF StartSub, store
<1>12. ASSUME NEW x \in Subs \cup Tasks, Leave(x) PROVE UNCHANGED <<waiting, jobs, inFlight, reading>>
  BY <1>12 DEF Leave, store, runners
<1>13. ASSUME NEW c \in Lookers, ReadPending(c) PROVE UNCHANGED <<waiting, jobs, inFlight, reading>>
  BY <1>13 DEF ReadPending, store, runners
<1> QED
  BY <1>1, <1>2, <1>3, <1>4, <1>5, <1>6, <1>7, <1>8, <1>9, <1>10, <1>11, <1>12, <1>13
     DEF Next, Core, Around, Adds

-----------------------------------------------------------------------------
(* What a report says of the database.                                     *)

Held == Undelivered \cup inFlight \cup reading

\* A recorded end is of a run that was started, a recorded fire of one that was.
Numbered == \A k \in seen : /\ k[1] \in Subs => k[2] <= turn[k[1]]
                            /\ k[1] \in Tasks => k[2] <= fired[k[1]]

\* What is held was recorded.
Recorded == \A w \in Held : Key(w.rep) \in seen

\* A report is of the kind its source makes.
Kinds == \A w \in Held : /\ w.rep.kind = "due" <=> w.rep.of \in Tasks
                         /\ w.rep.of \in Tags => w.rep.kind = "tag"

\* What was read of the tasks is a fire.
FoundFires == \A c \in Lookers : \A r \in found[c] :
                  r.kind = "due" /\ r.of \in Tasks /\ r.n <= fired[r.of]

Known == /\ Typed /\ Numbered /\ Recorded /\ Kinds /\ FoundFires
         /\ \A s \in Batch : turn[s] >= 1

\* It holds when Core starts.
LEMMA KnownInit == Init => Known
<1> SUFFICES ASSUME Init PROVE Known
  OBVIOUS
<1>1. Typed
  BY TypedInit
<1>2. /\ waiting = {} /\ seen = {} /\ inFlight = {} /\ jobs = {} /\ reading = {}
      /\ found = [c \in Lookers |-> {}]
  BY DEF Init
<1>3. Held = {}
  BY <1>2 DEF Held, Undelivered, Carried
<1>4. \A s \in Batch : turn[s] >= 1
  BY ConstantsAssumption DEF Init
<1> QED
  BY <1>1, <1>2, <1>3, <1>4
     DEF Known, Numbered, Recorded, Kinds, FoundFires

\* What appears is of the kind its source makes, and says what the database does.
LEMMA Appeared ==
    ASSUME Known, NEW r \in Reports, Appears(r)
    PROVE  /\ r.kind = "due" <=> r.of \in Tasks
           /\ r.kind = "tag" => r.n = 0
           /\ r.of \in Tags => r.kind = "tag"
           /\ r.of \in Subs => /\ r.n = turn[r.of]
                               /\ \/ RecordRunEnd(r.of) /\ r.kind = RunEnd(Head(signals))
                                  \/ TagFails(r.of) /\ r.kind = "tag"
           /\ r.of \in Tasks => r.n <= fired[r.of]
           /\ Key(r)[1] = r.of /\ Key(r)[2] = r.n /\ Key(r) \notin seen /\ Key(r) \in seen'
<1>1. Key(r)[1] = r.of /\ Key(r)[2] = r.n /\ Key(r) \notin seen /\ Key(r) \in seen'
  BY DEF Key, Appears
<1>2. Subs \cap Tags = {} /\ Subs \cap Tasks = {} /\ Tags \cap Tasks = {}
  BY ConstantsAssumption
<1>3. CASE /\ r.of \in Subs /\ RecordRunEnd(r.of) /\ r.n = turn[r.of]
           /\ r.kind = RunEnd(Head(signals)) /\ r.kind \in {"done", "asking", "error"}
  BY <1>1, <1>2, <1>3
<1>4. CASE r.of \in Tags \cup Subs /\ TagFails(r.of) /\ r.n = 0 /\ r.kind = "tag"
  <2>1. r.of \in Subs => turn[r.of] = 0
    BY <1>4 DEF TagFails
  <2> QED
    BY <1>1, <1>2, <1>4, <2>1
<1>5. CASE \E c \in Lookers : r \in found[c]
  <2>1. r.kind = "due" /\ r.of \in Tasks /\ r.n <= fired[r.of]
    BY <1>5 DEF Known, FoundFires
  <2> QED
    BY <1>1, <1>2, <2>1
<1> QED
  BY <1>3, <1>4, <1>5 DEF Appears

\* Numbers of turns and fires only grow.
LEMMA Grows ==
    ASSUME Typed, [Next]_vars
    PROVE  /\ \A s \in Subs : turn'[s] >= turn[s] /\ turn[s] \in Nat /\ turn'[s] \in Nat
           /\ \A t \in Tasks : fired'[t] >= fired[t] /\ fired[t] \in Nat /\ fired'[t] \in Nat
<1>0. turn \in [Subs -> Nat] /\ fired \in [Tasks -> Nat]
  BY DEF Typed, TypeOK, TypeDB
<1>1. turn' = turn \/ \E s \in Subs : turn' = [turn EXCEPT ![s] = @ + 1]
  BY Database DEF StartSub
<1>2. fired' = fired \/ \E t \in Tasks : fired' = [fired EXCEPT ![t] = @ + 1]
  BY Database DEF Fire
<1> QED
  BY <1>0, <1>1, <1>2

\* What a looker has read is what it had, or the pending fires of now.
LEMMA Reads ==
    ASSUME Typed, [Next]_vars, NEW c \in Lookers, NEW r \in found'[c], r \notin found[c]
    PROVE  /\ ReadPending(c) /\ r \in Reports
           /\ r.kind = "due" /\ r.of \in Tasks \ cancelled /\ r.n = fired[r.of]
           /\ lastWake[r.of] = "pending"
<1>0. found \in [Lookers -> SUBSET Reports] /\ fired \in [Tasks -> Nat]
  BY DEF Typed, TypeOK, TypeStore, TypeDB
<1>1. ASSUME NEW d \in Lookers, ReadPending(d)
      PROVE  d = c /\ \E t \in Tasks \ cancelled : lastWake[t] = "pending" /\ r = FireOf(t)
  <2> DEFINE pending == {FireOf(t) : t \in {u \in Tasks \ cancelled : lastWake[u] = "pending"}}
  <2>1. found' = [found EXCEPT ![d] = pending]
    BY <1>1 DEF ReadPending
  <2> HIDE DEF pending
  <2>2. d = c /\ r \in pending
    BY <1>0, <2>1
  <2> QED
    BY <2>2 DEF pending
<1>2. ASSUME NEW d \in Lookers, AddPending(d) \/ Look(d) PROVE FALSE
  BY <1>0, <1>2 DEF AddPending, Look, LookDue, LookAsk, Reserve, Take, Release
<1>3. UNCHANGED vars => UNCHANGED found
  BY DEF vars, lookers
<1>4. RecordWakeRunEnd \/ QueueStep \/ TickHeld \/ UserSends => UNCHANGED found
  BY DEF RecordWakeRunEnd, QueueStep, TickHeld, UserSends, lookers
<1>5. Crash => found' = [d \in Lookers |-> {}]
  BY DEF Crash
<1>6. \A s \in Subs : RecordRunEnd(s) \/ StartSub(s) => UNCHANGED found
  BY DEF RecordRunEnd, StartSub, lookers
<1>7. \A j \in jobs : Deliver(j) => UNCHANGED found
  BY DEF Deliver, Check, Ensure, Flight, Send, Keep, Restore, JobRest, lookers
<1>8. /\ \A t \in Tasks : Fire(t) => UNCHANGED found
      /\ \A x \in Tags \cup Subs : TagFails(x) => UNCHANGED found
      /\ \A w \in waiting : BatchWait(w) => UNCHANGED found
      /\ \A x \in Subs \cup Tasks : Leave(x) => UNCHANGED found
  BY DEF Fire, TagFails, BatchWait, Leave, lookers
<1>9. \A s \in Sessions : RunnerExit(s) \/ (\E how \in Ends : EndRun(s, how)) => UNCHANGED found
  BY DEF RunnerExit, EndRun, lookers
<1>10. \E d \in Lookers : ReadPending(d)
  BY <1>0, <1>2, <1>3, <1>4, <1>5, <1>6, <1>7, <1>8, <1>9 DEF Next, Core, Around
<1>11. PICK t \in Tasks \ cancelled : ReadPending(c) /\ lastWake[t] = "pending" /\ r = FireOf(t)
  BY <1>1, <1>10
<1> QED
  BY <1>0, <1>11, MadeReport DEF FireOf, Sources, Outcomes

\* What is dropped was dropped before, or was carried and is not due any more.
LEMMA Drops ==
    ASSUME Typed, [Next]_vars, NEW k \in dropped', k \notin dropped
    PROVE  \E j \in jobs : /\ Check(j) /\ (Races \/ step["drain"] # "queue")
                           /\ \E w \in j.load : w \in Carried /\ k = Key(w.rep) /\ ~StillDue(w.rep)
<1>1. UNCHANGED vars => UNCHANGED dropped
  BY DEF vars, history
<1>2. RecordWakeRunEnd \/ QueueStep \/ TickHeld \/ UserSends \/ Crash => UNCHANGED dropped
  BY DEF RecordWakeRunEnd, QueueStep, TickHeld, UserSends, Crash, history
<1>3. \A s \in Subs : RecordRunEnd(s) \/ StartSub(s) => UNCHANGED dropped
  BY DEF RecordRunEnd, StartSub, history
<1>4. \A c \in Lookers : ReadPending(c) \/ AddPending(c) \/ Look(c) => UNCHANGED dropped
  BY DEF ReadPending, AddPending, Look, LookDue, LookAsk, Reserve, Take, Release, history
<1>5. /\ \A t \in Tasks : Fire(t) => UNCHANGED dropped
      /\ \A x \in Tags \cup Subs : TagFails(x) => UNCHANGED dropped
      /\ \A w \in waiting : BatchWait(w) => UNCHANGED dropped
      /\ \A x \in Subs \cup Tasks : Leave(x) => UNCHANGED dropped
  BY DEF Fire, TagFails, BatchWait, Leave, history
<1>6. \A s \in Sessions : RunnerExit(s) \/ (\E how \in Ends : EndRun(s, how)) => UNCHANGED dropped
  BY DEF RunnerExit, EndRun, history
<1>7. \A j \in jobs : Ensure(j) \/ Flight(j) \/ Send(j) \/ Keep(j) \/ Restore(j) => UNCHANGED dropped
  BY DEF Ensure, Flight, Send, Keep, Restore
<1>8. PICK j \in jobs : Check(j)
  BY <1>1, <1>2, <1>3, <1>4, <1>5, <1>6, <1>7 DEF Next, Core, Around, Deliver
<1>9. /\ j.at = "check" /\ (Races \/ step["drain"] # "queue")
      /\ dropped' = dropped \cup KeysOf(j.load \ {w \in j.load : StillDue(w.rep)})
  BY <1>8 DEF Check
<1>10. \E w \in j.load : k = Key(w.rep) /\ ~StillDue(w.rep)
  BY <1>9 DEF KeysOf
<1> QED
  BY <1>8, <1>9, <1>10 DEF Carried

\* What is held after a step was held before, or appears.
LEMMA HeldOrigin ==
    ASSUME Typed, [Next]_vars
    PROVE  \A w \in Held' : (\E x \in Held : w.rep = x.rep) \/ (w \in Undelivered' /\ Appears(w.rep))
BY Origin DEF Held, Undelivered

\* Every step keeps it.
LEMMA KnownStep == Known /\ [Next]_vars => Known'
<1> SUFFICES ASSUME Known, [Next]_vars PROVE Known'
  OBVIOUS
<1>0. Typed /\ Typed'
  BY TypedStep DEF Known
<1>1. /\ seen \subseteq Keys /\ found \in [Lookers -> SUBSET Reports]
      /\ lastWake \in [Tasks -> {"none", "pending", "delivered", "notified"}]
      /\ dropped \subseteq Keys /\ jobs \subseteq [at : Stages, load : SUBSET Waiting]
  BY <1>0 DEF Typed, TypeOK, TypeStore, TypeDB, TypeHistory
<1>2. Held' \subseteq Waiting' /\ Held \subseteq Waiting
  <2>1. Waiting' = Waiting
    BY DEF Waiting, Reports
  <2>2. Undelivered \subseteq Waiting /\ Undelivered' \subseteq Waiting
    <3>1. (Carried \subseteq Waiting /\ Undelivered \subseteq Waiting)'
      BY <1>0 DEF Typed, TypeOK, TypeStore, Carried, Undelivered
    <3> QED
      BY <1>0, <2>1, <3>1, CarriedType
  <2> QED
    BY <1>0, <2>1, <2>2 DEF Held, Typed, TypeOK, TypeStore, TypeGates
<1>3. \A w \in Held' : w.rep \in Reports
  BY <1>2 DEF Waiting
<1>4. Numbered'
  <2>1. \A k \in seen : /\ k[1] \in Subs => k[2] <= turn'[k[1]]
                        /\ k[1] \in Tasks => k[2] <= fired'[k[1]]
    <3>1. \A k \in seen : k[2] \in Nat
      BY <1>1 DEF Keys
    <3> QED
      BY <1>0, <3>1, Grows DEF Known, Numbered
  <2>3. Crash => seen' = {}
    BY DEF Crash
  <2>4. \A k \in seen' : k \in seen \/ \E r \in Reports : k = Key(r) /\ Appears(r)
    BY <1>0, <2>3, Records
  <2> SUFFICES ASSUME NEW k \in seen'
               PROVE  /\ k[1] \in Subs => k[2] <= turn'[k[1]]
                      /\ k[1] \in Tasks => k[2] <= fired'[k[1]]
    BY DEF Numbered
  <2>5. CASE k \in seen
    BY <2>1, <2>5
  <2>6. ASSUME NEW r \in Reports, k = Key(r), Appears(r)
        PROVE  /\ k[1] \in Subs => k[2] <= turn'[k[1]]
               /\ k[1] \in Tasks => k[2] <= fired'[k[1]]
    <3>1. k[1] = r.of /\ k[2] = r.n
      BY <2>6 DEF Key
    <3>2. r.n \in Nat
      BY DEF Reports
    <3>3. /\ r.of \in Subs => r.n <= turn[r.of]
          /\ r.of \in Tasks => r.n <= fired[r.of]
      BY <1>0, <2>6, <3>2, Appeared, Grows
    <3> QED
      BY <1>0, <3>1, <3>2, <3>3, Grows
  <2> QED
    BY <2>4, <2>5, <2>6
<1>5. Recorded'
  <2>1. CASE Crash
    <3>1. Held' = {}
      BY <2>1 DEF Crash, Held, Undelivered, Carried
    <3> QED
      BY <3>1 DEF Recorded
  <2>2. CASE ~Crash
    <3>1. seen \subseteq seen'
      BY <1>0, <2>2, Records
    <3> QED
      BY <1>0, <3>1, HeldOrigin DEF Recorded, Known, Appears
  <2> QED
    BY <2>1, <2>2
<1>6. Kinds'
  BY <1>0, <1>3, HeldOrigin, Appeared DEF Kinds, Known
<1>7. FoundFires'
  <2> SUFFICES ASSUME NEW c \in Lookers, NEW r \in found'[c]
               PROVE  r.kind = "due" /\ r.of \in Tasks /\ r.n <= fired'[r.of]
    BY DEF FoundFires
  <2>1. r.kind = "due" /\ r.of \in Tasks /\ r.n <= fired[r.of] /\ r \in Reports
    <3>1. CASE r \in found[c]
      BY <1>1, <3>1 DEF Known, FoundFires
    <3>2. CASE r \notin found[c]
      BY <1>0, <3>2, Reads, Grows
    <3> QED
      BY <3>1, <3>2
  <2>2. r.n \in Nat
    BY <2>1 DEF Reports
  <2> QED
    BY <1>0, <2>1, <2>2, Grows
<1>8. (\A s \in Batch : turn[s] >= 1)'
  <2>1. Batch \subseteq Subs
    BY ConstantsAssumption
  <2> QED
    BY <1>0, <2>1, Grows DEF Known
<1> QED
  BY <1>0, <1>4, <1>5, <1>6, <1>7, <1>8 DEF Known

-----------------------------------------------------------------------------
(* The gates of the subtasks.                                              *)

\* A subtask's gate opens, its question goes and its run begins when it is sent on.
LEMMA SubGates ==
    ASSUME Typed, [Next]_vars, NEW s \in Subs
    PROVE  /\ open'[s] => open[s] \/ StartSub(s)
           /\ ask'[s] # ask[s] => \/ StartSub(s) /\ ~ask'[s]
                                  \/ s \in running /\ s \notin running'
                                  \/ Crash
           /\ s \in running' => s \in running \/ (StartSub(s) /\ ~ask'[s])
<1> DEFINE Goal == /\ open'[s] => open[s] \/ StartSub(s)
                   /\ ask'[s] # ask[s] => \/ StartSub(s) /\ ~ask'[s]
                                          \/ s \in running /\ s \notin running'
                                          \/ Crash
                   /\ s \in running' => s \in running \/ (StartSub(s) /\ ~ask'[s])
           Main1(f, g) == g = f \/ \E b \in BOOLEAN : g = [f EXCEPT ![Main] = b]
<1>0. /\ open \in [Sessions -> BOOLEAN] /\ ask \in [Sessions -> BOOLEAN]
      /\ s \in Sessions /\ s # Main
  BY ConstantsAssumption DEF Typed, TypeOK, TypeGates, Sessions
<1>1. ASSUME Main1(open, open'), Main1(ask, ask'), running' \in {running, running \cup {Main}}
      PROVE  Goal
  BY <1>0, <1>1
<1>2. CASE UNCHANGED vars
  BY <1>1, <1>2 DEF vars, gates, runners
<1>3. CASE RecordWakeRunEnd \/ TickHeld
  BY <1>1, <1>3 DEF RecordWakeRunEnd, TickHeld, gates, runners
<1>4. CASE UserSends
  BY <1>1, <1>4 DEF UserSends, Dispatched, runners
<1>5. CASE QueueStep
  <2>1. /\ \/ Main1(open, open')
           \/ open' = [open EXCEPT ![Head(signals).of] = FALSE]
        /\ Main1(ask, ask') /\ running' \in {running, running \cup {Main}}
    BY <1>5 DEF QueueStep, Dispatched
  <2> QED
    BY <1>0, <2>1
<1>6. CASE Crash
  BY <1>0, <1>6 DEF Crash
<1>7. ASSUME NEW x \in Subs, RecordRunEnd(x) PROVE Goal
  BY <1>1, <1>7 DEF RecordRunEnd, gates, runners
<1>8. ASSUME NEW x \in Subs, StartSub(x) PROVE Goal
  BY <1>0, <1>8 DEF StartSub
<1>9. ASSUME NEW c \in Lookers, ReadPending(c) \/ AddPending(c) \/ Look(c) PROVE Goal
  BY <1>1, <1>9 DEF ReadPending, AddPending, Look, LookDue, LookAsk, Reserve, Take, Release,
     gates, runners
<1>10. ASSUME NEW j \in jobs, Deliver(j) PROVE Goal
  BY <1>1, <1>10 DEF Deliver, Check, Ensure, Flight, Send, Keep, Restore, runners, Dispatched
<1>11. ASSUME NEW t \in Tasks, Fire(t) PROVE Goal
  BY <1>1, <1>11 DEF Fire, gates, runners
<1>12. ASSUME NEW x \in Tags \cup Subs, TagFails(x) PROVE Goal
  BY <1>1, <1>12 DEF TagFails, gates, runners
<1>13. ASSUME NEW w \in waiting, BatchWait(w) PROVE Goal
  BY <1>1, <1>13 DEF BatchWait, gates, runners
<1>14. ASSUME NEW x \in Subs \cup Tasks, Leave(x) PROVE Goal
  BY <1>1, <1>14 DEF Leave, gates, runners
<1>15. ASSUME NEW x \in Sessions, RunnerExit(x) PROVE Goal
  BY <1>15 DEF RunnerExit, gates
<1>16. ASSUME NEW x \in Sessions, NEW how \in Ends, EndRun(x, how) PROVE Goal
  BY <1>0, <1>16 DEF EndRun
<1> QED
  BY <1>2, <1>3, <1>4, <1>5, <1>6, <1>7, <1>8, <1>9, <1>10, <1>11, <1>12, <1>13, <1>14,
     <1>15, <1>16 DEF Next, Core, Around

\* Between its record of a run's end and the next step, the drain task has the same signal.
LEMMA SameSignal ==
    ASSUME Typed, [Next]_vars, step["drain"] = "queue", ~QueueStep, ~Crash
    PROVE  step'["drain"] = "queue" /\ Head(signals') = Head(signals)
<1> DEFINE Goal == step'["drain"] = "queue" /\ Head(signals') = Head(signals)
<1>0. step \in [Lookers -> Steps] /\ signals # <<>> /\ "drain" \in Lookers
  BY ConstantsAssumption DEF Typed, TypeOK, TypeStore
<1>1. CASE UNCHANGED vars \/ UserSends
  BY <1>1 DEF vars, UserSends, lookers
<1>2. ASSUME NEW x \in Subs, StartSub(x) PROVE Goal
  BY <1>2 DEF StartSub, lookers
<1>3. ASSUME NEW c \in Lookers, ReadPending(c) \/ AddPending(c) \/ Look(c) PROVE Goal
  <2>1. step[c] # "queue" /\ signals' = signals /\ \E x \in Steps : step' = [step EXCEPT ![c] = x]
    BY <1>3 DEF ReadPending, AddPending, Look, LookDue, LookAsk, Reserve, Take, Release, Steps
  <2> QED
    BY <1>0, <2>1
<1>4. ASSUME NEW j \in jobs, Deliver(j) PROVE Goal
  BY <1>4 DEF Deliver, Check, Ensure, Flight, Send, Keep, Restore, JobRest, lookers
<1>5. ASSUME NEW t \in Tasks, Fire(t) PROVE Goal
  BY <1>5 DEF Fire, lookers
<1>6. ASSUME NEW w \in waiting, BatchWait(w) PROVE Goal
  BY <1>6 DEF BatchWait, lookers
<1>7. ASSUME NEW x \in Subs \cup Tasks, Leave(x) PROVE Goal
  BY <1>7 DEF Leave, lookers
<1>8. ASSUME NEW x \in Sessions, RunnerExit(x) \/ \E how \in Ends : EndRun(x, how) PROVE Goal
  <2>1. UNCHANGED step /\ \E kind \in {"run_complete", "closed"} : Signal(kind, x)
    BY <1>8 DEF RunnerExit, EndRun, lookers
  <2> QED
    BY <1>0, <2>1, Signals
<1>9. CASE TickHeld \/ \E x \in Tags \cup Subs : TagFails(x)
  BY <1>0, <1>9 DEF TickHeld, TagFails
<1>10. CASE RecordWakeRunEnd \/ \E x \in Subs : RecordRunEnd(x)
  BY <1>10 DEF RecordWakeRunEnd, RecordRunEnd
<1> QED
  BY <1>1, <1>2, <1>3, <1>4, <1>5, <1>6, <1>7, <1>8, <1>9, <1>10 DEF Next, Core, Around

\* Once a run's end is recorded its gate is closed, or is about to be, until the subtask is sent on.
Closed == \A k \in seen : k[1] \in Subs /\ k[2] = turn[k[1]] =>
              ~open[k[1]] \/ (step["drain"] = "queue" /\ Head(signals).of = k[1])

\* A question is asked at a run's end.
AskEnd == \A s \in Subs : ask[s] => s \notin running

\* A report that a question waits is undelivered only while it does, or the subtask went on.
AskHeld == \A w \in Undelivered :
               w.rep.kind = "asking" /\ w.rep.n = turn[w.rep.of] => ask[w.rep.of]

\* A run that is open was started.
Started == \A s \in Subs : open[s] => turn[s] >= 1

Asked == Known /\ Closed /\ AskEnd /\ AskHeld /\ Started

\* They hold when Core starts.
LEMMA AskedInit == Init => Asked
<1> SUFFICES ASSUME Init PROVE Asked
  OBVIOUS
<1>1. Undelivered = {} /\ seen = {} /\ ask = [s \in Sessions |-> FALSE]
  BY DEF Init, Undelivered, Carried
<1>2. Started
  <2> SUFFICES ASSUME NEW s \in Subs, open[s] PROVE turn[s] >= 1
    BY DEF Started
  <2>1. s \in Batch
    BY DEF Init, Sessions
  <2>2. turn[s] = 1
    BY <2>1 DEF Init
  <2> QED
    BY <2>2
<1> QED
  BY <1>1, <1>2, KnownInit DEF Asked, Closed, AskEnd, AskHeld, Sessions

\* Every step keeps them.
LEMMA AskedStep == Asked /\ [Next]_vars => Asked'
<1> SUFFICES ASSUME Asked, [Next]_vars PROVE Asked'
  OBVIOUS
<1>0. /\ Known /\ Known' /\ Typed /\ turn \in [Subs -> Nat] /\ step \in [Lookers -> Steps]
      /\ "drain" \in Lookers /\ seen \subseteq Keys
  BY KnownStep, ConstantsAssumption DEF Asked, Known, Typed, TypeOK, TypeDB, TypeStore
<1>1. \A s \in Subs : turn'[s] = turn[s] \/ (StartSub(s) /\ turn'[s] = turn[s] + 1)
  BY <1>0, Database DEF StartSub
<1>2. \A s \in Subs : StartSub(s) => turn'[s] = turn[s] + 1
  BY <1>0 DEF StartSub
<1>6. Started'
  <2> SUFFICES ASSUME NEW s \in Subs, open'[s] PROVE turn'[s] >= 1
    BY DEF Started
  <2>1. open[s] \/ StartSub(s)
    BY <1>0, SubGates
  <2>2. open[s] => turn[s] >= 1
    BY DEF Asked, Started
  <2> QED
    BY <1>0, <1>1, <1>2, <2>1, <2>2
<1>3. Closed'
  <2> SUFFICES ASSUME NEW k \in seen', k[1] \in Subs, k[2] = turn'[k[1]], open'[k[1]]
               PROVE  step'["drain"] = "queue" /\ Head(signals').of = k[1]
    BY DEF Closed
  <2> DEFINE s == k[1]
  <2>1. CASE k \in seen
    <3>1. k[2] <= turn[s] /\ turn[s] \in Nat
      BY <1>0, <2>1 DEF Known, Numbered
    <3>2. ~StartSub(s) /\ turn'[s] = turn[s]
      BY <1>1, <1>2, <3>1
    <3>3. open[s]
      BY <1>0, <3>2, SubGates
    <3>4. step["drain"] = "queue" /\ Head(signals).of = s
      BY <2>1, <3>2, <3>3 DEF Asked, Closed
    <3>5. ~Crash
      BY <2>1 DEF Crash
    <3>6. ~QueueStep
      <4>1. QueueStep => s # Main
        BY ConstantsAssumption
      <4>2. QueueStep => open' = [open EXCEPT ![s] = FALSE]
        BY <3>4, <4>1 DEF QueueStep, Takes
      <4>3. open \in [Sessions -> BOOLEAN] /\ s \in Sessions
        BY <1>0 DEF Typed, TypeOK, TypeGates, Sessions
      <4> QED
        BY <4>2, <4>3
    <3> QED
      BY <1>0, <3>4, <3>5, <3>6, SameSignal
  <2>2. CASE k \notin seen
    <3>1. ~Crash
      BY DEF Crash
    <3>2. PICK r \in Reports : k = Key(r) /\ Appears(r)
      BY <1>0, <2>2, <3>1, Records
    <3>3. s = r.of
      BY <3>2 DEF Key
    <3>4. RecordRunEnd(s)
      <4>1. r.n = turn'[s] /\ turn'[s] >= 1
        BY <1>6, <3>2 DEF Key, Started
      <4>2. r.kind # "tag"
        BY <1>0, <3>2, <4>1, Appeared
      <4> QED
        BY <1>0, <3>2, <3>3, <4>2, Appeared
    <3> QED
      BY <1>0, <3>4 DEF RecordRunEnd
  <2> QED
    BY <2>1, <2>2
<1>4. AskEnd'
  BY <1>0, SubGates DEF Asked, AskEnd, Crash
<1>5. AskHeld'
  <2> SUFFICES ASSUME NEW w \in Undelivered', w.rep.kind = "asking", w.rep.n = turn'[w.rep.of]
               PROVE  ask'[w.rep.of]
    BY DEF AskHeld
  <2>0. w.rep \in Reports /\ w.rep.of \in Subs
    <3>1. w \in Held' /\ Kinds'
      BY <1>0 DEF Held, Known
    <3>2. (Undelivered \subseteq Waiting)'
      BY <1>0 DEF Known, Typed, TypeOK, TypeStore, Undelivered, Carried
    <3>3. w.rep \in Reports
      BY <3>2 DEF Waiting, Reports
    <3> QED
      BY <3>1, <3>3 DEF Kinds, Reports, Sources
  <2>1. ASSUME NEW x \in Undelivered, w.rep = x.rep PROVE ask'[w.rep.of]
    <3>1. Key(x.rep) \in seen /\ Key(x.rep) = <<w.rep.of, w.rep.n>>
      BY <1>0, <2>1 DEF Known, Recorded, Held, Key
    <3>2. w.rep.n <= turn[w.rep.of] /\ turn[w.rep.of] \in Nat
      BY <1>0, <2>0, <3>1 DEF Known, Numbered
    <3>3. ~StartSub(w.rep.of) /\ turn'[w.rep.of] = turn[w.rep.of]
      BY <1>1, <1>2, <2>0, <3>2
    <3>4. ask[w.rep.of] /\ w.rep.of \notin running
      BY <2>0, <2>1, <3>3 DEF Asked, AskHeld, AskEnd
    <3>5. ~Crash
      BY DEF Crash, Undelivered, Carried
    <3> QED
      BY <1>0, <2>0, <3>3, <3>4, <3>5, SubGates
  <2>2. CASE Appears(w.rep)
    <3>1. RecordRunEnd(w.rep.of) /\ RunEnd(Head(signals)) = "asking" /\ Head(signals).of = w.rep.of
      <4>1. RecordRunEnd(w.rep.of) /\ RunEnd(Head(signals)) = "asking"
        BY <1>0, <2>0, <2>2, Appeared
      <4> QED
        BY <4>1 DEF RecordRunEnd
    <3>2. ask[w.rep.of] /\ ask' = ask
      BY <3>1 DEF RunEnd, RecordRunEnd, gates
    <3> QED
      BY <3>2
  <2> QED
    BY <1>0, <2>1, <2>2, Origin
<1> QED
  BY <1>0, <1>3, <1>4, <1>5, <1>6 DEF Asked

-----------------------------------------------------------------------------
(* What is dropped.                                                        *)

(* A report is dropped for cause, or between the record of its run's end   *)
(* and the close of the gate (DropsForCause), for every number of          *)
(* subtasks, tags, tasks, runs, fires, lookers, exits and restarts.        *)
THEOREM DropsForCauseHolds == Spec => DropsForCause
<1>1. Init => Asked
  BY AskedInit
<1>2. Asked /\ [Next]_vars => Asked'
  BY AskedStep
<1>3. ASSUME Asked, [Next]_vars
      PROVE  [\A k \in dropped' \ dropped : ForCause(k) \/ EndUnderWay(k)]_vars
  <2> SUFFICES ASSUME NEW k \in dropped', k \notin dropped
               PROVE  ForCause(k) \/ EndUnderWay(k)
    OBVIOUS
  <2>1. PICK w \in Carried : k = Key(w.rep) /\ ~StillDue(w.rep)
    BY <1>3, Drops DEF Asked, Known
  <2> DEFINE r == w.rep
  <2>2. /\ k \in seen /\ k[1] = r.of /\ k[2] = r.n /\ r.n \in Nat /\ r.of \in Sources
        /\ w \in Held /\ w \in Undelivered
    <3>1. w \in Held /\ w \in Undelivered /\ w \in Waiting
      BY <1>3, CarriedType DEF Held, Undelivered, Asked, Known
    <3>2. r \in Reports
      BY <3>1 DEF Waiting
    <3> QED
      BY <1>3, <2>1, <3>1, <3>2 DEF Asked, Known, Recorded, Key, Reports
  <2>3. /\ r.kind = "due" <=> r.of \in Tasks
        /\ r.of \in Sources
    BY <1>3, <2>2 DEF Asked, Known, Kinds
  <2>4. /\ k[1] \in Subs => k[2] <= turn[k[1]] /\ turn[k[1]] \in Nat
        /\ k[1] \in Tasks => k[2] <= fired[k[1]] /\ fired[k[1]] \in Nat
    BY <1>3, <2>2 DEF Asked, Known, Numbered, Typed, TypeOK, TypeDB
  <2>5. CASE r.kind = "due"
    BY <2>1, <2>2, <2>3, <2>4, <2>5 DEF StillDue, ForCause
  <2>6. CASE r.kind # "due"
    <3>1. r.of \in Subs /\ r.of \notin Tasks
      BY <2>1, <2>3, <2>6 DEF StillDue, Sources
    <3>2. r.of \in left \/ open[r.of] \/ (r.kind = "asking" /\ ~ask[r.of])
      BY <2>1, <2>6 DEF StillDue
    <3>3. open[r.of] /\ turn[r.of] = r.n => EndUnderWay(k)
      BY <1>3, <2>2, <3>1 DEF Asked, Closed, EndUnderWay
    <3>4. r.kind = "asking" /\ ~ask[r.of] => turn[r.of] # r.n
      BY <1>3, <2>2 DEF Asked, AskHeld
    <3>5. turn[r.of] # r.n => turn[r.of] > r.n
      BY <2>2, <2>4, <3>1
    <3> QED
      BY <2>2, <3>1, <3>2, <3>3, <3>4, <3>5 DEF ForCause
  <2> QED
    BY <2>5, <2>6
<1> QED
  BY <1>1, <1>2, <1>3, PTL DEF Spec, DropsForCause

-----------------------------------------------------------------------------
(* What a batch waits for.                                                 *)

FreeReport == \E w \in waiting : w.held \in {"no", "late"}
AllBack    == \A s \in Batch : turn[s] = 1 => ~StillRunning(s)

\* Who is past due_now has found a report that waits for nothing, or the batch back.
Ready == \A c \in Lookers : step[c] \in {"ask", "reserve", "take"} => FreeReport \/ AllBack

\* A batch that is back stays so: a subtask sent on is not in its first run.
LEMMA StaysBack == ASSUME Known, [Next]_vars, AllBack PROVE AllBack'
<1>0. /\ Typed /\ Batch \subseteq Subs /\ turn \in [Subs -> Nat] /\ \A s \in Batch : turn[s] >= 1
  BY ConstantsAssumption DEF Known, Typed, TypeOK, TypeDB
<1> SUFFICES ASSUME NEW s \in Batch, turn'[s] = 1, open'[s], s \notin left' PROVE FALSE
  BY DEF AllBack, StillRunning
<1>1. CASE StartSub(s)
  <2>1. turn'[s] = turn[s] + 1
    BY <1>0, <1>1 DEF StartSub
  <2> QED
    BY <1>0, <2>1
<1>2. CASE ~StartSub(s)
  <2>1. turn[s] = 1
    <3>1. turn'[s] >= turn[s]
      BY <1>0, Grows
    <3> QED
      BY <1>0, <3>1
  <2>2. open[s]
    BY <1>0, <1>2, SubGates
  <2>3. s \notin left
    BY <1>0, Database
  <2> QED
    BY <2>1, <2>2, <2>3 DEF AllBack, StillRunning
<1> QED
  BY <1>1, <1>2

\* Who takes away the reports that wait for nothing.
LEMMA StaysFree ==
    ASSUME Typed, [Next]_vars, FreeReport, ~FreeReport'
    PROVE  \/ Crash
           \/ \E s \in Subs : RecordRunEnd(s)
           \/ \E c \in Lookers : Undisturbed(c) /\ (Take(c) \/ (LookAsk(c) /\ ask[Main]))
<1>0. waiting \subseteq Waiting /\ seen \subseteq Keys /\ found \in [Lookers -> SUBSET Reports]
  BY DEF Typed, TypeOK, TypeStore
<1>1. ASSUME waiting \subseteq waiting' PROVE FALSE
  BY <1>1 DEF FreeReport
<1>2. ASSUME NEW rs \in SUBSET Reports, Added(rs, "no") PROVE FALSE
  BY <1>0, <1>2, AddedIs DEF FreeReport
<1>3. \A x \in Tags \cup Subs : ~TagFails(x)
  <2>1. \A x \in Tags \cup Subs : {Report(x, 0, "tag")} \in SUBSET Reports
    BY MadeReport DEF Sources, Outcomes
  <2> QED
    BY <1>2, <2>1 DEF TagFails
<1>4. \A c \in Lookers : ~AddPending(c)
  BY <1>0, <1>2 DEF AddPending
<1>5. ASSUME NEW v \in waiting, BatchWait(v) PROVE FALSE
  <2> DEFINE late == [v EXCEPT !.held = "late"]
  <2>1. late.held = "late" /\ late \in waiting'
    BY <1>0, <1>5, Marked DEF BatchWait
  <2> QED
    BY <2>1 DEF FreeReport
<1>6. \A j \in jobs : ~Deliver(j)
  BY <1>1 DEF Deliver, Check, Ensure, Flight, Send, Keep, Restore
<1>7. ASSUME NEW c \in Lookers, Look(c) PROVE Undisturbed(c) /\ (Take(c) \/ (LookAsk(c) /\ ask[Main]))
  BY <1>1, <1>7 DEF Look, LookDue, LookAsk, Reserve, Release, store
<1>8. \A c \in Lookers : ~ReadPending(c)
  BY <1>1 DEF ReadPending, store
<1>9. ~UNCHANGED vars
  BY <1>1 DEF vars, store
<1>10. ~RecordWakeRunEnd /\ ~QueueStep /\ ~TickHeld /\ ~UserSends
  BY <1>1 DEF RecordWakeRunEnd, QueueStep, TickHeld, UserSends, store
<1>11. /\ \A s \in Subs : ~StartSub(s)
       /\ \A t \in Tasks : ~Fire(t)
       /\ \A x \in Subs \cup Tasks : ~Leave(x)
       /\ \A s \in Sessions : ~RunnerExit(s) /\ ~\E how \in Ends : EndRun(s, how)
  BY <1>1 DEF StartSub, Fire, Leave, RunnerExit, EndRun, store
<1> QED
  BY <1>3, <1>4, <1>5, <1>6, <1>7, <1>8, <1>9, <1>10, <1>11 DEF Next, Core, Around

\* How a looker comes to the steps after due_now.
LEMMA PastDue ==
    ASSUME Typed, [Next]_vars, NEW c \in Lookers, step'[c] \in {"ask", "reserve", "take"}
    PROVE  \/ LookDue(c) /\ DueNow /\ step'[c] = "ask"
           \/ LookAsk(c) /\ ~ask[Main] /\ step'[c] = "reserve" /\ Undisturbed(c)
           \/ Reserve(c) /\ MayDispatchNow /\ step'[c] = "take" /\ Undisturbed(c)
           \/ step'[c] = step[c]
<1>0. step \in [Lookers -> Steps] /\ "drain" \in Lookers
  BY ConstantsAssumption DEF Typed, TypeOK, TypeStore
<1> SUFFICES ASSUME step'[c] # step[c]
             PROVE  \/ LookDue(c) /\ DueNow /\ step'[c] = "ask"
                    \/ LookAsk(c) /\ ~ask[Main] /\ step'[c] = "reserve" /\ Undisturbed(c)
                    \/ Reserve(c) /\ MayDispatchNow /\ step'[c] = "take" /\ Undisturbed(c)
  OBVIOUS
<1>1. ~UNCHANGED vars
  BY DEF vars, lookers
<1>2. ~RecordWakeRunEnd /\ ~QueueStep /\ ~TickHeld /\ ~UserSends /\ ~Crash
  BY <1>0 DEF RecordWakeRunEnd, QueueStep, TickHeld, UserSends, Crash, lookers
<1>3. \A s \in Subs : ~RecordRunEnd(s) /\ ~StartSub(s)
  BY <1>0 DEF RecordRunEnd, StartSub, lookers
<1>4. \A d \in Lookers : ~ReadPending(d) /\ ~AddPending(d)
  BY <1>0 DEF ReadPending, AddPending
<1>5. \A j \in jobs : ~Deliver(j)
  BY DEF Deliver, Check, Ensure, Flight, Send, Keep, Restore, JobRest, lookers
<1>6. /\ \A t \in Tasks : ~Fire(t)
      /\ \A x \in Tags \cup Subs : ~TagFails(x)
      /\ \A w \in waiting : ~BatchWait(w)
      /\ \A x \in Subs \cup Tasks : ~Leave(x)
  BY <1>0 DEF Fire, TagFails, BatchWait, Leave, lookers
<1>7. \A s \in Sessions : ~RunnerExit(s) /\ ~\E how \in Ends : EndRun(s, how)
  BY DEF RunnerExit, EndRun, lookers
<1>8. PICK d \in Lookers : Look(d)
  BY <1>1, <1>2, <1>3, <1>4, <1>5, <1>6, <1>7 DEF Next, Core, Around
<1>9. d = c
  BY <1>0, <1>8 DEF Look, LookDue, LookAsk, Reserve, Take, Release
<1>10. Undisturbed(c) /\ (LookDue(c) \/ LookAsk(c) \/ Reserve(c) \/ Take(c) \/ Release(c))
  BY <1>8, <1>9 DEF Look
<1>11. CASE LookDue(c)
  BY <1>0, <1>11 DEF LookDue
<1>12. CASE LookAsk(c)
  BY <1>0, <1>10, <1>12 DEF LookAsk
<1>13. CASE Reserve(c)
  BY <1>0, <1>10, <1>13 DEF Reserve
<1>14. CASE Take(c) \/ Release(c)
  BY <1>0, <1>14 DEF Take, Release
<1> QED
  BY <1>10, <1>11, <1>12, <1>13, <1>14

\* Every step keeps Ready, unless two tasks may look at once.
LEMMA ReadyStep == ASSUME ~Races, Known, Ready, [Next]_vars PROVE Ready'
<1>0. Typed /\ step \in [Lookers -> Steps] /\ "drain" \in Lookers
  BY ConstantsAssumption DEF Known, Typed, TypeOK, TypeStore
<1> SUFFICES ASSUME NEW c \in Lookers, step'[c] \in {"ask", "reserve", "take"}, ~AllBack'
             PROVE  FreeReport'
  BY DEF Ready
<1>1. ~AllBack
  BY StaysBack
<1>2. FreeReport
  <2>1. DueNow => FreeReport \/ AllBack
    BY DEF DueNow, FreeReport, AllBack
  <2>2. LookAsk(c) => step[c] = "ask"
    BY DEF LookAsk
  <2>3. Reserve(c) => step[c] = "reserve"
    BY DEF Reserve
  <2> QED
    BY <1>0, <1>1, <2>1, <2>2, <2>3, PastDue DEF Ready
<1> SUFFICES ASSUME ~FreeReport' PROVE FALSE
  OBVIOUS
<1>3. ~Crash
  BY DEF Crash
<1>4. ASSUME NEW s \in Subs, RecordRunEnd(s) PROVE FALSE
  <2>1. step["drain"] = "idle" /\ Undisturbed("drain") /\ step' = [step EXCEPT !["drain"] = "queue"]
    BY <1>4 DEF RecordRunEnd
  <2>2. c # "drain" /\ step[c] \in {"ask", "reserve", "take"}
    BY <1>0, <2>1
  <2> QED
    BY <2>1, <2>2 DEF Undisturbed
<1>5. ASSUME NEW d \in Lookers, Undisturbed(d), Take(d) \/ (LookAsk(d) /\ ask[Main]) PROVE FALSE
  <2>1. \E x \in {"idle", "release"} : step' = [step EXCEPT ![d] = x]
    BY <1>5 DEF Take, LookAsk
  <2>2. c # d /\ step[c] \in {"ask", "reserve", "take"}
    BY <1>0, <2>1
  <2> QED
    BY <1>5, <2>2 DEF Undisturbed
<1> QED
  BY <1>0, <1>2, <1>3, <1>4, <1>5, StaysFree

\* A wake at its first step was made by the look that took what waits.
LEMMA NewWake ==
    ASSUME Typed, [Next]_vars, NEW i \in jobs' \ jobs, i.at = "check"
    PROVE  /\ i.load = waiting
           /\ \E c \in Lookers : Take(c) /\ Undisturbed(c) /\ step[c] = "take"
<1>0. jobs \subseteq [at : Stages, load : SUBSET Waiting]
  BY DEF Typed, TypeOK, TypeStore
<1>1. \A j \in jobs : ~Deliver(j)
  <2>1. \A j \in jobs : \A at \in Stages : [j EXCEPT !.at = at].at = at
    BY <1>0
  <2>2. \A j \in jobs : \A at \in Stages \ {"check"} : ~Moves(j, at)
    BY <2>1 DEF Moves
  <2>3. \A j \in jobs : ~Check(j)
    BY DEF Check
  <2> QED
    BY <2>2, <2>3 DEF Deliver, Ensure, Flight, Send, Keep, Restore, Stages
<1>2. ~UNCHANGED vars /\ ~RecordWakeRunEnd /\ ~QueueStep /\ ~TickHeld /\ ~UserSends /\ ~Crash
  BY DEF vars, RecordWakeRunEnd, QueueStep, TickHeld, UserSends, Crash
<1>3. /\ \A s \in Subs : ~RecordRunEnd(s) /\ ~StartSub(s)
      /\ \A c \in Lookers : ~ReadPending(c) /\ ~AddPending(c)
  BY DEF RecordRunEnd, StartSub, ReadPending, AddPending
<1>4. /\ \A t \in Tasks : ~Fire(t)
      /\ \A x \in Tags \cup Subs : ~TagFails(x)
      /\ \A w \in waiting : ~BatchWait(w)
      /\ \A x \in Subs \cup Tasks : ~Leave(x)
  BY DEF Fire, TagFails, BatchWait, Leave
<1>5. \A s \in Sessions : ~RunnerExit(s) /\ ~\E how \in Ends : EndRun(s, how)
  BY DEF RunnerExit, EndRun
<1>6. PICK c \in Lookers : Look(c)
  BY <1>1, <1>2, <1>3, <1>4, <1>5 DEF Next, Core, Around
<1>7. Take(c)
  BY <1>6 DEF Look, LookDue, LookAsk, Reserve, Release
<1>8. i = [at |-> "check", load |-> waiting] /\ step[c] = "take"
  BY <1>7 DEF Take
<1>9. Undisturbed(c)
  BY <1>6 DEF Look
<1> QED
  BY <1>7, <1>8, <1>9

(* A finished run's report is not carried alone while a subtask of its     *)
(* batch is still in its first run (Together), for every batch, as long as *)
(* no two tasks look at once.                                              *)
THEOREM TogetherHolds == ASSUME ~Races PROVE Spec => Together
<1>1. Init => Known /\ Ready
  BY KnownInit DEF Init, Ready
<1>2. ASSUME Known, Ready, [Next]_vars PROVE Known' /\ Ready'
  BY <1>2, KnownStep, ReadyStep
<1> DEFINE A == \A j \in jobs' \ jobs :
                  j.at = "check" /\ (\A w \in j.load : w.held = "held")
                    => \A s \in Batch : turn[s] = 1 => ~StillRunning(s)
<1>3. ASSUME Known, Ready, [Next]_vars PROVE A
  <2> SUFFICES ASSUME NEW j \in jobs' \ jobs, j.at = "check", \A w \in j.load : w.held = "held"
               PROVE  AllBack
    BY DEF AllBack
  <2>1. PICK c \in Lookers : j.load = waiting /\ step[c] = "take"
    BY <1>3, NewWake DEF Known
  <2>2. ~FreeReport
    BY <2>1 DEF FreeReport
  <2> QED
    BY <1>3, <2>1, <2>2 DEF Ready
<1>4. A => [A]_vars
  OBVIOUS
<1> HIDE DEF A
<1>5. ASSUME Known, Ready, [Next]_vars PROVE [A]_vars
  BY <1>3, <1>4, <1>5
<1>6. Spec => [][A]_vars
  BY <1>1, <1>2, <1>5, PTL DEF Spec
<1> QED
  BY <1>6 DEF A, Together
=============================================================================
