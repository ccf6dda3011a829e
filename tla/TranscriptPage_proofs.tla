----------------------- MODULE TranscriptPage_proofs -----------------------
(***************************************************************************)
(* What the page draws against what is on its way to it and what Core has  *)
(* (PageInv), as long as Core does one thing after another and the wire    *)
(* keeps its order (Calm): every step of Core keeps it.                    *)
(***************************************************************************)
EXTENDS Transcript_proofs

-----------------------------------------------------------------------------
(* What is drawn and what is on its way.                                   *)

\* A turn drawn for a row: the page's own echo, one waiting to be read, or one
\* that Core has confirmed.
IsEcho(t)  == t.own /\ ~t.held
Held(r)    == \E i \in 1..Len(page.turns) : page.turns[i].row = r /\ page.turns[i].held
Unheld(m)  == \E i \in 1..Len(page.turns) : page.turns[i].row = Said(m) /\ ~page.turns[i].held
EchoOf(m)  == \E i \in 1..Len(page.turns) : page.turns[i].row = Said(m) /\ IsEcho(page.turns[i])
PendOf(m)  == \E i \in 1..Len(page.turns) : page.turns[i].row = Said(m) /\ Pending(page.turns[i])

\* What Core has not confirmed is what somebody said, an echo or a queued item,
\* and only the page's own messages are drawn as its own.
TurnShape == \A i \in 1..Len(page.turns) :
    LET t == page.turns[i]
    IN  /\ ~t.held => t.row[3] = "said" /\ (t.own <=> ~t.item)
        /\ t.own => t.row[1] \in Own

\* A row is drawn once, or it is drawn and its echo waits for the answer that
\* takes it off.
Once == \A i, j \in 1..Len(page.turns) :
    i # j /\ page.turns[i].row = page.turns[j].row =>
        /\ IsEcho(page.turns[i]) <=> ~IsEcho(page.turns[j])
        /\ On(wire, Takes(page.turns[i].row[1]))

Pendings(m) == {e \in Announcements(m) : e.dispatch = "pending"}

\* An echo is of a send that failed, or of one Core will still say something of.
EchoPlace == \A m \in Msgs : EchoOf(m) =>
    \/ m \in lost
    \/ /\ m \in page.sends
       /\ pc[m] \in {"sent", "saved"} \/ On(wire, Pendings(m)) \/ On(wire, Takes(m))

\* A message is announced by the send that wrote it, or comes out of the queue,
\* never both.
Direct(m) == \/ pc[m] \in {"saved", "pending", "written"}
             \/ On(wire, Announcements(m)) \/ On(wire, Finals(m))
Via(m) == \/ pc[m] \in {"drained", "taken"} \/ Queued(m)
          \/ On(wire, Pops(m)) \/ On(wire, Offers(m)) \/ On(wire, Takes(m)) \/ PendOf(m)
Ways == \A m \in Msgs : Via(m) =>
    ~Direct(m) /\ pc[m] \in {"over", "drained", "taken"} /\ m \notin lost /\ m \notin History

\* An answer to a send ends it.
Finished == \A m \in Msgs : On(wire, Finals(m)) => pc[m] = "over"
\* It comes behind the announcement; of a reply without one the row is there.
Answers == \A m \in Msgs :
    /\ Ordered(wire, Announcements(m), Finals(m))
    /\ \A a \in 1..Len(wire) : wire[a] \in Dones(m) =>
          IF a = 1 THEN Held(Said(m)) ELSE wire[a - 1] \in Users(m)

\* Whoever still draws an item of a message that is stored, or will, is told of
\* its row.
Ann(m) == Stored(Said(m)) /\ pc[m] \notin {"saved", "drained", "taken"}
Announced == \A m \in Msgs : Ann(m) /\ (Unheld(m) \/ On(wire, Offers(m))) => On(wire, Users(m))

\* In which order what is said of a message and of a row of its run travels: the
\* item before the row, the row before what follows it.
InOrder(r, m) ==
    /\ Unheld(m) => Led(wire, Users(m), Brings(r))
    /\ Ordered(wire, Offers(m), Brings(r)) /\ Between(wire, Offers(m), Users(m), Brings(r))
    /\ Ordered(wire, Offers(m), Users(m))
    /\ Ordered(wire, Takes(m), Users(m))
    /\ r[3] # "said" => Ordered(wire, Users(m), Brings(r))
    /\ r[3] # "said" /\ Held(r) => ~On(wire, Users(m))
    /\ Held(r) => ~On(wire, Offers(m))
Order == \A r \in Rows : InOrder(r, r[1])

\* What is drawn or on its way is Core's; a row is announced once, and before it
\* is read.
Known ==
    /\ \A r \in Rows : Held(r) =>
          /\ Stored(r) \/ On(acts, RowEv(r))
          /\ ~On(emits, RowEv(r)) /\ ~On(wire, RowEv(r))
    /\ \A r \in Rows : On(wire, Has(r)) => Stored(r)
    /\ \A m \in Msgs : On(wire, Users(m)) => Stored(Said(m)) /\ m \notin History
    /\ \A r \in Rows : Ordered(wire, RowEv(r), Has(r)) /\ OneOf(wire, RowEv(r))
    /\ \A r \in Rows : On(wire, RowEv(r)) =>
          /\ Stored(r) \/ On(acts, RowEv(r))
          /\ ~On(emits, RowEv(r)) /\ r[1] \notin History /\ r[3] # "said"
    /\ \A i \in 1..Len(wire) : wire[i] \in Lists \cup Snapshots =>
          \A k, l \in 1..Len(wire[i].items) : wire[i].items[k].msg = wire[i].items[l].msg => k = l

\* A deleted row is drawn only while its deletion is on its way, behind whatever
\* else tells of the row.
Dropped ==
    /\ \A r \in Rows : r \in gone =>
          (Held(r) => On(wire, Drops(r))) /\ Trailed(wire, Says(r), Drops(r))
    /\ \A m \in Msgs :
          /\ Held(Said(m)) => Led(wire, Drops(Said(m)), Lacks(m))
          /\ Between(wire, Says(Said(m)), Drops(Said(m)), Lacks(m))

\* A read of the conversation is in order itself.
WellRead(a) ==
    /\ \A k, l \in 1..Len(a.rows) : a.rows[k].row = a.rows[l].row => k = l
    /\ \A k, l \in 1..Len(a.rows) :
          a.rows[k].row[3] # "said" /\ a.rows[l].row = Said(a.rows[k].row[1]) => l < k
    /\ \A k \in 1..Len(a.rows) : a.rows[k].held /\ ~a.rows[k].own /\ ~a.rows[k].item

\* Above the place where the page's oldest read starts, nothing is drawn.
Base(b) == b > 0 =>
    /\ b <= Len(rows) /\ rows[b][3] = "said"
    /\ \A i \in 1..b - 1 : IF rows[i][1] \in History THEN ~Held(rows[i]) ELSE rows[i] \in gone

LatestReads == {e \in Events : e.kind = "page"}
EarlierReads == {e \in Events : e.kind = "earlier"}
\* One read of each kind is asked for at a time, when it is due, and an earlier
\* one ends where the page's oldest begins.
Reads ==
    /\ \A i \in 1..Len(wire) : wire[i] \in TurnAnswers => WellRead(wire[i])
    /\ OneOf(wire, LatestReads) /\ OneOf(wire, EarlierReads)
    /\ "page" \in calls => ~On(wire, LatestReads)
    /\ "earlier" \in calls => ~On(wire, EarlierReads)
    /\ "page" \in calls \/ On(wire, LatestReads) => ~page.read
    /\ "earlier" \in calls \/ On(wire, EarlierReads) => page.read /\ page.earlier > 0
    /\ ~page.read => page.earlier = 0 /\ \A r \in Rows : Held(r) => r[1] \notin History
    /\ Base(page.earlier)
    /\ \A i \in 1..Len(wire) : wire[i] \in TurnAnswers =>
          /\ Base(wire[i].earlier)
          /\ \A k \in 1..wire[i].earlier - 1 : wire[i] \notin Has(rows[k])
          /\ wire[i].kind = "earlier" =>
                /\ wire[i].asked = page.earlier
                /\ \A r \in Rows : wire[i] \in Has(r) =>
                      r[1] \in History /\ ~Held(r) /\ ~Held(Said(r[1]))

\* The page's copy is in order with what Core has and what is on its way.
PageInv ==
    /\ TurnShape /\ Once /\ EchoPlace /\ Ways /\ Finished /\ Answers /\ Announced
    /\ Order /\ Known /\ Dropped /\ Reads /\ RunsFollow

\* An event's kind tells which sets it may be in.
LEMMA KindOf ==
    ASSUME NEW e
    PROVE  /\ \A m : e \in Users(m) => e.kind = "user" /\ e.msg = m /\ e \in UserEvents
           /\ \A m : e \in Offers(m) => e.kind \in {"queue", "snapshot"}
           /\ \A m : e \in Takes(m) \cup Finals(m) => e.kind = "sent" /\ e.msg = m
           /\ \A r : e \in RowEv(r) => e.kind \in {"turn_end", "tell_user"} /\ e.row = r
           /\ \A r : e \in Drops(r) => e.kind = "deleted"
           /\ \A r : e \in Has(r) => e.kind \in {"page", "earlier"} /\ e \in TurnAnswers
           /\ \A m : e \in Lacks(m) => e.kind = "page" /\ e \in TurnAnswers
           /\ e \in TurnAnswers => e.kind \in {"page", "earlier"}
<1>1. \A m : e \in Users(m) => e.kind = "user" /\ e.msg = m /\ e \in UserEvents
  BY DEF Users, Announcements, Pops, UserEvents
<1>2. \A m : e \in Offers(m) => e.kind \in {"queue", "snapshot"}
  BY DEF Offers, Lists, Snapshots
<1>3. \A m : e \in Takes(m) \cup Finals(m) => e.kind = "sent" /\ e.msg = m
  BY DEF Takes, Finals, SendAnswers
<1>4. \A r : e \in RowEv(r) => e.kind \in {"turn_end", "tell_user"} /\ e.row = r
  BY DEF RowEv
<1>5. \A r : e \in Drops(r) => e.kind = "deleted"
  BY DEF Drops, Deletions
<1>6. e \in TurnAnswers => e.kind \in {"page", "earlier"}
  BY DEF TurnAnswers
<1>7. \A r : e \in Has(r) => e \in TurnAnswers
  BY DEF Has
<1>8. \A m : e \in Lacks(m) => e.kind = "page" /\ e \in TurnAnswers
  BY DEF Lacks
<1> QED
  BY <1>1, <1>2, <1>3, <1>4, <1>5, <1>6, <1>7, <1>8

\* What is on a sequence is on it under any larger kind.
LEMMA OnMore ==
    ASSUME NEW s, NEW A, NEW B, On(s, A), A \subseteq B
    PROVE  On(s, B)
BY DEF On

\* Parts of the kinds of events.
LEMMA KindParts ==
    /\ \A m : Announcements(m) \subseteq Users(m) /\ Pops(m) \subseteq Users(m)
    /\ \A m : Pendings(m) \subseteq Announcements(m)
    /\ \A r : RowEv(r) \subseteq Brings(r) /\ Has(r) \subseteq Brings(r) /\ Brings(r) \subseteq Says(r)
    /\ \A m : Users(m) \subseteq Says(Said(m)) /\ Says(Said(m)) = Brings(Said(m)) \cup Users(m)
    /\ \A r : r[3] # "said" => Says(r) = Brings(r)
<1>1. \A m : Said(m)[1] = m /\ Said(m)[3] = "said"
  BY DEF Said
<1>2. \A m : Announcements(m) \subseteq Users(m) /\ Pops(m) \subseteq Users(m)
  BY DEF Users
<1>3. \A m : Pendings(m) \subseteq Announcements(m)
  BY DEF Pendings
<1>4. \A r : RowEv(r) \subseteq Brings(r) /\ Has(r) \subseteq Brings(r) /\ Brings(r) \subseteq Says(r)
  BY DEF Brings, Says
<1>5. \A m : Says(Said(m)) = Brings(Said(m)) \cup Users(m)
  BY <1>1 DEF Says
<1>6. \A r : r[3] # "said" => Says(r) = Brings(r)
  BY DEF Says
<1> QED
  BY <1>2, <1>3, <1>4, <1>5, <1>6

\* What a step of Core sends of a message: it is where the step found it, or put it.
MsgTells(m, new) ==
    /\ On(new, Users(m)) =>
          Stored(Said(m))' /\ m \notin History /\ ~Ran(m) /\ Said(m) \notin gone'
    /\ On(new, Announcements(m)) => pc[m] \in {"saved", "pending", "written"}
    /\ On(new, Pops(m)) => pc[m] \in {"drained", "taken"} \/ Queued(m)
    /\ On(new, Offers(m)) => Queued(m)'
    /\ On(new, Takes(m)) => pc[m] \in {"new", "sent"} /\ Queued(m)'
    /\ On(new, Finals(m)) =>
          /\ pc[m] \in {"new", "sent", "pending", "written"}
          /\ pc'[m] = "over" /\ ~Queued(m)'
    /\ Ordered(new, Announcements(m), Finals(m))
    /\ \A k \in 1..Len(new) : new[k] \in Dones(m) =>
          k - 1 \in 1..Len(new) /\ new[k - 1] \in Users(m)

\* What it sends of a runner's row, and of the queue.
RowTells(r, new) ==
    On(new, RowEv(r)) => Len(new) = 1 /\ On(emits, RowEv(r)) /\ ~On(emits', RowEv(r))
ListTells(new) ==
    \A k \in 1..Len(new) : new[k] \in Lists \cup Snapshots =>
        \A i, j \in 1..Len(new[k].items) : new[k].items[i].msg = new[k].items[j].msg => i = j

Tells(new) ==
    /\ Pushed(wire, new, wire') /\ ~On(new, TurnAnswers)
    /\ \A m \in Msgs : MsgTells(m, new)
    /\ \A r \in Rows : RowTells(r, new)
    /\ ListTells(new)

\* Where it moves messages and rows.
MsgMoves(m, new) ==
    /\ pc[m] \in {"over", "drained", "taken"} => pc'[m] \in {"over", "drained", "taken"}
    /\ pc'[m] \in {"drained", "taken"} => pc[m] \in {"drained", "taken"} \/ Queued(m)
    /\ pc[m] = "over" /\ ~Queued(m) => pc'[m] = "over"
    /\ Queued(m)' => Queued(m) \/ pc[m] \in {"new", "sent"}
    /\ m \in lost => m \in lost'
    /\ m \in lost' => m \in lost \/ pc[m] \in {"new", "sent"}
    /\ Ann(m)' => Ann(m) \/ On(new, Users(m))
    /\ m \in Own /\ pc[m] \in {"sent", "saved"} =>
          \/ pc'[m] \in {"sent", "saved"} \/ m \in lost'
          \/ On(new, Pendings(m)) \/ On(new, Takes(m))
RowMoves(r, new) ==
    /\ Stored(r) => Stored(r)'
    /\ r \in gone => r \in gone'
    /\ r \in gone' => r \in gone \/ (On(new, Drops(r)) /\ Len(new) = 1)
    /\ On(emits', RowEv(r)) => On(emits, RowEv(r)) \/ (~Stored(r) /\ ~On(acts, RowEv(r)))
    /\ On(acts, RowEv(r)) => On(acts', RowEv(r)) \/ Stored(r)'
RowsStay ==
    /\ Len(rows) <= Len(rows')
    /\ \A b \in 1..Len(rows) : rows[b][3] = "said" => \A i \in 1..b : rows'[i] = rows[i]

Moves(new) ==
    /\ \A m \in Msgs : MsgMoves(m, new)
    /\ \A r \in Rows : RowMoves(r, new)
    /\ RowsStay

\* On a wire with more at its end there is what was there, and what is new.
LEMMA TellsOn ==
    ASSUME NEW new, Tells(new)
    PROVE  \A A : On(wire', A) <=> On(wire, A) \/ On(new, A)
BY OnPushed DEF Tells

\* The same page draws the same.
LEMMA PageSame ==
    ASSUME page' = page
    PROVE  /\ \A r : Held(r)' <=> Held(r)
           /\ \A m : Unheld(m)' <=> Unheld(m)
           /\ \A m : EchoOf(m)' <=> EchoOf(m)
           /\ \A m : PendOf(m)' <=> PendOf(m)
BY DEF Held, Unheld, EchoOf, PendOf, Pending, IsEcho

\* Two ordered sequences make one if the second has none of A after B of the first.
LEMMA OrderedJoined ==
    ASSUME NEW s, NEW n, NEW t, Pushed(s, n, t), NEW A, NEW B,
           Ordered(s, A, B), Ordered(n, A, B), On(n, A) => ~On(s, B)
    PROVE  Ordered(t, A, B)
<1>1. Len(s) \in Nat /\ Len(n) \in Nat
  BY DEF Pushed
<1>2. /\ \A l \in 1..Len(s) : t[l] = s[l]
      /\ \A l \in 1..Len(t) : l \in 1..Len(s)
            \/ \E k \in 1..Len(n) : l = Len(s) + k /\ t[l] = n[k]
  BY PushedAt DEF PushedParts
<1> SUFFICES ASSUME NEW i \in 1..Len(t), NEW j \in 1..Len(t), t[i] \in A, t[j] \in B
             PROVE  i < j
  BY DEF Ordered
<1>3. CASE i \in 1..Len(s) /\ j \in 1..Len(s)
  BY <1>2, <1>3 DEF Ordered
<1>4. ASSUME NEW k \in 1..Len(n), i = Len(s) + k, t[i] = n[k]
      PROVE  i < j
  <2>1. On(n, A)
    BY <1>4 DEF On
  <2>2. j \notin 1..Len(s)
    BY <1>2, <2>1 DEF On
  <2>3. PICK l \in 1..Len(n) : j = Len(s) + l /\ t[j] = n[l]
    BY <1>2, <2>2
  <2>4. k < l
    BY <1>4, <2>3 DEF Ordered
  <2> QED
    BY <1>1, <1>4, <2>3, <2>4
<1>5. ASSUME i \in 1..Len(s), NEW k \in 1..Len(n), j = Len(s) + k
      PROVE  i < j
  BY <1>1, <1>5
<1> QED
  BY <1>2, <1>3, <1>4, <1>5

\* Of two ordered kinds, one trails the other as soon as it is there.
LEMMA OrderedTrails ==
    ASSUME NEW s, Len(s) \in Nat, NEW A, NEW B, Ordered(s, A, B), On(s, B)
    PROVE  Trailed(s, A, B)
<1>1. PICK j \in 1..Len(s) : s[j] \in B
  BY DEF On
<1>2. \A i \in 1..Len(s) : s[i] \in A => j \in i + 1..Len(s)
  BY <1>1 DEF Ordered
<1> QED
  BY <1>1, <1>2 DEF Trailed

\* A row's event alone is nothing else.
LEMMA Alone ==
    ASSUME NEW new, Len(new) = 1, NEW r, On(new, RowEv(r)) \/ On(new, Drops(r))
    PROVE  \A m : /\ ~On(new, Users(m)) /\ ~On(new, Offers(m)) /\ ~On(new, Takes(m))
                  /\ ~On(new, Finals(m))
<1>1. \A A : On(new, A) <=> new[1] \in A
  BY DEF On
<1>2. new[1].kind \in {"turn_end", "tell_user", "deleted"}
  BY <1>1, KindOf
<1>3. \A m : new[1] \notin Users(m) /\ new[1] \notin Offers(m) /\ new[1] \notin Takes(m) \cup Finals(m)
  BY <1>2, KindOf
<1> QED
  BY <1>1, <1>3

\* A row of this message: the message is stored, and its run has begun.
Whence(r) == Stored(Said(r[1])) /\ (r[3] # "said" => Ran(r[1]))

\* What still goes to the page Core has still to act on.
LEMMA EmitsComing ==
    ASSUME Shape, CoreInv, NEW r, On(emits, RowEv(r))
    PROVE  On(acts, RowEv(r))
<1>1. PICK i \in 1..Len(emits) : emits[i] \in RowEv(r)
  BY DEF On
<1>2. emits[i] = acts[Len(acts) - Len(emits) + i] /\ Len(emits) <= Len(acts)
  BY DEF CoreInv, Suffix
<1>3. Len(acts) \in Nat /\ Len(emits) \in Nat
  BY DEF Shape, ChannelShape
<1>4. Len(acts) - Len(emits) + i \in 1..Len(acts)
  BY <1>2, <1>3
<1> QED
  BY <1>1, <1>2, <1>4 DEF On

\* A row stored, still to be written, on its way or drawn has its message
\* stored, and one of a run is of a run that began.
LEMMA Sources ==
    ASSUME Shape, CoreInv, Known, NEW r \in Rows
    PROVE  /\ r[1] \in Msgs
           /\ On(acts, RowEv(r)) =>
                 r[3] # "said" /\ ~Stored(r) /\ r[1] \notin History /\ Whence(r)
           /\ Stored(r) => Whence(r)
           /\ On(wire, Brings(r)) => Whence(r)
           /\ Held(r) => Whence(r)
<1>1. r[1] \in Msgs /\ (r[3] = "said" => r = Said(r[1]))
  BY RowsTyped
<1>2. \A m \in Msgs : Ran(m) => Stored(Said(m))
  BY DEF Ran
<1>3. On(acts, RowEv(r)) => r[3] # "said" /\ ~Stored(r) /\ r[1] \notin History /\ Whence(r)
  BY <1>1, <1>2 DEF CoreInv, Coming, Whence
<1>4. Stored(r) => Whence(r)
  <2> SUFFICES ASSUME Stored(r)
               PROVE  Whence(r)
    OBVIOUS
  <2>1. CASE r[3] = "said"
    BY <1>1, <2>1 DEF Whence
  <2>2. CASE r[3] # "said"
    <3>1. PICK i \in 1..Len(rows) : rows[i] = r
      BY DEF Stored
    <3>2. Ran(r[1])
      BY <2>2, <3>1 DEF CoreInv, Book
    <3> QED
      BY <1>1, <1>2, <3>2 DEF Whence
  <2> QED
    BY <2>1, <2>2
<1>5. On(wire, Brings(r)) => Whence(r)
  <2>1. On(wire, Brings(r)) => On(wire, RowEv(r)) \/ On(wire, Has(r))
    BY DEF On, Brings
  <2>2. On(wire, RowEv(r)) => Stored(r) \/ On(acts, RowEv(r))
    BY DEF Known
  <2>3. On(wire, Has(r)) => Stored(r)
    BY DEF Known
  <2> QED
    BY <1>3, <1>4, <2>1, <2>2, <2>3
<1>6. Held(r) => Whence(r)
  <2>1. Held(r) => Stored(r) \/ On(acts, RowEv(r))
    BY DEF Known
  <2> QED
    BY <1>3, <1>4, <2>1
<1> QED
  BY <1>1, <1>3, <1>4, <1>5, <1>6

\* A message stored and announced to nobody who waits for it is on its way to
\* the page if the page waits for it.
LEMMA RanAnnounced ==
    ASSUME NEW m \in Msgs, Ran(m)
    PROVE  Ann(m)
BY DEF Ran, Ann

\* A step of Core, as the page can tell it.
Goes(new) == Tells(new) /\ Moves(new) /\ page' = page

\* The turns do not change, so what is said of them alone stays true.
LEMMA DrawnSame ==
    ASSUME PageInv, page' = page
    PROVE  TurnShape' /\ RunsFollow'
BY DEF PageInv, TurnShape, RunsFollow, Pending, IsEcho

\* No turn is drawn twice without a reason, as nothing leaves the wire.
LEMMA OnceGoes ==
    ASSUME PageInv, NEW new, Goes(new)
    PROVE  Once'
<1>1. \A A : On(wire, A) => On(wire', A)
  BY TellsOn DEF Goes
<1>2. page' = page /\ Once
  BY DEF Goes, PageInv
<1> SUFFICES ASSUME NEW i \in 1..Len(page'.turns), NEW j \in 1..Len(page'.turns),
                    i # j, page'.turns[i].row = page'.turns[j].row
             PROVE  /\ IsEcho(page'.turns[i]) <=> ~IsEcho(page'.turns[j])
                    /\ On(wire', Takes(page'.turns[i].row[1]))
  BY DEF Once
<1>3. /\ IsEcho(page.turns[i]) <=> ~IsEcho(page.turns[j])
      /\ On(wire, Takes(page.turns[i].row[1]))
  BY <1>2 DEF Once
<1> QED
  BY <1>1, <1>2, <1>3

\* An echo keeps the reason it is drawn for.
LEMMA EchoPlaceGoes ==
    ASSUME Shape, PageInv, NEW new, Goes(new)
    PROVE  EchoPlace'
<1> SUFFICES ASSUME NEW m \in Msgs, EchoOf(m)'
             PROVE  \/ m \in lost'
                    \/ /\ m \in page'.sends
                       /\ \/ pc'[m] \in {"sent", "saved"} \/ On(wire', Pendings(m))
                          \/ On(wire', Takes(m))
  BY DEF EchoPlace
<1>1. page' = page /\ EchoOf(m)
  BY PageSame DEF Goes
<1>2. m \in Own
  <2>1. PICK i \in 1..Len(page.turns) : page.turns[i].row = Said(m) /\ IsEcho(page.turns[i])
    BY <1>1 DEF EchoOf
  <2>2. page.turns[i].row[1] \in Own
    BY <2>1 DEF PageInv, TurnShape, IsEcho
  <2> QED
    BY <2>1, <2>2 DEF Said
<1>3. \A A : On(wire', A) <=> On(wire, A) \/ On(new, A)
  BY TellsOn DEF Goes
<1>4. \/ m \in lost
      \/ /\ m \in page.sends
         /\ pc[m] \in {"sent", "saved"} \/ On(wire, Pendings(m)) \/ On(wire, Takes(m))
  BY <1>1 DEF PageInv, EchoPlace
<1>5. /\ m \in lost => m \in lost'
      /\ pc[m] \in {"sent", "saved"} =>
            \/ pc'[m] \in {"sent", "saved"} \/ m \in lost'
            \/ On(new, Pendings(m)) \/ On(new, Takes(m))
  BY <1>2 DEF Goes, Moves, MsgMoves, RowMoves, RowsStay
<1> QED
  BY <1>1, <1>3, <1>4, <1>5

\* A message that waits at Core is not at the same time on its way directly:
\* it came there in this step, or was there before.
LEMMA WaysGoes ==
    ASSUME Shape, CoreInv, CoreInv', PageInv, NEW new, Goes(new)
    PROVE  Ways'
<1> SUFFICES ASSUME NEW m \in Msgs, Via(m)'
             PROVE  ~Direct(m)' /\ pc'[m] \in {"over", "drained", "taken"} /\ m \notin lost' /\ m \notin History
  BY DEF Ways
<1>1. \A A : On(wire', A) <=> On(wire, A) \/ On(new, A)
  BY TellsOn DEF Goes
<1>2. PendOf(m)' <=> PendOf(m)
  BY PageSame DEF Goes
<1>3. /\ pc[m] \in {"new", "sent", "saved", "pending", "written", "drained", "taken", "over"}
      /\ pc'[m] \in {"drained", "taken"} => pc[m] \in {"drained", "taken"} \/ Queued(m)
      /\ Queued(m)' => Queued(m) \/ pc[m] \in {"new", "sent"}
      /\ On(new, Pops(m)) => pc[m] \in {"drained", "taken"} \/ Queued(m)
      /\ On(new, Offers(m)) => Queued(m)'
      /\ On(new, Takes(m)) => Queued(m)'
  BY DEF Goes, Moves, MsgMoves, RowMoves, RowsStay, Tells, MsgTells, RowTells, ListTells, Shape, CoreShape
<1>4. Via(m) \/ (Queued(m)' /\ pc[m] \in {"new", "sent"})
  BY <1>1, <1>2, <1>3 DEF Via
<1>5. /\ On(new, Announcements(m)) => pc[m] \in {"saved", "pending", "written"}
      /\ On(new, Finals(m)) => pc[m] \in {"new", "sent", "pending", "written"} /\ ~Queued(m)'
  BY DEF Goes, Tells, MsgTells, RowTells, ListTells
<1>6. CASE Via(m)
  <2>1. ~Direct(m) /\ pc[m] \in {"over", "drained", "taken"} /\ m \notin lost /\ m \notin History
    BY <1>6 DEF PageInv, Ways
  <2>2. pc'[m] \in {"over", "drained", "taken"} /\ (m \in lost' => m \in lost \/ pc[m] \in {"new", "sent"})
    BY <2>1 DEF Goes, Moves, MsgMoves, RowMoves, RowsStay
  <2>3. ~Direct(m)'
    BY <1>1, <1>5, <2>1, <2>2 DEF Direct
  <2> QED
    BY <2>1, <2>2, <2>3
<1>7. CASE Queued(m)' /\ pc[m] \in {"new", "sent"}
  <2>1. pc'[m] = "over" /\ m \notin lost' /\ m \notin History
    BY <1>7 DEF CoreInv, Places
  <2>2. ~Stored(Said(m))
    BY <1>7 DEF CoreInv, Places
  <2>3. ~On(wire, Announcements(m))
    <3>1. On(wire, Users(m)) => Stored(Said(m))
      BY DEF PageInv, Known
    <3> QED
      BY <2>2, <3>1, KindParts, OnMore
  <2>4. ~On(wire, Finals(m))
    BY <1>7 DEF PageInv, Finished
  <2>5. ~Direct(m)'
    BY <1>1, <1>5, <1>7, <2>1, <2>3, <2>4 DEF Direct
  <2> QED
    BY <2>1, <2>5
<1> QED
  BY <1>4, <1>6, <1>7

\* Core has done with a send before it answers it.
LEMMA FinishedGoes ==
    ASSUME PageInv, NEW new, Goes(new)
    PROVE  Finished'
<1> SUFFICES ASSUME NEW m \in Msgs, On(wire', Finals(m))
             PROVE  pc'[m] = "over"
  BY DEF Finished
<1>1. On(wire, Finals(m)) \/ On(new, Finals(m))
  BY TellsOn DEF Goes
<1>2. CASE On(new, Finals(m))
  BY <1>2 DEF Goes, Tells, MsgTells, RowTells, ListTells
<1>3. CASE On(wire, Finals(m))
  <2>1. pc[m] = "over"
    BY <1>3 DEF PageInv, Finished
  <2>2. ~Queued(m)
    BY <1>3 DEF PageInv, Ways, Via, Direct
  <2> QED
    BY <2>1, <2>2 DEF Goes, Moves, MsgMoves, RowMoves, RowsStay
<1> QED
  BY <1>1, <1>2, <1>3

\* The answer comes after the message it answers, right behind it if it was
\* dispatched.
LEMMA AnswersGoes ==
    ASSUME PageInv, NEW new, Goes(new)
    PROVE  Answers'
<1>1. Pushed(wire, new, wire') /\ page' = page
  BY DEF Goes, Tells, MsgTells, RowTells, ListTells
<1> SUFFICES ASSUME NEW m \in Msgs
             PROVE  /\ Ordered(wire', Announcements(m), Finals(m))
                    /\ \A a \in 1..Len(wire') : wire'[a] \in Dones(m) =>
                          IF a = 1 THEN Held(Said(m))' ELSE wire'[a - 1] \in Users(m)
  BY DEF Answers
<1>2. /\ Ordered(wire, Announcements(m), Finals(m))
      /\ \A a \in 1..Len(wire) : wire[a] \in Dones(m) =>
            IF a = 1 THEN Held(Said(m)) ELSE wire[a - 1] \in Users(m)
  BY DEF PageInv, Answers
<1>3. Held(Said(m))' <=> Held(Said(m))
  BY <1>1, PageSame
<1>4. /\ On(wire, Finals(m)) => pc[m] = "over"
      /\ On(new, Announcements(m)) => pc[m] \in {"saved", "pending", "written"}
      /\ Ordered(new, Announcements(m), Finals(m))
      /\ \A k \in 1..Len(new) : new[k] \in Dones(m) =>
            k - 1 \in 1..Len(new) /\ new[k - 1] \in Users(m)
  BY DEF Goes, Tells, MsgTells, RowTells, ListTells, PageInv, Finished
<1>5. Ordered(wire', Announcements(m), Finals(m))
  BY <1>1, <1>2, <1>4, OrderedJoined
<1>6. /\ Len(wire) \in Nat
      /\ \A l \in 1..Len(wire) : wire'[l] = wire[l]
      /\ \A k \in 1..Len(new) : wire'[Len(wire) + k] = new[k]
      /\ \A l \in 1..Len(wire') : l \in 1..Len(wire)
            \/ \E k \in 1..Len(new) : l = Len(wire) + k /\ wire'[l] = new[k]
  <2>1. PushedParts(wire, new, wire') /\ Len(wire) \in Nat
    BY <1>1, PushedAt DEF Pushed
  <2> QED
    BY <2>1 DEF PushedParts
<1>7. \A a \in 1..Len(wire') : wire'[a] \in Dones(m) =>
          IF a = 1 THEN Held(Said(m))' ELSE wire'[a - 1] \in Users(m)
  <2> SUFFICES ASSUME NEW a \in 1..Len(wire'), wire'[a] \in Dones(m)
               PROVE  IF a = 1 THEN Held(Said(m))' ELSE wire'[a - 1] \in Users(m)
    OBVIOUS
  <2>1. CASE a \in 1..Len(wire)
    <3>1. wire[a] \in Dones(m)
      BY <1>6, <2>1
    <3>2. a # 1 => a - 1 \in 1..Len(wire)
      BY <1>6, <2>1
    <3>3. a # 1 => wire'[a - 1] = wire[a - 1]
      BY <1>6, <3>2
    <3> QED
      BY <1>2, <1>3, <2>1, <3>1, <3>3
  <2>2. ASSUME NEW k \in 1..Len(new), a = Len(wire) + k, wire'[a] = new[k]
        PROVE  IF a = 1 THEN Held(Said(m))' ELSE wire'[a - 1] \in Users(m)
    <3>1. k - 1 \in 1..Len(new) /\ new[k - 1] \in Users(m)
      BY <1>4, <2>2
    <3>2. wire'[Len(wire) + (k - 1)] = new[k - 1]
      BY <1>6, <3>1
    <3>3. Len(wire) + (k - 1) = a - 1 /\ a # 1
      BY <1>6, <2>2, <3>1
    <3> QED
      BY <3>1, <3>2, <3>3
  <2> QED
    BY <1>6, <2>1, <2>2
<1> QED
  BY <1>5, <1>7

\* A message announced is on its way to a page that waits for it.
LEMMA AnnouncedGoes ==
    ASSUME CoreInv', PageInv, NEW new, Goes(new)
    PROVE  Announced'
<1> SUFFICES ASSUME NEW m \in Msgs, Ann(m)', Unheld(m)' \/ On(wire', Offers(m))
             PROVE  On(wire', Users(m))
  BY DEF Announced
<1>1. \A A : On(wire', A) <=> On(wire, A) \/ On(new, A)
  BY TellsOn DEF Goes
<1>2. Unheld(m)' <=> Unheld(m)
  BY PageSame DEF Goes
<1>3. Ann(m) \/ On(new, Users(m))
  BY DEF Goes, Moves, MsgMoves, RowMoves, RowsStay
<1>4. ~On(new, Offers(m))
  <2>1. Stored(Said(m))'
    BY DEF Ann
  <2>2. ~Queued(m)'
    BY <2>1 DEF CoreInv, Places
  <2> QED
    BY <2>2 DEF Goes, Tells, MsgTells, RowTells, ListTells
<1>5. Ann(m) => On(wire, Users(m))
  BY <1>1, <1>2, <1>4 DEF PageInv, Announced
<1> QED
  BY <1>1, <1>3, <1>5

\* What keeps the order on the wire: of a message only what is not there yet is
\* offered or answered for, only what has not run is announced, and only what
\* was announced is brought.
LEMMA InOrderPushed ==
    ASSUME Shape, CoreInv, PageInv, NEW new, Pushed(wire, new, wire'), page' = page,
           NEW r \in Rows, NEW m \in Msgs, m = r[1],
           On(new, Brings(r)) => Ann(m) /\ ~On(new, Users(m)) /\ ~On(new, Offers(m)),
           On(new, Offers(m)) \/ On(new, Takes(m)) => ~Stored(Said(m)) /\ ~On(new, Users(m)),
           On(new, Users(m)) => ~Ran(m)
    PROVE  InOrder(r, m)'
<1>1. InOrder(r, m)
  BY DEF PageInv, Order
<1>2. /\ Held(r)' <=> Held(r)
      /\ Unheld(m)' <=> Unheld(m)
  BY PageSame
<1>3. \A A : On(wire', A) <=> On(wire, A) \/ On(new, A)
  BY OnPushed
<1>4. /\ Stored(Said(m)) \/ ~On(wire, Brings(r))
      /\ r[3] # "said" /\ (On(wire, Brings(r)) \/ Held(r)) => Ran(m)
      /\ Held(r) => Stored(Said(m))
  BY Sources DEF PageInv, Whence
<1>5. On(wire, Users(m)) => Stored(Said(m))
  BY DEF PageInv, Known
<1>6. (Ann(m) /\ (Unheld(m) \/ On(wire, Offers(m)))) => On(wire, Users(m))
  BY DEF PageInv, Announced
<1>7. Unheld(m)' => Led(wire', Users(m), Brings(r))
  <2>1. Unheld(m) => Led(wire, Users(m), Brings(r))
    BY <1>1 DEF InOrder
  <2>2. Unheld(m) /\ On(new, Brings(r)) => On(wire, Users(m))
    BY <1>6
  <2> QED
    BY <1>2, <2>1, <2>2, LedPushed
<1>8. Ordered(wire', Offers(m), Brings(r))
  <2>1. Ordered(wire, Offers(m), Brings(r))
    BY <1>1 DEF InOrder
  <2>2. On(new, Offers(m)) => ~On(wire, Brings(r)) /\ ~On(new, Brings(r))
    BY <1>4
  <2> QED
    BY <2>1, <2>2, OrderedPushed
<1>9. Ordered(wire', Offers(m), Users(m))
  <2>1. Ordered(wire, Offers(m), Users(m))
    BY <1>1 DEF InOrder
  <2>2. On(new, Offers(m)) => ~On(wire, Users(m)) /\ ~On(new, Users(m))
    BY <1>5
  <2> QED
    BY <2>1, <2>2, OrderedPushed
<1>10. Ordered(wire', Takes(m), Users(m))
  <2>1. Ordered(wire, Takes(m), Users(m))
    BY <1>1 DEF InOrder
  <2>2. On(new, Takes(m)) => ~On(wire, Users(m)) /\ ~On(new, Users(m))
    BY <1>5
  <2> QED
    BY <2>1, <2>2, OrderedPushed
<1>11. Between(wire', Offers(m), Users(m), Brings(r))
  <2>1. Between(wire, Offers(m), Users(m), Brings(r)) /\ Ordered(wire, Offers(m), Users(m))
    BY <1>1 DEF InOrder
  <2>2. On(new, Brings(r)) /\ On(wire, Offers(m)) => On(wire, Users(m))
    BY <1>6
  <2>3. On(wire, Users(m)) => Trailed(wire, Offers(m), Users(m))
    BY <2>1, OrderedTrails DEF Pushed
  <2> QED
    BY <2>1, <2>2, <2>3, BetweenPushed
<1>12. r[3] # "said" => Ordered(wire', Users(m), Brings(r))
  <2>1. r[3] # "said" => Ordered(wire, Users(m), Brings(r))
    BY <1>1 DEF InOrder
  <2>2. r[3] # "said" /\ On(new, Users(m)) => ~On(wire, Brings(r)) /\ ~On(new, Brings(r))
    BY <1>4
  <2> QED
    BY <2>1, <2>2, OrderedPushed
<1>13. r[3] # "said" /\ Held(r)' => ~On(wire', Users(m))
  <2>1. r[3] # "said" /\ Held(r) => ~On(wire, Users(m))
    BY <1>1 DEF InOrder
  <2> QED
    BY <1>2, <1>3, <1>4, <2>1
<1>14. Held(r)' => ~On(wire', Offers(m))
  <2>1. Held(r) => ~On(wire, Offers(m))
    BY <1>1 DEF InOrder
  <2> QED
    BY <1>2, <1>3, <1>4, <2>1
<1> QED
  BY <1>7, <1>8, <1>9, <1>10, <1>11, <1>12, <1>13, <1>14 DEF InOrder

\* Core's steps keep the order.
LEMMA OrderGoes ==
    ASSUME Shape, CoreInv, CoreInv', PageInv, NEW new, Goes(new)
    PROVE  Order'
<1> SUFFICES ASSUME NEW r \in Rows, NEW m \in Msgs, m = r[1]
             PROVE  InOrder(r, m)'
  BY RowsTyped DEF Order
<1>1. Pushed(wire, new, wire') /\ page' = page
  BY DEF Goes, Tells, MsgTells, RowTells, ListTells
<1>2. On(new, Brings(r)) => On(new, RowEv(r))
  <2>1. ~On(new, Has(r))
    BY OnMore, KindOf DEF Goes, Tells, MsgTells, RowTells, ListTells, Has
  <2> QED
    BY <2>1 DEF On, Brings
<1>3. On(new, RowEv(r)) => Ann(m) /\ ~On(new, Users(m)) /\ ~On(new, Offers(m))
  <2> SUFFICES ASSUME On(new, RowEv(r))
               PROVE  Ann(m) /\ ~On(new, Users(m)) /\ ~On(new, Offers(m))
    OBVIOUS
  <2>1. Len(new) = 1 /\ On(emits, RowEv(r))
    BY DEF Goes, Tells, MsgTells, RowTells, ListTells
  <2>2. On(acts, RowEv(r))
    BY <2>1, EmitsComing
  <2>3. Ran(m)
    BY <2>2, Sources DEF PageInv, Whence
  <2>4. ~On(new, Users(m)) /\ ~On(new, Offers(m))
    BY <2>1, Alone
  <2> QED
    BY <2>3, <2>4, RanAnnounced
<1>4. On(new, Offers(m)) \/ On(new, Takes(m)) => ~Stored(Said(m)) /\ ~On(new, Users(m))
  <2> SUFFICES ASSUME On(new, Offers(m)) \/ On(new, Takes(m))
               PROVE  ~Stored(Said(m)) /\ ~On(new, Users(m))
    OBVIOUS
  <2>1. Queued(m)'
    BY DEF Goes, Tells, MsgTells, RowTells, ListTells
  <2>2. ~Stored(Said(m))'
    BY <2>1 DEF CoreInv, Places
  <2>3. ~On(new, Users(m))
    BY <2>2 DEF Goes, Tells, MsgTells, RowTells, ListTells
  <2>4. Stored(Said(m)) => Stored(Said(m))'
    BY RowsTyped DEF Goes, Moves, MsgMoves, RowMoves, RowsStay
  <2> QED
    BY <2>2, <2>3, <2>4
<1>5. On(new, Users(m)) => ~Ran(m)
  BY DEF Goes, Tells, MsgTells, RowTells, ListTells
<1> QED
  BY <1>1, <1>2, <1>3, <1>4, <1>5, InOrderPushed

\* What is new on the wire holds no page of the conversation.
LEMMA NoPages ==
    ASSUME NEW new, Tells(new)
    PROVE  /\ \A r : ~On(new, Has(r)) /\ (On(new, Brings(r)) => On(new, RowEv(r)))
           /\ \A m : ~On(new, Lacks(m))
<1>1. \A r : ~On(new, Has(r))
  BY DEF Tells, MsgTells, RowTells, ListTells, On, Has
<1>2. \A m : ~On(new, Lacks(m))
  BY DEF Tells, MsgTells, RowTells, ListTells, On, Lacks
<1>3. \A r : On(new, Brings(r)) => On(new, RowEv(r))
  BY <1>1 DEF On, Brings
<1> QED
  BY <1>1, <1>2, <1>3

\* Each row comes to the page once by its event, before any page that has it.
LEMMA KnownGoes ==
    ASSUME Shape, CoreInv, PageInv, NEW new, Goes(new)
    PROVE  Known'
<1>1. \A A : On(wire', A) <=> On(wire, A) \/ On(new, A)
  BY TellsOn DEF Goes
<1>2. \A r : Held(r)' <=> Held(r)
  BY PageSame DEF Goes
<1>3. Pushed(wire, new, wire') /\ Known
  BY DEF Goes, Tells, MsgTells, RowTells, ListTells, PageInv
<1>4. ASSUME NEW r \in Rows
      PROVE  /\ On(new, RowEv(r)) =>
                   /\ Len(new) = 1 /\ On(emits, RowEv(r)) /\ ~On(emits', RowEv(r))
                   /\ On(acts, RowEv(r)) /\ r[3] # "said" /\ ~Stored(r) /\ r[1] \notin History
             /\ Stored(r) \/ On(acts, RowEv(r)) => Stored(r)' \/ On(acts', RowEv(r))
             /\ On(emits', RowEv(r)) => On(emits, RowEv(r)) \/ (~Stored(r) /\ ~On(acts, RowEv(r)))
             /\ Stored(r) => Stored(r)'
  <2>1. On(new, RowEv(r)) => Len(new) = 1 /\ On(emits, RowEv(r)) /\ ~On(emits', RowEv(r))
    BY DEF Goes, Tells, MsgTells, RowTells, ListTells
  <2>2. On(emits, RowEv(r)) => On(acts, RowEv(r))
    BY EmitsComing
  <2>3. On(acts, RowEv(r)) => r[3] # "said" /\ ~Stored(r) /\ r[1] \notin History
    BY <1>3, Sources
  <2>4. /\ Stored(r) => Stored(r)'
        /\ On(acts, RowEv(r)) => On(acts', RowEv(r)) \/ Stored(r)'
        /\ On(emits', RowEv(r)) => On(emits, RowEv(r)) \/ (~Stored(r) /\ ~On(acts, RowEv(r)))
    BY DEF Goes, Moves, MsgMoves, RowMoves, RowsStay
  <2> QED
    BY <2>1, <2>2, <2>3, <2>4
<1>5. \A r \in Rows : Held(r)' =>
          /\ Stored(r)' \/ On(acts', RowEv(r))
          /\ ~On(emits', RowEv(r)) /\ ~On(wire', RowEv(r))
  <2> SUFFICES ASSUME NEW r \in Rows, Held(r)
               PROVE  /\ Stored(r)' \/ On(acts', RowEv(r))
                      /\ ~On(emits', RowEv(r)) /\ ~On(wire', RowEv(r))
    BY <1>2
  <2>1. /\ Stored(r) \/ On(acts, RowEv(r))
        /\ ~On(emits, RowEv(r)) /\ ~On(wire, RowEv(r))
    BY <1>3 DEF Known
  <2> QED
    BY <1>1, <1>4, <2>1
<1>6. \A r \in Rows : On(wire', Has(r)) => Stored(r)'
  <2>1. \A r \in Rows : On(wire, Has(r)) => Stored(r)
    BY <1>3 DEF Known
  <2>2. \A r : ~On(new, Has(r))
    BY NoPages DEF Goes
  <2> QED
    BY <1>1, <1>4, <2>1, <2>2
<1>7. \A m \in Msgs : On(wire', Users(m)) => Stored(Said(m))' /\ m \notin History
  <2>1. \A m \in Msgs : On(wire, Users(m)) => Stored(Said(m)) /\ m \notin History
    BY <1>3 DEF Known
  <2>2. \A m \in Msgs : On(new, Users(m)) => Stored(Said(m))' /\ m \notin History
    BY DEF Goes, Tells, MsgTells, RowTells, ListTells
  <2>3. \A m \in Msgs : Stored(Said(m)) => Stored(Said(m))'
    BY RowsTyped DEF Goes, Moves, MsgMoves, RowMoves, RowsStay
  <2> QED
    BY <1>1, <2>1, <2>2, <2>3
<1>8. \A r \in Rows : Ordered(wire', RowEv(r), Has(r)) /\ OneOf(wire', RowEv(r))
  <2> SUFFICES ASSUME NEW r \in Rows
               PROVE  Ordered(wire', RowEv(r), Has(r)) /\ OneOf(wire', RowEv(r))
    OBVIOUS
  <2>1. /\ Ordered(wire, RowEv(r), Has(r)) /\ OneOf(wire, RowEv(r))
        /\ On(wire, Has(r)) => Stored(r)
        /\ On(wire, RowEv(r)) => ~On(emits, RowEv(r))
    BY <1>3 DEF Known
  <2>2. On(new, RowEv(r)) => ~On(wire, Has(r)) /\ ~On(new, Has(r)) /\ ~On(wire, RowEv(r))
    BY <1>4, <2>1, NoPages DEF Goes
  <2>3. OneOf(new, RowEv(r))
    BY <1>4 DEF OneOf, On
  <2>4. Ordered(wire', RowEv(r), Has(r))
    BY <1>3, <2>1, <2>2, OrderedPushed
  <2>5. OneOf(wire', RowEv(r))
    BY <1>3, <2>1, <2>2, <2>3, OneOfPushed
  <2> QED
    BY <2>4, <2>5
<1>9. \A r \in Rows : On(wire', RowEv(r)) =>
          /\ Stored(r)' \/ On(acts', RowEv(r))
          /\ ~On(emits', RowEv(r)) /\ r[1] \notin History /\ r[3] # "said"
  <2> SUFFICES ASSUME NEW r \in Rows, On(wire', RowEv(r))
               PROVE  /\ Stored(r)' \/ On(acts', RowEv(r))
                      /\ ~On(emits', RowEv(r)) /\ r[1] \notin History /\ r[3] # "said"
    OBVIOUS
  <2>1. CASE On(wire, RowEv(r))
    <3>1. /\ Stored(r) \/ On(acts, RowEv(r))
          /\ ~On(emits, RowEv(r)) /\ r[1] \notin History /\ r[3] # "said"
      BY <1>3, <2>1 DEF Known
    <3> QED
      BY <1>4, <3>1
  <2>2. CASE On(new, RowEv(r))
    BY <1>4, <2>2
  <2> QED
    BY <1>1, <2>1, <2>2
<1>10. \A i \in 1..Len(wire') : wire'[i] \in Lists \cup Snapshots =>
           \A k, l \in 1..Len(wire'[i].items) : wire'[i].items[k].msg = wire'[i].items[l].msg => k = l
  <2>1. PushedParts(wire, new, wire')
    BY <1>3, PushedAt
  <2>2. \A i \in 1..Len(wire') : \/ \E l \in 1..Len(wire) : wire'[i] = wire[l]
                                 \/ \E k \in 1..Len(new) : wire'[i] = new[k]
    BY <2>1 DEF PushedParts
  <2>3. \A i \in 1..Len(wire) : wire[i] \in Lists \cup Snapshots =>
          \A k, l \in 1..Len(wire[i].items) : wire[i].items[k].msg = wire[i].items[l].msg => k = l
    BY <1>3 DEF Known
  <2>4. \A i \in 1..Len(new) : new[i] \in Lists \cup Snapshots =>
          \A k, l \in 1..Len(new[i].items) : new[i].items[k].msg = new[i].items[l].msg => k = l
    BY DEF Goes, Tells, MsgTells, RowTells, ListTells
  <2>5. SUFFICES ASSUME NEW i \in 1..Len(wire')
                 PROVE  wire'[i] \in Lists \cup Snapshots =>
                            \A k, l \in 1..Len(wire'[i].items) :
                                wire'[i].items[k].msg = wire'[i].items[l].msg => k = l
    OBVIOUS
  <2>6. CASE \E l \in 1..Len(wire) : wire'[i] = wire[l]
    <3>1. PICK l \in 1..Len(wire) : wire'[i] = wire[l]
      BY <2>6
    <3> QED
      BY <2>3, <3>1
  <2>7. CASE \E k \in 1..Len(new) : wire'[i] = new[k]
    <3>1. PICK k \in 1..Len(new) : wire'[i] = new[k]
      BY <2>7
    <3> QED
      BY <2>4, <3>1
  <2> QED
    BY <2>2, <2>6, <2>7
<1> QED
  BY <1>5, <1>6, <1>7, <1>8, <1>9, <1>10 DEF Known

\* A row deleted goes from the page, and does not come back.
LEMMA DroppedGoes ==
    ASSUME Shape, CoreInv, PageInv, NEW new, Goes(new)
    PROVE  Dropped'
<1>1. \A A : On(wire', A) <=> On(wire, A) \/ On(new, A)
  BY TellsOn DEF Goes
<1>2. \A r : Held(r)' <=> Held(r)
  BY PageSame DEF Goes
<1>3. Pushed(wire, new, wire') /\ Dropped
  BY DEF Goes, Tells, MsgTells, RowTells, ListTells, PageInv
<1>4. ASSUME NEW r \in Rows, r \in gone'
      PROVE  (Held(r)' => On(wire', Drops(r))) /\ Trailed(wire', Says(r), Drops(r))
  <2>1. CASE r \notin gone
    <3>1. On(new, Drops(r)) /\ Len(new) = 1
      BY <1>4, <2>1 DEF Goes, Moves, MsgMoves, RowMoves, RowsStay
    <3>2. ~On(new, Says(r))
      <4>1. new[1] \in Drops(r)
        BY <3>1 DEF On
      <4>2. new[1].kind = "deleted"
        BY <4>1, KindOf
      <4>3. new[1] \notin Says(r)
        BY <4>2, KindOf DEF Says, Brings
      <4> QED
        BY <3>1, <4>3 DEF On
    <3>3. Trailed(wire', Says(r), Drops(r))
      BY <1>3, <3>1, <3>2, TrailedPushed
    <3> QED
      BY <1>1, <3>1, <3>3
  <2>2. CASE r \in gone
    <3>1. (Held(r) => On(wire, Drops(r))) /\ Trailed(wire, Says(r), Drops(r))
      BY <1>3, <2>2 DEF Dropped
    <3>2. Stored(r)
      BY <2>2 DEF CoreInv, Places
    <3>3. ~On(new, Brings(r))
      <4>1. ~On(new, RowEv(r))
        <5>1. On(new, RowEv(r)) => On(emits, RowEv(r))
          BY DEF Goes, Tells, MsgTells, RowTells, ListTells
        <5>2. On(acts, RowEv(r)) => ~Stored(r)
          BY Sources DEF PageInv
        <5> QED
          BY <3>2, <5>1, <5>2, EmitsComing
      <4> QED
        BY <4>1, NoPages DEF Goes
    <3>4. r[3] = "said" => ~On(new, Users(r[1]))
      <4>1. r[3] = "said" => r = Said(r[1]) /\ r[1] \in Msgs
        BY RowsTyped
      <4>2. \A m \in Msgs : On(new, Users(m)) => Said(m) \notin gone'
        BY DEF Goes, Tells, MsgTells, RowTells, ListTells
      <4> QED
        BY <1>4, <4>1, <4>2
    <3>5. ~On(new, Says(r))
      BY <3>3, <3>4 DEF On, Says
    <3>6. Trailed(wire', Says(r), Drops(r))
      BY <1>3, <3>1, <3>5, TrailedPushed
    <3> QED
      BY <1>1, <1>2, <3>1, <3>6
  <2> QED
    BY <2>1, <2>2
<1>5. ASSUME NEW m \in Msgs
      PROVE  /\ Held(Said(m))' => Led(wire', Drops(Said(m)), Lacks(m))
             /\ Between(wire', Says(Said(m)), Drops(Said(m)), Lacks(m))
  <2>1. ~On(new, Lacks(m))
    BY NoPages DEF Goes
  <2>2. /\ Held(Said(m)) => Led(wire, Drops(Said(m)), Lacks(m))
        /\ Between(wire, Says(Said(m)), Drops(Said(m)), Lacks(m))
    BY <1>3 DEF Dropped
  <2>3. Held(Said(m))' => Led(wire', Drops(Said(m)), Lacks(m))
    BY <1>2, <1>3, <2>1, <2>2, LedPushed
  <2>4. Between(wire', Says(Said(m)), Drops(Said(m)), Lacks(m))
    BY <1>3, <2>1, <2>2, BetweenPushed
  <2> QED
    BY <2>3, <2>4
<1> QED
  BY <1>4, <1>5 DEF Dropped

\* What a step answers of the reads that are out, one of each kind at most.
Asks(new) ==
    /\ calls' \subseteq calls
    /\ OneOf(new, LatestReads) /\ OneOf(new, EarlierReads)
    /\ On(new, LatestReads) => "page" \in calls /\ "page" \notin calls'
    /\ On(new, EarlierReads) => "earlier" \in calls /\ "earlier" \notin calls'

\* Where a page starts nothing moves: rows come in below the latest message.
LEMMA BaseGoes ==
    ASSUME Shape, NEW new, Goes(new), NEW b \in Nat, Base(b)
    PROVE  /\ Base(b)'
           /\ \A k \in 1..b - 1 : rows'[k] = rows[k]
<1>1. CASE b = 0
  BY <1>1 DEF Base
<1>2. CASE b > 0
  <2>1. /\ b <= Len(rows) /\ rows[b][3] = "said"
        /\ \A i \in 1..b - 1 : IF rows[i][1] \in History THEN ~Held(rows[i]) ELSE rows[i] \in gone
    BY <1>2 DEF Base
  <2>2. b \in 1..Len(rows) /\ Len(rows) \in Nat
    BY <1>2, <2>1, RowsTyped
  <2>3. \A i \in 1..b : rows'[i] = rows[i]
    BY <2>1, <2>2 DEF Goes, Moves, MsgMoves, RowMoves, RowsStay
  <2>4. Len(rows) <= Len(rows') /\ Len(rows') \in Nat
    BY <2>2 DEF Goes, Moves, MsgMoves, RowMoves, RowsStay
  <2>5. b <= Len(rows') /\ rows'[b][3] = "said"
    BY <1>2, <2>1, <2>2, <2>3, <2>4
  <2>6. \A r : Held(r)' <=> Held(r)
    BY PageSame DEF Goes
  <2>7. \A r \in Rows : r \in gone => r \in gone'
    BY DEF Goes, Moves, MsgMoves, RowMoves, RowsStay
  <2>8. \A i \in 1..b - 1 : i \in 1..b /\ rows[i] \in Rows
    BY <1>2, <2>2, RowsTyped
  <2>9. \A i \in 1..b - 1 : rows'[i] \in Rows /\ rows'[i] = rows[i]
    BY <2>3, <2>8
  <2>10. \A i \in 1..b - 1 : \A r \in Rows : rows[i] = r =>
            IF r[1] \in History THEN ~Held(r)' ELSE r \in gone'
    <3> SUFFICES ASSUME NEW i \in 1..b - 1, NEW r \in Rows, rows[i] = r
                 PROVE  IF r[1] \in History THEN ~Held(r)' ELSE r \in gone'
      OBVIOUS
    <3>1. IF r[1] \in History THEN ~Held(r) ELSE r \in gone
      BY <2>1
    <3> QED
      BY <2>6, <2>7, <3>1
  <2>11. \A i \in 1..b - 1 : IF rows'[i][1] \in History
            THEN ~\E j \in 1..Len(page'.turns) :
                    page'.turns[j].row = rows'[i] /\ page'.turns[j].held
            ELSE rows'[i] \in gone'
    BY <2>9, <2>10 DEF Held
  <2> QED
    BY <2>5, <2>9, <2>11 DEF Base, Held
<1> QED
  BY <1>1, <1>2

\* A read on its way stays what it was.
LEMMA ReadsGoes ==
    ASSUME Shape, PageInv, NEW new, Goes(new), Asks(new)
    PROVE  Reads'
<1>1. \A A : On(wire', A) <=> On(wire, A) \/ On(new, A)
  BY TellsOn DEF Goes
<1>2. \A r : Held(r)' <=> Held(r)
  BY PageSame DEF Goes
<1>3. Pushed(wire, new, wire') /\ Reads /\ page' = page /\ ~On(new, TurnAnswers)
  BY DEF Goes, Tells, MsgTells, RowTells, ListTells, PageInv
<1>4. \A i \in 1..Len(wire') : wire'[i] \in TurnAnswers => \E l \in 1..Len(wire) : wire'[i] = wire[l]
  <2>1. PushedParts(wire, new, wire')
    BY <1>3, PushedAt
  <2> QED
    BY <1>3, <2>1 DEF PushedParts, On
<1>5. \A i \in 1..Len(wire') : wire'[i] \in TurnAnswers => WellRead(wire'[i])
  <2>1. \A i \in 1..Len(wire) : wire[i] \in TurnAnswers => WellRead(wire[i])
    BY <1>3 DEF Reads
  <2> QED
    BY <1>4, <2>1
<1>6. /\ OneOf(wire', LatestReads)
      /\ "page" \in calls' => ~On(wire', LatestReads)
      /\ "page" \in calls' \/ On(wire', LatestReads) => ~page'.read
  <2>1. /\ OneOf(wire, LatestReads)
        /\ "page" \in calls => ~On(wire, LatestReads)
        /\ "page" \in calls \/ On(wire, LatestReads) => ~page.read
    BY <1>3 DEF Reads
  <2>2. /\ calls' \subseteq calls /\ OneOf(new, LatestReads)
        /\ On(new, LatestReads) => "page" \in calls /\ "page" \notin calls'
    BY DEF Asks
  <2>3. OneOf(wire', LatestReads)
    BY <1>3, <2>1, <2>2, OneOfPushed
  <2> QED
    BY <1>1, <1>3, <2>1, <2>2, <2>3
<1>7. /\ OneOf(wire', EarlierReads)
      /\ "earlier" \in calls' => ~On(wire', EarlierReads)
      /\ "earlier" \in calls' \/ On(wire', EarlierReads) => page'.read /\ page'.earlier > 0
  <2>1. /\ OneOf(wire, EarlierReads)
        /\ "earlier" \in calls => ~On(wire, EarlierReads)
        /\ "earlier" \in calls \/ On(wire, EarlierReads) => page.read /\ page.earlier > 0
    BY <1>3 DEF Reads
  <2>2. /\ calls' \subseteq calls /\ OneOf(new, EarlierReads)
        /\ On(new, EarlierReads) => "earlier" \in calls /\ "earlier" \notin calls'
    BY DEF Asks
  <2>3. OneOf(wire', EarlierReads)
    BY <1>3, <2>1, <2>2, OneOfPushed
  <2> QED
    BY <1>1, <1>3, <2>1, <2>2, <2>3
<1>8. ~page'.read => page'.earlier = 0 /\ \A r \in Rows : Held(r)' => r[1] \notin History
  BY <1>2, <1>3 DEF Reads
<1>9. Base(page.earlier)'
  <2>1. PICK b \in Nat : b = page.earlier
    BY DEF Shape, PageShape, Pages
  <2>2. Base(b)
    BY <1>3, <2>1 DEF Reads
  <2>3. Base(b)'
    BY <2>2, BaseGoes
  <2> QED
    BY <1>3, <2>1, <2>3 DEF Base
<1>10. ASSUME NEW i \in 1..Len(wire'), wire'[i] \in TurnAnswers
       PROVE  /\ Base(wire[i].earlier)'
              /\ \A k \in 1..wire'[i].earlier - 1 : wire'[i] \notin Has(rows'[k])
              /\ wire'[i].kind = "earlier" =>
                    /\ wire'[i].asked = page'.earlier
                    /\ \A r \in Rows : wire'[i] \in Has(r) =>
                          r[1] \in History /\ ~Held(r)' /\ ~Held(Said(r[1]))'
  <2>1. PICK l \in 1..Len(wire) : wire'[i] = wire[l]
    BY <1>4, <1>10
  <2>2. /\ Base(wire[l].earlier)
        /\ \A k \in 1..wire[l].earlier - 1 : wire[l] \notin Has(rows[k])
        /\ wire[l].kind = "earlier" =>
              /\ wire[l].asked = page.earlier
              /\ \A r \in Rows : wire[l] \in Has(r) =>
                    r[1] \in History /\ ~Held(r) /\ ~Held(Said(r[1]))
    BY <1>3, <1>10, <2>1 DEF Reads
  <2>3. PICK b \in Nat : b = wire'[i].earlier
    BY <1>10 DEF TurnAnswers
  <2>4. Base(b)
    BY <2>1, <2>2, <2>3
  <2>5. Base(b)' /\ \A k \in 1..b - 1 : rows'[k] = rows[k]
    BY <2>4, BaseGoes
  <2>6. Base(wire[i].earlier)'
    BY <2>3, <2>5 DEF Base
  <2>7. \A k \in 1..wire'[i].earlier - 1 : wire'[i] \notin Has(rows'[k])
    BY <2>1, <2>2, <2>3, <2>5
  <2>8. wire'[i].kind = "earlier" =>
              /\ wire'[i].asked = page'.earlier
              /\ \A r \in Rows : wire'[i] \in Has(r) =>
                    r[1] \in History /\ ~Held(r)' /\ ~Held(Said(r[1]))'
    BY <1>2, <1>3, <2>1, <2>2
  <2> QED
    BY <2>6, <2>7, <2>8
<1> QED
  BY <1>5, <1>6, <1>7, <1>8, <1>9, <1>10 DEF Reads

\* All of what the page is told stays true in a step that is told so.
LEMMA PageInvGoes ==
    ASSUME Shape, CoreInv, CoreInv', PageInv, NEW new, Goes(new), Asks(new)
    PROVE  PageInv'
<1>1. page' = page
  BY DEF Goes
<1>2. TurnShape' /\ RunsFollow'
  BY <1>1, DrawnSame
<1>3. Once' /\ EchoPlace' /\ Finished' /\ Answers'
  BY OnceGoes, EchoPlaceGoes, FinishedGoes, AnswersGoes
<1>4. Ways' /\ Announced' /\ Order'
  BY WaysGoes, AnnouncedGoes, OrderGoes
<1>5. Known' /\ Dropped' /\ Reads'
  BY KnownGoes, DroppedGoes, ReadsGoes
<1> QED
  BY <1>2, <1>3, <1>4, <1>5 DEF PageInv

-----------------------------------------------------------------------------
(* What each of Core's steps sends and moves.                              *)

\* News is added at the end, and no page of the conversation is news.
LEMMA NewsSent ==
    ASSUME Shape, NEW new \in Seq(News), wire' = wire \o new
    PROVE  /\ Pushed(wire, new, wire') /\ ~On(new, TurnAnswers)
           /\ ~On(new, LatestReads) /\ ~On(new, EarlierReads)
<1>1. wire \in Seq(Events) /\ new \in Seq(Events)
  BY DEF Shape, ChannelShape, News
<1>2. Pushed(wire, new, wire')
  BY <1>1, PushedSeq
<1>3. \A k \in 1..Len(new) : new[k].kind \notin {"page", "earlier"}
  BY DEF News
<1>4. \A e : e \in TurnAnswers => e.kind \in {"page", "earlier"}
  BY KindOf
<1> QED
  BY <1>2, <1>3, <1>4 DEF On, LatestReads, EarlierReads

\* Reads that stay out are not answered.
LEMMA NewsAsks ==
    ASSUME Shape, NEW new \in Seq(News), wire' = wire \o new, calls' \subseteq calls
    PROVE  Asks(new)
<1>1. ~On(new, LatestReads) /\ ~On(new, EarlierReads)
  BY NewsSent
<1> QED
  BY <1>1 DEF Asks, OneOf, On

\* A message that stays where it is.
LEMMA MsgStays ==
    ASSUME NEW m \in Msgs, NEW new, pc'[m] = pc[m], m \in lost' <=> m \in lost,
           Queued(m)' => Queued(m), Stored(Said(m))' => Stored(Said(m)) \/ pc[m] \in {"saved", "drained", "taken"}
    PROVE  MsgMoves(m, new)
BY DEF MsgMoves, Ann

\* Rows that stay, while the reports do.
LEMMA RowsMove ==
    ASSUME NEW new, UNCHANGED <<gone, emits, acts>>, \A r : Stored(r) => Stored(r)'
    PROVE  \A r \in Rows : RowMoves(r, new)
BY DEF RowMoves

\* No row moves.
LEMMA RowsSame ==
    ASSUME Shape, rows' = rows
    PROVE  RowsStay /\ \A r : Stored(r)' <=> Stored(r)
<1>1. Len(rows) \in Nat
  BY RowsTyped
<1> QED
  BY <1>1 DEF RowsStay, Stored

\* A row at the end moves none.
LEMMA RowsGrow ==
    ASSUME Shape, NEW x \in Rows, rows' = Append(rows, x)
    PROVE  RowsStay /\ \A r : Stored(r)' <=> Stored(r) \/ r = x
<1>1. rows \in Seq(Rows) /\ Len(rows) \in Nat
  BY RowsTyped
<1>2. /\ Len(rows') = Len(rows) + 1 /\ rows'[Len(rows) + 1] = x
      /\ \A i \in 1..Len(rows) : rows'[i] = rows[i]
  BY <1>1, AppendProperties
<1>3. RowsStay
  BY <1>1, <1>2 DEF RowsStay
<1>4. \A r : Stored(r)' <=> Stored(r) \/ r = x
  <2>1. Inserted(rows, Len(rows), rows', x) /\ Len(rows) \in 0..Len(rows)
    BY <1>1, AppendInserted
  <2> QED
    BY <2>1, StoredInserted
<1> QED
  BY <1>3, <1>4

\* One event, and another if c.
OneOrTwo(new, e, c, a) ==
    /\ Len(new) = IF c THEN 2 ELSE 1
    /\ new[1] = e
    /\ c => new[2] = a

\* What is among them.
LEMMA OnTwo ==
    ASSUME NEW new, NEW e, NEW c \in BOOLEAN, NEW a, OneOrTwo(new, e, c, a)
    PROVE  /\ \A A : On(new, A) <=> e \in A \/ (c /\ a \in A)
           /\ \A k \in 1..Len(new) : k = 1 \/ (k = 2 /\ c)
           /\ 1 \in 1..Len(new)
<1>1. \A k \in 1..Len(new) : k = 1 \/ (k = 2 /\ c)
  BY DEF OneOrTwo
<1>2. 1 \in 1..Len(new) /\ (c => 2 \in 1..Len(new))
  BY DEF OneOrTwo
<1>3. ASSUME NEW A
      PROVE  On(new, A) <=> e \in A \/ (c /\ a \in A)
  BY <1>1, <1>2 DEF On, OneOrTwo
<1> QED
  BY <1>1, <1>2, <1>3

\* The answer to m's sender.
ReplyTo(m, o) == [kind |-> "sent", msg |-> m, outcome |-> o]

\* The forms in which Core sends.
LEMMA SentForms ==
    ASSUME NEW e \in News
    PROVE  /\ \A a \in News : <<e, a>> \in Seq(News) /\ OneOrTwo(<<e, a>>, e, TRUE, a)
           /\ <<e>> \in Seq(News) /\ \A a : OneOrTwo(<<e>>, e, FALSE, a)
           /\ \A m \in Msgs, o \in {"dispatched", "failed", "queued", "interjected"} :
                 /\ <<e>> \o Answer(m, o) \in Seq(News)
                 /\ m \in Own => ReplyTo(m, o) \in News
                 /\ \E c \in BOOLEAN :
                       (c <=> m \in Own) /\ OneOrTwo(<<e>> \o Answer(m, o), e, c, ReplyTo(m, o))
<1>1. <<e>> \in Seq(News) /\ \A a : OneOrTwo(<<e>>, e, FALSE, a)
  BY DEF OneOrTwo
<1>2. \A a \in News : <<e, a>> \in Seq(News) /\ OneOrTwo(<<e, a>>, e, TRUE, a)
  BY DEF OneOrTwo
<1>3. ASSUME NEW m \in Msgs, NEW o \in {"dispatched", "failed", "queued", "interjected"}
      PROVE  /\ <<e>> \o Answer(m, o) \in Seq(News)
             /\ m \in Own => ReplyTo(m, o) \in News
             /\ \E c \in BOOLEAN :
                   (c <=> m \in Own) /\ OneOrTwo(<<e>> \o Answer(m, o), e, c, ReplyTo(m, o))
  <2>1. m \in Own => ReplyTo(m, o) \in News
    BY NewsFacts DEF ReplyTo
  <2>2. CASE m \in Own
    <3>1. PICK a \in News : a = ReplyTo(m, o)
      BY <2>1, <2>2
    <3>2. Answer(m, o) = <<a>>
      BY <2>2, <3>1 DEF Answer, ReplyTo
    <3>3. <<e>> \in Seq(News) /\ <<a>> \in Seq(News)
      OBVIOUS
    <3>4. PICK s : s = <<e>> \o <<a>>
      OBVIOUS
    <3>5. s \in Seq(News) /\ Len(s) = 2 /\ s[1] = e /\ s[2] = a
      BY <3>3, <3>4, Joined
    <3>6. OneOrTwo(s, e, TRUE, a)
      BY <3>5 DEF OneOrTwo
    <3> QED
      BY <2>1, <2>2, <3>1, <3>2, <3>4, <3>5, <3>6
  <2>3. CASE m \notin Own
    <3>1. Answer(m, o) = <<>>
      BY <2>3 DEF Answer
    <3>2. <<e>> \o <<>> = <<e>>
      OBVIOUS
    <3> QED
      BY <1>1, <2>3, <3>1, <3>2
  <2> QED
    BY <2>1, <2>2, <2>3
<1> QED
  BY <1>1, <1>2, <1>3

\* A broadcast tells of one message.
LEMMA UserKinds ==
    ASSUME NEW m \in Msgs, NEW item \in BOOLEAN, NEW d \in Dispatches,
           NEW e, e = UserEvent(m, item, d)
    PROVE  /\ e \in News /\ e \in Users(m)
           /\ \A k : e \in Users(k) => k = m
           /\ \A k : e \in Announcements(k) => k = m /\ ~item
           /\ \A k : e \in Pops(k) => k = m /\ item
           /\ ~item /\ d = "pending" => e \in Pendings(m)
           /\ \A k : e \notin Offers(k) /\ e \notin Takes(k) /\ e \notin Finals(k) /\ e \notin Dones(k)
           /\ \A r : e \notin RowEv(r)
           /\ e \notin Lists \cup Snapshots
<1>1. e.kind = "user" /\ e.msg = m /\ e.item = item /\ e.dispatch = d /\ e \in UserEvents
  BY DEF UserEvent, UserEvents
<1>2. e \in News
  BY NewsFacts
<1>3. /\ e \in Users(m)
      /\ \A k : e \in Users(k) => k = m
      /\ \A k : e \in Announcements(k) => k = m /\ ~item
      /\ \A k : e \in Pops(k) => k = m /\ item
      /\ ~item /\ d = "pending" => e \in Pendings(m)
  BY <1>1 DEF Users, Announcements, Pops, Pendings
<1>4. /\ \A k : e \notin Offers(k) /\ e \notin Takes(k) /\ e \notin Finals(k)
      /\ \A r : e \notin RowEv(r)
  BY <1>1, KindOf
<1>5. \A k : Dones(k) \subseteq Finals(k)
  BY DEF Dones, Finals
<1>6. e \notin Lists \cup Snapshots
  BY <1>1 DEF Lists, Snapshots
<1> QED
  BY <1>2, <1>3, <1>4, <1>5, <1>6

\* An answer to the sender tells of one message.
LEMMA ReplyKinds ==
    ASSUME NEW m \in Own, NEW o \in {"dispatched", "failed", "queued", "interjected"},
           NEW a, a = ReplyTo(m, o)
    PROVE  /\ \A k : a \in Takes(k) => k = m /\ o \in {"queued", "interjected"}
           /\ \A k : a \in Finals(k) => k = m /\ o \in {"dispatched", "failed"}
           /\ \A k : a \in Dones(k) => k = m
           /\ o \in {"queued", "interjected"} => a \in Takes(m)
           /\ \A k : a \notin Users(k) /\ a \notin Announcements(k) /\ a \notin Pops(k) /\ a \notin Offers(k)
           /\ \A r : a \notin RowEv(r)
           /\ a \notin Lists \cup Snapshots
<1>1. a.kind = "sent" /\ a.msg = m /\ a.outcome = o /\ a \in SendAnswers
  BY DEF ReplyTo, SendAnswers
<1>2. /\ \A k : a \in Takes(k) => k = m /\ o \in {"queued", "interjected"}
      /\ \A k : a \in Finals(k) => k = m /\ o \in {"dispatched", "failed"}
      /\ \A k : a \in Dones(k) => k = m
      /\ o \in {"queued", "interjected"} => a \in Takes(m)
  BY <1>1 DEF Takes, Finals, Dones
<1>3. /\ \A k : a \notin Users(k) /\ a \notin Offers(k)
      /\ \A r : a \notin RowEv(r)
  BY <1>1, KindOf
<1>4. \A k : a \notin Announcements(k) /\ a \notin Pops(k)
  BY <1>3, KindParts
<1>5. a \notin Lists \cup Snapshots
  BY <1>1 DEF Lists, Snapshots
<1> QED
  BY <1>2, <1>3, <1>4, <1>5

\* A queue sent, or a snapshot of it, offers what is in it.
LEMMA ListKinds ==
    ASSUME NEW e, e \in Lists \cup Snapshots
    PROVE  /\ \A k : e \in Offers(k) => \E i \in 1..Len(e.items) : e.items[i].msg = k
           /\ \A k : /\ e \notin Users(k) /\ e \notin Announcements(k) /\ e \notin Pops(k)
                     /\ e \notin Takes(k) /\ e \notin Finals(k) /\ e \notin Dones(k)
           /\ \A r : e \notin RowEv(r)
<1>1. e.kind \in {"queue", "snapshot"}
  BY DEF Lists, Snapshots
<1>2. \A k : e \in Offers(k) => \E i \in 1..Len(e.items) : e.items[i].msg = k
  BY DEF Offers
<1>3. /\ \A k : e \notin Users(k) /\ e \notin Takes(k) /\ e \notin Finals(k)
      /\ \A r : e \notin RowEv(r)
  BY <1>1, KindOf
<1>4. \A k : e \notin Announcements(k) /\ e \notin Pops(k) /\ e \notin Dones(k)
  BY <1>3, KindParts DEF Dones, Finals
<1> QED
  BY <1>2, <1>3, <1>4

\* The queue as it is sent.
LEMMA QueueEventFacts ==
    ASSUME NEW q \in Seq(Items)
    PROVE  /\ QueueEvent(q) \in News /\ QueueEvent(q) \in Lists
           /\ QueueEvent(q).items = q
BY NewsFacts DEF QueueEvent, Lists

\* The queue Core sends is the queue.
LEMMA QueueTold ==
    ASSUME Shape', CoreInv', NEW e, e \in Lists \cup Snapshots, e.items = queue'
    PROVE  /\ \A k \in Msgs : e \in Offers(k) => Queued(k)'
           /\ \A i, j \in 1..Len(e.items) : e.items[i].msg = e.items[j].msg => i = j
<1>1. \A k \in Msgs : e \in Offers(k) => Queued(k)'
  BY ListKinds DEF Queued
<1>2. \A i, j \in 1..Len(queue') : queue'[i].msg = queue'[j].msg => i = j
  BY DEF CoreInv, Places
<1> QED
  BY <1>1, <1>2

\* A broadcast, by itself, with the queue it was popped from, or with the
\* answer to its sender.
LEMMA UserTells ==
    ASSUME Shape, Shape', CoreInv', NEW m \in Msgs, NEW item \in BOOLEAN, NEW d \in Dispatches,
           NEW e, e = UserEvent(m, item, d), NEW c \in BOOLEAN, NEW a,
           NEW new \in Seq(News), wire' = wire \o new, OneOrTwo(new, e, c, a),
           Stored(Said(m))', m \notin History, ~Ran(m), Said(m) \notin gone',
           ~item => pc[m] \in {"saved", "pending", "written"},
           item => pc[m] \in {"drained", "taken"} \/ Queued(m),
           item /\ c => a = QueueEvent(queue'),
           ~item /\ c =>
               /\ m \in Own /\ \E o \in {"dispatched", "failed"} : a = ReplyTo(m, o)
               /\ pc[m] \in {"pending", "written"} /\ pc'[m] = "over" /\ ~Queued(m)'
    PROVE  Tells(new) /\ On(new, Users(m)) /\ (~item /\ d = "pending" => On(new, Pendings(m)))
<1>1. Pushed(wire, new, wire') /\ ~On(new, TurnAnswers)
  BY NewsSent
<1>2. /\ \A A : On(new, A) <=> e \in A \/ (c /\ a \in A)
      /\ \A k \in 1..Len(new) : k = 1 \/ (k = 2 /\ c)
      /\ 1 \in 1..Len(new) /\ new[1] = e /\ (c => new[2] = a)
  BY OnTwo DEF OneOrTwo
<1>3. /\ e \in Users(m)
      /\ \A k : e \in Users(k) => k = m
      /\ \A k : e \in Announcements(k) => k = m /\ ~item
      /\ \A k : e \in Pops(k) => k = m /\ item
      /\ ~item /\ d = "pending" => e \in Pendings(m)
      /\ \A k : e \notin Offers(k) /\ e \notin Takes(k) /\ e \notin Finals(k) /\ e \notin Dones(k)
      /\ \A r : e \notin RowEv(r)
      /\ e \notin Lists \cup Snapshots
  BY UserKinds
<1>4. CASE ~c
  <2>1. \A A : On(new, A) <=> e \in A
    BY <1>2, <1>4
  <2>2. \A k \in 1..Len(new) : new[k] = e
    BY <1>2, <1>4
  <2>3. \A k \in Msgs : MsgTells(k, new)
    BY <1>3, <2>1, <2>2 DEF MsgTells, Ordered
  <2>4. ListTells(new) /\ \A r \in Rows : RowTells(r, new)
    BY <1>3, <2>1, <2>2 DEF ListTells, RowTells
  <2> QED
    BY <1>1, <1>3, <2>1, <2>3, <2>4 DEF Tells
<1>5. CASE c /\ item
  <2>1. queue' \in Seq(Items)
    BY DEF Shape, CoreShape
  <2>2. a \in Lists /\ a.items = queue'
    BY <1>5, <2>1, QueueEventFacts
  <2>3. /\ \A k \in Msgs : a \in Offers(k) => Queued(k)'
        /\ \A i, j \in 1..Len(a.items) : a.items[i].msg = a.items[j].msg => i = j
    BY <2>2, QueueTold
  <2>4. /\ \A k : /\ a \notin Users(k) /\ a \notin Announcements(k) /\ a \notin Pops(k)
                  /\ a \notin Takes(k) /\ a \notin Finals(k) /\ a \notin Dones(k)
        /\ \A r : a \notin RowEv(r)
    BY <2>2, ListKinds
  <2>5. \A k \in 1..Len(new) : new[k] = e \/ new[k] = a
    BY <1>2
  <2>6. \A k \in Msgs : MsgTells(k, new)
    <3> SUFFICES ASSUME NEW k \in Msgs
                 PROVE  MsgTells(k, new)
      OBVIOUS
    <3>1. \A i \in 1..Len(new) : new[i] \notin Finals(k) /\ new[i] \notin Dones(k)
      BY <1>3, <2>4, <2>5
    <3>2. Ordered(new, Announcements(k), Finals(k))
      BY <3>1 DEF Ordered
    <3>3. /\ On(new, Users(k)) => k = m
          /\ ~On(new, Announcements(k)) /\ (On(new, Pops(k)) => k = m)
          /\ On(new, Offers(k)) => Queued(k)'
          /\ ~On(new, Takes(k)) /\ ~On(new, Finals(k))
      BY <1>2, <1>3, <1>5, <2>3, <2>4
    <3> QED
      BY <1>5, <3>1, <3>2, <3>3 DEF MsgTells
  <2>7. ListTells(new) /\ \A r \in Rows : RowTells(r, new)
    BY <1>2, <1>3, <2>3, <2>4, <2>5 DEF ListTells, RowTells
  <2> QED
    BY <1>1, <1>2, <1>3, <2>6, <2>7 DEF Tells
<1>6. CASE c /\ ~item
  <2>1. /\ m \in Own
        /\ pc[m] \in {"pending", "written"} /\ pc'[m] = "over" /\ ~Queued(m)'
    BY <1>6
  <2>2. PICK o \in {"dispatched", "failed"} : a = ReplyTo(m, o)
    BY <1>6
  <2>3. /\ \A k : a \notin Takes(k)
        /\ \A k : a \in Finals(k) => k = m
        /\ \A k : a \in Dones(k) => k = m
        /\ \A k : a \notin Users(k) /\ a \notin Announcements(k) /\ a \notin Pops(k) /\ a \notin Offers(k)
        /\ \A r : a \notin RowEv(r)
        /\ a \notin Lists \cup Snapshots
    BY <2>1, <2>2, ReplyKinds
  <2>4. \A k \in 1..Len(new) : (k = 1 /\ new[k] = e) \/ (k = 2 /\ new[k] = a)
    BY <1>2
  <2>5. \A k \in Msgs : MsgTells(k, new)
    <3> SUFFICES ASSUME NEW k \in Msgs
                 PROVE  MsgTells(k, new)
      OBVIOUS
    <3>1. Ordered(new, Announcements(k), Finals(k))
      <4>1. \A i \in 1..Len(new) : new[i] \in Announcements(k) => i = 1
        BY <2>3, <2>4
      <4>2. \A i \in 1..Len(new) : new[i] \in Finals(k) => i = 2
        BY <1>3, <2>4
      <4> QED
        BY <4>1, <4>2 DEF Ordered
    <3>2. \A i \in 1..Len(new) : new[i] \in Dones(k) =>
             i - 1 \in 1..Len(new) /\ new[i - 1] \in Users(k)
      <4>1. \A i \in 1..Len(new) : new[i] \in Dones(k) => i = 2 /\ k = m
        BY <1>3, <2>3, <2>4
      <4> QED
        BY <1>2, <1>3, <4>1
    <3> QED
      BY <1>2, <1>3, <1>6, <2>1, <2>3, <3>1, <3>2 DEF MsgTells
  <2>6. ListTells(new) /\ \A r \in Rows : RowTells(r, new)
    BY <1>2, <1>3, <2>3, <2>4 DEF ListTells, RowTells
  <2> QED
    BY <1>1, <1>2, <1>3, <2>5, <2>6 DEF Tells
<1> QED
  BY <1>4, <1>5, <1>6

\* The messages that a step is not about.
LEMMA OthersStay ==
    ASSUME Shape, NEW m \in Msgs, NEW new, \A k \in Msgs : k # m => pc'[k] = pc[k],
           \A k \in Msgs : k # m =>
               /\ Queued(k)' => Queued(k)
               /\ k \in lost' <=> k \in lost
               /\ Stored(Said(k))' => Stored(Said(k))
    PROVE  \A k \in Msgs : k # m => MsgMoves(k, new)
<1> SUFFICES ASSUME NEW k \in Msgs, k # m
             PROVE  MsgMoves(k, new)
  OBVIOUS
<1>1. /\ pc'[k] = pc[k] /\ (Queued(k)' => Queued(k)) /\ (k \in lost' <=> k \in lost)
      /\ Stored(Said(k))' => Stored(Said(k))
  OBVIOUS
<1> QED
  BY <1>1, MsgStays

\* Nothing is sent, and nothing answered.
LEMMA SilentTells ==
    ASSUME Shape, NEW new, Len(new) = 0, wire' = wire
    PROVE  Tells(new)
<1>1. \A A : ~On(new, A)
  BY DEF On
<1>2. Pushed(wire, new, wire')
  BY DEF Pushed, Shape, ChannelShape
<1>3. \A m \in Msgs : MsgTells(m, new)
  BY <1>1 DEF MsgTells, Ordered
<1>4. ListTells(new) /\ \A r \in Rows : RowTells(r, new)
  BY <1>1 DEF ListTells, RowTells
<1>5. ~On(new, TurnAnswers)
  BY <1>1
<1> QED
  BY <1>2, <1>3, <1>4, <1>5 DEF Tells

\* To say nothing asks nothing new.
LEMMA SilentAsks ==
    ASSUME NEW new, Len(new) = 0, calls' \subseteq calls
    PROVE  Asks(new)
BY DEF Asks, OneOf, On

\* A step of Core the page follows.
GoesOn == \E new : Goes(new) /\ Asks(new)

\* The parts of a step of Core put together.
LEMMA GoesMade ==
    ASSUME page' = page, NEW new, Tells(new), Asks(new), RowsStay,
           \A k \in Msgs : MsgMoves(k, new), \A r \in Rows : RowMoves(r, new)
    PROVE  GoesOn
BY DEF GoesOn, Goes, Moves

\* A broadcast of m's row, and what comes with it.
Broadcast(m, item, d, c, a, new) ==
    /\ item \in BOOLEAN /\ d \in Dispatches /\ c \in BOOLEAN
    /\ new \in Seq(News) /\ wire' = wire \o new
    /\ OneOrTwo(new, UserEvent(m, item, d), c, a)
    /\ item <=> pc[m] \in {"drained", "taken"}
    /\ item /\ c => a = QueueEvent(queue')
    /\ ~item /\ c =>
          /\ m \in Own /\ (\E o \in {"dispatched", "failed"} : a = ReplyTo(m, o))
          /\ pc[m] \in {"pending", "written"} /\ pc'[m] = "over"
    /\ pc[m] = "saved" => ~item /\ d = "pending"

\* A send's steps after its row is there.
LEMMA HolderGoes ==
    ASSUME Shape, Shape', CoreInv, CoreInv', page' = page, calls' = calls, NEW m \in Msgs,
           AnnouncePending(m) \/ WriteFails(m) \/ AnnounceDispatched(m)
    PROVE  GoesOn
<1>1. PICK step \in {"pending", "over"} :
         /\ Go(m, step) /\ (step = "pending" => pc[m] = "saved")
         /\ pc[m] \in {"saved", "pending", "drained", "written", "taken"}
         /\ step = "over" => pc[m] # "saved"
  BY DEF AnnouncePending, WriteFails, AnnounceDispatched
<1>2. /\ UNCHANGED <<rows, gone, queue, lost, emits, acts>>
      /\ Holder(m)
  BY <1>1 DEF AnnouncePending, WriteFails, AnnounceDispatched, Holder
<1>3. /\ pc'[m] = step /\ \A k \in Msgs : k # m => pc'[k] = pc[k]
  BY <1>1, GoFacts
<1>4. RowsStay /\ (\A r : Stored(r)' <=> Stored(r)) /\ (\A k \in Msgs : Queued(k)' <=> Queued(k))
  BY <1>2, RowsSame, QueuedSame
<1>5. /\ Stored(Said(m)) /\ Said(m) \notin gone /\ m \notin History /\ ~Queued(m) /\ m \notin lost
      /\ ~Ran(m)
  BY <1>1, <1>2, HolderFacts DEF Ran
<1>6. \E item, d, c, a, new : Broadcast(m, item, d, c, a, new)
  <2>1. ASSUME NEW d \in Dispatches, NEW o \in {"dispatched", "failed"}, step = "over",
               pc[m] \in {"pending", "drained", "written", "taken"},
               wire' = wire \o (IF pc[m] \in {"drained", "taken"}
                                THEN <<UserEvent(m, TRUE, d), QueueEvent(queue)>>
                                ELSE <<UserEvent(m, FALSE, d)>> \o Answer(m, o))
        PROVE  \E item, c, a, new : Broadcast(m, item, d, c, a, new)
    <3>1. CASE pc[m] \in {"drained", "taken"}
      <4>1. UserEvent(m, TRUE, d) \in News
        BY NewsFacts
      <4>2. QueueEvent(queue) \in News /\ queue' = queue
        BY <1>2, QueueEventFacts DEF Shape, CoreShape
      <4>3. PICK new, q : q = QueueEvent(queue) /\ new = <<UserEvent(m, TRUE, d), q>>
        OBVIOUS
      <4>4. /\ new \in Seq(News) /\ OneOrTwo(new, UserEvent(m, TRUE, d), TRUE, q)
            /\ wire' = wire \o new /\ q = QueueEvent(queue')
        BY <2>1, <3>1, <4>1, <4>2, <4>3, SentForms
      <4>5. Broadcast(m, TRUE, d, TRUE, q, new)
        BY <3>1, <4>4 DEF Broadcast
      <4> QED
        BY <4>5
    <3>2. CASE pc[m] \notin {"drained", "taken"}
      <4>1. UserEvent(m, FALSE, d) \in News
        BY NewsFacts
      <4>2. PICK new : new = <<UserEvent(m, FALSE, d)>> \o Answer(m, o)
        OBVIOUS
      <4>3. /\ new \in Seq(News) /\ wire' = wire \o new
            /\ \E c \in BOOLEAN :
                  (c <=> m \in Own) /\ OneOrTwo(new, UserEvent(m, FALSE, d), c, ReplyTo(m, o))
        BY <2>1, <3>2, <4>1, <4>2, SentForms
      <4>4. PICK c \in BOOLEAN :
               (c <=> m \in Own) /\ OneOrTwo(new, UserEvent(m, FALSE, d), c, ReplyTo(m, o))
        BY <4>3
      <4>5. PICK a : a = ReplyTo(m, o)
        OBVIOUS
      <4>6. Broadcast(m, FALSE, d, c, a, new)
        BY <1>3, <2>1, <3>2, <4>3, <4>4, <4>5 DEF Broadcast
      <4> QED
        BY <4>6
    <3> QED
      BY <3>1, <3>2
  <2>2. CASE AnnouncePending(m)
    <3>1. wire' = wire \o <<UserEvent(m, FALSE, "pending")>> /\ pc[m] = "saved"
      BY <2>2 DEF AnnouncePending, Announce
    <3>2. "pending" \in Dispatches
      BY DEF Dispatches
    <3>3. UserEvent(m, FALSE, "pending") \in News
      BY <3>2, NewsFacts
    <3>4. PICK new : new = <<UserEvent(m, FALSE, "pending")>>
      OBVIOUS
    <3>5. new \in Seq(News) /\ OneOrTwo(new, UserEvent(m, FALSE, "pending"), FALSE, 0)
      BY <3>3, <3>4, SentForms
    <3>6. Broadcast(m, FALSE, "pending", FALSE, 0, new)
      BY <3>1, <3>2, <3>4, <3>5 DEF Broadcast
    <3> QED
      BY <3>6
  <2>3. CASE WriteFails(m)
    <3>1. /\ pc[m] \in {"pending", "drained"}
          /\ wire' = wire \o (IF pc[m] = "drained"
                THEN <<UserEvent(m, TRUE, "persisted_only"), QueueEvent(queue)>>
                ELSE <<UserEvent(m, FALSE, "persisted_only")>> \o Answer(m, "failed"))
      BY <2>3 DEF WriteFails, Announce
    <3>2. step = "over" /\ "persisted_only" \in Dispatches
      BY <1>1, <3>1 DEF Dispatches
    <3>3. wire' = wire \o (IF pc[m] \in {"drained", "taken"}
                THEN <<UserEvent(m, TRUE, "persisted_only"), QueueEvent(queue)>>
                ELSE <<UserEvent(m, FALSE, "persisted_only")>> \o Answer(m, "failed"))
      BY <3>1
    <3>4. \E item, c, a, new : Broadcast(m, item, "persisted_only", c, a, new)
      BY <2>1, <3>1, <3>2, <3>3
    <3> QED
      BY <3>4
  <2>4. CASE AnnounceDispatched(m)
    <3>1. /\ pc[m] \in {"written", "taken"}
          /\ wire' = wire \o (IF pc[m] = "taken"
                THEN <<UserEvent(m, TRUE, "dispatched"), QueueEvent(queue)>>
                ELSE <<UserEvent(m, FALSE, "dispatched")>> \o Answer(m, "dispatched"))
      BY <2>4 DEF AnnounceDispatched, Announce
    <3>2. step = "over" /\ "dispatched" \in Dispatches
      BY <1>1, <3>1 DEF Dispatches
    <3>3. wire' = wire \o (IF pc[m] \in {"drained", "taken"}
                THEN <<UserEvent(m, TRUE, "dispatched"), QueueEvent(queue)>>
                ELSE <<UserEvent(m, FALSE, "dispatched")>> \o Answer(m, "dispatched"))
      BY <3>1
    <3>4. \E item, c, a, new : Broadcast(m, item, "dispatched", c, a, new)
      BY <2>1, <3>1, <3>2, <3>3
    <3> QED
      BY <3>4
  <2> QED
    BY <2>2, <2>3, <2>4
<1>13. PICK item, d, c, a, new : Broadcast(m, item, d, c, a, new)
  BY <1>6
<1>14. /\ item \in BOOLEAN /\ d \in Dispatches /\ c \in BOOLEAN
       /\ new \in Seq(News) /\ wire' = wire \o new
       /\ OneOrTwo(new, UserEvent(m, item, d), c, a)
       /\ item <=> pc[m] \in {"drained", "taken"}
       /\ item /\ c => a = QueueEvent(queue')
       /\ ~item /\ c =>
             /\ m \in Own /\ (\E o \in {"dispatched", "failed"} : a = ReplyTo(m, o))
             /\ pc[m] \in {"pending", "written"} /\ pc'[m] = "over"
       /\ pc[m] = "saved" => ~item /\ d = "pending"
  BY <1>13 DEF Broadcast
<1>15. /\ Stored(Said(m))' /\ Said(m) \notin gone'
       /\ ~item => pc[m] \in {"saved", "pending", "written"}
       /\ item => pc[m] \in {"drained", "taken"} \/ Queued(m)
       /\ ~Queued(m)'
  BY <1>1, <1>2, <1>4, <1>5, <1>14
<1>7. Tells(new) /\ On(new, Users(m)) /\ (~item /\ d = "pending" => On(new, Pendings(m)))
  BY <1>5, <1>14, <1>15, UserTells
<1>8. Asks(new)
  BY <1>14, NewsAsks
<1>9. \A k \in Msgs : k # m => MsgMoves(k, new)
  BY <1>2, <1>3, <1>4, OthersStay
<1>10. MsgMoves(m, new)
  BY <1>1, <1>2, <1>3, <1>4, <1>5, <1>7, <1>14 DEF MsgMoves
<1>11. \A r \in Rows : RowMoves(r, new)
  BY <1>2, <1>4, RowsMove
<1>12. \A k \in Msgs : MsgMoves(k, new)
  BY <1>9, <1>10
<1> QED
  BY <1>4, <1>7, <1>8, <1>11, <1>12, GoesMade

\* The write to the runner is not told.
LEMMA WriteGoes ==
    ASSUME Shape, CoreInv, page' = page, calls' = calls, NEW m \in Msgs, Write(m)
    PROVE  GoesOn
<1>1. PICK step \in {"taken", "written"} :
         Go(m, step) /\ (step = "taken" => pc[m] = "drained") /\ (step = "written" => pc[m] = "pending")
  BY DEF Write
<1>2. UNCHANGED <<rows, gone, queue, lost, emits, acts, wire>>
  BY DEF Write, Silent
<1>3. /\ pc'[m] = step /\ \A k \in Msgs : k # m => pc'[k] = pc[k]
  BY <1>1, GoFacts
<1>4. RowsStay /\ (\A r : Stored(r)' <=> Stored(r)) /\ (\A k \in Msgs : Queued(k)' <=> Queued(k))
  BY <1>2, RowsSame, QueuedSame
<1>5. PICK new : new = <<>>
  OBVIOUS
<1>6. Len(new) = 0
  BY <1>5
<1>7. Tells(new) /\ Asks(new)
  BY <1>2, <1>6, SilentTells, SilentAsks
<1>8. \A k \in Msgs : k # m => MsgMoves(k, new)
  BY <1>2, <1>3, <1>4, OthersStay
<1>9. MsgMoves(m, new)
  BY <1>1, <1>2, <1>3, <1>4 DEF MsgMoves, Ann
<1>10. \A r \in Rows : RowMoves(r, new)
  BY <1>2, <1>4, RowsMove
<1>11. \A k \in Msgs : MsgMoves(k, new)
  BY <1>8, <1>9
<1> QED
  BY <1>4, <1>7, <1>10, <1>11, GoesMade

\* Nor is a row that is not announced yet.
LEMMA ReserveGoes ==
    ASSUME Shape, CoreInv, page' = page, calls' = calls, NEW m \in Msgs, Reserve(m)
    PROVE  GoesOn
<1>1. /\ Go(m, "saved") /\ Reached(m) /\ rows' = Append(rows, Said(m))
      /\ UNCHANGED <<gone, queue, lost, emits, acts, wire>>
  BY DEF Reserve, Silent
<1>2. /\ pc'[m] = "saved" /\ \A k \in Msgs : k # m => pc'[k] = pc[k]
  BY <1>1, GoFacts
<1>3. Said(m) \in Rows /\ \A k : Said(k) = Said(m) => k = m
  BY RowsTyped DEF Said
<1>4. RowsStay /\ (\A r : Stored(r)' <=> Stored(r) \/ r = Said(m))
  BY <1>1, <1>3, RowsGrow
<1>5. pc[m] \in {"new", "sent"} /\ m \notin lost /\ \A k \in Msgs : Queued(k)' <=> Queued(k)
  BY <1>1, ReachedFacts, QueuedSame
<1>6. PICK new : new = <<>>
  OBVIOUS
<1>7. Len(new) = 0
  BY <1>6
<1>8. Tells(new) /\ Asks(new)
  BY <1>1, <1>7, SilentTells, SilentAsks
<1>9. \A k \in Msgs : k # m => MsgMoves(k, new)
  BY <1>1, <1>2, <1>3, <1>4, <1>5, OthersStay
<1>10. MsgMoves(m, new)
  BY <1>1, <1>2, <1>5 DEF MsgMoves, Ann
<1>11. \A r \in Rows : RowMoves(r, new)
  BY <1>1, <1>4, RowsMove
<1>12. \A k \in Msgs : MsgMoves(k, new)
  BY <1>9, <1>10
<1> QED
  BY <1>4, <1>8, <1>11, <1>12, GoesMade

\* An answer to the sender that comes alone.
LEMMA ReplySent ==
    ASSUME NEW m \in Msgs, NEW o \in {"dispatched", "failed", "queued", "interjected"},
           NEW new, new = Answer(m, o)
    PROVE  /\ new \in Seq(News)
           /\ Len(new) \in {0, 1}
           /\ m \in Own <=> Len(new) = 1
           /\ \A k \in 1..Len(new) : k = 1 /\ new[k] = ReplyTo(m, o)
<1>1. new \in Seq(News)
  BY AnswerFacts
<1>2. CASE m \in Own
  BY <1>1, <1>2 DEF Answer, ReplyTo
<1>3. CASE m \notin Own
  BY <1>1, <1>3 DEF Answer
<1> QED
  BY <1>1, <1>2, <1>3

\* A send whose row could not be written.
LEMMA RowFailsGoes ==
    ASSUME Shape, CoreInv, CoreInv', page' = page, calls' = calls, NEW m \in Msgs, RowFails(m)
    PROVE  GoesOn
<1>1. /\ Go(m, "over") /\ Reached(m) /\ lost' = lost \cup {m}
      /\ wire' = wire \o Answer(m, "failed")
      /\ UNCHANGED <<rows, gone, queue, emits, acts>>
  BY DEF RowFails, Announce
<1>2. /\ pc'[m] = "over" /\ \A k \in Msgs : k # m => pc'[k] = pc[k]
  BY <1>1, GoFacts
<1>3. RowsStay /\ (\A r : Stored(r)' <=> Stored(r)) /\ (\A k \in Msgs : Queued(k)' <=> Queued(k))
  BY <1>1, RowsSame, QueuedSame
<1>4. /\ pc[m] \in {"new", "sent"} /\ m \notin lost /\ ~Stored(Said(m)) /\ ~Queued(m)
  BY <1>1, ReachedFacts
<1>5. PICK new : new = Answer(m, "failed")
  OBVIOUS
<1>6. /\ new \in Seq(News) /\ Len(new) \in {0, 1}
      /\ \A k \in 1..Len(new) : k = 1 /\ new[k] = ReplyTo(m, "failed") /\ m \in Own
  BY <1>5, ReplySent
<1>7. /\ Pushed(wire, new, wire') /\ ~On(new, TurnAnswers)
      /\ Asks(new)
  BY <1>1, <1>5, <1>6, NewsSent, NewsAsks
<1>8. ASSUME m \in Own, NEW a, a = ReplyTo(m, "failed")
      PROVE  /\ \A k : a \notin Takes(k) /\ (a \in Finals(k) => k = m) /\ a \notin Dones(k)
             /\ \A k : a \notin Users(k) /\ a \notin Announcements(k) /\ a \notin Pops(k) /\ a \notin Offers(k)
             /\ \A r : a \notin RowEv(r)
             /\ a \notin Lists \cup Snapshots
  <2>1. \A k : a \notin Dones(k)
    BY <1>8 DEF Dones, ReplyTo
  <2> QED
    BY <1>8, <2>1, ReplyKinds
<1>9. \A k \in Msgs : MsgTells(k, new)
  <2> SUFFICES ASSUME NEW k \in Msgs
               PROVE  MsgTells(k, new)
    OBVIOUS
  <2>1. \A i \in 1..Len(new) : /\ new[i] \notin Takes(k) /\ (new[i] \in Finals(k) => k = m) /\ new[i] \notin Dones(k)
                               /\ new[i] \notin Users(k) /\ new[i] \notin Announcements(k)
                               /\ new[i] \notin Pops(k) /\ new[i] \notin Offers(k)
    BY <1>6, <1>8
  <2>2. /\ ~On(new, Takes(k)) /\ ~On(new, Users(k)) /\ ~On(new, Announcements(k))
        /\ ~On(new, Pops(k)) /\ ~On(new, Offers(k)) /\ (On(new, Finals(k)) => k = m)
    BY <2>1 DEF On
  <2>3. Ordered(new, Announcements(k), Finals(k))
    BY <2>1 DEF Ordered
  <2> QED
    BY <1>2, <1>3, <1>4, <2>1, <2>2, <2>3 DEF MsgTells
<1>10. ListTells(new) /\ \A r \in Rows : RowTells(r, new)
  BY <1>6, <1>8 DEF ListTells, RowTells, On
<1>11. Tells(new)
  BY <1>7, <1>9, <1>10 DEF Tells
<1>12. \A k \in Msgs : k # m => MsgMoves(k, new)
  BY <1>1, <1>2, <1>3, OthersStay
<1>13. MsgMoves(m, new)
  BY <1>1, <1>2, <1>3, <1>4 DEF MsgMoves, Ann
<1>14. \A r \in Rows : RowMoves(r, new)
  BY <1>1, <1>3, RowsMove
<1>15. \A k \in Msgs : MsgMoves(k, new)
  BY <1>12, <1>13
<1> QED
  BY <1>3, <1>7, <1>11, <1>14, <1>15, GoesMade

\* A message that is queued: the queue goes out, and the answer.
LEMMA EnqueueGoes ==
    ASSUME Shape, Shape', CoreInv, CoreInv', page' = page, calls' = calls,
           NEW m \in Msgs, Enqueue(m)
    PROVE  GoesOn
<1>1. PICK x \in Items : queue' = Append(queue, x) /\ x.msg = m
  <2>1. MayInterject \in BOOLEAN
    BY DEF MayInterject
  <2> QED
    BY <2>1 DEF Enqueue, Items
<1>2. PICK o \in {"queued", "interjected"} :
         wire' = wire \o (<<QueueEvent(queue')>> \o Answer(m, o))
  BY DEF Enqueue, Announce
<1>3. /\ Go(m, "over") /\ Reached(m)
      /\ UNCHANGED <<rows, gone, lost, emits, acts>>
  BY DEF Enqueue
<1>4. /\ pc'[m] = "over" /\ \A k \in Msgs : k # m => pc'[k] = pc[k]
  BY <1>3, GoFacts
<1>5. RowsStay /\ (\A r : Stored(r)' <=> Stored(r))
  BY <1>3, RowsSame
<1>6. /\ pc[m] \in {"new", "sent"} /\ m \notin lost /\ ~Stored(Said(m)) /\ ~Queued(m)
  BY <1>3, ReachedFacts
<1>7. Queued(m)' /\ \A k \in Msgs : Queued(k)' => Queued(k) \/ k = m
  <2>1. /\ Len(queue') = Len(queue) + 1 /\ queue'[Len(queue) + 1] = x /\ Len(queue) \in Nat
        /\ \A i \in 1..Len(queue) : queue'[i] = queue[i]
    BY <1>1 DEF Shape, CoreShape
  <2>2. Len(queue) + 1 \in 1..Len(queue')
    BY <2>1
  <2>3. \A i \in 1..Len(queue') : i \in 1..Len(queue) \/ i = Len(queue) + 1
    BY <2>1
  <2> QED
    BY <1>1, <2>1, <2>2, <2>3 DEF Queued
<1>8. PICK e : e = QueueEvent(queue')
  OBVIOUS
<1>9. e \in News /\ e \in Lists /\ e.items = queue'
  BY <1>8, QueueEventFacts DEF Shape, CoreShape
<1>10. PICK a : a = ReplyTo(m, o)
  OBVIOUS
<1>11. PICK new : new = <<e>> \o Answer(m, o)
  OBVIOUS
<1>12. /\ new \in Seq(News) /\ wire' = wire \o new
       /\ \E c \in BOOLEAN : (c <=> m \in Own) /\ OneOrTwo(new, e, c, a)
  BY <1>2, <1>8, <1>9, <1>10, <1>11, SentForms
<1>13. PICK c \in BOOLEAN : (c <=> m \in Own) /\ OneOrTwo(new, e, c, a)
  BY <1>12
<1>14. /\ \A A : On(new, A) <=> e \in A \/ (c /\ a \in A)
       /\ \A k \in 1..Len(new) : new[k] = e \/ (new[k] = a /\ c)
  BY <1>13, OnTwo DEF OneOrTwo
<1>15. /\ \A k \in Msgs : e \in Offers(k) => Queued(k)'
       /\ \A i, j \in 1..Len(e.items) : e.items[i].msg = e.items[j].msg => i = j
       /\ \A k : /\ e \notin Users(k) /\ e \notin Announcements(k) /\ e \notin Pops(k)
                 /\ e \notin Takes(k) /\ e \notin Finals(k) /\ e \notin Dones(k)
       /\ \A r : e \notin RowEv(r)
  BY <1>9, QueueTold, ListKinds
<1>16. c => /\ \A k : a \in Takes(k) => k = m
            /\ a \in Takes(m)
            /\ \A k : a \notin Finals(k) /\ a \notin Dones(k)
            /\ \A k : a \notin Users(k) /\ a \notin Announcements(k) /\ a \notin Pops(k) /\ a \notin Offers(k)
            /\ \A r : a \notin RowEv(r)
            /\ a \notin Lists \cup Snapshots
  <2> SUFFICES ASSUME c
               PROVE  /\ \A k : a \in Takes(k) => k = m
                      /\ a \in Takes(m)
                      /\ \A k : a \notin Finals(k) /\ a \notin Dones(k)
                      /\ \A k : a \notin Users(k) /\ a \notin Announcements(k) /\ a \notin Pops(k) /\ a \notin Offers(k)
                      /\ \A r : a \notin RowEv(r)
                      /\ a \notin Lists \cup Snapshots
    OBVIOUS
  <2>1. m \in Own
    BY <1>13
  <2>2. \A k : Dones(k) \subseteq Finals(k)
    BY DEF Dones, Finals
  <2>3. /\ \A k : a \in Takes(k) => k = m
        /\ a \in Takes(m)
        /\ \A k : a \in Finals(k) => o \in {"dispatched", "failed"}
        /\ \A k : a \notin Users(k) /\ a \notin Announcements(k) /\ a \notin Pops(k) /\ a \notin Offers(k)
        /\ \A r : a \notin RowEv(r)
        /\ a \notin Lists \cup Snapshots
    BY <1>10, <2>1, ReplyKinds
  <2> QED
    BY <2>2, <2>3
<1>17. Pushed(wire, new, wire') /\ ~On(new, TurnAnswers) /\ Asks(new)
  BY <1>12, NewsSent, NewsAsks
<1>18. \A k \in Msgs : MsgTells(k, new)
  <2> SUFFICES ASSUME NEW k \in Msgs
               PROVE  MsgTells(k, new)
    OBVIOUS
  <2>1. \A i \in 1..Len(new) : new[i] \notin Finals(k) /\ new[i] \notin Dones(k)
    BY <1>14, <1>15, <1>16
  <2>2. /\ ~On(new, Users(k)) /\ ~On(new, Announcements(k)) /\ ~On(new, Pops(k)) /\ ~On(new, Finals(k))
        /\ On(new, Offers(k)) => Queued(k)'
        /\ On(new, Takes(k)) => k = m
    BY <1>14, <1>15, <1>16
  <2>3. Ordered(new, Announcements(k), Finals(k))
    BY <2>1 DEF Ordered
  <2> QED
    BY <1>6, <1>7, <2>1, <2>2, <2>3 DEF MsgTells
<1>19. ListTells(new) /\ \A r \in Rows : RowTells(r, new)
  BY <1>14, <1>15, <1>16 DEF ListTells, RowTells
<1>20. Tells(new)
  BY <1>17, <1>18, <1>19 DEF Tells
<1>21. \A k \in Msgs : k # m => MsgMoves(k, new)
  BY <1>3, <1>4, <1>5, <1>7, OthersStay
<1>22. m \in Own => On(new, Takes(m))
  BY <1>13, <1>14, <1>16
<1>23. MsgMoves(m, new)
  BY <1>3, <1>4, <1>5, <1>6, <1>22 DEF MsgMoves, Ann
<1>24. \A r \in Rows : RowMoves(r, new)
  BY <1>3, <1>5, RowsMove
<1>25. \A k \in Msgs : MsgMoves(k, new)
  BY <1>21, <1>23
<1> QED
  BY <1>5, <1>17, <1>20, <1>24, <1>25, GoesMade

\* A queue sent alone.
LEMMA ListSent ==
    ASSUME Shape, Shape', CoreInv', NEW e \in News, e \in Lists \cup Snapshots, e.items = queue',
           NEW new, new = <<e>>, wire' = wire \o new, calls' \subseteq calls
    PROVE  Tells(new) /\ Asks(new)
<1>1. new \in Seq(News) /\ \A k \in 1..Len(new) : new[k] = e
  OBVIOUS
<1>2. Pushed(wire, new, wire') /\ ~On(new, TurnAnswers) /\ Asks(new)
  BY <1>1, NewsSent, NewsAsks
<1>3. /\ \A k \in Msgs : e \in Offers(k) => Queued(k)'
      /\ \A i, j \in 1..Len(e.items) : e.items[i].msg = e.items[j].msg => i = j
      /\ \A k : /\ e \notin Users(k) /\ e \notin Announcements(k) /\ e \notin Pops(k)
                /\ e \notin Takes(k) /\ e \notin Finals(k) /\ e \notin Dones(k)
      /\ \A r : e \notin RowEv(r)
  BY QueueTold, ListKinds
<1>4. ASSUME NEW k \in Msgs
      PROVE  MsgTells(k, new)
  <2>1. /\ ~On(new, Users(k)) /\ ~On(new, Announcements(k)) /\ ~On(new, Pops(k))
        /\ ~On(new, Takes(k)) /\ ~On(new, Finals(k)) /\ ~On(new, Dones(k))
        /\ On(new, Offers(k)) => e \in Offers(k)
    BY <1>1, <1>3 DEF On
  <2>2. Ordered(new, Announcements(k), Finals(k)) /\ \A i \in 1..Len(new) : new[i] \notin Dones(k)
    BY <2>1 DEF Ordered, On
  <2> QED
    BY <1>3, <2>1, <2>2 DEF MsgTells
<1>5. ListTells(new) /\ \A r \in Rows : RowTells(r, new)
  BY <1>1, <1>3 DEF ListTells, RowTells, On
<1> QED
  BY <1>2, <1>4, <1>5 DEF Tells

\* An event that tells of no message and no row.
LEMMA PlainSent ==
    ASSUME Shape, NEW e \in Events,
           e.kind \in {"deleted", "stopped", "live", "run_complete", "closed"} \/ e \in Failures,
           NEW new, new = <<e>>, wire' = wire \o new
    PROVE  Tells(new)
<1>1. Len(new) = 1 /\ \A k \in 1..Len(new) : new[k] = e
  OBVIOUS
<1>2. Pushed(wire, new, wire')
  <2>1. wire \in Seq(Events) /\ new \in Seq(Events)
    BY DEF Shape, ChannelShape
  <2> QED
    BY <2>1, PushedSeq
<1>3. e \in Failures => e.kind \in {"page", "earlier", "snapshot"} /\ e.failed = TRUE
  BY DEF Failures
<1>4. e \notin Lists \cup Snapshots /\ e \notin TurnAnswers
  BY <1>3 DEF Lists, Snapshots, TurnAnswers
<1>5. /\ \A k : e \notin Users(k) /\ e \notin Takes(k) /\ e \notin Finals(k)
      /\ \A r : e \notin RowEv(r)
  BY <1>3, KindOf
<1>6. \A k : /\ e \notin Announcements(k) /\ e \notin Pops(k) /\ e \notin Dones(k)
             /\ e \notin Offers(k)
  BY <1>4, <1>5, KindParts DEF Dones, Finals, Offers
<1>7. \A A : On(new, A) <=> e \in A
  BY <1>1 DEF On
<1>8. \A k \in Msgs : MsgTells(k, new)
  BY <1>1, <1>5, <1>6, <1>7 DEF MsgTells, Ordered
<1>9. ListTells(new) /\ \A r \in Rows : RowTells(r, new)
  BY <1>1, <1>4, <1>5, <1>7 DEF ListTells, RowTells
<1> QED
  BY <1>2, <1>4, <1>7, <1>8, <1>9 DEF Tells

\* Nothing moves but what is on its way.
LEMMA StillMoves ==
    ASSUME Shape, UNCHANGED <<rows, gone, queue, pc, lost, emits, acts>>, NEW new
    PROVE  RowsStay /\ (\A k \in Msgs : MsgMoves(k, new)) /\ (\A r \in Rows : RowMoves(r, new))
<1>1. RowsStay /\ \A r : Stored(r)' <=> Stored(r)
  BY RowsSame
<1>2. \A k \in Msgs : Queued(k)' <=> Queued(k)
  BY QueuedSame
<1>3. \A k \in Msgs : MsgMoves(k, new)
  BY <1>1, <1>2, MsgStays
<1>4. \A r \in Rows : RowMoves(r, new)
  BY <1>1, RowsMove
<1> QED
  BY <1>1, <1>3, <1>4

\* The queue is read.
LEMMA ReadQueueGoes ==
    ASSUME Shape, Shape', CoreInv', page' = page, ReadQueue
    PROVE  GoesOn
<1>1. /\ wire' = wire \o <<[kind |-> "snapshot", failed |-> FALSE, items |-> queue]>>
      /\ calls' = calls \ {"queue"}
      /\ UNCHANGED <<rows, gone, queue, pc, lost, emits, acts>>
  BY DEF ReadQueue, Announce, Answered, CoreRest, core
<1>2. PICK e : e = [kind |-> "snapshot", failed |-> FALSE, items |-> queue]
  OBVIOUS
<1>3. e \in News /\ e \in Snapshots /\ e.items = queue'
  <2>1. queue \in Seq(Items)
    BY DEF Shape, CoreShape
  <2> QED
    BY <1>1, <1>2, <2>1, NewsFacts DEF Snapshots
<1>4. PICK new : new = <<e>>
  OBVIOUS
<1>5. Tells(new) /\ Asks(new)
  BY <1>1, <1>2, <1>3, <1>4, ListSent
<1>6. RowsStay /\ (\A k \in Msgs : MsgMoves(k, new)) /\ (\A r \in Rows : RowMoves(r, new))
  BY <1>1, StillMoves
<1> QED
  BY <1>5, <1>6, GoesMade

\* A stop, or the list of runners, is answered.
LEMMA AnswerGoes ==
    ASSUME Shape, page' = page, AnswerStop \/ ListRunners \/ StopFails
    PROVE  GoesOn
<1>1. PICK e \in News : wire' = wire \o <<e>> /\ e.kind \in {"stopped", "live"}
  <2>1. CASE AnswerStop
    <3>1. PICK sent \in BOOLEAN :
             wire' = wire \o <<[kind |-> "stopped",
                        dispatch |-> IF sent THEN "abort_sent" ELSE "already_stopped"]>>
      BY <2>1 DEF AnswerStop, Announce
    <3>2. PICK d \in {"abort_sent", "already_stopped"} : d = IF sent THEN "abort_sent" ELSE "already_stopped"
      OBVIOUS
    <3>3. PICK e : e = [kind |-> "stopped", dispatch |-> d]
      OBVIOUS
    <3>4. e \in News /\ e.kind = "stopped"
      BY <3>3, NewsFacts
    <3> QED
      BY <3>1, <3>2, <3>3, <3>4
  <2>2. CASE ListRunners
    <3>1. PICK e : e = [kind |-> "live", runOpen |-> gate]
      OBVIOUS
    <3>2. e \in News /\ e.kind = "live"
      <4>1. gate \in BOOLEAN
        BY DEF Shape, CoreShape
      <4> QED
        BY <3>1, <4>1, NewsFacts
    <3>3. wire' = wire \o <<e>>
      BY <2>2, <3>1 DEF ListRunners, Announce
    <3> QED
      BY <3>2, <3>3
  <2>3. CASE StopFails
    <3>1. PICK e : e = [kind |-> "stopped", dispatch |-> "failed"]
      OBVIOUS
    <3>2. e \in News /\ e.kind = "stopped"
      BY <3>1, NewsFacts
    <3>3. wire' = wire \o <<e>>
      BY <2>3, <3>1 DEF StopFails, Announce
    <3> QED
      BY <3>2, <3>3
  <2> QED
    BY <2>1, <2>2, <2>3
<1>2. /\ calls' \subseteq calls
      /\ UNCHANGED <<rows, gone, queue, pc, lost, emits, acts>>
  BY DEF AnswerStop, ListRunners, StopFails, Answered, CoreRest, core
<1>3. PICK new : new = <<e>>
  OBVIOUS
<1>4. new \in Seq(News) /\ e \in Events
  BY <1>1, <1>3 DEF News
<1>5. Tells(new)
  BY <1>1, <1>3, <1>4, PlainSent
<1>6. Asks(new)
  BY <1>1, <1>2, <1>3, <1>4, NewsAsks
<1>7. RowsStay /\ (\A k \in Msgs : MsgMoves(k, new)) /\ (\A r \in Rows : RowMoves(r, new))
  BY <1>2, StillMoves
<1> QED
  BY <1>5, <1>6, <1>7, GoesMade

\* A read fails.
LEMMA ReadFailsGoes ==
    ASSUME Shape, page' = page, NEW call \in {"page", "earlier", "queue"}, ReadFails(call)
    PROVE  GoesOn
<1>1. PICK e : e = [kind |-> IF call = "queue" THEN "snapshot" ELSE call, failed |-> TRUE]
  OBVIOUS
<1>2. /\ call \in calls /\ calls' = calls \ {call} /\ wire' = wire \o <<e>>
      /\ UNCHANGED <<rows, gone, queue, pc, lost, emits, acts>>
  BY <1>1 DEF ReadFails, Announce, Answered, CoreRest, core
<1>3. e \in Failures /\ e \in Events /\ (e.kind \in {"page", "earlier"} => e.kind = call)
  BY <1>1 DEF Failures, Events
<1>4. PICK new : new = <<e>>
  OBVIOUS
<1>5. Tells(new)
  BY <1>2, <1>3, <1>4, PlainSent
<1>6. Len(new) = 1 /\ new[1] = e
  BY <1>4
<1>7. Asks(new)
  <2>1. /\ On(new, LatestReads) => e.kind = "page"
        /\ On(new, EarlierReads) => e.kind = "earlier"
    BY <1>6 DEF On, LatestReads, EarlierReads
  <2>2. OneOf(new, LatestReads) /\ OneOf(new, EarlierReads)
    BY <1>6 DEF OneOf
  <2>3. call \in calls /\ call \notin calls' /\ calls' \subseteq calls
    BY <1>2
  <2> QED
    BY <1>3, <2>1, <2>2, <2>3 DEF Asks
<1>8. RowsStay /\ (\A k \in Msgs : MsgMoves(k, new)) /\ (\A r \in Rows : RowMoves(r, new))
  BY <1>2, StillMoves
<1> QED
  BY <1>5, <1>7, <1>8, GoesMade

\* Rows are deleted.
LEMMA DeleteGoes ==
    ASSUME Shape, page' = page, calls' = calls, NEW unit, Delete(unit)
    PROVE  GoesOn
<1>1. PICK doomed : doomed = (unit \cap Written) \ gone
  OBVIOUS
<1>2. PICK e : e = [kind |-> "deleted", rows |-> doomed]
  OBVIOUS
<1>3. /\ gone' = gone \cup doomed /\ wire' = wire \o <<e>>
      /\ UNCHANGED <<rows, queue, pc, lost, emits, acts>>
  BY <1>1, <1>2 DEF Delete, Announce
<1>4. doomed \in SUBSET Rows
  BY <1>1, RowsTyped DEF Written, ToSet
<1>5. e \in News /\ e.kind = "deleted" /\ e.rows = doomed /\ e \in Deletions
  BY <1>2, <1>4, NewsFacts DEF Deletions
<1>6. PICK new : new = <<e>>
  OBVIOUS
<1>7. new \in Seq(News) /\ e \in Events /\ Len(new) = 1 /\ new[1] = e
  BY <1>5, <1>6 DEF News
<1>8. Tells(new)
  BY <1>3, <1>5, <1>6, <1>7, PlainSent
<1>9. Asks(new)
  BY <1>3, <1>6, <1>7, NewsAsks
<1>10. RowsStay /\ (\A r : Stored(r)' <=> Stored(r)) /\ (\A k \in Msgs : Queued(k)' <=> Queued(k))
  BY <1>3, RowsSame, QueuedSame
<1>11. \A k \in Msgs : MsgMoves(k, new)
  BY <1>3, <1>10, MsgStays
<1>12. \A r \in Rows : r \in doomed => On(new, Drops(r))
  BY <1>5, <1>7 DEF On, Drops
<1>13. \A r \in Rows : RowMoves(r, new)
  BY <1>3, <1>7, <1>10, <1>12 DEF RowMoves
<1> QED
  BY <1>8, <1>9, <1>10, <1>11, <1>13, GoesMade

\* A kind of which the longer sequence has one, new, was not there.
LEMMA OneOfSplit ==
    ASSUME NEW s, NEW n, NEW t, Pushed(s, n, t), NEW A, OneOf(t, A), On(n, A)
    PROVE  ~On(s, A)
<1> SUFFICES ASSUME On(s, A)
             PROVE  FALSE
  OBVIOUS
<1>0. PushedParts(s, n, t)
  BY PushedAt
<1>1. /\ \A l \in 1..Len(s) : l \in 1..Len(t) /\ t[l] = s[l]
      /\ \A k \in 1..Len(n) : Len(s) + k \in 1..Len(t) /\ t[Len(s) + k] = n[k]
      /\ Len(s) \in Nat
  BY <1>0 DEF PushedParts, Pushed
<1>2. PICK i \in 1..Len(s) : s[i] \in A
  BY DEF On
<1>3. PICK k \in 1..Len(n) : n[k] \in A
  BY DEF On
<1>4. PICK j : j = Len(s) + k
  OBVIOUS
<1>5. j \in 1..Len(t) /\ t[j] \in A /\ i \in 1..Len(t) /\ t[i] \in A
  BY <1>1, <1>2, <1>3, <1>4
<1>6. i = j
  BY <1>5 DEF OneOf
<1> QED
  BY <1>1, <1>2, <1>3, <1>4, <1>6

\* A runner's step reports: both tasks have more to do, and nothing else moves.
LEMMA ReportsGo ==
    ASSUME Shape, CoreInv', page' = page, calls' = calls, UNCHANGED RunnerRest,
           NEW x, NEW y, NEW s, s = <<x>> \/ s = <<x, y>>,
           emits' = emits \o s, acts' = acts \o s
    PROVE  GoesOn
<1>1. UNCHANGED <<rows, gone, queue, pc, lost, wire>>
  BY DEF RunnerRest
<1>2. RowsStay /\ (\A r : Stored(r)' <=> Stored(r)) /\ (\A k \in Msgs : Queued(k)' <=> Queued(k))
  BY <1>1, RowsSame, QueuedSame
<1>3. PICK new : new = <<>>
  OBVIOUS
<1>4. Len(new) = 0
  BY <1>3
<1>5. Tells(new) /\ Asks(new)
  BY <1>1, <1>4, SilentTells, SilentAsks
<1>6. \A k \in Msgs : MsgMoves(k, new)
  BY <1>1, <1>2, MsgStays
<1>7. Pushed(emits, s, emits') /\ Pushed(acts, s, acts')
  <2>1. PICK S : S = Reported \cup {x, y}
    OBVIOUS
  <2>2. emits \in Seq(Reported) /\ acts \in Seq(Reported)
    BY DEF Shape, ChannelShape
  <2>3. emits \in Seq(S) /\ acts \in Seq(S)
    BY <2>1, <2>2
  <2>4. x \in S /\ y \in S
    BY <2>1
  <2>5. s \in Seq(S)
    <3>1. CASE s = <<x>>
      BY <2>4, <3>1
    <3>2. CASE s = <<x, y>>
      BY <2>4, <3>2
    <3> QED
      BY <3>1, <3>2
  <2> QED
    BY <2>3, <2>5, PushedSeq
<1>8. \A r \in Rows : RowMoves(r, new)
  <2> SUFFICES ASSUME NEW r \in Rows
               PROVE  RowMoves(r, new)
    OBVIOUS
  <2>1. On(emits', RowEv(r)) <=> On(emits, RowEv(r)) \/ On(s, RowEv(r))
    BY <1>7, OnPushed
  <2>2. On(acts', RowEv(r)) <=> On(acts, RowEv(r)) \/ On(s, RowEv(r))
    BY <1>7, OnPushed
  <2>3. OneOf(acts', RowEv(r)) /\ (On(acts', RowEv(r)) => ~Stored(r)')
    BY DEF CoreInv, Coming
  <2>4. On(s, RowEv(r)) => ~On(acts, RowEv(r))
    BY <1>7, <2>3, OneOfSplit
  <2>5. On(s, RowEv(r)) => ~Stored(r)
    BY <1>2, <2>2, <2>3
  <2> QED
    BY <1>1, <1>2, <2>1, <2>2, <2>4, <2>5 DEF RowMoves
<1> QED
  BY <1>2, <1>5, <1>6, <1>8, GoesMade

\* The runner's steps.
LEMMA RunnerGoes ==
    ASSUME Shape, CoreInv', page' = page, calls' = calls, TellLine \/ EndStep \/ Complete \/ Exit
    PROVE  GoesOn
<1>1. UNCHANGED RunnerRest
  BY DEF TellLine, EndStep, Complete, Exit
<1>2. emits \in Seq(Reported) /\ acts \in Seq(Reported)
  BY DEF Shape, ChannelShape
<1>3. ASSUME NEW e, Reports(e)
      PROVE  GoesOn
  <2>1. PICK S : S = Reported \cup {e}
    OBVIOUS
  <2>2. emits \in Seq(S) /\ acts \in Seq(S) /\ e \in S
    BY <1>2, <2>1
  <2>3. emits' = emits \o <<e>> /\ acts' = acts \o <<e>>
    BY <1>3, <2>2, AppendAsConcat DEF Reports
  <2> QED
    BY <1>1, <2>3, ReportsGo
<1>4. CASE TellLine \/ Complete \/ Exit
  <2>1. \E e : Reports(e)
    BY <1>4 DEF TellLine, Complete, Exit
  <2> QED
    BY <1>3, <2>1
<1>5. CASE EndStep
  <2>1. \E x, y, s : (s = <<x>> \/ s = <<x, y>>) /\ emits' = emits \o s /\ acts' = acts \o s
    BY <1>5, Zenon DEF EndStep
  <2> QED
    BY <1>1, <2>1, ReportsGo
<1> QED
  BY <1>4, <1>5

\* An event leaves for the page.
LEMMA EmitGoes ==
    ASSUME Shape, CoreInv, page' = page, calls' = calls, Emit
    PROVE  GoesOn
<1>1. /\ emits # <<>> /\ emits' = Tail(emits)
      /\ UNCHANGED <<rows, gone, queue, pc, lost, acts>>
  BY DEF Emit, core
<1>2. emits \in Seq(Reported) /\ acts \in Seq(Reported)
  BY DEF Shape, ChannelShape
<1>3. Popped(emits, emits') /\ Head(emits) = emits[1]
  BY <1>1, <1>2, PoppedSeq
<1>4. PICK e : e = emits[1]
  OBVIOUS
<1>5. e \in Reported
  BY <1>2, <1>3, <1>4, PoppedAt
<1>6. RowsStay /\ (\A r : Stored(r)' <=> Stored(r)) /\ (\A k \in Msgs : Queued(k)' <=> Queued(k))
  BY <1>1, RowsSame, QueuedSame
<1>7. \A new : \A k \in Msgs : MsgMoves(k, new)
  BY <1>1, <1>6, MsgStays
<1>8. \A r : On(emits, RowEv(r)) <=> e \in RowEv(r) \/ On(emits', RowEv(r))
  BY <1>3, <1>4, OnPopped
<1>9. \A new : \A r \in Rows : RowMoves(r, new)
  BY <1>1, <1>6, <1>8 DEF RowMoves
<1>10. CASE e.kind = "interject_delivered"
  <2>1. wire' = wire
    BY <1>3, <1>4, <1>10 DEF Emit, Silent
  <2>2. PICK new : new = <<>>
    OBVIOUS
  <2>3. Len(new) = 0
    BY <2>2
  <2>4. Tells(new) /\ Asks(new)
    BY <2>1, <2>3, SilentTells, SilentAsks
  <2> QED
    BY <1>6, <1>7, <1>9, <2>4, GoesMade
<1>11. CASE e.kind # "interject_delivered"
  <2>1. wire' = wire \o <<e>> /\ e \in RunnerEvents
    BY <1>3, <1>4, <1>5, <1>11, ReportFacts DEF Emit, Announce
  <2>2. e \in News /\ e \in Events
    BY <2>1, NewsFacts DEF News
  <2>3. PICK new : new = <<e>>
    OBVIOUS
  <2>4. new \in Seq(News) /\ Len(new) = 1 /\ new[1] = e /\ \A k \in 1..Len(new) : new[k] = e
    BY <2>2, <2>3
  <2>5. Pushed(wire, new, wire') /\ ~On(new, TurnAnswers) /\ Asks(new)
    BY <2>1, <2>3, <2>4, NewsSent, NewsAsks
  <2>6. Tells(new)
    <3>1. CASE e.kind \in {"run_complete", "closed"}
      BY <2>1, <2>2, <2>3, <3>1, PlainSent
    <3>2. CASE e.kind \in {"turn_end", "tell_user"}
      <4>1. \A A : On(new, A) <=> e \in A
        BY <2>4 DEF On
      <4>2. \A k : e \notin Users(k) /\ e \notin Offers(k) /\ e \notin Takes(k) /\ e \notin Finals(k)
        BY <3>2, KindOf
      <4>3. \A k : e \notin Announcements(k) /\ e \notin Pops(k) /\ e \notin Dones(k)
        BY <4>2, KindParts DEF Dones, Finals
      <4>4. e \notin Lists \cup Snapshots
        BY <3>2 DEF Lists, Snapshots
      <4>5. \A k \in Msgs : MsgTells(k, new)
        BY <2>4, <4>1, <4>2, <4>3 DEF MsgTells, Ordered
      <4>6. \A r \in Rows : RowTells(r, new)
        <5> SUFFICES ASSUME NEW r \in Rows, On(new, RowEv(r))
                     PROVE  On(emits, RowEv(r)) /\ ~On(emits', RowEv(r))
          BY <2>4 DEF RowTells
        <5>1. e \in RowEv(r)
          BY <4>1
        <5>2. On(emits, RowEv(r))
          BY <1>8, <5>1
        <5>3. ~On(emits', RowEv(r))
          <6>1. OneOf(acts, RowEv(r)) /\ Suffix
            BY DEF CoreInv, Coming
          <6>2. OneOf(emits, RowEv(r))
            <7> SUFFICES ASSUME NEW i \in 1..Len(emits), NEW j \in 1..Len(emits),
                                emits[i] \in RowEv(r), emits[j] \in RowEv(r)
                         PROVE  i = j
              BY DEF OneOf
            <7>1. PICK d : d = Len(acts) - Len(emits)
              OBVIOUS
            <7>2. d \in Nat /\ Len(acts) = d + Len(emits) /\ Len(emits) \in Nat
              BY <1>2, <6>1, <7>1 DEF Suffix
            <7>3. emits[i] = acts[d + i] /\ emits[j] = acts[d + j]
              BY <6>1, <7>1 DEF Suffix
            <7>4. d + i \in 1..Len(acts) /\ d + j \in 1..Len(acts)
              BY <7>2
            <7>5. d + i = d + j
              BY <6>1, <7>3, <7>4 DEF OneOf
            <7> QED
              BY <7>2, <7>5
          <6> QED
            BY <1>3, <1>4, <5>1, <6>2, OneOfPopped
        <5> QED
          BY <5>2, <5>3
      <4>7. ListTells(new)
        BY <2>4, <4>4 DEF ListTells
      <4> QED
        BY <2>5, <4>5, <4>6, <4>7 DEF Tells
    <3> QED
      BY <1>5, <1>11, <3>1, <3>2, ReportFacts
  <2> QED
    BY <1>6, <1>7, <1>9, <2>5, <2>6, GoesMade
<1> QED
  BY <1>10, <1>11

\* Core acted on its next report: a row that was to be written is written.
LEMMA PoppedRows ==
    ASSUME Popped(acts, acts'), UNCHANGED <<gone, emits>>, NEW new,
           \A r : Stored(r) => Stored(r)', \A r \in Rows : acts[1] \in RowEv(r) => Stored(r)'
    PROVE  \A r \in Rows : RowMoves(r, new)
<1> SUFFICES ASSUME NEW r \in Rows
             PROVE  RowMoves(r, new)
  OBVIOUS
<1>1. On(acts, RowEv(r)) <=> acts[1] \in RowEv(r) \/ On(acts', RowEv(r))
  BY OnPopped
<1> QED
  BY <1>1 DEF RowMoves

\* A queued message gets its row and the gate.
LEMMA TakenMoves ==
    ASSUME Shape, CoreInv, NEW m \in Msgs, Queued(m), Go(m, "drained"), lost' = lost, NEW new,
           rows' = Append(rows, Said(m)), \A k \in Msgs : Queued(k)' => Queued(k) /\ k # m
    PROVE  /\ RowsStay /\ (\A r : Stored(r) => Stored(r)')
           /\ \A k \in Msgs : MsgMoves(k, new)
<1>1. pc[m] = "over" /\ m \notin lost
  BY DEF CoreInv, Places
<1>2. /\ pc'[m] = "drained" /\ \A k \in Msgs : k # m => pc'[k] = pc[k]
  BY GoFacts
<1>3. RowsStay /\ \A r : Stored(r)' <=> Stored(r) \/ r = Said(m)
  BY SaidFacts, RowsGrow
<1>4. \A k \in Msgs : k # m => (Stored(Said(k))' => Stored(Said(k)))
  BY <1>3, RowsTyped
<1>5. \A k \in Msgs : k # m => MsgMoves(k, new)
  BY <1>2, <1>4, OthersStay
<1>6. MsgMoves(m, new)
  BY <1>1, <1>2 DEF MsgMoves, Ann
<1> QED
  BY <1>3, <1>5, <1>6

\* Where the row of a step or of a told line is put: no message is below it.
LEMMA ActRowPlace ==
    ASSUME Shape, NEW e \in Reported, ActRow(e), NEW r \in Rows, r = e.row
    PROVE  \E n \in 0..Len(rows) : /\ Inserted(rows, n, rows', r)
                                   /\ \A i \in n + 1..Len(rows) : rows[i][3] # "said"
<1> DEFINE Line(q) == q[3] = "told" /\ q[1] = e.row[1] /\ q[2] = e.row[2]
           lines == {i \in DOMAIN rows : Line(rows[i])}
           n == Before(rows, lines)
<1>1. rows \in Seq(Rows) /\ DOMAIN rows = 1..Len(rows) /\ Len(rows) \in Nat
  BY RowsTyped
<1>2. lines \in SUBSET (1..Len(rows)) /\ \A i \in lines : rows[i][3] # "said"
  BY <1>1
<1>3. CASE e.kind = "turn_end"
  <2>1. rows' = PutAfter(rows, n, r)
    BY <1>3 DEF ActRow
  <2> HIDE DEF lines
  <2>2. n \in 0..Len(rows) /\ \A i \in n + 1..Len(rows) : i \in lines
    BY <1>1, <1>2, BeforeFacts
  <2> HIDE DEF n
  <2>3. Inserted(rows, n, rows', r)
    BY <1>1, <2>1, <2>2, PutAfterFacts
  <2>4. \A i \in n + 1..Len(rows) : rows[i][3] # "said"
    BY <1>2, <2>2
  <2> QED
    BY <2>2, <2>3, <2>4
<1>4. CASE e.kind # "turn_end"
  <2>1. rows' = Append(rows, r)
    BY <1>4 DEF ActRow
  <2>2. Inserted(rows, Len(rows), rows', r) /\ Len(rows) \in 0..Len(rows)
    BY <1>1, <2>1, AppendInserted
  <2>3. \A i \in Len(rows) + 1..Len(rows) : rows[i][3] # "said"
    BY <1>1
  <2> QED
    BY <2>2, <2>3
<1> QED
  BY <1>3, <1>4

\* Core writes a row of a run.
LEMMA ActRowGoes ==
    ASSUME Shape, CoreInv, Calm, page' = page, calls' = calls, Act, ActRow(Head(acts))
    PROVE  GoesOn
<1>1. Popped(acts, acts') /\ Head(acts) = acts[1] /\ acts[1] \in Reported
  BY ActFacts
<1>2. PICK e \in Reported : e = acts[1] /\ ActRow(e)
  BY <1>1
<1>3. /\ e.kind \in {"turn_end", "tell_user"}
      /\ UNCHANGED <<gone, lost, queue, pc, emits, wire>>
  BY <1>2 DEF ActRow, Act, Silent
<1>4. PICK r : r = e.row
  OBVIOUS
<1>5. r \in Rows /\ e \in RowEv(r)
  BY <1>3, <1>4 DEF Reported, RunnerEvents, RowEv
<1>6. r[3] # "said"
  <2>1. On(acts, RowEv(r))
    BY <1>1, <1>2, <1>5, OnPopped
  <2> QED
    BY <1>5, <2>1 DEF CoreInv, Coming
<1>7. PICK n \in 0..Len(rows) : /\ Inserted(rows, n, rows', r)
                                /\ \A i \in n + 1..Len(rows) : rows[i][3] # "said"
  BY <1>2, <1>4, <1>5, ActRowPlace
<1>8. \A q : Stored(q)' <=> Stored(q) \/ q = r
  BY <1>7, StoredInserted
<1>9. RowsStay
  <2>1. Len(rows) \in Nat /\ Len(rows') = Len(rows) + 1 /\ \A i \in 1..n : rows'[i] = rows[i]
    BY <1>7, RowsTyped DEF Inserted
  <2>2. \A b \in 1..Len(rows) : rows[b][3] = "said" => b \in 1..n
    BY <1>7, <2>1
  <2>3. \A b \in 1..n : \A i \in 1..b : i \in 1..n
    OBVIOUS
  <2> QED
    BY <2>1, <2>2, <2>3 DEF RowsStay
<1>10. \A k \in Msgs : (Stored(Said(k))' <=> Stored(Said(k))) /\ (Queued(k)' <=> Queued(k))
  BY <1>3, <1>6, <1>8, RowsTyped, QueuedSame
<1>11. PICK new : new = <<>>
  OBVIOUS
<1>12. Len(new) = 0
  BY <1>11
<1>13. Tells(new) /\ Asks(new)
  BY <1>3, <1>12, SilentTells, SilentAsks
<1>14. \A k \in Msgs : MsgMoves(k, new)
  BY <1>3, <1>10, MsgStays
<1>15. \A q \in Rows : acts[1] \in RowEv(q) => Stored(q)'
  BY <1>2, <1>4, <1>8 DEF RowEv
<1>16. UNCHANGED <<gone, emits>>
  BY <1>3
<1>17. \A q : Stored(q) => Stored(q)'
  BY <1>8
<1>18. \A q \in Rows : RowMoves(q, new)
  BY <1>1, <1>15, <1>16, <1>17, PoppedRows
<1> QED
  BY <1>9, <1>13, <1>14, <1>18, GoesMade

\* Core writes a message the run read.
LEMMA ActReadGoes ==
    ASSUME Shape, Shape', CoreInv, CoreInv', Calm, page' = page, calls' = calls, Act,
           ActRead(Head(acts))
    PROVE  GoesOn
<1>1. Popped(acts, acts') /\ Head(acts) = acts[1] /\ acts[1] \in Reported
  BY ActFacts
<1>2. PICK e \in Reported : e = acts[1] /\ ActRead(e)
  BY <1>1
<1>3. e.kind = "interject_delivered" /\ UNCHANGED <<gone, lost, pc, emits>>
  BY <1>2 DEF ActRead, Act
<1>4. PICK m \in Msgs : m = e.msg
  BY <1>3 DEF Reported, RunnerEvents
<1> DEFINE others == {i \in DOMAIN queue : queue[i].msg # m}
<1>5. queue \in Seq(Items) /\ DOMAIN queue = 1..Len(queue)
  BY DEF Shape, CoreShape
<1>6. \A r : acts[1] \notin RowEv(r)
  BY <1>2, <1>3 DEF RowEv
<1>7. CASE others = DOMAIN queue
  <2>1. UNCHANGED <<queue, rows, wire>>
    BY <1>2, <1>4, <1>7 DEF ActRead, Silent
  <2>2. RowsStay /\ (\A r : Stored(r)' <=> Stored(r)) /\ (\A k \in Msgs : Queued(k)' <=> Queued(k))
    BY <2>1, RowsSame, QueuedSame
  <2>3. PICK new : new = <<>>
    OBVIOUS
  <2>4. Len(new) = 0
    BY <2>3
  <2>5. Tells(new) /\ Asks(new)
    BY <2>1, <2>4, SilentTells, SilentAsks
  <2>6. \A k \in Msgs : MsgMoves(k, new)
    BY <1>3, <2>2, MsgStays
  <2>7. \A r \in Rows : RowMoves(r, new)
    BY <1>1, <1>3, <1>6, <2>2, PoppedRows
  <2> QED
    BY <2>2, <2>5, <2>6, <2>7, GoesMade
<1>8. CASE others # DOMAIN queue
  <2>1. /\ queue' = Picked(queue, {i \in DOMAIN queue : queue[i].msg # m})
        /\ rows' = Append(rows, Said(m))
        /\ wire' = wire \o <<UserEvent(m, TRUE, "interjected"), QueueEvent(queue')>>
    BY <1>2, <1>4, <1>8 DEF ActRead, Announce
  <2>2. Queued(m)
    BY <1>5, <1>8 DEF Queued
  <2>3. \A k \in Msgs : Queued(k)' => Queued(k) /\ k # m
    BY <2>1, PickedQueue DEF CoreInv
  <2>4. pc[m] = "over" /\ ~Stored(Said(m)) /\ m \notin lost /\ m \notin History
    BY <2>2 DEF CoreInv, Places
  <2>5. RowsStay /\ \A r : Stored(r)' <=> Stored(r) \/ r = Said(m)
    BY <2>1, SaidFacts, RowsGrow
  <2>6. PICK d \in Dispatches : d = "interjected"
    BY DEF Dispatches
  <2>7. PICK q : q = QueueEvent(queue')
    OBVIOUS
  <2>8. PICK item \in BOOLEAN : item = TRUE
    OBVIOUS
  <2>9. PICK u : u = UserEvent(m, item, d)
    OBVIOUS
  <2>10. u \in News /\ q \in News
    BY <2>7, <2>9, NewsFacts, QueueEventFacts DEF Shape, CoreShape
  <2>11. PICK new : new = <<u, q>>
    OBVIOUS
  <2>12. PICK c \in BOOLEAN : c = TRUE
    OBVIOUS
  <2>13. new \in Seq(News) /\ OneOrTwo(new, u, c, q) /\ wire' = wire \o new
    BY <2>1, <2>6, <2>7, <2>8, <2>9, <2>10, <2>11, <2>12, SentForms
  <2>14. Said(m) \notin gone'
    <3>1. \A r \in Rows : r \in gone => Stored(r)
      BY DEF CoreInv, Places
    <3> QED
      BY <1>3, <2>4, <3>1, SaidFacts
  <2>15. ~Ran(m) /\ Stored(Said(m))' /\ item /\ c
    BY <2>4, <2>5, <2>8, <2>12 DEF Ran
  <2>16. Tells(new) /\ On(new, Users(m))
    BY <2>2, <2>4, <2>7, <2>9, <2>13, <2>14, <2>15, UserTells
  <2>17. Asks(new)
    BY <2>13, NewsAsks
  <2>18. \A k \in Msgs : MsgMoves(k, new)
    <3>1. \A k \in Msgs : k # m => (Stored(Said(k))' => Stored(Said(k)))
      BY <2>5, RowsTyped
    <3>2. \A k \in Msgs : k # m => MsgMoves(k, new)
      BY <1>3, <2>3, <3>1, OthersStay
    <3>3. MsgMoves(m, new)
      BY <1>3, <2>2, <2>3, <2>4, <2>16 DEF MsgMoves
    <3> QED
      BY <3>2, <3>3
  <2>19. \A r \in Rows : RowMoves(r, new)
    BY <1>1, <1>3, <1>6, <2>5, PoppedRows
  <2> QED
    BY <2>5, <2>16, <2>17, <2>18, <2>19, GoesMade
<1> QED
  BY <1>7, <1>8

\* Core closes a run, or gives the gate to the next message.
LEMMA ActEndGoes ==
    ASSUME Shape, CoreInv, Calm, page' = page, calls' = calls, Act, ActEnd(Head(acts))
    PROVE  GoesOn
<1>1. Popped(acts, acts') /\ Head(acts) = acts[1] /\ acts[1] \in Reported
  BY ActFacts
<1>2. PICK e \in Reported : e = acts[1] /\ ActEnd(e)
  BY <1>1
<1>3. e.kind \in {"run_complete", "closed"} /\ UNCHANGED <<gone, lost, emits, wire>>
  BY <1>2 DEF ActEnd, Act, Silent
<1>4. \A r : acts[1] \notin RowEv(r)
  BY <1>2, <1>3 DEF RowEv
<1>5. PICK new : new = <<>>
  OBVIOUS
<1>6. Len(new) = 0
  BY <1>5
<1>7. Tells(new) /\ Asks(new)
  BY <1>3, <1>6, SilentTells, SilentAsks
<1>8. RowsStay /\ (\A r : Stored(r) => Stored(r)') /\ \A k \in Msgs : MsgMoves(k, new)
  <2>1. CASE e.kind = "closed" \/ queue = <<>>
    <3>1. UNCHANGED <<rows, queue, pc>>
      BY <1>2, <2>1 DEF ActEnd
    <3>2. RowsStay /\ (\A r : Stored(r)' <=> Stored(r)) /\ (\A k \in Msgs : Queued(k)' <=> Queued(k))
      BY <3>1, RowsSame, QueuedSame
    <3> QED
      BY <1>3, <3>1, <3>2, MsgStays
  <2>2. CASE ~(e.kind = "closed" \/ queue = <<>>)
    <3>1. PICK m : m = Head(queue).msg
      OBVIOUS
    <3>2. /\ queue # <<>> /\ queue' = Tail(queue) /\ rows' = Append(rows, Said(m))
          /\ Go(m, "drained")
      BY <1>2, <2>2, <3>1 DEF ActEnd
    <3>3. m \in Msgs /\ Queued(m) /\ \A k \in Msgs : Queued(k)' => Queued(k) /\ k # m
      BY <3>1, <3>2, TailQueue DEF CoreInv
    <3>4. lost' = lost
      BY <1>3
    <3> QED
      BY <3>2, <3>3, <3>4, TakenMoves
  <2> QED
    BY <2>1, <2>2
<1>9. \A r \in Rows : RowMoves(r, new)
  BY <1>1, <1>3, <1>4, <1>8, PoppedRows
<1> QED
  BY <1>7, <1>8, <1>9, GoesMade

\* A message jumps the queue, or takes the free gate.
LEMMA JumpGoes ==
    ASSUME Shape, Shape', CoreInv, CoreInv', page' = page, calls' = calls,
           NEW i \in 1..Len(queue), Jump(i)
    PROVE  GoesOn
<1>1. UNCHANGED <<gone, lost, emits, acts>>
  BY DEF Jump
<1>2. PICK m : m = queue[i].msg
  OBVIOUS
<1>3. CASE gate
  <2>1. /\ queue' = <<queue[i]>> \o RemoveAt(queue, i) /\ UNCHANGED <<rows, pc>>
        /\ wire' = wire \o <<QueueEvent(queue')>>
    BY <1>3 DEF Jump, Announce
  <2>2. \A k \in Msgs : Queued(k)' => Queued(k)
    BY <2>1, JumpQueue DEF CoreInv
  <2>3. RowsStay /\ \A r : Stored(r)' <=> Stored(r)
    BY <2>1, RowsSame
  <2>4. PICK e : e = QueueEvent(queue')
    OBVIOUS
  <2>5. e \in News /\ e \in Lists /\ e.items = queue'
    BY <2>4, QueueEventFacts DEF Shape, CoreShape
  <2>6. PICK new : new = <<e>>
    OBVIOUS
  <2>7. wire' = wire \o new /\ calls' \subseteq calls /\ e \in Lists \cup Snapshots
    BY <2>1, <2>4, <2>5, <2>6
  <2>8. Tells(new) /\ Asks(new)
    BY <2>5, <2>6, <2>7, ListSent
  <2>9. \A k \in Msgs : MsgMoves(k, new)
    BY <1>1, <2>1, <2>2, <2>3, MsgStays
  <2>10. \A r \in Rows : RowMoves(r, new)
    BY <1>1, <2>3, RowsMove
  <2> QED
    BY <2>3, <2>8, <2>9, <2>10, GoesMade
<1>4. CASE ~gate
  <2>1. /\ queue' = RemoveAt(queue, i) /\ rows' = Append(rows, Said(m))
        /\ Go(m, "drained") /\ wire' = wire
    BY <1>2, <1>4 DEF Jump, Silent
  <2>2. /\ m \in Msgs /\ Queued(m)
        /\ \A k \in Msgs : Queued(k)' => Queued(k) /\ k # m
    <3>1. /\ queue[i].msg \in Msgs /\ Queued(queue[i].msg)
          /\ \A k \in Msgs : Queued(k)' => Queued(k)
          /\ \A k \in Msgs : queue[i].msg = k => ~Queued(k)'
      BY <2>1, JumpQueue DEF CoreInv
    <3> QED
      BY <1>2, <3>1
  <2>3. PICK new : new = <<>>
    OBVIOUS
  <2>4. Len(new) = 0
    BY <2>3
  <2>5. Tells(new) /\ Asks(new)
    BY <2>1, <2>4, SilentTells, SilentAsks
  <2>6. lost' = lost
    BY <1>1
  <2>7. RowsStay /\ (\A r : Stored(r) => Stored(r)') /\ \A k \in Msgs : MsgMoves(k, new)
    BY <2>1, <2>2, <2>6, TakenMoves
  <2>8. \A r \in Rows : RowMoves(r, new)
    BY <1>1, <2>7, RowsMove
  <2> QED
    BY <2>5, <2>7, <2>8, GoesMade
<1> QED
  BY <1>3, <1>4

\* Core's steps, all of them: the page is told what it needs.
LEMMA CoreStepGoes ==
    ASSUME Shape, Shape', CoreInv, CoreInv', PageInv, Calm, CoreStep
    PROVE  PageInv'
<1>1. page' = page /\ calls' = calls
  BY DEF CoreStep, Ours
<1>2. ASSUME NEW m \in Msgs, Send(m) \/ RowFails(m) \/ WriteFails(m)
      PROVE  GoesOn
  BY <1>1, <1>2, EnqueueGoes, ReserveGoes, HolderGoes, WriteGoes, RowFailsGoes DEF Send
<1>3. ASSUME TellLine \/ EndStep \/ Complete \/ Exit \/ Emit
      PROVE  GoesOn
  BY <1>1, <1>3, RunnerGoes, EmitGoes
<1>4. ASSUME Act
      PROVE  GoesOn
  <2>1. ActRow(Head(acts)) \/ ActRead(Head(acts)) \/ ActEnd(Head(acts))
    BY <1>4 DEF Act
  <2> QED
    BY <1>1, <1>4, <2>1, ActRowGoes, ActReadGoes, ActEndGoes
<1>5. ASSUME (\E i \in 1..Len(queue) : Jump(i)) \/ (\E unit \in Units : Delete(unit))
      PROVE  GoesOn
  BY <1>1, <1>5, JumpGoes, DeleteGoes
<1>6. GoesOn
  BY <1>2, <1>3, <1>4, <1>5 DEF CoreStep
<1> QED
  BY <1>6, PageInvGoes DEF GoesOn

-----------------------------------------------------------------------------
(* A read of the conversation.                                             *)

\* What a read has: rows as they are, nothing deleted, nothing half sent,
\* from where a message opens.
Fresh(a) ==
    /\ a \in TurnAnswers /\ WellRead(a) /\ Base(a.earlier)
    /\ \A r \in Rows : a \in Has(r) =>
          Stored(r) /\ r \notin gone /\ pc[r[1]] \notin {"saved", "drained", "taken"}
    /\ \A m \in Msgs : a \in Lacks(m) => Said(m) \in gone
    /\ \A k \in 1..a.earlier - 1 : a \notin Has(rows[k])
    /\ a.kind = "earlier" =>
          /\ a.asked = page.earlier
          /\ \A r \in Rows : a \in Has(r) => r[1] \in History /\ ~Held(r) /\ ~Held(Said(r[1]))

\* Where the rows of a page are in the conversation.
PageRows(a, end, f) ==
    /\ f \in [1..Len(a.rows) -> 1..end - 1]
    /\ \A k \in 1..Len(a.rows) :
          /\ a.rows[k].row = rows[f[k]] /\ rows[f[k]] \in Rows /\ rows[f[k]] \notin gone
          /\ a.rows[k].held /\ ~a.rows[k].own /\ ~a.rows[k].item
    /\ \A k, l \in 1..Len(a.rows) : f[k] < f[l] <=> k < l

\* A page lists its rows in the order of the conversation.
LEMMA PageRowsMade ==
    ASSUME Shape, NEW a, NEW end \in 1..Len(rows) + 1, NEW from, NEW f, PageOf(a, end, from, f),
           Len(a.rows) \in Nat
    PROVE  PageRows(a, end, f) /\ \A k \in 1..Len(a.rows) : f[k] \in 1..Len(rows) /\ f[k] \in from..end - 1
<1>1. from \in 1..end /\ Len(rows) \in Nat
  BY RowsTyped DEF PageOf
<1>2. f \in [1..Len(a.rows) -> from..end - 1]
  BY DEF PageOf
<1>3. \A k \in 1..Len(a.rows) : f[k] \in 1..Len(rows) /\ f[k] \in 1..end - 1 /\ f[k] \in from..end - 1
  BY <1>1, <1>2
<1>4. \A k \in 1..Len(a.rows) :
          /\ a.rows[k].row = rows[f[k]] /\ rows[f[k]] \in Rows /\ rows[f[k]] \notin gone
          /\ a.rows[k].held /\ ~a.rows[k].own /\ ~a.rows[k].item
  <2> SUFFICES ASSUME NEW k \in 1..Len(a.rows)
               PROVE  /\ a.rows[k].row = rows[f[k]] /\ rows[f[k]] \in Rows /\ rows[f[k]] \notin gone
                      /\ a.rows[k].held /\ ~a.rows[k].own /\ ~a.rows[k].item
    OBVIOUS
  <2>1. rows[f[k]] \in Rows
    BY <1>3, RowsTyped
  <2>2. a.rows[k] = Restored(rows[f[k]]) /\ rows[f[k]] \notin gone
    BY DEF PageOf
  <2> QED
    BY <2>1, <2>2, TurnFacts
<1>5. \A k, l \in 1..Len(a.rows) : k < l => f[k] < f[l]
  BY DEF PageOf
<1>6. \A k, l \in 1..Len(a.rows) : f[k] < f[l] <=> k < l
  <2> SUFFICES ASSUME NEW k \in 1..Len(a.rows), NEW l \in 1..Len(a.rows)
               PROVE  f[k] < f[l] <=> k < l
    OBVIOUS
  <2>1. f[k] \in Nat /\ f[l] \in Nat /\ k \in Nat /\ l \in Nat
    BY <1>3
  <2>2. k < l \/ k = l \/ l < k
    BY <2>1
  <2>3. /\ k < l => f[k] < f[l]
        /\ l < k => f[l] < f[k]
        /\ k = l => f[k] = f[l]
    BY <1>5
  <2> QED
    BY <2>1, <2>2, <2>3
<1>7. f \in [1..Len(a.rows) -> 1..end - 1]
  BY <1>2, <1>3
<1> QED
  BY <1>3, <1>4, <1>6, <1>7 DEF PageRows

\* A page has each row once, and nothing of a run above the message.
LEMMA PageWellRead ==
    ASSUME Shape, CoreInv, NEW a, NEW end \in 1..Len(rows) + 1, NEW f, PageRows(a, end, f),
           \A k \in 1..Len(a.rows) : f[k] \in 1..Len(rows)
    PROVE  WellRead(a)
<1>1. /\ \A k \in 1..Len(a.rows) :
            /\ a.rows[k].row = rows[f[k]]
            /\ a.rows[k].held /\ ~a.rows[k].own /\ ~a.rows[k].item
      /\ \A k, l \in 1..Len(a.rows) : f[k] < f[l] <=> k < l
  BY DEF PageRows
<1>2. /\ \A i, j \in 1..Len(rows) : rows[i] = rows[j] => i = j
      /\ \A i, j \in 1..Len(rows) : rows[i][3] # "said" /\ rows[j] = Said(rows[i][1]) => j < i
  BY DEF CoreInv, Book
<1>3. \A k, l \in 1..Len(a.rows) : a.rows[k].row = a.rows[l].row => k = l
  <2> SUFFICES ASSUME NEW k \in 1..Len(a.rows), NEW l \in 1..Len(a.rows),
                      a.rows[k].row = a.rows[l].row
               PROVE  k = l
    OBVIOUS
  <2>1. f[k] = f[l]
    BY <1>1, <1>2
  <2>2. f[k] \in Nat /\ ~(f[k] < f[l]) /\ ~(f[l] < f[k])
    BY <2>1
  <2>3. ~(k < l) /\ ~(l < k)
    BY <1>1, <2>2
  <2> QED
    BY <2>3
<1>4. \A k, l \in 1..Len(a.rows) :
          a.rows[k].row[3] # "said" /\ a.rows[l].row = Said(a.rows[k].row[1]) => l < k
  <2> SUFFICES ASSUME NEW k \in 1..Len(a.rows), NEW l \in 1..Len(a.rows),
                      a.rows[k].row[3] # "said", a.rows[l].row = Said(a.rows[k].row[1])
               PROVE  l < k
    OBVIOUS
  <2>1. /\ f[k] \in 1..Len(rows) /\ rows[f[k]] = a.rows[k].row
        /\ f[l] \in 1..Len(rows) /\ rows[f[l]] = a.rows[l].row
    BY <1>1
  <2>2. PICK i \in 1..Len(rows) : i = f[k] /\ rows[i] = a.rows[k].row
    BY <2>1
  <2>3. PICK j \in 1..Len(rows) : j = f[l] /\ rows[j] = a.rows[l].row
    BY <2>1
  <2>4. rows[i][3] # "said" /\ rows[j] = Said(rows[i][1])
    BY <2>2, <2>3
  <2>5. j < i
    BY <1>2, <2>4
  <2>6. f[l] < f[k]
    BY <2>2, <2>3, <2>5
  <2> QED
    BY <1>1, <2>6
<1> QED
  BY <1>1, <1>3, <1>4 DEF WellRead

\* What lies before the page is deleted, or of an earlier launch; so a page of
\* the newest rows that lacks a run's message lacks a deleted one.
LEMMA PageFresh ==
    ASSUME Shape, CoreInv, PageInv, NEW a \in TurnAnswers, NEW end \in 1..Len(rows) + 1,
           NEW from, NEW f, PageOf(a, end, from, f), a.asked = end,
           a.kind = "page" => end = Len(rows) + 1 /\ ~page.read /\ ~MidSend,
           a.kind = "earlier" => end = page.earlier
    PROVE  Fresh(a)
<1>1. Len(a.rows) \in Nat /\ Len(rows) \in Nat
  BY RowsTyped DEF TurnAnswers
<1>2. /\ PageRows(a, end, f)
      /\ \A k \in 1..Len(a.rows) : f[k] \in 1..Len(rows) /\ f[k] \in from..end - 1
  BY <1>1, PageRowsMade
<1>3. WellRead(a)
  BY <1>2, PageWellRead
<1>4. /\ \A k \in 1..Len(a.rows) :
            a.rows[k].row = rows[f[k]] /\ rows[f[k]] \in Rows /\ rows[f[k]] \notin gone
  BY <1>2 DEF PageRows
<1>5. /\ from \in 1..end
      /\ \A i \in from..end - 1 : rows[i] \notin gone => \E k \in 1..Len(a.rows) : f[k] = i
      /\ a.earlier \in {0, from}
      /\ a.earlier # 0 =>
            /\ from < end
            /\ rows[from][3] = "said" /\ rows[from][1] \notin midway
            /\ \A i \in 1..from - 1 : rows[i] \in gone \/ rows[i][1] \in History
      /\ a.earlier = 0 => \A i \in 1..from - 1 : rows[i] \in gone
  BY DEF PageOf
<1>6. /\ Base(page.earlier) /\ (~page.read => \A r \in Rows : Held(r) => r[1] \notin History)
      /\ page.earlier \in Nat
  BY DEF PageInv, Reads, Shape, PageShape, Pages
<1>7. a.kind \in {"page", "earlier"}
  BY DEF TurnAnswers
<1>8. a.kind = "earlier" => end > 0 /\ end <= Len(rows)
         /\ \A i \in 1..end - 1 : IF rows[i][1] \in History THEN ~Held(rows[i]) ELSE rows[i] \in gone
  BY <1>6 DEF Base
<1>9. Base(a.earlier)
  <2> SUFFICES ASSUME a.earlier # 0
               PROVE  /\ from <= Len(rows) /\ rows[from][3] = "said"
                      /\ \A i \in 1..from - 1 :
                            IF rows[i][1] \in History THEN ~Held(rows[i]) ELSE rows[i] \in gone
    BY <1>5 DEF Base
  <2>1. from < end /\ rows[from][3] = "said"
    BY <1>5
  <2>2. from <= Len(rows)
    BY <1>1, <1>5, <2>1
  <2>3. \A i \in 1..from - 1 :
            IF rows[i][1] \in History THEN ~Held(rows[i]) ELSE rows[i] \in gone
    <3> SUFFICES ASSUME NEW i \in 1..from - 1
                 PROVE  IF rows[i][1] \in History THEN ~Held(rows[i]) ELSE rows[i] \in gone
      OBVIOUS
    <3>1. rows[i] \in gone \/ rows[i][1] \in History
      BY <1>5
    <3>2. i \in 1..Len(rows) /\ i \in 1..end - 1
      BY <1>1, <1>5, <2>2
    <3>3. rows[i] \in Rows
      BY <3>2, RowsTyped
    <3>4. rows[i][1] \in History => ~Held(rows[i])
      BY <1>6, <1>7, <1>8, <3>2, <3>3
    <3> QED
      BY <3>1, <3>4
  <2> QED
    BY <2>1, <2>2, <2>3
<1>10. \A r \in Rows : a \in Has(r) => \E k \in 1..Len(a.rows) : rows[f[k]] = r
  BY <1>4 DEF Has
<1>11. \A i, j \in 1..Len(rows) : rows[i] = rows[j] => i = j
  BY DEF CoreInv, Book
<1>12. \A r \in Rows : a.kind = "earlier" /\ a \in Has(r) =>
          r[1] \in History /\ ~Held(r) /\ ~Held(Said(r[1]))
  <2> SUFFICES ASSUME NEW r \in Rows, a.kind = "earlier", a \in Has(r)
               PROVE  r[1] \in History /\ ~Held(r) /\ ~Held(Said(r[1]))
    OBVIOUS
  <2>1. PICK k \in 1..Len(a.rows) : rows[f[k]] = r
    BY <1>10
  <2>2. f[k] \in 1..Len(rows) /\ f[k] \in 1..end - 1 /\ r \notin gone
    BY <1>2, <1>4, <1>5, <2>1
  <2>3. r[1] \in History /\ ~Held(r)
    BY <1>8, <2>1, <2>2
  <2>4. CASE r[3] = "said"
    BY <2>3, <2>4, RowsTyped
  <2>5. CASE r[3] # "said"
    <3>1. Whence(r)
      BY <2>1, <2>2, Sources DEF PageInv, Stored
    <3>2. PICK j \in 1..Len(rows) : rows[j] = Said(r[1])
      BY <3>1 DEF Whence, Stored
    <3>3. j < f[k]
      BY <2>1, <2>2, <2>5, <3>2 DEF CoreInv, Book
    <3>4. j \in 1..end - 1
      BY <1>1, <2>2, <3>3
    <3>5. rows[j][1] = r[1]
      BY <3>2, RowsTyped
    <3>6. ~Held(rows[j])
      BY <1>8, <2>3, <3>4, <3>5
    <3> QED
      BY <2>3, <3>2, <3>6
  <2> QED
    BY <2>4, <2>5
<1>13. \A r \in Rows : a \in Has(r) =>
          Stored(r) /\ r \notin gone /\ pc[r[1]] \notin {"saved", "drained", "taken"}
  <2> SUFFICES ASSUME NEW r \in Rows, a \in Has(r)
               PROVE  Stored(r) /\ r \notin gone /\ pc[r[1]] \notin {"saved", "drained", "taken"}
    OBVIOUS
  <2>1. Stored(r) /\ r \notin gone
    BY <1>2, <1>4, <1>10 DEF Stored
  <2>2. r[1] \in Msgs
    BY RowsTyped
  <2>3. CASE a.kind = "page"
    BY <2>1, <2>2, <2>3 DEF MidSend
  <2>4. CASE a.kind = "earlier"
    <3>1. r[1] \in History
      BY <1>12, <2>4
    <3>2. ~Holder(r[1])
      BY <2>2, <3>1 DEF CoreInv, Places
    <3> QED
      BY <2>1, <3>2 DEF Holder
  <2> QED
    BY <1>7, <2>3, <2>4
<1>14. \A m \in Msgs : a \in Lacks(m) => Said(m) \in gone
  <2> SUFFICES ASSUME NEW m \in Msgs, a \in Lacks(m), Said(m) \notin gone
               PROVE  FALSE
    OBVIOUS
  <2>1. /\ a.kind = "page"
        /\ \A k \in 1..Len(a.rows) : a.rows[k].row # Said(m)
    BY DEF Lacks
  <2>2. PICK k \in 1..Len(a.rows) : a.rows[k].row[1] = m /\ a.rows[k].row[3] # "said"
    BY DEF Lacks
  <2>3. PICK i \in 1..Len(rows) : i = f[k] /\ rows[i][1] = m /\ rows[i][3] # "said" /\ i \in from..end - 1
    BY <1>2, <1>4, <2>2
  <2>4. Stored(Said(m))
    BY <2>3 DEF CoreInv, Book, Ran
  <2>5. PICK j \in 1..Len(rows) : rows[j] = Said(m)
    BY <2>4 DEF Stored
  <2>6. j < i
    BY <2>3, <2>5 DEF CoreInv, Book
  <2>7. j < from
    <3> SUFFICES ASSUME ~(j < from)
                 PROVE  FALSE
      OBVIOUS
    <3>1. j \in from..end - 1
      BY <1>1, <1>5, <2>3, <2>6
    <3>2. \E l \in 1..Len(a.rows) : f[l] = j
      BY <1>5, <2>5, <3>1
    <3> QED
      BY <1>4, <2>1, <2>5, <3>2
  <2>8. j \in 1..from - 1
    BY <1>5, <2>7
  <2>9. a.earlier # 0
    BY <1>5, <2>5, <2>8
  <2>10. /\ from < end /\ rows[from][3] = "said" /\ rows[from][1] \notin midway
    BY <1>5, <2>9
  <2>11. from < i /\ from \in 1..Len(rows)
    <3>1. from # i
      BY <2>3, <2>10
    <3> QED
      BY <1>1, <1>5, <2>3, <3>1
  <2>12. Opens(rows[from])
    BY <2>10 DEF Opens
  <2>13. from <= j
    BY <2>3, <2>5, <2>11, <2>12 DEF CoreInv, Book
  <2> QED
    BY <1>5, <2>7, <2>13
<1>15. \A k \in 1..a.earlier - 1 : a \notin Has(rows[k])
  <2> SUFFICES ASSUME NEW k \in 1..a.earlier - 1, a \in Has(rows[k])
               PROVE  FALSE
    OBVIOUS
  <2>1. a.earlier = from
    BY <1>5
  <2>2. from < end
    BY <1>5, <2>1
  <2>3. k \in 1..Len(rows)
    BY <1>1, <1>5, <2>1, <2>2
  <2>4. rows[k] \in Rows
    BY <2>3, RowsTyped
  <2>5. PICK l \in 1..Len(a.rows) : rows[f[l]] = rows[k]
    BY <1>10, <2>4
  <2>6. f[l] = k /\ f[l] \in from..end - 1
    BY <1>2, <1>11, <2>3, <2>5
  <2> QED
    BY <1>5, <2>1, <2>6
<1>16. a.kind = "earlier" => a.asked = page.earlier
  OBVIOUS
<1> QED
  BY <1>3, <1>9, <1>12, <1>13, <1>14, <1>15, <1>16 DEF Fresh

\* Both reads send such a page.
LEMMA FreshRead ==
    ASSUME Shape, CoreInv, PageInv, Calm, ReadLatest \/ ReadEarlier
    PROVE  \E a : /\ Fresh(a) /\ wire' = wire \o <<a>>
                  /\ a.kind \in calls /\ calls' = calls \ {a.kind}
                  /\ UNCHANGED <<rows, gone, queue, pc, lost, midway, emits, acts>>
<1>1. rows \in Seq(Rows) /\ Len(rows) \in Nat
  BY RowsTyped
<1>2. UNCHANGED <<rows, gone, queue, pc, lost, midway, emits, acts>>
  BY DEF ReadLatest, ReadEarlier, CoreRest, core
<1>3. CASE ReadLatest
  <2>1. PICK end \in 1..Len(rows) + 1 : end = Len(rows) + 1
    BY <1>1
  <2>2. PICK a : a = TurnsPage("page", end)
    OBVIOUS
  <2>3. /\ a \in TurnAnswers /\ a.kind = "page" /\ a.asked = end
        /\ \E from, f : PageOf(a, end, from, f)
    BY <1>1, <2>2, TurnsPageFacts
  <2>4. PICK from, f : PageOf(a, end, from, f)
    BY <2>3
  <2>5. /\ "page" \in calls /\ ~MidSend /\ calls' = calls \ {"page"}
        /\ wire' = wire \o <<a>>
    BY <1>3, <2>1, <2>2 DEF ReadLatest, Open, Calm, Announce, Answered
  <2>6. ~page.read
    BY <2>5 DEF PageInv, Reads
  <2>7. Fresh(a)
    BY <2>1, <2>3, <2>4, <2>5, <2>6, PageFresh
  <2> QED
    BY <1>2, <2>3, <2>5, <2>7
<1>4. CASE ReadEarlier
  <2>0. "earlier" \in calls
    BY <1>4 DEF ReadEarlier
  <2>1. page.read /\ page.earlier > 0 /\ Base(page.earlier) /\ page.earlier \in Nat
    BY <2>0 DEF PageInv, Reads, Shape, PageShape, Pages
  <2>a. page.earlier <= Len(rows)
    BY <2>1 DEF Base
  <2>b. page.earlier \in 1..Len(rows) + 1
    BY <1>1, <2>1, <2>a
  <2>2. PICK end \in 1..Len(rows) + 1 : end = page.earlier
    BY <2>b
  <2>3. PICK a : a = TurnsPage("earlier", end)
    OBVIOUS
  <2>4. /\ a \in TurnAnswers /\ a.kind = "earlier" /\ a.asked = end
        /\ \E from, f : PageOf(a, end, from, f)
    BY <1>1, <2>3, TurnsPageFacts
  <2>5. PICK from, f : PageOf(a, end, from, f)
    BY <2>4
  <2>6. calls' = calls \ {"earlier"} /\ wire' = wire \o <<a>>
    BY <1>4, <2>2, <2>3 DEF ReadEarlier, Announce, Answered
  <2>7. Fresh(a)
    BY <2>2, <2>4, <2>5, PageFresh
  <2> QED
    BY <1>2, <2>0, <2>4, <2>6, <2>7
<1> QED
  BY <1>3, <1>4

\* The step that sends such a page, and nothing else.
Reading(new, a) ==
    /\ Pushed(wire, new, wire') /\ Len(new) = 1 /\ new[1] = a
    /\ Fresh(a) /\ a.kind \in calls /\ calls' = calls \ {a.kind}
    /\ UNCHANGED <<rows, gone, queue, pc, lost, midway, emits, acts, page>>

\* It is a page and no event.
LEMMA ReadingFacts ==
    ASSUME NEW new, NEW a, Reading(new, a)
    PROVE  /\ \A A : On(new, A) <=> a \in A
           /\ \A A : On(wire', A) <=> On(wire, A) \/ a \in A
           /\ a \in TurnAnswers
           /\ \A m : /\ a \notin Users(m) /\ a \notin Offers(m) /\ a \notin Takes(m)
                     /\ a \notin Finals(m) /\ a \notin Dones(m) /\ a \notin Announcements(m)
                     /\ a \notin Pops(m) /\ a \notin Pendings(m)
           /\ \A r : a \notin RowEv(r) /\ a \notin Drops(r)
           /\ a \notin Lists \cup Snapshots
<1>1. Pushed(wire, new, wire') /\ Len(new) = 1 /\ new[1] = a
  BY DEF Reading
<1>2. \A A : On(new, A) <=> a \in A
  BY <1>1 DEF On
<1>3. \A A : On(wire', A) <=> On(wire, A) \/ a \in A
  BY <1>1, <1>2, OnPushed
<1>4. a \in TurnAnswers /\ a.kind \in {"page", "earlier"}
  BY KindOf DEF Reading, Fresh
<1>5. \A m : a \notin Users(m) /\ a \notin Offers(m) /\ a \notin Takes(m) \cup Finals(m)
  BY <1>4, KindOf
<1>6. \A m : a \notin Dones(m) /\ a \notin Announcements(m) /\ a \notin Pops(m) /\ a \notin Pendings(m)
  <2>1. \A m : Dones(m) \subseteq Finals(m)
    BY DEF Dones, Finals
  <2>2. \A m : a \notin Announcements(m) /\ a \notin Pops(m)
    BY <1>5 DEF Users
  <2> QED
    BY <1>5, <2>1, <2>2, KindParts
<1>7. \A r : a \notin RowEv(r) /\ a \notin Drops(r)
  BY <1>4, KindOf
<1>8. a \notin Lists \cup Snapshots
  BY <1>4 DEF Lists, Snapshots
<1> QED
  BY <1>2, <1>3, <1>4, <1>5, <1>6, <1>7, <1>8

\* What is said of messages on their way does not mention pages.
LEMMA ReadingMessages ==
    ASSUME PageInv, NEW new, NEW a, Reading(new, a)
    PROVE  TurnShape' /\ RunsFollow' /\ Once' /\ EchoPlace' /\ Ways' /\ Finished' /\ Announced'
<1>1. UNCHANGED <<rows, gone, queue, pc, lost, midway, page>>
  BY DEF Reading
<1>2. \A m : /\ On(wire', Users(m)) <=> On(wire, Users(m))
             /\ On(wire', Offers(m)) <=> On(wire, Offers(m))
             /\ On(wire', Takes(m)) <=> On(wire, Takes(m))
             /\ On(wire', Finals(m)) <=> On(wire, Finals(m))
             /\ On(wire', Announcements(m)) <=> On(wire, Announcements(m))
             /\ On(wire', Pops(m)) <=> On(wire, Pops(m))
             /\ On(wire', Pendings(m)) <=> On(wire, Pendings(m))
  BY ReadingFacts
<1>3. /\ \A r : Held(r)' <=> Held(r)
      /\ \A m : Unheld(m)' <=> Unheld(m)
      /\ \A m : EchoOf(m)' <=> EchoOf(m)
      /\ \A m : PendOf(m)' <=> PendOf(m)
  BY <1>1, PageSame
<1>4. \A m : Queued(m)' <=> Queued(m)
  BY <1>1, QueuedSame
<1>5. \A m : Stored(Said(m))' <=> Stored(Said(m))
  BY <1>1, StoredSame
<1>6. TurnShape' /\ RunsFollow'
  BY <1>1, DrawnSame
<1>7. Once'
  BY <1>1, <1>2 DEF PageInv, Once, IsEcho
<1>8. EchoPlace'
  BY <1>1, <1>2, <1>3 DEF PageInv, EchoPlace
<1>9. Ways'
  BY <1>1, <1>2, <1>3, <1>4 DEF PageInv, Ways, Via, Direct
<1>10. Finished'
  BY <1>1, <1>2 DEF PageInv, Finished
<1>11. Announced'
  BY <1>1, <1>2, <1>3, <1>5 DEF PageInv, Announced, Ann
<1> QED
  BY <1>6, <1>7, <1>8, <1>9, <1>10, <1>11

\* The answers stay where they are.
LEMMA ReadingAnswers ==
    ASSUME PageInv, NEW new, NEW a, Reading(new, a)
    PROVE  Answers'
<1> SUFFICES ASSUME NEW m \in Msgs
             PROVE  /\ Ordered(wire', Announcements(m), Finals(m))
                    /\ \A i \in 1..Len(wire') : wire'[i] \in Dones(m) =>
                          IF i = 1 THEN Held(Said(m))' ELSE wire'[i - 1] \in Users(m)
  BY DEF Answers
<1>1. Pushed(wire, new, wire') /\ page' = page /\ Len(new) = 1 /\ new[1] = a
  BY DEF Reading
<1>2. /\ Ordered(wire, Announcements(m), Finals(m))
      /\ \A i \in 1..Len(wire) : wire[i] \in Dones(m) =>
            IF i = 1 THEN Held(Said(m)) ELSE wire[i - 1] \in Users(m)
  BY DEF PageInv, Answers
<1>3. Held(Said(m))' <=> Held(Said(m))
  BY <1>1, PageSame
<1>4. ~On(new, Announcements(m)) /\ a \notin Dones(m)
  BY ReadingFacts
<1>5. Ordered(wire', Announcements(m), Finals(m))
  BY <1>1, <1>2, <1>4, OrderedPushed
<1>6. /\ Len(wire) \in Nat
      /\ \A l \in 1..Len(wire) : wire'[l] = wire[l]
      /\ \A l \in 1..Len(wire') : l \in 1..Len(wire) \/ wire'[l] = a
  <2>1. PushedParts(wire, new, wire') /\ Len(wire) \in Nat
    BY <1>1, PushedAt DEF Pushed
  <2> QED
    BY <1>1, <2>1 DEF PushedParts
<1>7. \A i \in 1..Len(wire') : wire'[i] \in Dones(m) =>
          IF i = 1 THEN Held(Said(m))' ELSE wire'[i - 1] \in Users(m)
  <2> SUFFICES ASSUME NEW i \in 1..Len(wire'), wire'[i] \in Dones(m)
               PROVE  IF i = 1 THEN Held(Said(m))' ELSE wire'[i - 1] \in Users(m)
    OBVIOUS
  <2>1. i \in 1..Len(wire) /\ wire[i] \in Dones(m)
    BY <1>4, <1>6
  <2>2. i # 1 => i - 1 \in 1..Len(wire)
    BY <1>6, <2>1
  <2>3. i # 1 => wire'[i - 1] = wire[i - 1]
    BY <1>6, <2>2
  <2> QED
    BY <1>2, <1>3, <2>1, <2>3
<1> QED
  BY <1>5, <1>7

\* A page has only what was announced, or will not be.
LEMMA ReadingOrder ==
    ASSUME Shape, CoreInv, PageInv, NEW new, NEW a, Reading(new, a)
    PROVE  Order'
<1> SUFFICES ASSUME NEW r \in Rows, NEW m \in Msgs, m = r[1]
             PROVE  InOrder(r, m)'
  BY RowsTyped DEF Order
<1>1. Pushed(wire, new, wire') /\ page' = page
  BY DEF Reading
<1>2. /\ ~On(new, Users(m)) /\ ~On(new, Offers(m)) /\ ~On(new, Takes(m))
      /\ On(new, Brings(r)) => a \in Has(r)
  BY ReadingFacts DEF Brings
<1>3. a \in Has(r) => Ann(m)
  <2>1. a \in Has(r) => Stored(r) /\ pc[m] \notin {"saved", "drained", "taken"}
    BY DEF Reading, Fresh
  <2>2. Stored(r) => Stored(Said(m))
    BY Sources DEF PageInv, Whence
  <2> QED
    BY <2>1, <2>2 DEF Ann
<1> QED
  BY <1>1, <1>2, <1>3, InOrderPushed

\* A page has what is stored.
LEMMA ReadingKnown ==
    ASSUME Shape, PageInv, NEW new, NEW a, Reading(new, a)
    PROVE  Known'
<1>1. UNCHANGED <<rows, emits, acts, page>> /\ Pushed(wire, new, wire') /\ Len(new) = 1 /\ new[1] = a
  BY DEF Reading
<1>2. /\ \A A : On(wire', A) <=> On(wire, A) \/ a \in A
      /\ \A A : On(new, A) <=> a \in A
      /\ \A m : a \notin Users(m)
      /\ \A r : a \notin RowEv(r)
      /\ a \notin Lists \cup Snapshots
  BY ReadingFacts
<1>3. \A r : Held(r)' <=> Held(r)
  BY <1>1, PageSame
<1>4. \A r : Stored(r)' <=> Stored(r)
  BY <1>1, StoredSame
<1>5. Known
  BY DEF PageInv
<1>6. \A r \in Rows : Held(r)' =>
          /\ Stored(r)' \/ On(acts', RowEv(r))
          /\ ~On(emits', RowEv(r)) /\ ~On(wire', RowEv(r))
  BY <1>1, <1>2, <1>3, <1>4, <1>5 DEF Known
<1>7. \A r \in Rows : On(wire', Has(r)) => Stored(r)'
  <2>1. \A r \in Rows : a \in Has(r) => Stored(r)
    BY DEF Reading, Fresh
  <2> QED
    BY <1>2, <1>4, <1>5, <2>1 DEF Known
<1>8. \A m \in Msgs : On(wire', Users(m)) => Stored(Said(m))' /\ m \notin History
  BY <1>2, <1>4, <1>5 DEF Known
<1>9. ASSUME NEW r \in Rows
      PROVE  Ordered(wire', RowEv(r), Has(r)) /\ OneOf(wire', RowEv(r))
  <2>1. Ordered(wire, RowEv(r), Has(r)) /\ OneOf(wire, RowEv(r))
    BY <1>5 DEF Known
  <2>2. ~On(new, RowEv(r))
    BY <1>2
  <2>3. OneOf(new, RowEv(r))
    BY <2>2 DEF OneOf, On
  <2> QED
    BY <1>1, <2>1, <2>2, <2>3, OrderedPushed, OneOfPushed
<1>10. \A r \in Rows : On(wire', RowEv(r)) =>
          /\ Stored(r)' \/ On(acts', RowEv(r))
          /\ ~On(emits', RowEv(r)) /\ r[1] \notin History /\ r[3] # "said"
  BY <1>1, <1>2, <1>4, <1>5 DEF Known
<1>11. \A i \in 1..Len(wire') : wire'[i] \in Lists \cup Snapshots =>
           \A k, l \in 1..Len(wire'[i].items) : wire'[i].items[k].msg = wire'[i].items[l].msg => k = l
  <2>1. PushedParts(wire, new, wire')
    BY <1>1, PushedAt
  <2>2. \A i \in 1..Len(wire') : \/ \E l \in 1..Len(wire) : wire'[i] = wire[l]
                                 \/ wire'[i] = a
    BY <1>1, <2>1 DEF PushedParts
  <2>3. \A i \in 1..Len(wire) : wire[i] \in Lists \cup Snapshots =>
          \A k, l \in 1..Len(wire[i].items) : wire[i].items[k].msg = wire[i].items[l].msg => k = l
    BY <1>5 DEF Known
  <2>4. SUFFICES ASSUME NEW i \in 1..Len(wire'), wire'[i] \in Lists \cup Snapshots
                 PROVE  \A k, l \in 1..Len(wire'[i].items) :
                            wire'[i].items[k].msg = wire'[i].items[l].msg => k = l
    OBVIOUS
  <2>5. PICK l \in 1..Len(wire) : wire'[i] = wire[l]
    BY <1>2, <2>2, <2>4
  <2> QED
    BY <2>3, <2>4, <2>5
<1> QED
  BY <1>6, <1>7, <1>8, <1>9, <1>10, <1>11 DEF Known

\* A page has nothing deleted, and lacks a run's message only if that was.
LEMMA ReadingDropped ==
    ASSUME PageInv, NEW new, NEW a, Reading(new, a)
    PROVE  Dropped'
<1>1. UNCHANGED <<gone, page>> /\ Pushed(wire, new, wire')
  BY DEF Reading
<1>2. /\ \A A : On(wire', A) <=> On(wire, A) \/ a \in A
      /\ \A A : On(new, A) <=> a \in A
      /\ \A m : a \notin Users(m)
      /\ \A r : a \notin RowEv(r)
  BY ReadingFacts
<1>3. \A r : Held(r)' <=> Held(r)
  BY <1>1, PageSame
<1>4. Dropped
  BY DEF PageInv
<1>5. /\ \A r \in Rows : a \in Has(r) => r \notin gone
      /\ \A m \in Msgs : a \in Lacks(m) => Said(m) \in gone
  BY DEF Reading, Fresh
<1>6. ASSUME NEW r \in Rows, r \in gone'
      PROVE  (Held(r)' => On(wire', Drops(r))) /\ Trailed(wire', Says(r), Drops(r))
  <2>1. (Held(r) => On(wire, Drops(r))) /\ Trailed(wire, Says(r), Drops(r))
    BY <1>1, <1>4, <1>6 DEF Dropped
  <2>2. a \notin Says(r)
    BY <1>1, <1>2, <1>5, <1>6 DEF Says, Brings
  <2>3. ~On(new, Says(r))
    BY <1>2, <2>2
  <2>4. Trailed(wire', Says(r), Drops(r))
    BY <1>1, <2>1, <2>3, TrailedPushed
  <2> QED
    BY <1>2, <1>3, <2>1, <2>4
<1>7. ASSUME NEW m \in Msgs
      PROVE  /\ Held(Said(m))' => Led(wire', Drops(Said(m)), Lacks(m))
             /\ Between(wire', Says(Said(m)), Drops(Said(m)), Lacks(m))
  <2>1. Said(m) \in Rows
    BY DEF Rows
  <2>2. /\ Held(Said(m)) => Led(wire, Drops(Said(m)), Lacks(m))
        /\ Between(wire, Says(Said(m)), Drops(Said(m)), Lacks(m))
    BY <1>4 DEF Dropped
  <2>3. On(new, Lacks(m)) =>
          /\ Held(Said(m)) => On(wire, Drops(Said(m)))
          /\ Trailed(wire, Says(Said(m)), Drops(Said(m)))
    BY <1>2, <1>4, <1>5, <2>1 DEF Dropped
  <2>4. On(new, Lacks(m)) => ~On(new, Says(Said(m)))
    <3>1. a \in Lacks(m) => a \notin Has(Said(m))
      BY DEF Lacks, Has
    <3>2. \A r : a \in Says(r) => a \in Has(r)
      BY <1>2 DEF Says, Brings
    <3> QED
      BY <1>2, <3>1, <3>2
  <2>5. Held(Said(m))' => Led(wire', Drops(Said(m)), Lacks(m))
    BY <1>1, <1>3, <2>2, <2>3, LedPushed
  <2>6. Between(wire', Says(Said(m)), Drops(Said(m)), Lacks(m))
    BY <1>1, <2>2, <2>3, <2>4, BetweenPushed
  <2> QED
    BY <2>5, <2>6
<1> QED
  BY <1>6, <1>7 DEF Dropped

\* A read answered is one read fewer out, and one more on the wire.
LEMMA ReadingReads ==
    ASSUME PageInv, NEW new, NEW a, Reading(new, a)
    PROVE  Reads'
<1>1. /\ UNCHANGED <<rows, gone, page>> /\ Pushed(wire, new, wire') /\ Len(new) = 1 /\ new[1] = a
      /\ a.kind \in calls /\ calls' = calls \ {a.kind}
  BY DEF Reading
<1>2. /\ \A A : On(wire', A) <=> On(wire, A) \/ a \in A
      /\ \A A : On(new, A) <=> a \in A
  BY ReadingFacts
<1>3. \A r : Held(r)' <=> Held(r)
  BY <1>1, PageSame
<1>4. Reads
  BY DEF PageInv
<1>5. /\ WellRead(a) /\ Base(a.earlier)
      /\ \A k \in 1..a.earlier - 1 : a \notin Has(rows[k])
      /\ a.kind = "earlier" =>
            /\ a.asked = page.earlier
            /\ \A r \in Rows : a \in Has(r) => r[1] \in History /\ ~Held(r) /\ ~Held(Said(r[1]))
  BY DEF Reading, Fresh
<1>6. a \in LatestReads => a.kind = "page"
  BY DEF LatestReads
<1>7. a \in EarlierReads => a.kind = "earlier"
  BY DEF EarlierReads
<1>8. \A b : Base(b) => Base(b)'
  BY <1>1 DEF Base, Held
<1>9. \A i \in 1..Len(wire') : wire'[i] = a \/ \E l \in 1..Len(wire) : wire'[i] = wire[l]
  <2>1. PushedParts(wire, new, wire')
    BY <1>1, PushedAt
  <2> QED
    BY <1>1, <2>1 DEF PushedParts
<1>10. \A i \in 1..Len(wire') : wire'[i] \in TurnAnswers => WellRead(wire'[i])
  BY <1>4, <1>5, <1>9 DEF Reads
<1>11. OneOf(new, LatestReads) /\ OneOf(new, EarlierReads)
  BY <1>1 DEF OneOf
<1>12. /\ OneOf(wire', LatestReads)
       /\ "page" \in calls' => ~On(wire', LatestReads)
       /\ "page" \in calls' \/ On(wire', LatestReads) => ~page'.read
  <2>1. /\ OneOf(wire, LatestReads)
        /\ "page" \in calls => ~On(wire, LatestReads)
        /\ "page" \in calls \/ On(wire, LatestReads) => ~page.read
    BY <1>4 DEF Reads
  <2>2. OneOf(wire', LatestReads)
    BY <1>1, <1>2, <1>6, <1>11, <2>1, OneOfPushed
  <2> QED
    BY <1>1, <1>2, <1>6, <2>1, <2>2
<1>13. /\ OneOf(wire', EarlierReads)
       /\ "earlier" \in calls' => ~On(wire', EarlierReads)
       /\ "earlier" \in calls' \/ On(wire', EarlierReads) => page'.read /\ page'.earlier > 0
  <2>1. /\ OneOf(wire, EarlierReads)
        /\ "earlier" \in calls => ~On(wire, EarlierReads)
        /\ "earlier" \in calls \/ On(wire, EarlierReads) => page.read /\ page.earlier > 0
    BY <1>4 DEF Reads
  <2>2. OneOf(wire', EarlierReads)
    BY <1>1, <1>2, <1>7, <1>11, <2>1, OneOfPushed
  <2> QED
    BY <1>1, <1>2, <1>7, <2>1, <2>2
<1>14. ~page'.read => page'.earlier = 0 /\ \A r \in Rows : Held(r)' => r[1] \notin History
  BY <1>1, <1>3, <1>4 DEF Reads
<1>15. Base(page.earlier)'
  <2>1. PICK b : b = page.earlier
    OBVIOUS
  <2>2. Base(b)'
    BY <1>4, <1>8, <2>1 DEF Reads
  <2> QED
    BY <1>1, <2>1, <2>2
<1>16. ASSUME NEW i \in 1..Len(wire'), wire'[i] \in TurnAnswers
       PROVE  /\ Base(wire[i].earlier)'
              /\ \A k \in 1..wire'[i].earlier - 1 : wire'[i] \notin Has(rows'[k])
              /\ wire'[i].kind = "earlier" =>
                    /\ wire'[i].asked = page'.earlier
                    /\ \A r \in Rows : wire'[i] \in Has(r) =>
                          r[1] \in History /\ ~Held(r)' /\ ~Held(Said(r[1]))'
  <2>1. PICK e, b : e = wire'[i] /\ b = e.earlier
    OBVIOUS
  <2>2. /\ Base(b)
        /\ \A k \in 1..b - 1 : e \notin Has(rows[k])
        /\ e.kind = "earlier" =>
              /\ e.asked = page.earlier
              /\ \A r \in Rows : e \in Has(r) =>
                    r[1] \in History /\ ~Held(r) /\ ~Held(Said(r[1]))
    <3>1. CASE e = a
      BY <1>5, <2>1, <3>1
    <3>2. CASE e # a
      <4>1. PICK l \in 1..Len(wire) : e = wire[l]
        BY <1>9, <2>1, <3>2
      <4> QED
        BY <1>4, <1>16, <2>1, <4>1 DEF Reads
    <3> QED
      BY <3>1, <3>2
  <2>3. Base(b)'
    BY <1>8, <2>2
  <2>4. Base(wire[i].earlier)'
    BY <2>1, <2>3
  <2> QED
    BY <1>1, <1>3, <2>1, <2>2, <2>4
<1> QED
  BY <1>10, <1>12, <1>13, <1>14, <1>15, <1>16 DEF Reads

\* The answers of Core to what the page asks, and their failures.
LEMMA CoreAnswerGoes ==
    ASSUME Shape, Shape', CoreInv, CoreInv', PageInv, Calm, CoreAnswer \/ CoreFails
    PROVE  PageInv'
<1>1. page' = page
  BY DEF CoreAnswer, CoreFails
<1>2. ASSUME ReadQueue \/ AnswerStop \/ ListRunners \/ StopFails
             \/ \E call \in {"page", "earlier", "queue"} : ReadFails(call)
      PROVE  PageInv'
  <2>1. GoesOn
    BY <1>1, <1>2, ReadQueueGoes, AnswerGoes, ReadFailsGoes
  <2> QED
    BY <2>1, PageInvGoes DEF GoesOn
<1>3. ASSUME ReadLatest \/ ReadEarlier
      PROVE  PageInv'
  <2>1. PICK a : /\ Fresh(a) /\ wire' = wire \o <<a>>
                 /\ a.kind \in calls /\ calls' = calls \ {a.kind}
                 /\ UNCHANGED <<rows, gone, queue, pc, lost, midway, emits, acts>>
    BY <1>3, FreshRead
  <2>2. PICK new : new = <<a>>
    OBVIOUS
  <2>3. Len(new) = 1 /\ new[1] = a
    BY <2>2
  <2>4. Pushed(wire, new, wire')
    <3>1. a \in Events /\ wire \in Seq(Events)
      BY <2>1 DEF Fresh, Shape, ChannelShape, Events
    <3>2. new \in Seq(Events)
      BY <2>2, <3>1
    <3> QED
      BY <2>1, <2>2, <3>1, <3>2, PushedSeq
  <2>5. Reading(new, a)
    BY <1>1, <2>1, <2>3, <2>4 DEF Reading
  <2>6. TurnShape' /\ RunsFollow' /\ Once' /\ EchoPlace' /\ Ways' /\ Finished' /\ Announced'
    BY <2>5, ReadingMessages
  <2>7. Answers' /\ Order' /\ Known'
    BY <2>5, ReadingAnswers, ReadingOrder, ReadingKnown
  <2>8. Dropped' /\ Reads'
    BY <2>5, ReadingDropped, ReadingReads
  <2> QED
    BY <2>6, <2>7, <2>8 DEF PageInv
<1> QED
  BY <1>2, <1>3 DEF CoreAnswer, CoreFails
=============================================================================
