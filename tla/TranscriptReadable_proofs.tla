--------------------- MODULE TranscriptReadable_proofs ---------------------
(***************************************************************************)
(* So does every step of the page (PageInv, in TranscriptPage_proofs), for *)
(* every set of messages, every number of steps and every way to cut in.   *)
(* What is drawn can then be read as a conversation: no row is there twice *)
(* and nothing of a run is above the message that opened it.               *)
(***************************************************************************)
EXTENDS TranscriptPage_proofs

-----------------------------------------------------------------------------
(* What reaches the page.                                                  *)

\* The first of what is on its way reaches the page; Core does nothing.
Received(e) ==
    /\ Popped(wire, wire') /\ e = wire[1] /\ e \in Events
    /\ UNCHANGED <<rows, gone, queue, pc, lost, midway, emits, acts>>
    /\ \/ calls' = calls
       \/ /\ calls' = calls \cup {"page"} /\ e.kind = "live"
          /\ ~page.read /\ ~On(wire, LatestReads) /\ page' = page

\* What the page may make of it: it draws what it is told, it stops waiting for
\* what is there, and what is deleted it takes off.
Draws(e) ==
    /\ \A r \in Rows : Held(r)' => Held(r) \/ e \in Says(r)
    /\ \A m \in Msgs : Unheld(m)' => (Unheld(m) \/ e \in Offers(m)) /\ e \notin Users(m)
    /\ \A m \in Msgs : EchoOf(m)' => EchoOf(m) /\ e \notin Users(m) /\ e \notin Takes(m)
    /\ \A m \in Msgs : PendOf(m)' => PendOf(m) \/ e \in Offers(m)
    /\ \A m \in Msgs : e \in Users(m) => Held(Said(m))'
    /\ \A r \in Rows : e \in Drops(r) => ~Held(r)'

\* What it keeps beside the turns.
Notes(e) ==
    /\ page'.sends = page.sends \/ (e.kind = "sent" /\ page'.sends = page.sends \ {e.msg})
    /\ page.read => page'.read
    /\ page'.read => page.read \/ e \in LatestReads
    /\ e \notin TurnAnswers => page'.earlier = page.earlier
    /\ e \in TurnAnswers => \/ page'.earlier \in {0, e.earlier}
                            \/ page'.earlier = page.earlier /\ \A r : e \notin Has(r)
    /\ e \in TurnAnswers /\ e.kind = "page" => page'.read

\* What is still on its way was on its way.
LEMMA ReceivedOn ==
    ASSUME NEW e, Received(e)
    PROVE  \A A : On(wire, A) <=> e \in A \/ On(wire', A)
BY OnPopped DEF Received

\* An echo is there until its message is told of, or the answer takes it back.
LEMMA ReceivedEcho ==
    ASSUME PageInv, NEW e, Received(e), Draws(e), Notes(e)
    PROVE  EchoPlace'
<1> SUFFICES ASSUME NEW m \in Msgs, EchoOf(m)', m \notin lost
             PROVE  /\ m \in page'.sends
                    /\ pc[m] \in {"sent", "saved"} \/ On(wire', Pendings(m)) \/ On(wire', Takes(m))
  BY DEF EchoPlace, Received
<1>1. EchoOf(m) /\ e \notin Users(m) /\ e \notin Takes(m)
  BY DEF Draws
<1>2. /\ m \in page.sends
      /\ pc[m] \in {"sent", "saved"} \/ On(wire, Pendings(m)) \/ On(wire, Takes(m))
  BY <1>1 DEF PageInv, EchoPlace
<1>3. e \notin Pendings(m)
  BY <1>1, KindParts
<1>4. pc[m] \in {"sent", "saved"} \/ On(wire', Pendings(m)) \/ On(wire', Takes(m))
  BY <1>1, <1>2, <1>3, ReceivedOn
<1>5. m \in page'.sends
  <2> SUFFICES ASSUME e.kind = "sent", e.msg = m
               PROVE  FALSE
    BY <1>2 DEF Notes
  <2>1. e \in SendAnswers
    BY EventFacts DEF Received
  <2>2. e \in Finals(m)
    BY <1>1, <2>1 DEF SendAnswers, Takes, Finals
  <2>3. On(wire, Finals(m))
    BY <2>2, ReceivedOn
  <2>4. pc[m] = "over" /\ Direct(m) /\ ~Via(m)
    BY <2>3 DEF PageInv, Finished, Ways, Direct
  <2>5. ~On(wire, Takes(m))
    BY <2>4 DEF Via
  <2>6. Popped(wire, wire') /\ wire[1] \in Finals(m) /\ Ordered(wire, Announcements(m), Finals(m))
    BY <2>2 DEF Received, PageInv, Answers
  <2>7. ~On(wire, Announcements(m))
    BY <2>6, OrderedPopped
  <2>8. ~On(wire, Pendings(m))
    BY <2>7, KindParts, OnMore
  <2> QED
    BY <1>2, <2>4, <2>5, <2>8
<1> QED
  BY <1>4, <1>5

\* What is not on both ways is not when one is shorter.
LEMMA ReceivedWays ==
    ASSUME PageInv, NEW e, Received(e), Draws(e)
    PROVE  Ways' /\ Finished'
<1>1. \A A : On(wire, A) <=> e \in A \/ On(wire', A)
  BY ReceivedOn
<1>2. \A m : Queued(m)' <=> Queued(m)
  BY QueuedSame DEF Received
<1>3. \A m \in Msgs : Via(m)' => Via(m)
  <2> SUFFICES ASSUME NEW m \in Msgs, Via(m)'
               PROVE  Via(m)
    OBVIOUS
  <2>1. PendOf(m)' => PendOf(m) \/ On(wire, Offers(m))
    BY <1>1 DEF Draws
  <2>2. pc' = pc
    BY DEF Received
  <2> QED
    BY <1>1, <1>2, <2>1, <2>2 DEF Via
<1>4. \A m \in Msgs : Direct(m)' => Direct(m)
  BY <1>1 DEF Direct, Received
<1>5. pc' = pc /\ lost' = lost
  BY DEF Received
<1>6. Ways'
  BY <1>3, <1>4, <1>5 DEF PageInv, Ways
<1>7. Finished'
  BY <1>1, <1>5 DEF PageInv, Finished
<1> QED
  BY <1>6, <1>7

\* An answer that gets to the front has its message drawn.
LEMMA ReceivedAnswers ==
    ASSUME PageInv, NEW e, Received(e), Draws(e)
    PROVE  Answers'
<1> SUFFICES ASSUME NEW m \in Msgs
             PROVE  /\ Ordered(wire', Announcements(m), Finals(m))
                    /\ \A i \in 1..Len(wire') : wire'[i] \in Dones(m) =>
                          IF i = 1 THEN Held(Said(m))' ELSE wire'[i - 1] \in Users(m)
  BY DEF Answers
<1>1. Popped(wire, wire') /\ e = wire[1]
  BY DEF Received
<1>2. /\ Ordered(wire, Announcements(m), Finals(m))
      /\ \A i \in 1..Len(wire) : wire[i] \in Dones(m) =>
            IF i = 1 THEN Held(Said(m)) ELSE wire[i - 1] \in Users(m)
  BY DEF PageInv, Answers
<1>3. Ordered(wire', Announcements(m), Finals(m))
  BY <1>1, <1>2, OrderedPopped
<1>4. \A i \in 1..Len(wire') : wire'[i] \in Dones(m) =>
          IF i = 1 THEN Held(Said(m))' ELSE wire'[i - 1] \in Users(m)
  <2> SUFFICES ASSUME NEW i \in 1..Len(wire'), wire'[i] \in Dones(m)
               PROVE  IF i = 1 THEN Held(Said(m))' ELSE wire'[i - 1] \in Users(m)
    OBVIOUS
  <2>1. i + 1 \in 1..Len(wire) /\ wire[i + 1] \in Dones(m)
    BY <1>1, PoppedAt
  <2>2. i + 1 # 1 /\ i + 1 - 1 = i
    OBVIOUS
  <2>3. wire[i] \in Users(m)
    BY <1>2, <2>1, <2>2
  <2>4. i # 1 => i - 1 \in 1..Len(wire') /\ i - 1 + 1 = i
    BY <1>1 DEF Popped
  <2>5. i # 1 => wire'[i - 1] = wire[i]
    BY <1>1, <2>4, PoppedAt
  <2>6. i = 1 => Held(Said(m))'
    BY <1>1, <2>3 DEF Draws
  <2> QED
    BY <2>3, <2>5, <2>6
<1> QED
  BY <1>3, <1>4

\* What the page waits for is still on its way when something else arrives.
LEMMA ReceivedAnnounced ==
    ASSUME PageInv, NEW e, Received(e), Draws(e)
    PROVE  Announced'
<1> SUFFICES ASSUME NEW m \in Msgs, Ann(m)', Unheld(m)' \/ On(wire', Offers(m))
             PROVE  On(wire', Users(m))
  BY DEF Announced
<1>1. \A A : On(wire, A) <=> e \in A \/ On(wire', A)
  BY ReceivedOn
<1>2. rows' = rows /\ pc' = pc /\ Popped(wire, wire') /\ e = wire[1]
  BY DEF Received
<1>3. Ann(m)
  BY <1>2 DEF Ann, Stored
<1>4. Unheld(m)' => (Unheld(m) \/ e \in Offers(m)) /\ e \notin Users(m)
  BY DEF Draws
<1>5. On(wire, Users(m))
  BY <1>1, <1>3, <1>4 DEF PageInv, Announced
<1>6. e \in Users(m) => ~On(wire, Offers(m))
  <2>1. InOrder(Said(m), m)
    <3>1. Said(m) \in Rows /\ Said(m)[1] = m
      BY DEF Rows, Said
    <3> QED
      BY <3>1 DEF PageInv, Order
  <2>2. Ordered(wire, Offers(m), Users(m))
    BY <2>1 DEF InOrder
  <2> QED
    BY <1>2, <2>2, OrderedPopped
<1> QED
  BY <1>1, <1>4, <1>5, <1>6

\* What is brought or told of was in order, and so is the rest.
LEMMA ReceivedOrder ==
    ASSUME Shape, PageInv, NEW e, Received(e), Draws(e)
    PROVE  Order'
<1> SUFFICES ASSUME NEW r \in Rows, NEW m \in Msgs, m = r[1]
             PROVE  InOrder(r, m)'
  BY RowsTyped DEF Order
<1>1. Popped(wire, wire') /\ e = wire[1]
  BY DEF Received
<1>2. \A A : On(wire, A) <=> e \in A \/ On(wire', A)
  BY ReceivedOn
<1>3. InOrder(r, m)
  BY DEF PageInv, Order
<1>4. /\ Held(r)' => Held(r) \/ e \in Says(r)
      /\ Unheld(m)' => (Unheld(m) \/ e \in Offers(m)) /\ e \notin Users(m)
  BY DEF Draws
<1>5. Unheld(m)' => Led(wire', Users(m), Brings(r))
  <2>1. CASE Unheld(m) /\ e \notin Users(m)
    <3>1. Led(wire, Users(m), Brings(r))
      BY <1>3, <2>1 DEF InOrder
    <3> QED
      BY <1>1, <2>1, <3>1, LedPopped
  <2>2. CASE e \in Offers(m) /\ e \notin Users(m)
    <3>1. Between(wire, Offers(m), Users(m), Brings(r))
      BY <1>3 DEF InOrder
    <3>2. ~On(wire', Brings(r) \cap Users(m))
      <4>1. \A x : x \in Brings(r) => x.kind \in {"turn_end", "tell_user", "page", "earlier"}
        BY KindOf DEF Brings
      <4>2. \A x : x \in Users(m) => x.kind = "user"
        BY KindOf
      <4> QED
        BY <4>1, <4>2 DEF On
    <3> QED
      BY <1>1, <2>2, <3>1, <3>2, BetweenPopped
  <2> QED
    BY <1>4, <2>1, <2>2
<1>6. /\ Ordered(wire', Offers(m), Brings(r)) /\ Between(wire', Offers(m), Users(m), Brings(r))
      /\ Ordered(wire', Offers(m), Users(m)) /\ Ordered(wire', Takes(m), Users(m))
  <2>1. /\ Ordered(wire, Offers(m), Brings(r)) /\ Between(wire, Offers(m), Users(m), Brings(r))
        /\ Ordered(wire, Offers(m), Users(m)) /\ Ordered(wire, Takes(m), Users(m))
    BY <1>3 DEF InOrder
  <2> QED
    BY <1>1, <2>1, OrderedPopped, BetweenPopped
<1>7. r[3] # "said" => Ordered(wire', Users(m), Brings(r)) /\ (e \in Brings(r) => ~On(wire, Users(m)))
  <2>1. r[3] # "said" => Ordered(wire, Users(m), Brings(r))
    BY <1>3 DEF InOrder
  <2> QED
    BY <1>1, <2>1, OrderedPopped
<1>8. r[3] # "said" /\ Held(r)' => ~On(wire', Users(m))
  <2>1. r[3] # "said" /\ e \in Says(r) => e \in Brings(r)
    BY KindParts
  <2>2. r[3] # "said" /\ Held(r) => ~On(wire, Users(m))
    BY <1>3 DEF InOrder
  <2> QED
    BY <1>2, <1>4, <1>7, <2>1, <2>2
<1>9. Held(r)' => ~On(wire', Offers(m))
  <2>1. e \in Says(r) => e \in Brings(r) \/ e \in Users(m)
    BY DEF Says
  <2>2. Ordered(wire, Offers(m), Brings(r)) /\ Ordered(wire, Offers(m), Users(m))
    BY <1>3 DEF InOrder
  <2>3. e \in Brings(r) \/ e \in Users(m) => ~On(wire, Offers(m))
    BY <1>1, <2>2, OrderedPopped
  <2>4. Held(r) => ~On(wire, Offers(m))
    BY <1>3 DEF InOrder
  <2> QED
    BY <1>2, <1>4, <2>1, <2>3, <2>4
<1> QED
  BY <1>5, <1>6, <1>7, <1>8, <1>9 DEF InOrder

\* What is drawn is stored, or will be, and does not come by its event again.
LEMMA ReceivedKnown ==
    ASSUME Shape, CoreInv, PageInv, NEW e, Received(e), Draws(e)
    PROVE  Known'
<1>1. Popped(wire, wire') /\ e = wire[1] /\ UNCHANGED <<rows, emits, acts>>
  BY DEF Received
<1>2. \A A : On(wire, A) <=> e \in A \/ On(wire', A)
  BY ReceivedOn
<1>3. Known
  BY DEF PageInv
<1>4. \A r : Stored(r)' <=> Stored(r)
  BY <1>1, StoredSame
<1>5. ASSUME NEW r \in Rows, Held(r)'
      PROVE  /\ Stored(r) \/ On(acts, RowEv(r))
             /\ ~On(emits, RowEv(r)) /\ ~On(wire', RowEv(r))
  <2>1. CASE Held(r)
    BY <1>2, <1>3, <2>1 DEF Known
  <2>2. CASE e \in RowEv(r)
    <3>1. On(wire, RowEv(r)) /\ OneOf(wire, RowEv(r))
      BY <1>2, <1>3, <2>2 DEF Known
    <3>2. ~On(wire', RowEv(r))
      BY <1>1, <2>2, <3>1, OneOfPopped
    <3> QED
      BY <1>3, <3>1, <3>2 DEF Known
  <2>3. ASSUME Stored(r)
        PROVE  ~On(emits, RowEv(r))
    <3>1. On(acts, RowEv(r)) => ~Stored(r)
      BY Sources DEF PageInv
    <3> QED
      BY <2>3, <3>1, EmitsComing
  <2>4. CASE e \in Has(r)
    <3>1. Stored(r) /\ Ordered(wire, RowEv(r), Has(r))
      BY <1>2, <1>3, <2>4 DEF Known
    <3>2. ~On(wire, RowEv(r))
      BY <1>1, <2>4, <3>1, OrderedPopped
    <3> QED
      BY <1>2, <2>3, <3>1, <3>2
  <2>5. CASE r[3] = "said" /\ e \in Users(r[1])
    <3>1. r = Said(r[1]) /\ r[1] \in Msgs
      BY <2>5, RowsTyped
    <3>2. Stored(Said(r[1]))
      BY <1>2, <1>3, <2>5, <3>1 DEF Known
    <3>3. ~On(wire, RowEv(r))
      BY <1>3, <2>5 DEF Known
    <3> QED
      BY <1>2, <2>3, <3>1, <3>2, <3>3
  <2>6. e \in Says(r) => e \in Has(r) \/ e \in RowEv(r) \/ (r[3] = "said" /\ e \in Users(r[1]))
    BY DEF Says, Brings
  <2> QED
    BY <1>5, <2>1, <2>2, <2>4, <2>5, <2>6 DEF Draws
<1>6. \A r \in Rows : Held(r)' =>
          /\ Stored(r)' \/ On(acts', RowEv(r))
          /\ ~On(emits', RowEv(r)) /\ ~On(wire', RowEv(r))
  BY <1>1, <1>4, <1>5
<1>7. /\ \A r \in Rows : On(wire', Has(r)) => Stored(r)'
      /\ \A m \in Msgs : On(wire', Users(m)) => Stored(Said(m))' /\ m \notin History
  BY <1>2, <1>3, <1>4 DEF Known
<1>8. \A r \in Rows : Ordered(wire', RowEv(r), Has(r)) /\ OneOf(wire', RowEv(r))
  <2>1. \A r \in Rows : Ordered(wire, RowEv(r), Has(r)) /\ OneOf(wire, RowEv(r))
    BY <1>3 DEF Known
  <2> QED
    BY <1>1, <2>1, OrderedPopped, OneOfPopped
<1>9. \A r \in Rows : On(wire', RowEv(r)) =>
          /\ Stored(r)' \/ On(acts', RowEv(r))
          /\ ~On(emits', RowEv(r)) /\ r[1] \notin History /\ r[3] # "said"
  BY <1>1, <1>2, <1>3, <1>4 DEF Known
<1>10. \A i \in 1..Len(wire') : wire'[i] \in Lists \cup Snapshots =>
           \A k, l \in 1..Len(wire'[i].items) : wire'[i].items[k].msg = wire'[i].items[l].msg => k = l
  <2> SUFFICES ASSUME NEW i \in 1..Len(wire')
               PROVE  wire'[i] \in Lists \cup Snapshots =>
                          \A k, l \in 1..Len(wire'[i].items) :
                              wire'[i].items[k].msg = wire'[i].items[l].msg => k = l
    OBVIOUS
  <2>1. PICK j \in 1..Len(wire) : wire'[i] = wire[j]
    BY <1>1, PoppedAt
  <2>2. wire[j] \in Lists \cup Snapshots =>
          \A k, l \in 1..Len(wire[j].items) : wire[j].items[k].msg = wire[j].items[l].msg => k = l
    BY <1>3 DEF Known
  <2> QED
    BY <2>1, <2>2
<1> QED
  BY <1>6, <1>7, <1>8, <1>9, <1>10 DEF Known

\* What is deleted and drawn is still to be taken off.
LEMMA ReceivedDropped ==
    ASSUME PageInv, NEW e, Received(e), Draws(e)
    PROVE  Dropped'
<1>1. Popped(wire, wire') /\ e = wire[1] /\ gone' = gone
  BY DEF Received
<1>2. \A A : On(wire, A) <=> e \in A \/ On(wire', A)
  BY ReceivedOn
<1>3. Dropped
  BY DEF PageInv
<1>4. ASSUME NEW r \in Rows, r \in gone'
      PROVE  (Held(r)' => On(wire', Drops(r))) /\ Trailed(wire', Says(r), Drops(r))
  <2>1. (Held(r) => On(wire, Drops(r))) /\ Trailed(wire, Says(r), Drops(r))
    BY <1>1, <1>3, <1>4 DEF Dropped
  <2>2. Trailed(wire', Says(r), Drops(r)) /\ (e \in Says(r) => On(wire', Drops(r)))
    BY <1>1, <2>1, TrailedPopped
  <2>3. /\ Held(r)' => Held(r) \/ e \in Says(r)
        /\ e \in Drops(r) => ~Held(r)'
    BY DEF Draws
  <2> QED
    BY <1>2, <2>1, <2>2, <2>3
<1>5. ASSUME NEW m \in Msgs
      PROVE  /\ Held(Said(m))' => Led(wire', Drops(Said(m)), Lacks(m))
             /\ Between(wire', Says(Said(m)), Drops(Said(m)), Lacks(m))
  <2>1. /\ Held(Said(m)) => Led(wire, Drops(Said(m)), Lacks(m))
        /\ Between(wire, Says(Said(m)), Drops(Said(m)), Lacks(m))
    BY <1>3 DEF Dropped
  <2>2. Between(wire', Says(Said(m)), Drops(Said(m)), Lacks(m))
    BY <1>1, <2>1, BetweenPopped
  <2>3. /\ Held(Said(m))' => Held(Said(m)) \/ e \in Says(Said(m))
        /\ e \in Drops(Said(m)) => ~Held(Said(m))'
    <3>1. Said(m) \in Rows
      BY DEF Rows
    <3> QED
      BY <3>1 DEF Draws
  <2>4. CASE Held(Said(m)) /\ e \notin Drops(Said(m))
    BY <1>1, <2>1, <2>2, <2>4, LedPopped
  <2>5. CASE e \in Says(Said(m)) /\ e \notin Drops(Said(m))
    <3>1. ~On(wire', Lacks(m) \cap Drops(Said(m)))
      <4>1. \A x : x \in Lacks(m) => x.kind = "page"
        BY KindOf
      <4>2. \A x : x \in Drops(Said(m)) => x.kind = "deleted"
        BY KindOf
      <4> QED
        BY <4>1, <4>2 DEF On
    <3>2. Led(wire', Drops(Said(m)), Lacks(m))
      BY <1>1, <2>1, <2>5, <3>1, BetweenPopped
    <3> QED
      BY <2>2, <3>2
  <2> QED
    BY <2>2, <2>3, <2>4, <2>5
<1> QED
  BY <1>4, <1>5 DEF Dropped

\* The reads that are out, and those on their way, are as they were.
LEMMA ReceivedReads ==
    ASSUME Shape, CoreInv, PageInv, NEW e, Received(e), Draws(e), Notes(e)
    PROVE  Reads'
<1>1. Popped(wire, wire') /\ e = wire[1] /\ rows' = rows /\ gone' = gone
  BY DEF Received
<1>2. \A A : On(wire, A) <=> e \in A \/ On(wire', A)
  BY ReceivedOn
<1>3. Reads
  BY DEF PageInv
<1>4. \A i \in 1..Len(wire') : \E l \in 1..Len(wire) : wire'[i] = wire[l]
  BY <1>1, PoppedAt
<1>5. /\ OneOf(wire, LatestReads) /\ OneOf(wire, EarlierReads)
      /\ "page" \in calls => ~On(wire, LatestReads)
      /\ "earlier" \in calls => ~On(wire, EarlierReads)
      /\ "page" \in calls \/ On(wire, LatestReads) => ~page.read
      /\ "earlier" \in calls \/ On(wire, EarlierReads) => page.read /\ page.earlier > 0
      /\ ~page.read => page.earlier = 0 /\ \A r \in Rows : Held(r) => r[1] \notin History
      /\ Base(page.earlier)
  BY <1>3 DEF Reads
<1>6. /\ OneOf(wire', LatestReads) /\ OneOf(wire', EarlierReads)
      /\ e \in LatestReads => ~On(wire', LatestReads)
      /\ e \in EarlierReads => ~On(wire', EarlierReads)
  BY <1>1, <1>5, OneOfPopped
<1>7. e \in TurnAnswers => e.kind \in {"page", "earlier"}
  BY DEF TurnAnswers
<1>8. /\ e \in TurnAnswers /\ e.kind = "page" => e \in LatestReads
      /\ e \in TurnAnswers /\ e.kind = "earlier" => e \in EarlierReads
  BY DEF Received, LatestReads, EarlierReads
<1>9. e \in TurnAnswers => ~On(wire', LatestReads) /\ ~On(wire', EarlierReads)
  BY <1>2, <1>5, <1>6, <1>7, <1>8
<1>10. e \in TurnAnswers => ~On(wire', TurnAnswers)
  <2>1. TurnAnswers \subseteq LatestReads \cup EarlierReads
    BY DEF TurnAnswers, LatestReads, EarlierReads, Events
  <2> QED
    BY <1>9, <2>1 DEF On
<1>11. \A r \in Rows : r[1] \in History /\ Held(r)' => Held(r) \/ e \in Has(r)
  <2> SUFFICES ASSUME NEW r \in Rows, r[1] \in History, e \in Says(r)
               PROVE  e \in Has(r)
    BY DEF Draws
  <2>1. e \notin RowEv(r)
    BY <1>2 DEF PageInv, Known
  <2>2. r[3] = "said" => e \notin Users(r[1])
    BY <1>2, RowsTyped DEF PageInv, Known
  <2> QED
    BY <2>1, <2>2 DEF Says, Brings
<1>12. \A r : e \in Has(r) => e \in TurnAnswers
  BY DEF Has
<1>13. \A b \in Nat : Base(b) /\ (\A k \in 1..b - 1 : e \notin Has(rows[k])) => Base(b)'
  <2> SUFFICES ASSUME NEW b \in Nat, b > 0, Base(b), \A k \in 1..b - 1 : e \notin Has(rows[k])
               PROVE  Base(b)'
    BY DEF Base
  <2>1. /\ b <= Len(rows) /\ rows[b][3] = "said"
        /\ \A i \in 1..b - 1 : IF rows[i][1] \in History THEN ~Held(rows[i]) ELSE rows[i] \in gone
    BY DEF Base
  <2>2. \A i \in 1..b - 1 : rows[i] \in Rows
    BY <2>1, RowsTyped
  <2>3. \A r \in Rows : r[1] \in History /\ ~Held(r) /\ e \notin Has(r) => ~Held(r)'
    BY <1>11
  <2>4. \A i \in 1..b - 1 : \A r \in Rows : r = rows[i] =>
           IF r[1] \in History THEN ~Held(r)' ELSE r \in gone
    BY <2>1, <2>3
  <2>5. \A i \in 1..b - 1 : IF rows[i][1] \in History
           THEN ~\E j \in 1..Len(page'.turns) : page'.turns[j].row = rows[i] /\ page'.turns[j].held
           ELSE rows[i] \in gone
    BY <2>2, <2>4 DEF Held
  <2> QED
    BY <1>1, <2>1, <2>5 DEF Base, Held
<1>14. \A i \in 1..Len(wire') : wire'[i] \in TurnAnswers => WellRead(wire'[i])
  <2>1. \A i \in 1..Len(wire) : wire[i] \in TurnAnswers => WellRead(wire[i])
    BY <1>3 DEF Reads
  <2> QED
    BY <1>4, <2>1
<1>15. /\ "page" \in calls' => ~On(wire', LatestReads)
       /\ "page" \in calls' \/ On(wire', LatestReads) => ~page'.read
  <2>1. page'.read => page.read \/ e \in LatestReads
    BY DEF Notes
  <2>2. CASE calls' = calls
    BY <1>2, <1>5, <1>6, <2>1, <2>2
  <2>3. CASE ~page.read /\ ~On(wire, LatestReads) /\ page' = page
    BY <1>2, <2>3
  <2> QED
    BY <2>2, <2>3 DEF Received
<1>16. "earlier" \in calls' <=> "earlier" \in calls
  BY DEF Received
<1>17. "earlier" \in calls' => ~On(wire', EarlierReads)
  BY <1>2, <1>5, <1>16
<1>18. "earlier" \in calls' \/ On(wire', EarlierReads) => page'.read /\ page'.earlier > 0
  <2> SUFFICES ASSUME "earlier" \in calls' \/ On(wire', EarlierReads)
               PROVE  page'.read /\ page'.earlier > 0
    OBVIOUS
  <2>1. page.read /\ page.earlier > 0 /\ ("earlier" \in calls \/ On(wire', EarlierReads))
    BY <1>2, <1>5, <1>16
  <2>2. e \notin TurnAnswers
    BY <1>2, <1>5, <1>6, <1>7, <1>8, <2>1
  <2> QED
    BY <2>1, <2>2 DEF Notes
<1>19. ~page'.read => page'.earlier = 0 /\ \A r \in Rows : Held(r)' => r[1] \notin History
  <2> SUFFICES ASSUME ~page'.read
               PROVE  page'.earlier = 0 /\ \A r \in Rows : Held(r)' => r[1] \notin History
    OBVIOUS
  <2>1. ~page.read /\ (e \in TurnAnswers => e.kind # "page")
    BY DEF Notes
  <2>2. e \notin TurnAnswers
    BY <1>2, <1>5, <1>7, <1>8, <2>1
  <2>3. page'.earlier = 0
    BY <1>5, <2>1, <2>2 DEF Notes
  <2>4. \A r \in Rows : Held(r)' => r[1] \notin History
    BY <1>5, <1>11, <1>12, <2>1, <2>2
  <2> QED
    BY <2>3, <2>4
<1>20. e \in TurnAnswers => /\ e.earlier \in Nat /\ Base(e.earlier)
                            /\ \A k \in 1..e.earlier - 1 : e \notin Has(rows[k])
  <2>1. 1 \in 1..Len(wire)
    BY <1>1, PoppedAt
  <2>2. \A i \in 1..Len(wire) : wire[i] \in TurnAnswers =>
          /\ Base(wire[i].earlier)
          /\ \A k \in 1..wire[i].earlier - 1 : wire[i] \notin Has(rows[k])
    BY <1>3 DEF Reads
  <2> QED
    BY <1>1, <2>1, <2>2 DEF TurnAnswers
<1>21. Base(page.earlier)'
  <2>1. page.earlier \in Nat
    BY DEF Shape, PageShape, Pages
  <2>2. PICK b : b = page'.earlier
    OBVIOUS
  <2>3. \/ b = 0
        \/ e \in TurnAnswers /\ b = e.earlier
        \/ b = page.earlier /\ \A r : e \notin Has(r)
    BY <1>12, <2>2 DEF Notes
  <2>4. Base(b)'
    <3>1. CASE b = 0
      BY <3>1 DEF Base
    <3>2. CASE e \in TurnAnswers /\ b = e.earlier
      BY <1>13, <1>20, <3>2
    <3>3. CASE b = page.earlier /\ \A r : e \notin Has(r)
      BY <1>5, <1>13, <2>1, <3>3
    <3> QED
      BY <2>3, <3>1, <3>2, <3>3
  <2> QED
    BY <2>2, <2>4
<1>22. ASSUME NEW i \in 1..Len(wire'), wire'[i] \in TurnAnswers
       PROVE  /\ Base(wire[i].earlier)'
              /\ \A k \in 1..wire'[i].earlier - 1 : wire'[i] \notin Has(rows'[k])
              /\ wire'[i].kind = "earlier" =>
                    /\ wire'[i].asked = page'.earlier
                    /\ \A r \in Rows : wire'[i] \in Has(r) =>
                          r[1] \in History /\ ~Held(r)' /\ ~Held(Said(r[1]))'
  <2>1. e \notin TurnAnswers
    BY <1>10, <1>22 DEF On
  <2>2. PICK l \in 1..Len(wire) : wire'[i] = wire[l]
    BY <1>4
  <2>3. PICK a, b : a = wire[l] /\ b = a.earlier
    OBVIOUS
  <2>4. /\ Base(b) /\ b \in Nat
        /\ \A k \in 1..b - 1 : a \notin Has(rows[k])
        /\ a.kind = "earlier" =>
              /\ a.asked = page.earlier
              /\ \A r \in Rows : a \in Has(r) =>
                    r[1] \in History /\ ~Held(r) /\ ~Held(Said(r[1]))
    BY <1>3, <1>22, <2>2, <2>3 DEF Reads, TurnAnswers
  <2>5. Base(b)'
    BY <1>12, <1>13, <2>1, <2>4
  <2>6. Base(wire[i].earlier)'
    BY <2>2, <2>3, <2>5
  <2>7. \A r \in Rows : r[1] \in History /\ ~Held(r) => ~Held(r)'
    BY <1>11, <1>12, <2>1
  <2>8. \A r \in Rows : Said(r[1]) \in Rows /\ Said(r[1])[1] = r[1]
    BY RowsTyped
  <2>9. \A r \in Rows : r[1] \in History /\ ~Held(Said(r[1])) => ~Held(Said(r[1]))'
    <3> SUFFICES ASSUME NEW r \in Rows, r[1] \in History, ~Held(Said(r[1]))
                 PROVE  ~Held(Said(r[1]))'
      OBVIOUS
    <3>1. PICK s \in Rows : s = Said(r[1]) /\ s[1] \in History
      BY <2>8
    <3> QED
      BY <2>7, <3>1
  <2>10. page'.earlier = page.earlier
    BY <2>1 DEF Notes
  <2>11. a.kind = "earlier" =>
              /\ a.asked = page'.earlier
              /\ \A r \in Rows : a \in Has(r) =>
                    r[1] \in History /\ ~Held(r)' /\ ~Held(Said(r[1]))'
    BY <2>4, <2>7, <2>9, <2>10
  <2> QED
    BY <1>1, <2>2, <2>3, <2>4, <2>6, <2>11
<1> QED
  BY <1>6, <1>14, <1>15, <1>17, <1>18, <1>19, <1>21, <1>22 DEF Reads

\* All that is said of what is on its way stays true of the rest, if the page
\* draws what it should.
LEMMA ReceivedInv ==
    ASSUME Shape, CoreInv, PageInv, NEW e, Received(e), Draws(e), Notes(e),
           TurnShape', Once', RunsFollow'
    PROVE  PageInv'
<1>1. EchoPlace' /\ Ways' /\ Finished' /\ Answers'
  BY ReceivedEcho, ReceivedWays, ReceivedAnswers
<1>2. Announced' /\ Order' /\ Known'
  BY ReceivedAnnounced, ReceivedOrder, ReceivedKnown
<1>3. Dropped' /\ Reads'
  BY ReceivedDropped, ReceivedReads
<1> QED
  BY <1>1, <1>2, <1>3 DEF PageInv

\* What kind of event it is decides what it may be.
LEMMA UserHead ==
    ASSUME PageInv, NEW e, Received(e), NEW m \in Msgs, e \in Users(m)
    PROVE  /\ \A k : e \in Users(k) => k = m
           /\ ~On(wire, Takes(m)) /\ ~On(wire, Offers(m))
           /\ \A k : e \notin Takes(k) /\ e \notin Offers(k)
           /\ \A r : e \notin Drops(r)
           /\ e \in Says(Said(m)) /\ On(wire, Users(m))
<1>1. e.kind = "user" /\ \A k : e \in Users(k) => k = m
  BY KindOf
<1>2. \A k : e \notin Takes(k) \cup Finals(k) /\ e \notin Offers(k)
  BY <1>1, KindOf
<1>3. \A r : e \notin Drops(r)
  BY <1>1, KindOf
<1>4. e \in Says(Said(m))
  BY KindParts
<1>5. Popped(wire, wire') /\ wire[1] \in Users(m)
  BY DEF Received
<1>6. InOrder(Said(m), m)
  <2>1. Said(m) \in Rows /\ Said(m)[1] = m
    BY DEF Rows, Said
  <2> QED
    BY <2>1 DEF PageInv, Order
<1>7. Ordered(wire, Takes(m), Users(m)) /\ Ordered(wire, Offers(m), Users(m))
  BY <1>6 DEF InOrder
<1>8. ~On(wire, Takes(m)) /\ ~On(wire, Offers(m))
  BY <1>5, <1>7, OrderedPopped
<1>9. On(wire, Users(m))
  BY ReceivedOn
<1> QED
  BY <1>1, <1>2, <1>3, <1>4, <1>8, <1>9

\* What the page draws names rows.
LEMMA TurnsTyped ==
    ASSUME Shape
    PROVE  /\ page.turns \in Seq(Turns) /\ Len(page.turns) \in Nat
           /\ \A i \in 1..Len(page.turns) :
                 /\ page.turns[i] \in Turns /\ page.turns[i].row \in Rows
                 /\ page.turns[i].row[1] \in Msgs
<1>1. page.turns \in Seq(Turns)
  BY DEF Shape, PageShape, Pages
<1>2. \A i \in 1..Len(page.turns) : page.turns[i] \in Turns
  BY <1>1
<1>3. \A t \in Turns : t.row \in Rows
  BY DEF Turns
<1> QED
  BY <1>1, <1>2, <1>3, RowsTyped

\* Turns taken off leave the others as they were.
LEMMA SubDraws ==
    ASSUME Shape, PageInv, NEW e, Received(e), NEW f, Within(page'.turns, page.turns, f),
           \A m \in Msgs : e \in Takes(m) => ~EchoOf(m)',
           \A m \in Msgs : e \notin Users(m),
           \A r \in Rows : e \in Drops(r) => ~Held(r)'
    PROVE  Draws(e) /\ TurnShape' /\ Once' /\ RunsFollow'
<1>1. /\ f \in [1..Len(page'.turns) -> 1..Len(page.turns)]
      /\ \A k \in 1..Len(page'.turns) : page'.turns[k] = page.turns[f[k]]
      /\ \A k, l \in 1..Len(page'.turns) : k < l => f[k] < f[l]
  BY DEF Within
<1>2. \A k \in 1..Len(page'.turns) :
          f[k] \in 1..Len(page.turns) /\ page'.turns[k] = page.turns[f[k]]
  BY <1>1
<1>3. /\ \A r : Held(r)' => Held(r)
      /\ \A m : Unheld(m)' => Unheld(m)
      /\ \A m : EchoOf(m)' => EchoOf(m)
      /\ \A m : PendOf(m)' => PendOf(m)
  <2>1. \A k \in 1..Len(page'.turns) : \E i \in 1..Len(page.turns) : page'.turns[k] = page.turns[i]
    BY <1>2
  <2>2. \A r : Held(r)' => Held(r)
    BY <2>1 DEF Held
  <2>3. \A m : Unheld(m)' => Unheld(m)
    BY <2>1 DEF Unheld
  <2>4. \A m : EchoOf(m)' => EchoOf(m)
    BY <2>1 DEF EchoOf, IsEcho
  <2>5. \A m : PendOf(m)' => PendOf(m)
    BY <2>1 DEF PendOf, Pending
  <2> QED
    BY <2>2, <2>3, <2>4, <2>5
<1>4. Draws(e)
  BY <1>3 DEF Draws
<1>5. TurnShape'
  <2>1. TurnShape
    BY DEF PageInv
  <2>2. ASSUME NEW k \in 1..Len(page'.turns)
        PROVE  LET t == page'.turns[k]
               IN  /\ ~t.held => t.row[3] = "said" /\ (t.own <=> ~t.item)
                   /\ t.own => t.row[1] \in Own
    <3>1. PICK i \in 1..Len(page.turns) : page'.turns[k] = page.turns[i]
      BY <1>2
    <3> QED
      BY <2>1, <3>1 DEF TurnShape
  <2> QED
    BY <2>2 DEF TurnShape
<1>6. \A k, l \in 1..Len(page'.turns) : f[k] < f[l] => k < l
  <2> SUFFICES ASSUME NEW k \in 1..Len(page'.turns), NEW l \in 1..Len(page'.turns),
                      f[k] < f[l], ~(k < l)
               PROVE  FALSE
    OBVIOUS
  <2>1. f[k] \in Nat /\ f[l] \in Nat /\ k \in Nat /\ l \in Nat
    BY <1>2
  <2>2. l < k \/ l = k
    BY <2>1
  <2> QED
    BY <1>1, <2>1, <2>2
<1>7. RunsFollow'
  <2> SUFFICES ASSUME NEW i \in 1..Len(page'.turns), NEW j \in 1..Len(page'.turns),
                      page'.turns[i].row[3] # "said",
                      page'.turns[j].row = Said(page'.turns[i].row[1])
               PROVE  j < i
    BY DEF RunsFollow
  <2>1. PICK k \in 1..Len(page.turns), l \in 1..Len(page.turns) :
            /\ k = f[i] /\ l = f[j]
            /\ page'.turns[i] = page.turns[k] /\ page'.turns[j] = page.turns[l]
    BY <1>2
  <2>2. l < k
    BY <2>1 DEF PageInv, RunsFollow
  <2> QED
    BY <1>6, <2>1, <2>2
<1>8. Once'
  <2> SUFFICES ASSUME NEW i \in 1..Len(page'.turns), NEW j \in 1..Len(page'.turns),
                      i # j, page'.turns[i].row = page'.turns[j].row
               PROVE  /\ IsEcho(page'.turns[i]) <=> ~IsEcho(page'.turns[j])
                      /\ On(wire', Takes(page'.turns[i].row[1]))
    BY DEF Once
  <2>1. PICK k \in 1..Len(page.turns), l \in 1..Len(page.turns) :
            /\ k = f[i] /\ l = f[j]
            /\ page'.turns[i] = page.turns[k] /\ page'.turns[j] = page.turns[l]
    BY <1>2
  <2>2. k # l
    <3>1. i < j \/ j < i
      OBVIOUS
    <3> QED
      BY <1>1, <2>1, <3>1
  <2>3. /\ IsEcho(page.turns[k]) <=> ~IsEcho(page.turns[l])
        /\ On(wire, Takes(page.turns[k].row[1]))
    BY <2>1, <2>2 DEF PageInv, Once
  <2>4. PICK m \in Msgs : m = page.turns[k].row[1]
    BY TurnsTyped
  <2>5. EchoOf(m)'
    <3>1. \A x \in 1..Len(page.turns) : IsEcho(page.turns[x]) => page.turns[x].row = Said(page.turns[x].row[1])
      BY TurnsTyped, RowsTyped DEF PageInv, TurnShape, IsEcho
    <3>2. page.turns[k].row = Said(m) /\ page.turns[l].row = Said(m)
      BY <2>1, <2>3, <2>4, <3>1
    <3> QED
      BY <2>1, <2>3, <3>2 DEF EchoOf
  <2>6. e \notin Takes(m) /\ On(wire, Takes(m))
    BY <2>3, <2>4, <2>5
  <2>7. On(wire', Takes(m))
    BY <2>6, ReceivedOn
  <2> QED
    BY <2>1, <2>3, <2>4, <2>7
<1> QED
  BY <1>4, <1>5, <1>7, <1>8

\* Nothing drawn anew: as long as it is not told of, taken back or deleted.
LEMMA SameDraws ==
    ASSUME Shape, PageInv, NEW e, Received(e), page'.turns = page.turns,
           \A m \in Msgs : e \in Takes(m) => ~EchoOf(m),
           \A m \in Msgs : e \notin Users(m),
           \A r \in Rows : e \notin Drops(r)
    PROVE  Draws(e) /\ TurnShape' /\ Once' /\ RunsFollow'
<1>1. PICK f : f = [i \in 1..Len(page.turns) |-> i]
  OBVIOUS
<1>2. Within(page'.turns, page.turns, f)
  BY <1>1, TurnsTyped DEF Within
<1>3. \A m : EchoOf(m)' <=> EchoOf(m)
  BY DEF EchoOf, IsEcho
<1> QED
  BY <1>2, <1>3, SubDraws

\* A row drawn anew, where nothing of its run is above its message.
LEMMA PutDraws ==
    ASSUME Shape, PageInv, NEW e, Received(e), NEW t \in Turns, NEW n \in 0..Len(page.turns),
           Inserted(page.turns, n, page'.turns, t), t.held, ~t.own, ~t.item,
           \A i \in 1..Len(page.turns) : page.turns[i].row # t.row,
           t.row[3] # "said" => \A i \in n + 1..Len(page.turns) : page.turns[i].row # Said(t.row[1]),
           \A i \in 1..n : page.turns[i].row[3] # "said" => t.row # Said(page.turns[i].row[1]),
           e \in Says(t.row), \A m \in Msgs : e \notin Takes(m),
           \A r \in Rows : e \notin Drops(r),
           \A m \in Msgs : e \in Users(m) => t.row = Said(m)
    PROVE  Draws(e) /\ TurnShape' /\ Once' /\ RunsFollow'
<1>1. page.turns \in Seq(Turns) /\ Len(page.turns) \in Nat
  BY TurnsTyped
<1>2. PICK g : InsertedAt(page.turns, n, page'.turns, t, g)
  BY <1>1, InsertedFacts
<1>3. /\ g \in [1..Len(page.turns) -> 1..Len(page'.turns)]
      /\ \A i \in 1..Len(page.turns) : page'.turns[g[i]] = page.turns[i]
      /\ \A k \in 1..Len(page'.turns) : k = n + 1 \/ \E i \in 1..Len(page.turns) : g[i] = k
      /\ \A i, j \in 1..Len(page.turns) : i < j => g[i] < g[j]
      /\ n + 1 \in 1..Len(page'.turns) /\ page'.turns[n + 1] = t
      /\ \A i \in 1..Len(page.turns) : g[i] # n + 1 /\ (g[i] < n + 1 <=> i <= n)
  BY <1>2 DEF InsertedAt
<1>4. \A k \in 1..Len(page'.turns) :
          \/ k = n + 1 /\ page'.turns[k] = t
          \/ \E i \in 1..Len(page.turns) : g[i] = k /\ page'.turns[k] = page.turns[i]
  BY <1>3
<1>5. /\ \A r : Held(r)' => Held(r) \/ r = t.row
      /\ \A m : Unheld(m)' => Unheld(m) /\ Said(m) # t.row
      /\ \A m : EchoOf(m)' => EchoOf(m) /\ Said(m) # t.row
      /\ \A m : PendOf(m)' => PendOf(m)
      /\ Held(t.row)'
  <2>1. \A r : Held(r)' => Held(r) \/ r = t.row
    BY <1>4 DEF Held
  <2>2. ASSUME NEW m, Unheld(m)' PROVE Unheld(m) /\ Said(m) # t.row
    <3>1. PICK k \in 1..Len(page'.turns) : page'.turns[k].row = Said(m) /\ ~page'.turns[k].held
      BY <2>2 DEF Unheld
    <3>2. page'.turns[k] # t
      BY <3>1
    <3>3. PICK i \in 1..Len(page.turns) : g[i] = k /\ page'.turns[k] = page.turns[i]
      BY <1>4, <3>2
    <3> QED
      BY <3>1, <3>3 DEF Unheld
  <2>3. ASSUME NEW m, EchoOf(m)' PROVE EchoOf(m) /\ Said(m) # t.row
    <3>1. PICK k \in 1..Len(page'.turns) :
              page'.turns[k].row = Said(m) /\ page'.turns[k].own /\ ~page'.turns[k].held
      BY <2>3 DEF EchoOf, IsEcho
    <3>2. page'.turns[k] # t
      BY <3>1
    <3>3. PICK i \in 1..Len(page.turns) : g[i] = k /\ page'.turns[k] = page.turns[i]
      BY <1>4, <3>2
    <3> QED
      BY <3>1, <3>3 DEF EchoOf, IsEcho
  <2>4. ASSUME NEW m, PendOf(m)' PROVE PendOf(m)
    <3>1. PICK k \in 1..Len(page'.turns) :
              page'.turns[k].row = Said(m) /\ page'.turns[k].item /\ ~page'.turns[k].held
      BY <2>4 DEF PendOf, Pending
    <3>2. page'.turns[k] # t
      BY <3>1
    <3>3. PICK i \in 1..Len(page.turns) : g[i] = k /\ page'.turns[k] = page.turns[i]
      BY <1>4, <3>2
    <3> QED
      BY <3>1, <3>3 DEF PendOf, Pending
  <2>5. Held(t.row)'
    BY <1>3 DEF Held
  <2> QED
    BY <2>1, <2>2, <2>3, <2>4, <2>5
<1>6. Draws(e)
  BY <1>5 DEF Draws
<1>7. TurnShape'
  <2>1. TurnShape
    BY DEF PageInv
  <2>2. ASSUME NEW k \in 1..Len(page'.turns)
        PROVE  /\ ~page'.turns[k].held => /\ page'.turns[k].row[3] = "said"
                                          /\ page'.turns[k].own <=> ~page'.turns[k].item
               /\ page'.turns[k].own => page'.turns[k].row[1] \in Own
    <3>1. CASE page'.turns[k] = t
      BY <3>1
    <3>2. ASSUME NEW i \in 1..Len(page.turns), page'.turns[k] = page.turns[i]
          PROVE  /\ ~page'.turns[k].held => /\ page'.turns[k].row[3] = "said"
                                            /\ page'.turns[k].own <=> ~page'.turns[k].item
                 /\ page'.turns[k].own => page'.turns[k].row[1] \in Own
      BY <2>1, <3>2 DEF TurnShape
    <3> QED
      BY <1>4, <3>1, <3>2
  <2> QED
    BY <2>2 DEF TurnShape
<1>8. RunsFollow'
  <2> SUFFICES ASSUME NEW i \in 1..Len(page'.turns), NEW j \in 1..Len(page'.turns),
                      page'.turns[i].row[3] # "said",
                      page'.turns[j].row = Said(page'.turns[i].row[1])
               PROVE  j < i
    BY DEF RunsFollow
  <2>1. Said(page'.turns[i].row[1])[3] = "said"
    BY DEF Said
  <2>2. CASE i = n + 1 /\ j = n + 1
    BY <1>3, <2>1, <2>2
  <2>3. ASSUME i = n + 1, NEW l \in 1..Len(page.turns), g[l] = j, page'.turns[j] = page.turns[l]
        PROVE  j < i
    <3>1. l \notin n + 1..Len(page.turns)
      BY <1>3, <2>3
    <3>2. l <= n
      BY <3>1
    <3> QED
      BY <1>3, <2>3, <3>2
  <2>4. ASSUME j = n + 1, NEW k \in 1..Len(page.turns), g[k] = i, page'.turns[i] = page.turns[k]
        PROVE  j < i
    <3>1. k \notin 1..n
      BY <1>3, <2>4
    <3>2. ~(k <= n)
      BY <3>1
    <3>3. ~(g[k] < n + 1) /\ g[k] # n + 1
      BY <1>3, <3>2
    <3> QED
      BY <2>4, <3>3
  <2>5. ASSUME NEW k \in 1..Len(page.turns), g[k] = i, page'.turns[i] = page.turns[k],
               NEW l \in 1..Len(page.turns), g[l] = j, page'.turns[j] = page.turns[l]
        PROVE  j < i
    <3>1. l < k
      BY <2>5 DEF PageInv, RunsFollow
    <3> QED
      BY <1>3, <2>5, <3>1
  <2> QED
    BY <1>4, <2>2, <2>3, <2>4, <2>5
<1>9. Once'
  <2> SUFFICES ASSUME NEW i \in 1..Len(page'.turns), NEW j \in 1..Len(page'.turns),
                      i # j, page'.turns[i].row = page'.turns[j].row
               PROVE  /\ IsEcho(page'.turns[i]) <=> ~IsEcho(page'.turns[j])
                      /\ On(wire', Takes(page'.turns[i].row[1]))
    BY DEF Once
  <2>0. ASSUME NEW k \in 1..Len(page'.turns), k # n + 1 PROVE page'.turns[k].row # t.row
    <3>1. PICK x \in 1..Len(page.turns) : g[x] = k /\ page'.turns[k] = page.turns[x]
      BY <1>4, <2>0
    <3> QED
      BY <3>1
  <2>1. i # n + 1 /\ j # n + 1
    <3>1. page'.turns[n + 1].row = t.row
      BY <1>3
    <3> QED
      BY <2>0, <3>1
  <2>2. PICK k \in 1..Len(page.turns) : g[k] = i /\ page'.turns[i] = page.turns[k]
    BY <1>4, <2>1
  <2>3. PICK l \in 1..Len(page.turns) : g[l] = j /\ page'.turns[j] = page.turns[l]
    BY <1>4, <2>1
  <2>4. /\ IsEcho(page.turns[k]) <=> ~IsEcho(page.turns[l])
        /\ On(wire, Takes(page.turns[k].row[1]))
    BY <2>2, <2>3 DEF PageInv, Once
  <2>5. PICK m \in Msgs : m = page.turns[k].row[1]
    BY TurnsTyped
  <2>6. On(wire', Takes(m))
    BY <2>4, <2>5, ReceivedOn
  <2> QED
    BY <2>2, <2>3, <2>4, <2>5, <2>6
<1> QED
  BY <1>6, <1>7, <1>8, <1>9

\* A turn claimed is the message's only one.
LEMMA ClaimDraws ==
    ASSUME Shape, PageInv, NEW e, Received(e), NEW m \in Msgs, e \in Users(m),
           NEW i \in 1..Len(page.turns), page.turns[i].row = Said(m),
           Claimed(page.turns, i, page'.turns)
    PROVE  Draws(e) /\ TurnShape' /\ Once' /\ RunsFollow'
<1>1. /\ \A k : e \in Users(k) => k = m
      /\ ~On(wire, Takes(m))
      /\ \A k : e \notin Takes(k)
      /\ \A r : e \notin Drops(r)
      /\ e \in Says(Said(m))
  BY UserHead
<1>2. /\ Len(page'.turns) = Len(page.turns)
      /\ \A k \in 1..Len(page.turns) : k # i => page'.turns[k] = page.turns[k]
      /\ page'.turns[i].row = Said(m) /\ page'.turns[i].held
      /\ page'.turns[i].own = page.turns[i].own /\ page'.turns[i].item = page.turns[i].item
  BY DEF Claimed
<1>3. \A k \in 1..Len(page.turns) : page'.turns[k].row = page.turns[k].row
  BY <1>2
<1>4. \A k \in 1..Len(page.turns) : k # i => page.turns[k].row # Said(m)
  <2> SUFFICES ASSUME NEW k \in 1..Len(page.turns), k # i, page.turns[k].row = Said(m)
               PROVE  FALSE
    OBVIOUS
  <2>1. On(wire, Takes(page.turns[k].row[1]))
    BY DEF PageInv, Once
  <2>2. page.turns[k].row[1] = m
    BY DEF Said
  <2> QED
    BY <1>1, <2>1, <2>2
<1>5. /\ \A r : Held(r)' => Held(r) \/ r = Said(m)
      /\ \A k : Unheld(k)' => Unheld(k) /\ Said(k) # Said(m)
      /\ \A k : EchoOf(k)' => EchoOf(k) /\ Said(k) # Said(m)
      /\ \A k : PendOf(k)' => PendOf(k)
      /\ Held(Said(m))'
  <2>1. \A r : Held(r)' => Held(r) \/ r = Said(m)
    BY <1>2 DEF Held
  <2>2. \A k : Unheld(k)' => Unheld(k) /\ Said(k) # Said(m)
    BY <1>2, <1>4 DEF Unheld
  <2>3. \A k : EchoOf(k)' => EchoOf(k) /\ Said(k) # Said(m)
    BY <1>2, <1>4 DEF EchoOf, IsEcho
  <2>4. \A k : PendOf(k)' => PendOf(k)
    BY <1>2 DEF PendOf, Pending
  <2>5. Held(Said(m))'
    BY <1>2 DEF Held
  <2> QED
    BY <2>1, <2>2, <2>3, <2>4, <2>5
<1>6. Draws(e)
  BY <1>1, <1>5 DEF Draws
<1>7. TurnShape'
  <2>1. TurnShape
    BY DEF PageInv
  <2>2. ASSUME NEW k \in 1..Len(page'.turns)
        PROVE  /\ ~page'.turns[k].held => /\ page'.turns[k].row[3] = "said"
                                          /\ page'.turns[k].own <=> ~page'.turns[k].item
               /\ page'.turns[k].own => page'.turns[k].row[1] \in Own
    <3>1. CASE k = i
      BY <1>2, <1>3, <2>1, <3>1 DEF TurnShape
    <3>2. CASE k # i
      BY <1>2, <2>1, <3>2 DEF TurnShape
    <3> QED
      BY <3>1, <3>2
  <2> QED
    BY <2>2 DEF TurnShape
<1>8. RunsFollow'
  BY <1>2, <1>3 DEF PageInv, RunsFollow
<1>9. Once'
  <2> SUFFICES ASSUME NEW k \in 1..Len(page'.turns), NEW l \in 1..Len(page'.turns),
                      k # l, page'.turns[k].row = page'.turns[l].row
               PROVE  /\ IsEcho(page'.turns[k]) <=> ~IsEcho(page'.turns[l])
                      /\ On(wire', Takes(page'.turns[k].row[1]))
    BY DEF Once
  <2>1. page.turns[k].row = page.turns[l].row /\ k \in 1..Len(page.turns) /\ l \in 1..Len(page.turns)
    BY <1>2, <1>3
  <2>2. /\ IsEcho(page.turns[k]) <=> ~IsEcho(page.turns[l])
        /\ On(wire, Takes(page.turns[k].row[1]))
    BY <2>1 DEF PageInv, Once
  <2>3. k # i /\ l # i
    BY <1>4, <2>1
  <2>4. page'.turns[k] = page.turns[k] /\ page'.turns[l] = page.turns[l]
    BY <1>2, <2>1, <2>3
  <2>5. PICK x : x = page.turns[k].row[1]
    OBVIOUS
  <2>6. On(wire', Takes(x))
    BY <1>1, <2>2, <2>5, ReceivedOn
  <2> QED
    BY <2>2, <2>4, <2>5, <2>6
<1> QED
  BY <1>6, <1>7, <1>8, <1>9

\* A turn that is not drawn from a row waits in the queue or is an echo.
LEMMA LooseTurns ==
    ASSUME Shape, PageInv, NEW i \in 1..Len(page.turns)
    PROVE  /\ page.turns[i].row[3] # "said" => page.turns[i].held /\ Held(page.turns[i].row)
           /\ ~page.turns[i].held =>
                 /\ page.turns[i].row = Said(page.turns[i].row[1]) /\ page.turns[i].row[1] \in Msgs
                 /\ IsEcho(page.turns[i]) \/ Pending(page.turns[i])
<1>1. /\ ~page.turns[i].held => /\ page.turns[i].row[3] = "said"
                                /\ page.turns[i].own <=> ~page.turns[i].item
  BY DEF PageInv, TurnShape
<1>2. page.turns[i].row \in Rows /\ page.turns[i].row[1] \in Msgs
  BY TurnsTyped
<1>3. page.turns[i].row[3] # "said" => page.turns[i].held /\ Held(page.turns[i].row)
  BY <1>1 DEF Held
<1>4. page.turns[i].row[3] = "said" => page.turns[i].row = Said(page.turns[i].row[1])
  BY <1>2, RowsTyped
<1>5. ~page.turns[i].held => IsEcho(page.turns[i]) \/ Pending(page.turns[i])
  BY <1>1 DEF IsEcho, Pending
<1> QED
  BY <1>1, <1>2, <1>3, <1>4, <1>5

\* Nothing of its run is drawn before a message is told of.
LEMMA UserFirst ==
    ASSUME Shape, PageInv, NEW e, Received(e), NEW m \in Msgs, e \in Users(m),
           NEW i \in 1..Len(page.turns), page.turns[i].row[3] # "said"
    PROVE  page.turns[i].row[1] # m
<1> SUFFICES ASSUME page.turns[i].row[1] = m
             PROVE  FALSE
  OBVIOUS
<1>1. PICK r : r = page.turns[i].row
  OBVIOUS
<1>2. r \in Rows /\ r[1] = m /\ r[3] # "said" /\ Held(r)
  BY <1>1, TurnsTyped, LooseTurns
<1>3. InOrder(r, m)
  BY <1>2 DEF PageInv, Order
<1>4. ~On(wire, Users(m))
  BY <1>2, <1>3 DEF InOrder
<1> QED
  BY <1>4, UserHead

\* A broadcast of a message's row (or the answer that says as much).
LEMMA UserDraws ==
    ASSUME Shape, PageInv, NEW e, Received(e), NEW m \in Msgs, e \in Users(m),
           PersistedMakes(page.turns, e, page'.turns)
    PROVE  Draws(e) /\ TurnShape' /\ Once' /\ RunsFollow'
<1>1. /\ \A k : e \in Users(k) => k = m
      /\ ~On(wire, Takes(m)) /\ On(wire, Users(m))
      /\ \A k : e \notin Takes(k)
      /\ \A r : e \notin Drops(r)
      /\ e \in Says(Said(m))
  BY UserHead
<1>2. e.msg = m /\ e \in UserEvents
  BY KindOf
<1> DEFINE shown  == ShownOf(page.turns, m)
           queued == {i \in DrawnOf(page.turns, m) : e.item /\ Pending(page.turns[i])}
           mine   == {i \in DrawnOf(page.turns, m) : page.turns[i].own /\ ~page.turns[i].held}
<1>3. /\ shown # {} => page'.turns = page.turns
      /\ shown = {} /\ queued # {} => \E i \in queued : Claimed(page.turns, i, page'.turns)
      /\ shown = {} /\ queued = {} /\ mine # {} => \E i \in mine : Claimed(page.turns, i, page'.turns)
      /\ shown = {} /\ queued = {} /\ mine = {} =>
            \E t \in Turns :
               /\ t.row = Said(m) /\ t.held /\ ~t.own /\ ~t.item
               /\ Inserted(page.turns, IF e.dispatch = "interjected" THEN AboveWaiting(page.turns)
                                       ELSE Len(page.turns), page'.turns, t)
  BY <1>2 DEF PersistedMakes
<1>4. CASE shown # {}
  <2>1. page'.turns = page.turns
    BY <1>3, <1>4
  <2>2. PICK i \in 1..Len(page.turns) : page.turns[i].row = Said(m) /\ page.turns[i].held
    BY <1>4 DEF ShownOf, DrawnOf
  <2>3. Said(m)[1] = m
    BY DEF Said
  <2>4. ~Unheld(m)
    <3> SUFFICES ASSUME NEW j \in 1..Len(page.turns), page.turns[j].row = Said(m), ~page.turns[j].held
                 PROVE  FALSE
      BY DEF Unheld
    <3>1. On(wire, Takes(page.turns[i].row[1]))
      BY <2>2 DEF PageInv, Once
    <3> QED
      BY <1>1, <2>2, <2>3, <3>1
  <2>5. ~EchoOf(m)
    BY <2>4 DEF EchoOf, Unheld, IsEcho
  <2>6. /\ \A r : Held(r)' <=> Held(r)
        /\ \A k : Unheld(k)' <=> Unheld(k)
        /\ \A k : EchoOf(k)' <=> EchoOf(k)
        /\ \A k : PendOf(k)' <=> PendOf(k)
    BY <2>1 DEF Held, Unheld, EchoOf, PendOf, IsEcho
  <2>7. Held(Said(m))
    BY <2>2 DEF Held
  <2>8. Draws(e)
    BY <1>1, <2>4, <2>5, <2>6, <2>7 DEF Draws
  <2>9. TurnShape' /\ RunsFollow'
    BY <2>1 DEF PageInv, TurnShape, RunsFollow
  <2>10. \A k : On(wire, Takes(k)) => On(wire', Takes(k))
    BY <1>1, ReceivedOn
  <2>11. Once'
    BY <2>1, <2>10 DEF PageInv, Once, IsEcho
  <2> QED
    BY <2>8, <2>9, <2>11
<1>5. CASE shown = {} /\ (queued # {} \/ mine # {})
  <2>1. PICK i : i \in queued \cup mine /\ Claimed(page.turns, i, page'.turns)
    BY <1>3, <1>5
  <2>2. i \in 1..Len(page.turns) /\ page.turns[i].row = Said(m)
    BY <2>1 DEF DrawnOf
  <2> QED
    BY <2>1, <2>2, ClaimDraws
<1>6. CASE shown = {} /\ queued = {} /\ mine = {}
  <2>1. PICK t \in Turns :
            /\ t.row = Said(m) /\ t.held /\ ~t.own /\ ~t.item
            /\ Inserted(page.turns, IF e.dispatch = "interjected" THEN AboveWaiting(page.turns)
                                    ELSE Len(page.turns), page'.turns, t)
    BY <1>3, <1>6
  <2>2. PICK n \in 0..Len(page.turns) : Inserted(page.turns, n, page'.turns, t)
    <3>1. page.turns \in Seq(Turns) /\ Len(page.turns) \in Nat
      BY TurnsTyped
    <3>2. AboveWaiting(page.turns) \in 0..Len(page.turns) /\ Len(page.turns) \in 0..Len(page.turns)
      BY <3>1, AboveFacts
    <3> QED
      BY <2>1, <3>2
  <2>3. ASSUME NEW i \in 1..Len(page.turns), page.turns[i].row = Said(m)
        PROVE  FALSE
    <3>1. ~page.turns[i].held
      BY <1>6, <2>3 DEF ShownOf, DrawnOf
    <3>2. Pending(page.turns[i])
      BY <1>6, <2>3, <3>1, LooseTurns DEF DrawnOf, IsEcho
    <3>3. ~e.item
      BY <1>6, <2>3, <3>2 DEF DrawnOf
    <3>4. e \in Announcements(m)
      BY <1>2, <3>3 DEF Announcements
    <3>5. Direct(m)
      BY <3>4, ReceivedOn DEF Direct
    <3>6. Via(m)
      BY <2>3, <3>2 DEF Via, PendOf
    <3> QED
      BY <3>5, <3>6 DEF PageInv, Ways
  <2>4. Said(m)[3] = "said" /\ Said(m)[1] = m
    BY DEF Said
  <2>5. \A i \in 1..Len(page.turns) : page.turns[i].row # t.row
    BY <2>1, <2>3
  <2>6. ASSUME NEW i \in 1..n, page.turns[i].row[3] # "said"
        PROVE  t.row # Said(page.turns[i].row[1])
    <3>1. i \in 1..Len(page.turns)
      BY TurnsTyped
    <3>2. page.turns[i].row[1] # m
      BY <2>6, <3>1, UserFirst
    <3>3. Said(page.turns[i].row[1])[1] = page.turns[i].row[1]
      BY DEF Said
    <3> QED
      BY <2>1, <2>4, <3>2, <3>3
  <2> QED
    BY <1>1, <2>1, <2>2, <2>4, <2>5, <2>6, PutDraws
<1> QED
  BY <1>4, <1>5, <1>6

\* A runner's event draws a row that was not drawn, below its message.
LEMMA RowDraws ==
    ASSUME Shape, PageInv, NEW e, Received(e), NEW r \in Rows, e \in RowEv(r),
           NEW turns, turns = LandedStep(page.turns, Turn(r)) \/ turns = Landed(page.turns, Turn(r)),
           page'.turns = turns
    PROVE  Draws(e) /\ TurnShape' /\ Once' /\ RunsFollow'
<1>1. page.turns \in Seq(Turns) /\ Len(page.turns) \in Nat
  BY TurnsTyped
<1>2. On(wire, RowEv(r))
  BY ReceivedOn
<1>3. r[3] # "said" /\ ~Held(r)
  BY <1>2 DEF PageInv, Known
<1>4. PICK t : t = Turn(r)
  OBVIOUS
<1>5. t \in Turns /\ t.row = r /\ t.held /\ ~t.own /\ ~t.item
  BY <1>4, TurnFacts
<1>6. PICK b : b = AboveWaiting(page.turns)
  OBVIOUS
<1>7. b \in 0..Len(page.turns) /\ \A i \in b + 1..Len(page.turns) : Pending(page.turns[i])
  BY <1>1, <1>6, AboveFacts
<1>8. PICK n \in 0..b :
          /\ Inserted(page.turns, n, page'.turns, t)
          /\ \A i \in n + 1..b : page.turns[i].row[3] = "told"
  <2>1. CASE turns = LandedStep(page.turns, Turn(r))
    <3>1. page'.turns = LandedStep(page.turns, t) /\ b = AboveWaiting(page.turns)
      BY <1>4, <1>6, <2>1
    <3>2. \E n \in 0..AboveWaiting(page.turns) :
             /\ Inserted(page.turns, n, LandedStep(page.turns, t), t)
             /\ \A i \in n + 1..AboveWaiting(page.turns) :
                   page.turns[i].row[3] = "told" /\ page.turns[i].row[2] = t.row[2]
      BY <1>1, <1>5, LandedStepFacts, Zenon
    <3> QED
      BY <3>1, <3>2
  <2>2. CASE turns = Landed(page.turns, Turn(r))
    <3>1. Inserted(page.turns, b, page'.turns, t)
      BY <1>1, <1>4, <1>5, <1>6, <2>2, LandedFacts
    <3>2. b \in 0..b /\ b + 1..b = {}
      BY <1>1, <1>7
    <3> QED
      BY <3>1, <3>2
  <2> QED
    BY <2>1, <2>2
<1>9. n \in 0..Len(page.turns)
  BY <1>1, <1>7, <1>8
<1>10. \A i \in 1..Len(page.turns) : page.turns[i].row # t.row
  BY <1>3, <1>5, LooseTurns
<1>11. ASSUME NEW i \in n + 1..Len(page.turns), page.turns[i].row = Said(t.row[1])
       PROVE  FALSE
  <2>1. PICK m : m = r[1]
    OBVIOUS
  <2>2. page.turns[i].row[3] = "said" /\ page.turns[i].row = Said(m)
    BY <1>5, <1>11, <2>1 DEF Said
  <2>3. i \in 1..Len(page.turns) /\ (i \in n + 1..b \/ i \in b + 1..Len(page.turns))
    BY <1>1, <1>7, <1>8
  <2>4. Pending(page.turns[i])
    BY <1>7, <1>8, <2>2, <2>3
  <2>5. Unheld(m)
    BY <2>2, <2>3, <2>4 DEF Unheld, Pending
  <2>6. InOrder(r, m)
    BY <2>1 DEF PageInv, Order
  <2>7. Led(wire, Users(m), Brings(r))
    BY <2>5, <2>6 DEF InOrder
  <2>8. wire[1] \notin Brings(r)
    BY <2>7, LedPopped DEF Received
  <2> QED
    BY <2>8, KindParts DEF Received
<1>12. e.kind \in {"turn_end", "tell_user"}
  BY KindOf
<1>13. /\ \A m : e \notin Users(m) /\ e \notin Takes(m)
       /\ \A x : e \notin Drops(x)
  BY <1>12, KindOf
<1>14. e \in Says(t.row)
  BY <1>5, KindParts
<1>15. ASSUME NEW i \in 1..n PROVE t.row # Said(page.turns[i].row[1])
  BY <1>3, <1>5 DEF Said
<1> QED
  BY <1>5, <1>8, <1>9, <1>10, <1>11, <1>13, <1>14, <1>15, PutDraws

\* Deleted rows are taken off.
LEMMA DropDraws ==
    ASSUME Shape, PageInv, NEW e, Received(e), e \in Deletions,
           DropMakes(page.turns, e.rows, page'.turns)
    PROVE  Draws(e) /\ TurnShape' /\ Once' /\ RunsFollow'
<1>1. PICK f :
          /\ Within(page'.turns, page.turns, f)
          /\ \A i \in 1..Len(page.turns) :
                ~(page.turns[i].held /\ page.turns[i].row \in e.rows)
                   <=> \E k \in 1..Len(page'.turns) : f[k] = i
  BY DEF DropMakes
<1>2. e.kind = "deleted"
  BY DEF Deletions
<1>3. \A m : e \notin Users(m) /\ e \notin Takes(m)
  BY <1>2, KindOf
<1>4. ASSUME NEW r \in Rows, e \in Drops(r) PROVE ~Held(r)'
  <2> SUFFICES ASSUME NEW k \in 1..Len(page'.turns), page'.turns[k].row = r, page'.turns[k].held
               PROVE  FALSE
    BY DEF Held
  <2>1. f[k] \in 1..Len(page.turns) /\ page'.turns[k] = page.turns[f[k]]
    BY <1>1 DEF Within
  <2>2. ~(page.turns[f[k]].held /\ page.turns[f[k]].row \in e.rows)
    BY <1>1, <2>1
  <2> QED
    BY <1>4, <2>1, <2>2 DEF Drops
<1> QED
  BY <1>1, <1>3, <1>4, SubDraws

\* One turn taken off.
LEMMA RemovedWithin ==
    ASSUME NEW S, NEW s \in Seq(S), NEW i \in 1..Len(s)
    PROVE  \E f : Within(RemoveAt(s, i), s, f) /\ \A k \in 1..Len(RemoveAt(s, i)) : f[k] # i
<1>1. PICK t : t = RemoveAt(s, i)
  OBVIOUS
<1>2. /\ Len(t) = Len(s) - 1 /\ Len(s) \in Nat /\ Len(t) \in Nat
      /\ \A k \in 1..i - 1 : t[k] = s[k]
      /\ \A k \in i..Len(s) - 1 : t[k] = s[k + 1]
  BY <1>1, RemoveAtFacts
<1>3. PICK f : f = [k \in 1..Len(t) |-> IF k < i THEN k ELSE k + 1]
  OBVIOUS
<1>4. ASSUME NEW k \in 1..Len(t)
      PROVE  f[k] \in 1..Len(s) /\ t[k] = s[f[k]] /\ f[k] # i
  <2>1. CASE k < i
    <3>1. k \in 1..i - 1
      BY <1>2, <2>1
    <3> QED
      BY <1>2, <1>3, <2>1, <3>1
  <2>2. CASE ~(k < i)
    <3>1. k \in i..Len(s) - 1
      BY <1>2, <2>2
    <3> QED
      BY <1>2, <1>3, <2>2, <3>1
  <2> QED
    BY <2>1, <2>2
<1>5. \A k, l \in 1..Len(t) : k < l => f[k] < f[l]
  BY <1>2, <1>3
<1>6. f \in [1..Len(t) -> 1..Len(s)]
  BY <1>3, <1>4
<1> QED
  BY <1>1, <1>4, <1>5, <1>6 DEF Within

\* The answer to a send: Core has told of the row, or the echo is taken back.
LEMMA SentDraws ==
    ASSUME Shape, PageInv, NEW e, Received(e), e \in SendAnswers, page' = Settle(page, e)
    PROVE  Draws(e) /\ TurnShape' /\ Once' /\ RunsFollow'
<1>1. page \in Pages
  BY DEF Shape, PageShape
<1>2. PICK m : m = e.msg
  OBVIOUS
<1>3. m \in Msgs /\ e.kind = "sent" /\ e.outcome \in {"dispatched", "failed", "queued", "interjected"}
  BY <1>2, TranscriptAssumption DEF SendAnswers
<1>4. /\ \A k : e \notin Users(k) /\ (e \in Takes(k) => k = m)
      /\ \A r : e \notin Drops(r)
  BY <1>2, <1>3, KindOf
<1>5. /\ m \notin page.sends \/ e.outcome = "failed" => page'.turns = page.turns
      /\ m \in page.sends /\ e.outcome = "dispatched" =>
            PersistedMakes(page.turns, UserEvent(m, FALSE, "dispatched"), page'.turns)
      /\ m \in page.sends /\ e.outcome \in {"queued", "interjected"} =>
            LET echoes == {i \in 1..Len(page.turns) :
                    page.turns[i].row = Said(m) /\ page.turns[i].own /\ ~page.turns[i].held}
            IN  IF echoes = {} THEN page'.turns = page.turns
                ELSE \E i \in echoes : page'.turns = RemoveAt(page.turns, i)
  <2>1. PICK p, q : p = page /\ q = page' /\ q = Settle(p, e) /\ p \in Pages
    BY <1>1
  <2>2. e.msg \notin p.sends \/ e.outcome = "failed" => Settle(p, e).turns = p.turns
    BY <2>1, SettleFacts
  <2>3. e.msg \in p.sends /\ e.outcome = "dispatched" =>
              PersistedMakes(p.turns, UserEvent(e.msg, FALSE, "dispatched"), Settle(p, e).turns)
    BY <2>1, SettleFacts
  <2>4. e.msg \in p.sends /\ e.outcome \in {"queued", "interjected"} =>
              LET echoes == {i \in 1..Len(p.turns) :
                      p.turns[i].row = Said(e.msg) /\ p.turns[i].own /\ ~p.turns[i].held}
              IN  IF echoes = {} THEN Settle(p, e).turns = p.turns
                  ELSE \E i \in echoes : Settle(p, e).turns = RemoveAt(p.turns, i)
    BY <2>1, SettleFacts, Zenon
  <2>5. /\ e.msg = m /\ p.turns = page.turns /\ p.sends = page.sends
        /\ Settle(p, e).turns = page'.turns
    BY <1>2, <2>1
  <2> QED
    BY <2>2, <2>3, <2>4, <2>5, Zenon
<1>6. CASE m \notin page.sends
  <2>1. ASSUME e \in Takes(m), EchoOf(m) PROVE FALSE
    <3>1. m \in lost
      BY <1>3, <1>6, <2>1 DEF PageInv, EchoPlace
    <3>2. Via(m)
      BY <2>1, ReceivedOn DEF Via
    <3> QED
      BY <1>3, <3>1, <3>2 DEF PageInv, Ways
  <2>2. \A k \in Msgs : e \in Takes(k) => ~EchoOf(k)
    BY <1>4, <2>1
  <2> QED
    BY <1>4, <1>5, <1>6, <2>2, SameDraws
<1>7. CASE e.outcome = "failed"
  <2>1. \A k \in Msgs : e \notin Takes(k)
    BY <1>7 DEF Takes
  <2> QED
    BY <1>4, <1>5, <1>7, <2>1, SameDraws
<1>8. CASE m \in page.sends /\ e.outcome = "dispatched"
  <2>1. \A k \in Msgs : e \notin Takes(k)
    BY <1>8 DEF Takes
  <2>2. e \in Dones(m)
    BY <1>2, <1>8 DEF Dones
  <2>3. Held(Said(m))
    <3>1. 1 \in 1..Len(wire) /\ wire[1] \in Dones(m)
      BY <2>2, PoppedAt DEF Received
    <3> QED
      BY <1>3, <3>1 DEF PageInv, Answers
  <2>4. page'.turns = page.turns
    <3>1. ShownOf(page.turns, m) # {}
      BY <2>3 DEF Held, ShownOf, DrawnOf
    <3>2. UserEvent(m, FALSE, "dispatched").msg = m
      BY DEF UserEvent
    <3>3. PersistedMakes(page.turns, UserEvent(m, FALSE, "dispatched"), page'.turns)
      BY <1>5, <1>8
    <3> QED
      BY <3>1, <3>2, <3>3 DEF PersistedMakes
  <2> QED
    BY <1>4, <2>1, <2>4, SameDraws
<1>9. CASE m \in page.sends /\ e.outcome \in {"queued", "interjected"}
  <2> DEFINE echoes == {i \in 1..Len(page.turns) :
                    page.turns[i].row = Said(m) /\ page.turns[i].own /\ ~page.turns[i].held}
  <2>1. IF echoes = {} THEN page'.turns = page.turns
        ELSE \E i \in echoes : page'.turns = RemoveAt(page.turns, i)
    BY <1>5, <1>9
  <2>2. CASE echoes = {}
    <3>1. ~EchoOf(m)
      BY <2>2 DEF EchoOf, IsEcho
    <3>2. \A k \in Msgs : e \in Takes(k) => ~EchoOf(k)
      BY <1>4, <3>1
    <3> QED
      BY <1>4, <2>1, <2>2, <3>2, SameDraws
  <2>3. CASE echoes # {}
    <3>1. PICK i \in echoes : page'.turns = RemoveAt(page.turns, i)
      BY <2>1, <2>3
    <3>2. PICK f : Within(page'.turns, page.turns, f) /\ \A k \in 1..Len(page'.turns) : f[k] # i
      BY <3>1, TurnsTyped, RemovedWithin
    <3>3. ~EchoOf(m)'
      <4> SUFFICES ASSUME NEW k \in 1..Len(page'.turns), page'.turns[k].row = Said(m),
                          IsEcho(page'.turns[k])
                   PROVE  FALSE
        BY DEF EchoOf
      <4>1. PICK j \in 1..Len(page.turns) : j = f[k] /\ page'.turns[k] = page.turns[j] /\ j # i
        BY <3>2 DEF Within
      <4>2. i \in 1..Len(page.turns) /\ page.turns[i].row = Said(m) /\ IsEcho(page.turns[i])
        BY DEF IsEcho
      <4>3. IsEcho(page.turns[j]) <=> ~IsEcho(page.turns[i])
        BY <4>1, <4>2 DEF PageInv, Once
      <4> QED
        BY <4>1, <4>2, <4>3
    <3>4. \A k \in Msgs : e \in Takes(k) => ~EchoOf(k)'
      BY <1>4, <3>3
    <3> QED
      BY <1>4, <3>2, <3>4, SubDraws
  <2> QED
    BY <2>2, <2>3
<1> QED
  BY <1>3, <1>6, <1>7, <1>8, <1>9

\* A queue shown: the interjections that are not drawn as waiting yet are put
\* at the end, and none of them is drawn otherwise but as the echo of a send.
LEMMA SyncDraws ==
    ASSUME Shape, PageInv, NEW e, Received(e), e \in Lists \cup Snapshots,
           SyncMakes(page.turns, e.items, page'.turns)
    PROVE  Draws(e) /\ TurnShape' /\ Once' /\ RunsFollow'
<1>1. page.turns \in Seq(Turns) /\ Len(page.turns) \in Nat
  BY TurnsTyped
<1>0. PICK new \in Seq(Turns) : \E f \in [1..Len(new) -> 1..Len(e.items)] :
          /\ page'.turns = page.turns \o new
          /\ \A k, l \in 1..Len(new) : k < l => f[k] < f[l]
          /\ \A k \in 1..Len(new) :
                /\ new[k] = WaitingTurn(e.items[f[k]].msg)
                /\ e.items[f[k]].inter
                /\ \A j \in 1..Len(page.turns) :
                      page.turns[j].item => page.turns[j].row[1] # e.items[f[k]].msg
  BY DEF SyncMakes
<1>2. PICK f \in [1..Len(new) -> 1..Len(e.items)] :
          /\ page'.turns = page.turns \o new
          /\ \A k, l \in 1..Len(new) : k < l => f[k] < f[l]
          /\ \A k \in 1..Len(new) :
                /\ new[k] = WaitingTurn(e.items[f[k]].msg)
                /\ \A j \in 1..Len(page.turns) :
                      page.turns[j].item => page.turns[j].row[1] # e.items[f[k]].msg
  BY <1>0
<1>3. /\ e.kind \in {"queue", "snapshot"} /\ Len(e.items) \in Nat
      /\ \A k \in 1..Len(e.items) : e.items[k].msg \in Msgs
  <2>1. e.kind \in {"queue", "snapshot"} /\ e.items \in Seq(Items)
    BY DEF Lists, Snapshots
  <2>2. \A k \in 1..Len(e.items) : e.items[k] \in Items
    BY <2>1
  <2> QED
    BY <2>1, <2>2 DEF Items
<1>4. /\ \A m : e \notin Users(m) /\ e \notin Takes(m)
      /\ \A r : e \notin Drops(r)
  BY <1>3, KindOf
<1>5. /\ Len(new) \in Nat /\ Len(page'.turns) = Len(page.turns) + Len(new)
      /\ \A i \in 1..Len(page.turns) : page'.turns[i] = page.turns[i]
      /\ \A i \in 1..Len(new) : page'.turns[Len(page.turns) + i] = new[i]
  BY <1>1, <1>2, Joined
<1>6. PICK n \in Nat : n = Len(page.turns)
  BY <1>1
\* A turn is an old one, or is drawn anew from an item.
<1> DEFINE Old(k) == k \in 1..n /\ page'.turns[k] = page.turns[k]
           Anew(k, x, m) == /\ k > n /\ m \in Msgs /\ e.items[x].msg = m /\ x \in 1..Len(e.items)
                            /\ page'.turns[k] = WaitingTurn(m)
                            /\ \A j \in 1..n : page.turns[j].item => page.turns[j].row[1] # m
<1>7. ASSUME NEW k \in 1..Len(page'.turns)
      PROVE  Old(k) \/ \E m : Anew(k, f[k - n], m)
  <2>1. CASE k \in 1..n
    BY <1>5, <1>6, <2>1
  <2>2. CASE k \notin 1..n
    <3>1. k - n \in 1..Len(new) /\ n + (k - n) = k /\ k > n
      BY <1>5, <1>6, <2>2
    <3>2. PICK x : x = f[k - n]
      OBVIOUS
    <3>3. x \in 1..Len(e.items) /\ page'.turns[k] = WaitingTurn(e.items[x].msg)
      BY <1>2, <1>5, <1>6, <3>1, <3>2
    <3>4. PICK m : m = e.items[x].msg
      OBVIOUS
    <3>5. \A j \in 1..n : page.turns[j].item => page.turns[j].row[1] # m
      <4>1. PICK y \in 1..Len(new) : y = k - n
        BY <3>1
      <4>2. \A j \in 1..Len(page.turns) :
               page.turns[j].item => page.turns[j].row[1] # e.items[f[y]].msg
        BY <1>2
      <4> QED
        BY <1>6, <3>2, <3>4, <4>1, <4>2
    <3>6. Anew(k, x, m)
      BY <1>3, <3>1, <3>3, <3>4, <3>5
    <3> QED
      BY <3>2, <3>6
  <2> QED
    BY <2>1, <2>2
<1>8. ASSUME NEW k, NEW x, NEW m, Anew(k, x, m)
      PROVE  /\ e \in Offers(m) /\ On(wire, Offers(m)) /\ Via(m) /\ page'.turns[k].row = Said(m)
             /\ ~page'.turns[k].held /\ ~page'.turns[k].own /\ page'.turns[k].item
             /\ ~IsEcho(page'.turns[k]) /\ page'.turns[k].row[3] = "said" /\ page'.turns[k].row[1] = m
  <2>1. e \in Offers(m)
    BY <1>8 DEF Offers
  <2>2. On(wire, Offers(m)) /\ Via(m)
    BY <2>1, ReceivedOn DEF Via
  <2> QED
    BY <1>8, <2>1, <2>2 DEF WaitingTurn, IsEcho, Said
<1>9. ASSUME NEW k, NEW x, NEW m, Anew(k, x, m), NEW j \in 1..n
      PROVE  /\ page.turns[j].row = Said(m) => IsEcho(page.turns[j]) /\ On(wire', Takes(m))
             /\ page.turns[j].row[1] = m => page.turns[j].row[3] = "said"
  <2>0. On(wire, Offers(m)) /\ Via(m)
    BY <1>8, <1>9
  <2>1. m \in Msgs /\ Said(m) \in Rows /\ Said(m)[1] = m /\ On(wire, Offers(m)) /\ Via(m)
    BY <1>9, <2>0, RowsTyped
  <2>2. \A r \in Rows : r[1] = m => ~Held(r)
    <3> SUFFICES ASSUME NEW r \in Rows, r[1] = m PROVE ~Held(r)
      OBVIOUS
    <3>1. InOrder(r, m)
      BY DEF PageInv, Order
    <3> QED
      BY <2>1, <3>1 DEF InOrder
  <2>3. page.turns[j].row[1] = m => page.turns[j].row[3] = "said"
    BY <1>6, <2>2, LooseTurns, TurnsTyped
  <2>4. ASSUME page.turns[j].row = Said(m) PROVE IsEcho(page.turns[j]) /\ On(wire', Takes(m))
    <3>1. ~page.turns[j].held
      BY <1>6, <2>1, <2>2, <2>4 DEF Held
    <3>2. ~page.turns[j].item
      BY <1>9, <2>1, <2>4
    <3>3. IsEcho(page.turns[j])
      BY <1>6, <3>1, <3>2, LooseTurns DEF Pending
    <3>4. EchoOf(m)
      BY <1>6, <2>4, <3>3 DEF EchoOf
    <3>5. On(wire, Pendings(m)) => Direct(m)
      BY KindParts, OnMore DEF Direct
    <3>6. On(wire, Takes(m))
      BY <2>1, <3>4, <3>5 DEF PageInv, Ways, EchoPlace
    <3> QED
      BY <1>4, <3>3, <3>6, ReceivedOn
  <2> QED
    BY <2>3, <2>4
<1>10. ASSUME NEW k, NEW x, NEW m, Anew(k, x, m), NEW l, NEW y, Anew(l, y, m)
       PROVE  x = y
  <2>1. 1 \in 1..Len(wire) /\ wire[1] = e
    BY PoppedAt DEF Received
  <2>2. e.items[x].msg = e.items[y].msg /\ x \in 1..Len(e.items) /\ y \in 1..Len(e.items)
    BY <1>10
  <2>3. \A i \in 1..Len(wire) : wire[i] \in Lists \cup Snapshots =>
          \A i1, i2 \in 1..Len(wire[i].items) : wire[i].items[i1].msg = wire[i].items[i2].msg => i1 = i2
    BY DEF PageInv, Known
  <2>4. e \in Lists \cup Snapshots =>
          \A i1, i2 \in 1..Len(e.items) : e.items[i1].msg = e.items[i2].msg => i1 = i2
    BY <2>1, <2>3
  <2> QED
    BY <2>2, <2>4
<1>11. ASSUME NEW k \in 1..Len(page'.turns), NEW l \in 1..Len(page'.turns), k > n, l > n, k # l
       PROVE  f[k - n] # f[l - n]
  <2>1. k - n \in 1..Len(new) /\ l - n \in 1..Len(new) /\ (k - n < l - n \/ l - n < k - n)
    BY <1>5, <1>6, <1>11
  <2>2. PICK a \in 1..Len(new), b \in 1..Len(new) : a = k - n /\ b = l - n /\ (a < b \/ b < a)
    BY <2>1
  <2>3. f[a] \in 1..Len(e.items) /\ f[b] \in 1..Len(e.items)
    OBVIOUS
  <2>4. f[a] \in Nat /\ f[b] \in Nat /\ (f[a] < f[b] \/ f[b] < f[a])
    BY <1>2, <1>3, <2>2, <2>3
  <2>5. f[a] # f[b]
    BY <2>4
  <2> QED
    BY <2>2, <2>5
<1> HIDE DEF Old, Anew
<1>12. \A k : Old(k) => k \in 1..Len(page.turns) /\ page'.turns[k] = page.turns[k]
  BY <1>6 DEF Old
<1>13. Draws(e)
  <2>1. ASSUME NEW r, Held(r)' PROVE Held(r)
    BY <1>7, <1>8, <1>12, <2>1 DEF Held
  <2>2. ASSUME NEW m \in Msgs, Unheld(m)' PROVE Unheld(m) \/ e \in Offers(m)
    <3>1. PICK k \in 1..Len(page'.turns) : page'.turns[k].row = Said(m) /\ ~page'.turns[k].held
      BY <2>2 DEF Unheld
    <3>2. CASE Old(k)
      BY <1>12, <3>1, <3>2 DEF Unheld
    <3>3. ASSUME NEW m2, Anew(k, f[k - n], m2) PROVE e \in Offers(m)
      <4>1. m2 = m
        BY <1>8, <3>1, <3>3 DEF Said
      <4> QED
        BY <1>8, <3>3, <4>1
    <3> QED
      BY <1>7, <3>2, <3>3
  <2>3. ASSUME NEW m, EchoOf(m)' PROVE EchoOf(m)
    BY <1>7, <1>8, <1>12, <2>3 DEF EchoOf
  <2>4. ASSUME NEW m \in Msgs, PendOf(m)' PROVE PendOf(m) \/ e \in Offers(m)
    <3>1. PICK k \in 1..Len(page'.turns) : page'.turns[k].row = Said(m) /\ Pending(page'.turns[k])
      BY <2>4 DEF PendOf
    <3>2. CASE Old(k)
      BY <1>12, <3>1, <3>2 DEF PendOf
    <3>3. ASSUME NEW m2, Anew(k, f[k - n], m2) PROVE e \in Offers(m)
      <4>1. m2 = m
        BY <1>8, <3>1, <3>3 DEF Said
      <4> QED
        BY <1>8, <3>3, <4>1
    <3> QED
      BY <1>7, <3>2, <3>3
  <2> QED
    BY <1>4, <2>1, <2>2, <2>3, <2>4 DEF Draws
<1>14. TurnShape'
  <2>1. ASSUME NEW k \in 1..Len(page'.turns)
        PROVE  /\ ~page'.turns[k].held => /\ page'.turns[k].row[3] = "said"
                                          /\ page'.turns[k].own <=> ~page'.turns[k].item
               /\ page'.turns[k].own => page'.turns[k].row[1] \in Own
    <3>1. CASE Old(k)
      BY <1>12, <3>1 DEF PageInv, TurnShape
    <3>2. ASSUME NEW m, Anew(k, f[k - n], m)
          PROVE  /\ page'.turns[k].row[3] = "said" /\ ~page'.turns[k].own /\ page'.turns[k].item
      BY <1>8, <3>2
    <3> QED
      BY <1>7, <3>1, <3>2
  <2> QED
    BY <2>1 DEF TurnShape
<1>15. RunsFollow'
  <2> SUFFICES ASSUME NEW i \in 1..Len(page'.turns), NEW j \in 1..Len(page'.turns),
                      page'.turns[i].row[3] # "said",
                      page'.turns[j].row = Said(page'.turns[i].row[1])
               PROVE  j < i
    BY DEF RunsFollow
  <2>1. Old(i)
    BY <1>7, <1>8
  <2>2. CASE Old(j)
    BY <1>12, <2>1, <2>2 DEF PageInv, RunsFollow
  <2>3. ASSUME NEW m, Anew(j, f[j - n], m) PROVE FALSE
    <3>1. page'.turns[i].row[1] = m
      BY <1>8, <2>3 DEF Said
    <3>2. i \in 1..n /\ page.turns[i].row[1] = m /\ page.turns[i].row[3] # "said"
      BY <2>1, <3>1 DEF Old
    <3> QED
      BY <1>9, <2>3, <3>2
  <2> QED
    BY <1>7, <2>2, <2>3
<1>16. Once'
  <2> DEFINE Fine(i, j) == /\ IsEcho(page'.turns[i]) <=> ~IsEcho(page'.turns[j])
                           /\ On(wire', Takes(page'.turns[i].row[1]))
  <2> SUFFICES ASSUME NEW i \in 1..Len(page'.turns), NEW j \in 1..Len(page'.turns),
                      i # j, page'.turns[i].row = page'.turns[j].row
               PROVE  Fine(i, j)
    BY DEF Once
  <2>1. ASSUME NEW k \in 1..Len(page'.turns), Old(k), NEW l, NEW x, NEW m, Anew(l, x, m),
               page'.turns[k].row = page'.turns[l].row
        PROVE  IsEcho(page'.turns[k]) /\ ~IsEcho(page'.turns[l]) /\ On(wire', Takes(m))
               /\ page'.turns[k].row[1] = m /\ page'.turns[l].row[1] = m
    <3>1. k \in 1..n /\ page'.turns[k] = page.turns[k] /\ page.turns[k].row = Said(m)
      BY <1>8, <2>1 DEF Old
    <3> QED
      BY <1>8, <1>9, <2>1, <3>1
  <2>2. CASE Old(i) /\ Old(j)
    <3>1. /\ IsEcho(page.turns[i]) <=> ~IsEcho(page.turns[j])
          /\ On(wire, Takes(page.turns[i].row[1]))
      BY <1>12, <2>2 DEF PageInv, Once
    <3>2. \A m : On(wire, Takes(m)) => On(wire', Takes(m))
      BY <1>4, ReceivedOn
    <3> QED
      BY <1>12, <2>2, <3>1, <3>2
  <2>3. ASSUME NEW m, Anew(j, f[j - n], m), Old(i) PROVE Fine(i, j)
    BY <2>1, <2>3
  <2>4. ASSUME NEW m, Anew(i, f[i - n], m), Old(j) PROVE Fine(i, j)
    <3>1. IsEcho(page'.turns[j]) /\ ~IsEcho(page'.turns[i]) /\ On(wire', Takes(m))
          /\ page'.turns[i].row[1] = m
      BY <2>1, <2>4
    <3> QED
      BY <3>1
  <2>5. ASSUME NEW m, Anew(i, f[i - n], m), NEW k, Anew(j, f[j - n], k) PROVE FALSE
    <3>1. Said(m) = Said(k)
      BY <1>8, <2>5
    <3>2. m = k
      BY <3>1 DEF Said
    <3>3. f[i - n] = f[j - n]
      BY <1>10, <2>5, <3>2
    <3>4. i > n /\ j > n
      BY <2>5 DEF Anew
    <3> QED
      BY <1>11, <3>3, <3>4
  <2> QED
    BY <1>7, <2>2, <2>3, <2>4, <2>5
<1> QED
  BY <1>13, <1>14, <1>15, <1>16

-----------------------------------------------------------------------------
(* What mergeRestoredTurns draws, turn by turn.                            *)

\* A turn read that is drawn anew; one drawn already, of that row; one drawn
\* without a row before such a one; one after all of these.
Bare(restored, live, t, s, b) ==
    /\ s = 0 /\ b \in 1..Len(restored) /\ t = restored[b]
    /\ \A j \in 1..Len(live) : ~RestoredFrom(live, restored[b], j)
Main(restored, live, t, s, b) ==
    /\ s \in 1..Len(live) /\ b \in 1..Len(restored) /\ t = live[s]
    /\ RestoredFrom(live, restored[b], s)
Loose(restored, live, t, s, b) ==
    /\ s \in 1..Len(live) /\ b \in 1..Len(restored) /\ t = live[s]
    /\ \E j \in 1..Len(live) : RestoredFrom(live, restored[b], j) /\ LooseBefore(live, restored, j, s)
Rest(restored, live, last, t, s, b) ==
    /\ s \in last + 1..Len(live) /\ b = Len(restored) + 1 /\ t = live[s]
    /\ \A j \in last + 1..Len(live) : \A i \in 1..Len(restored) : ~RestoredFrom(live, restored[i], j)

Traced(restored, live, last, turns, src, blk) ==
    /\ \A k \in 1..Len(turns) :
          \/ Bare(restored, live, turns[k], src[k], blk[k])
          \/ Main(restored, live, turns[k], src[k], blk[k])
          \/ Loose(restored, live, turns[k], src[k], blk[k])
          \/ Rest(restored, live, last, turns[k], src[k], blk[k])
    /\ \A k, l \in 1..Len(turns) : k < l =>
          blk[k] < blk[l] \/ (blk[k] = blk[l] /\ src[k] < src[l])

\* Where the elements of a chunk were drawn, if its turn was.
ChunkVia(live, restored, i, chunk, g) ==
    /\ Len(chunk) > 0 /\ g \in [1..Len(chunk) -> 1..Len(live)]
    /\ \A k \in 1..Len(chunk) : chunk[k] = live[g[k]]
    /\ RestoredFrom(live, restored[i], g[Len(chunk)])
    /\ \A k \in 1..Len(chunk) - 1 : LooseBefore(live, restored, g[Len(chunk)], g[k])
    /\ \A k, l \in 1..Len(chunk) : k < l => g[k] < g[l]

\* A restored turn is drawn as it is, or as the loose turns before its live
\* copy and then that copy, each from its own place among the live ones.
LEMMA ChunkFacts ==
    ASSUME NEW live, NEW restored, NEW i, NEW S, NEW chunk \in Seq(S), Len(live) \in Nat,
           Chunk(live, restored, i, chunk)
    PROVE  \/ chunk = <<restored[i]>> /\ \A j \in 1..Len(live) : ~RestoredFrom(live, restored[i], j)
           \/ \E g : ChunkVia(live, restored, i, chunk, g)
<1> SUFFICES ASSUME ~(/\ chunk = <<restored[i]>>
                      /\ \A j \in 1..Len(live) : ~RestoredFrom(live, restored[i], j))
             PROVE  \E g : ChunkVia(live, restored, i, chunk, g)
  OBVIOUS
<1>1. PICK j \in 1..Len(live) : \E f \in [1..Len(chunk) - 1 -> 1..Len(live)] :
          /\ RestoredFrom(live, restored[i], j)
          /\ Len(chunk) > 0 /\ chunk[Len(chunk)] = live[j]
          /\ \A k \in 1..Len(chunk) - 1 :
                chunk[k] = live[f[k]] /\ LooseBefore(live, restored, j, f[k])
          /\ \A k, l \in 1..Len(chunk) - 1 : k < l => f[k] < f[l]
  BY DEF Chunk
<1>2. PICK f \in [1..Len(chunk) - 1 -> 1..Len(live)] :
          /\ RestoredFrom(live, restored[i], j)
          /\ Len(chunk) > 0 /\ chunk[Len(chunk)] = live[j]
          /\ \A k \in 1..Len(chunk) - 1 :
                chunk[k] = live[f[k]] /\ LooseBefore(live, restored, j, f[k])
          /\ \A k, l \in 1..Len(chunk) - 1 : k < l => f[k] < f[l]
  BY <1>1
<1>3. PICK n \in Nat : n = Len(chunk) /\ n > 0
  BY <1>2
<1>4. PICK g : g = [k \in 1..n |-> IF k = n THEN j ELSE f[k]]
  OBVIOUS
<1>5. g[n] = j /\ \A k \in 1..n - 1 : g[k] = f[k]
  BY <1>3, <1>4
<1>6. \A k \in 1..n : k = n \/ k \in 1..n - 1
  BY <1>3
<1>7. \A k \in 1..n - 1 : f[k] \in 1..Len(live) /\ f[k] < j
  BY <1>2, <1>3 DEF LooseBefore
<1>8. g \in [1..n -> 1..Len(live)]
  BY <1>4, <1>6, <1>7
<1>9. \A k \in 1..n : chunk[k] = live[g[k]]
  BY <1>2, <1>3, <1>5, <1>6
<1>10. \A k, l \in 1..n : k < l => g[k] < g[l]
  <2> SUFFICES ASSUME NEW k \in 1..n, NEW l \in 1..n, k < l PROVE g[k] < g[l]
    OBVIOUS
  <2>1. k \in 1..n - 1
    BY <1>3
  <2>2. CASE l = n
    BY <1>5, <1>7, <2>1, <2>2
  <2>3. CASE l \in 1..n - 1
    BY <1>2, <1>3, <1>5, <2>1, <2>3
  <2> QED
    BY <1>6, <2>2, <2>3
<1>11. \A k \in 1..n - 1 : LooseBefore(live, restored, g[n], g[k])
  BY <1>2, <1>3, <1>5
<1> QED
  BY <1>2, <1>3, <1>5, <1>8, <1>9, <1>10, <1>11 DEF ChunkVia

\* mergeRestoredTurns: where each turn it draws comes from.
LEMMA MergeTraced ==
    ASSUME NEW S, NEW restored \in Seq(S), NEW live \in Seq(S), NEW turns,
           S = Turns, MergeMakes(restored, live, turns)
    PROVE  \E last \in Nat : \E src, blk : Traced(restored, live, last, turns, src, blk)
<1>1. PICK chunks \in Seq(Seq(Turns)), last \in 0..Len(live) :
          /\ turns = FlattenSeq(chunks) \o SubSeq(live, last + 1, Len(live))
          /\ Len(chunks) = Len(restored)
          /\ \A i \in 1..Len(restored) : Chunk(live, restored, i, chunks[i])
          /\ \A j \in last + 1..Len(live) : \A i \in 1..Len(restored) :
                ~RestoredFrom(live, restored[i], j)
  BY DEF MergeMakes
<1>2. PICK flat : flat = FlattenSeq(chunks)
  OBVIOUS
<1>3. flat \in Seq(Turns) /\ \E b, o : Strung(flat, chunks, b, o)
  BY <1>2, FlattenFacts
<1>4. PICK b, off : Strung(flat, chunks, b, off)
  BY <1>3
<1>5. PICK n \in Nat, m \in Nat, w \in Nat : n = Len(flat) /\ m = Len(live) /\ w = Len(restored)
  BY <1>3
<1>6. PICK tail : tail = SubSeq(live, last + 1, Len(live))
  OBVIOUS
<1>7. /\ Len(tail) = m - last /\ tail \in Seq(Turns)
      /\ \A i \in 1..Len(tail) : tail[i] = live[last + i]
  <2>1. last + 1 \in Nat \ {0} /\ Len(live) \in 0..Len(live)
    BY <1>5
  <2>2. /\ tail \in Seq(Turns)
        /\ Len(tail) = IF last + 1 <= Len(live) THEN Len(live) - (last + 1) + 1 ELSE 0
        /\ \A i \in 1..Len(tail) : tail[i] = live[last + 1 + i - 1]
    BY <1>6, <2>1, Part
  <2>3. \A i \in 1..Len(tail) : last + 1 + i - 1 = last + i
    BY <1>5
  <2> QED
    BY <1>5, <2>2, <2>3
<1>8. /\ Len(turns) = n + (m - last)
      /\ \A k \in 1..n : turns[k] = flat[k]
      /\ \A i \in 1..m - last : turns[n + i] = live[last + i]
  <2>1. turns = flat \o tail
    BY <1>1, <1>2, <1>6
  <2>2. flat \in Seq(Turns) /\ tail \in Seq(Turns)
    BY <1>3, <1>7
  <2>3. /\ Len(flat \o tail) = Len(flat) + Len(tail)
        /\ \A i \in 1..Len(flat) : (flat \o tail)[i] = flat[i]
        /\ \A i \in 1..Len(tail) : (flat \o tail)[Len(flat) + i] = tail[i]
    BY <2>2, Joined
  <2>4. /\ Len(turns) = Len(flat) + Len(tail)
        /\ \A i \in 1..Len(flat) : turns[i] = flat[i]
        /\ \A i \in 1..Len(tail) : turns[Len(flat) + i] = tail[i]
    BY <2>1, <2>3
  <2> QED
    BY <1>5, <1>7, <2>4
<1> DEFINE IsBare(i) == /\ chunks[i] = <<restored[i]>>
                        /\ \A j \in 1..Len(live) : ~RestoredFrom(live, restored[i], j)
           Way(i) == CHOOSE g : ChunkVia(live, restored, i, chunks[i], g)
<1>9. PICK via : via = [i \in 1..w |-> Way(i)]
  OBVIOUS
<1>10. ASSUME NEW i \in 1..w
       PROVE  IsBare(i) \/ ChunkVia(live, restored, i, chunks[i], via[i])
  <2>1. chunks[i] \in Seq(Turns) /\ Chunk(live, restored, i, chunks[i])
    BY <1>1, <1>5
  <2>2. IsBare(i) \/ \E g : ChunkVia(live, restored, i, chunks[i], g)
    BY <1>5, <2>1, ChunkFacts
  <2>3. via[i] = Way(i)
    BY <1>9
  <2> QED
    BY <2>2, <2>3
<1> HIDE DEF Way
<1>11. PICK bare : bare = [i \in 1..w |-> IF IsBare(i) THEN TRUE ELSE FALSE]
  OBVIOUS
<1>12. \A i \in 1..w : bare[i] <=> IsBare(i)
  BY <1>11
<1>13. PICK src, blk :
           /\ src = [k \in 1..Len(turns) |->
                        IF k <= n THEN IF bare[b[k]] THEN 0 ELSE via[b[k]][off[k]]
                        ELSE last + (k - n)]
           /\ blk = [k \in 1..Len(turns) |-> IF k <= n THEN b[k] ELSE w + 1]
  OBVIOUS
<1>14. \A k \in 1..n : /\ k \in 1..Len(turns) /\ blk[k] = b[k]
                       /\ src[k] = IF bare[b[k]] THEN 0 ELSE via[b[k]][off[k]]
  BY <1>5, <1>8, <1>13
<1>15. \A k \in n + 1..Len(turns) : /\ blk[k] = w + 1 /\ src[k] = last + (k - n)
                                    /\ src[k] \in last + 1..m /\ turns[k] = live[src[k]]
  <2> SUFFICES ASSUME NEW k \in n + 1..Len(turns)
               PROVE  /\ blk[k] = w + 1 /\ src[k] = last + (k - n)
                      /\ src[k] \in last + 1..m /\ turns[k] = live[src[k]]
    OBVIOUS
  <2>1. k \in 1..Len(turns) /\ ~(k <= n) /\ k - n \in 1..m - last /\ n + (k - n) = k
    BY <1>5, <1>8
  <2>2. blk[k] = w + 1 /\ src[k] = last + (k - n)
    BY <1>13, <2>1
  <2>3. PICK x \in 1..m - last : x = k - n /\ k = n + x
    BY <2>1
  <2>4. turns[n + x] = live[last + x]
    BY <1>8
  <2>5. last + x \in last + 1..m
    BY <1>5
  <2> QED
    BY <2>2, <2>3, <2>4, <2>5
<1>16. \A k \in 1..Len(turns) : k \in 1..n \/ k \in n + 1..Len(turns)
  BY <1>5, <1>8
<1>17. ASSUME NEW k \in 1..n
       PROVE  /\ b[k] \in 1..w /\ off[k] \in 1..Len(chunks[b[k]]) /\ turns[k] = chunks[b[k]][off[k]]
              /\ Len(chunks[b[k]]) \in Nat
  <2>1. b[k] \in 1..w /\ off[k] \in 1..Len(chunks[b[k]]) /\ flat[k] = chunks[b[k]][off[k]]
    BY <1>1, <1>4, <1>5 DEF Strung
  <2>2. chunks[b[k]] \in Seq(Turns)
    BY <1>1, <1>5, <2>1
  <2> QED
    BY <1>8, <2>1, <2>2
<1> HIDE DEF IsBare
<1>18. ASSUME NEW k \in 1..n, IsBare(b[k])
       PROVE  Bare(restored, live, turns[k], src[k], blk[k]) /\ off[k] = 1
  <2>1. Len(chunks[b[k]]) = 1 /\ chunks[b[k]][1] = restored[b[k]]
        /\ \A j \in 1..Len(live) : ~RestoredFrom(live, restored[b[k]], j)
    BY <1>18 DEF IsBare
  <2>2. off[k] = 1 /\ turns[k] = restored[b[k]]
    BY <1>17, <2>1
  <2>3. src[k] = 0 /\ blk[k] = b[k]
    BY <1>12, <1>14, <1>17, <1>18
  <2> QED
    BY <1>5, <1>17, <2>1, <2>2, <2>3 DEF Bare
<1>19. ASSUME NEW k \in 1..n, ~IsBare(b[k])
       PROVE  /\ \/ Main(restored, live, turns[k], src[k], blk[k])
                 \/ Loose(restored, live, turns[k], src[k], blk[k])
              /\ src[k] = via[b[k]][off[k]]
  <2>1. PICK i \in 1..w : i = b[k]
    BY <1>17
  <2>2. PICK chunk, g : chunk = chunks[i] /\ g = via[i]
    OBVIOUS
  <2>3. ChunkVia(live, restored, i, chunk, g)
    BY <1>10, <1>19, <2>1, <2>2
  <2>4. PICK o \in 1..Len(chunk) : o = off[k] /\ turns[k] = chunk[o] /\ Len(chunk) \in Nat
    BY <1>17, <2>1, <2>2
  <2>5. src[k] = g[o] /\ blk[k] = i
    BY <1>12, <1>14, <1>19, <2>1, <2>2, <2>4
  <2>6. g[o] \in 1..Len(live) /\ turns[k] = live[g[o]]
    BY <2>3, <2>4 DEF ChunkVia
  <2>9. src[k] \in 1..Len(live) /\ blk[k] \in 1..Len(restored) /\ turns[k] = live[src[k]]
    BY <1>5, <2>5, <2>6
  <2>10. src[k] = via[b[k]][off[k]]
    BY <2>1, <2>2, <2>4, <2>5
  <2>7. CASE o = Len(chunk)
    <3>1. RestoredFrom(live, restored[i], g[o])
      BY <2>3, <2>7 DEF ChunkVia
    <3>2. RestoredFrom(live, restored[blk[k]], src[k])
      BY <2>5, <3>1
    <3> QED
      BY <2>9, <2>10, <3>2 DEF Main
  <2>8. CASE o # Len(chunk)
    <3>1. o \in 1..Len(chunk) - 1 /\ Len(chunk) \in 1..Len(chunk)
      BY <2>4, <2>8
    <3>2. /\ LooseBefore(live, restored, g[Len(chunk)], g[o])
          /\ g[Len(chunk)] \in 1..Len(live) /\ RestoredFrom(live, restored[i], g[Len(chunk)])
      BY <2>3, <3>1 DEF ChunkVia
    <3>3. \E j \in 1..Len(live) : RestoredFrom(live, restored[blk[k]], j)
                                  /\ LooseBefore(live, restored, j, src[k])
      BY <2>5, <3>2
    <3> QED
      BY <2>9, <2>10, <3>3 DEF Loose
  <2> QED
    BY <2>1, <2>2, <2>4, <2>5, <2>7, <2>8
<1>20. \A k \in 1..Len(turns) :
          \/ Bare(restored, live, turns[k], src[k], blk[k])
          \/ Main(restored, live, turns[k], src[k], blk[k])
          \/ Loose(restored, live, turns[k], src[k], blk[k])
          \/ Rest(restored, live, last, turns[k], src[k], blk[k])
  <2> SUFFICES ASSUME NEW k \in 1..Len(turns)
               PROVE  \/ Bare(restored, live, turns[k], src[k], blk[k])
                      \/ Main(restored, live, turns[k], src[k], blk[k])
                      \/ Loose(restored, live, turns[k], src[k], blk[k])
                      \/ Rest(restored, live, last, turns[k], src[k], blk[k])
    OBVIOUS
  <2>1. CASE k \in 1..n
    BY <1>18, <1>19, <2>1
  <2>2. CASE k \in n + 1..Len(turns)
    BY <1>1, <1>5, <1>15, <2>2 DEF Rest
  <2> QED
    BY <1>16, <2>1, <2>2
<1>21. ASSUME NEW k \in 1..Len(turns), NEW l \in 1..Len(turns), k < l
       PROVE  blk[k] < blk[l] \/ (blk[k] = blk[l] /\ src[k] < src[l])
  <2>1. CASE k \in n + 1..Len(turns)
    <3>1. l \in n + 1..Len(turns)
      BY <1>5, <1>8, <1>21, <2>1
    <3> QED
      BY <1>5, <1>15, <1>21, <2>1, <3>1
  <2>2. CASE k \in 1..n /\ l \in n + 1..Len(turns)
    <3>1. b[k] \in 1..w /\ blk[k] = b[k] /\ blk[l] = w + 1
      BY <1>14, <1>15, <1>17, <2>2
    <3> QED
      BY <3>1
  <2>3. CASE k \in 1..n /\ l \in 1..n
    <3>1. b[k] < b[l] \/ (b[k] = b[l] /\ off[k] < off[l])
      BY <1>4, <1>5, <1>21, <2>3 DEF Strung
    <3>2. CASE b[k] < b[l]
      BY <1>14, <2>3, <3>2
    <3>3. CASE b[k] = b[l] /\ off[k] < off[l]
      <4>1. ~IsBare(b[k]) /\ ~IsBare(b[l])
        BY <1>18, <2>3, <3>3
      <4>2. src[k] = via[b[k]][off[k]] /\ src[l] = via[b[k]][off[l]]
        BY <1>19, <2>3, <3>3, <4>1
      <4>3. PICK i, x, y : i \in 1..w /\ i = b[k] /\ x = off[k] /\ y = off[l] /\ x < y
        BY <1>17, <2>3, <3>3
      <4>4. x \in 1..Len(chunks[i]) /\ y \in 1..Len(chunks[i])
        BY <1>17, <2>3, <3>3, <4>3
      <4>5. ChunkVia(live, restored, i, chunks[i], via[i])
        BY <1>10, <4>1, <4>3
      <4>6. via[i][x] < via[i][y]
        BY <4>3, <4>4, <4>5 DEF ChunkVia
      <4> QED
        BY <1>14, <2>3, <3>3, <4>2, <4>3, <4>6
    <3> QED
      BY <3>1, <3>2, <3>3
  <2> QED
    BY <1>16, <2>1, <2>2, <2>3
<1>22. last \in Nat /\ Traced(restored, live, last, turns, src, blk)
  BY <1>5, <1>20, <1>21 DEF Traced
<1> QED
  BY <1>22

\* A turn drawn is drawn once.
Apart(turns, src) ==
    \A k, l \in 1..Len(turns) : k < l /\ src[k] # 0 => src[k] # src[l]

\* A live turn is drawn once: within a chunk by its place, between chunks as
\* each has its own match and what is loose before that.
LEMMA TracedOnce ==
    ASSUME NEW restored, NEW live, Len(live) \in Nat, Len(restored) \in Nat, NEW last, last \in Nat,
           NEW turns, NEW src, NEW blk,
           Traced(restored, live, last, turns, src, blk), Len(turns) \in Nat,
           \A k, l \in 1..Len(restored) : restored[k].row = restored[l].row => k = l
    PROVE  Apart(turns, src)
<1> SUFFICES ASSUME NEW k \in 1..Len(turns), NEW l \in 1..Len(turns), k < l,
                    src[k] # 0, src[k] = src[l]
             PROVE  FALSE
  BY DEF Apart
<1>1. PICK s, a, b : s = src[k] /\ s = src[l] /\ a = blk[k] /\ b = blk[l]
  OBVIOUS
<1>2. /\ Main(restored, live, turns[k], s, a) \/ Loose(restored, live, turns[k], s, a)
         \/ Rest(restored, live, last, turns[k], s, a)
      /\ Main(restored, live, turns[l], s, b) \/ Loose(restored, live, turns[l], s, b)
         \/ Rest(restored, live, last, turns[l], s, b)
  BY <1>1 DEF Traced, Bare
<1>3. s \in Nat
  BY <1>2 DEF Main, Loose, Rest
<1>4. a < b
  BY <1>1, <1>3 DEF Traced
<1>5. /\ a \in 1..Len(restored) + 1 /\ b \in 1..Len(restored) + 1
  BY <1>2 DEF Main, Loose, Rest
<1>6. a \in 1..Len(restored) /\ a # Len(restored) + 1
  BY <1>4, <1>5
<1>7. Main(restored, live, turns[k], s, a) \/ Loose(restored, live, turns[k], s, a)
  BY <1>2, <1>6 DEF Rest
<1>8. CASE Main(restored, live, turns[k], s, a)
  <2>1. RestoredFrom(live, restored[a], s) /\ s \in 1..Len(live)
    BY <1>8 DEF Main
  <2>2. CASE Main(restored, live, turns[l], s, b)
    <3>1. restored[a].row = restored[b].row /\ b \in 1..Len(restored)
      BY <2>1, <2>2 DEF Main, RestoredFrom
    <3> QED
      BY <1>4, <1>5, <1>6, <3>1
  <2>3. CASE Loose(restored, live, turns[l], s, b)
    BY <2>1, <2>3 DEF Loose, RestoredFrom, LooseBefore
  <2>4. CASE Rest(restored, live, last, turns[l], s, b)
    BY <1>6, <2>1, <2>4 DEF Rest
  <2> QED
    BY <1>2, <2>2, <2>3, <2>4
<1>9. CASE Loose(restored, live, turns[k], s, a)
  <2>1. PICK j \in 1..Len(live) : RestoredFrom(live, restored[a], j) /\ LooseBefore(live, restored, j, s)
    BY <1>9 DEF Loose
  <2>2. s < j /\ ~live[s].held
    BY <2>1 DEF LooseBefore
  <2>3. CASE Main(restored, live, turns[l], s, b)
    BY <2>2, <2>3 DEF Main, RestoredFrom
  <2>4. CASE Loose(restored, live, turns[l], s, b)
    <3>1. PICK i \in 1..Len(live) : RestoredFrom(live, restored[b], i) /\ LooseBefore(live, restored, i, s)
      BY <2>4 DEF Loose
    <3>2. b \in 1..Len(restored) /\ s < i
      BY <2>4, <3>1 DEF Loose, LooseBefore
    <3>3. i # j
      <4>1. i = j => restored[a].row = restored[b].row
        BY <2>1, <3>1 DEF RestoredFrom
      <4> QED
        BY <1>4, <1>5, <1>6, <3>2, <4>1
    <3>4. j < i => j < s
      BY <1>6, <2>1, <3>1 DEF LooseBefore
    <3>5. i < j => i < s
      BY <2>1, <3>1, <3>2 DEF LooseBefore
    <3> QED
      BY <1>3, <2>2, <3>2, <3>3, <3>4, <3>5
  <2>5. CASE Rest(restored, live, last, turns[l], s, b)
    <3>1. s \in last + 1..Len(live)
      BY <2>5 DEF Rest
    <3>2. j \in last + 1..Len(live)
      BY <2>2, <3>1
    <3> QED
      BY <1>6, <2>1, <2>5, <3>2 DEF Rest
  <2> QED
    BY <1>2, <2>3, <2>4, <2>5
<1> QED
  BY <1>7, <1>8, <1>9

\* What such a turn is, and what tells the read from the rest.
From(restored, live, t, s, b) ==
    /\ b \in 1..Len(restored) + 1
    /\ s = 0 \/ (s \in 1..Len(live) /\ t = live[s])
    /\ s = 0 => /\ b \in 1..Len(restored) /\ t = restored[b]
                /\ t.held /\ ~t.own /\ ~t.item
                /\ \A j \in 1..Len(live) : ~RestoredFrom(live, restored[b], j)
    /\ t.held /\ b # Len(restored) + 1 => b \in 1..Len(restored) /\ t.row = restored[b].row
    /\ t.held /\ b = Len(restored) + 1 => \A i \in 1..Len(restored) : restored[i].row # t.row

\* Where a turn came from.
LEMMA TracedFrom ==
    ASSUME NEW restored, NEW live, Len(live) \in Nat, Len(restored) \in Nat, NEW last, last \in Nat,
           NEW turns, NEW src, NEW blk,
           Traced(restored, live, last, turns, src, blk),
           \A k \in 1..Len(restored) : restored[k].held /\ ~restored[k].own /\ ~restored[k].item,
           NEW k \in 1..Len(turns)
    PROVE  From(restored, live, turns[k], src[k], blk[k])
<1>1. PICK t, s, b : t = turns[k] /\ s = src[k] /\ b = blk[k]
  OBVIOUS
<1>2. \/ Bare(restored, live, t, s, b) \/ Main(restored, live, t, s, b)
      \/ Loose(restored, live, t, s, b) \/ Rest(restored, live, last, t, s, b)
  BY <1>1 DEF Traced
<1>3. CASE Bare(restored, live, t, s, b)
  BY <1>1, <1>3 DEF Bare, From
<1>4. CASE Main(restored, live, t, s, b)
  BY <1>1, <1>4 DEF Main, RestoredFrom, From
<1>5. CASE Loose(restored, live, t, s, b)
  <2>1. ~t.held
    BY <1>5 DEF Loose, LooseBefore
  <2> QED
    BY <1>1, <1>5, <2>1 DEF Loose, From
<1>6. CASE Rest(restored, live, last, t, s, b)
  <2>1. t.held => \A i \in 1..Len(restored) : restored[i].row # t.row
    BY <1>6 DEF Rest, RestoredFrom
  <2>2. s \in 1..Len(live) /\ t = live[s] /\ b = Len(restored) + 1
    BY <1>6 DEF Rest
  <2> QED
    BY <1>1, <2>1, <2>2 DEF From
<1> QED
  BY <1>2, <1>3, <1>4, <1>5, <1>6

\* The conversation read, with what is drawn already merged in.
LEMMA MergeDraws ==
    ASSUME Shape, PageInv, NEW e, Received(e), e \in TurnAnswers, e.kind = "page",
           MergeMakes(e.rows, page.turns, page'.turns), page'.turns \in Seq(Turns)
    PROVE  Draws(e) /\ TurnShape' /\ Once' /\ RunsFollow'
<1>1. page.turns \in Seq(Turns) /\ Len(page.turns) \in Nat /\ Len(page'.turns) \in Nat
  BY TurnsTyped
<1>2. e.rows \in Seq(Turns) /\ Len(e.rows) \in Nat
  BY DEF TurnAnswers
<1>3. WellRead(e)
  <2>1. 1 \in 1..Len(wire) /\ wire[1] \in TurnAnswers
    BY PoppedAt DEF Received
  <2>2. \A i \in 1..Len(wire) : wire[i] \in TurnAnswers => WellRead(wire[i])
    BY DEF PageInv, Reads
  <2> QED
    BY <2>1, <2>2 DEF Received
<1>4. PICK restored, live, turns, w :
          /\ restored = e.rows /\ live = page.turns /\ turns = page'.turns
          /\ w = Len(restored) /\ w \in Nat /\ Len(live) \in Nat /\ Len(turns) \in Nat
  BY <1>1, <1>2
<1>5. /\ \A k, l \in 1..w : restored[k].row = restored[l].row => k = l
      /\ \A k, l \in 1..w :
            restored[k].row[3] # "said" /\ restored[l].row = Said(restored[k].row[1]) => l < k
      /\ \A k \in 1..w : restored[k].held /\ ~restored[k].own /\ ~restored[k].item
  BY <1>3, <1>4 DEF WellRead
<1>6. PICK last \in Nat : \E src, blk : Traced(restored, live, last, turns, src, blk)
  <2>1. MergeMakes(restored, live, turns)
    BY <1>4
  <2> QED
    BY <1>1, <1>2, <1>4, <2>1, MergeTraced, Zenon
<1>7. PICK src, blk : Traced(restored, live, last, turns, src, blk)
  BY <1>6
<1>8. /\ \A m : e \notin Users(m) /\ e \notin Takes(m)
      /\ \A r : e \notin Drops(r)
  BY KindOf
<1>9. \A k \in 1..w : e \in Has(restored[k].row)
  BY <1>4 DEF Has
<1>10. ASSUME NEW k \in 1..Len(turns)
       PROVE  From(restored, live, turns[k], src[k], blk[k])
  <2>1. Len(live) \in Nat /\ Len(restored) \in Nat
    BY <1>4
  <2>2. \A x \in 1..Len(restored) : restored[x].held /\ ~restored[x].own /\ ~restored[x].item
    BY <1>4, <1>5
  <2> QED
    BY <1>7, <2>1, <2>2, TracedFrom, Zenon
<1>20. ASSUME NEW k \in 1..Len(turns)
       PROVE  /\ blk[k] \in 1..w + 1
              /\ src[k] # 0 => \E j \in 1..Len(page.turns) : j = src[k] /\ turns[k] = page.turns[j]
              /\ turns[k].held /\ blk[k] # w + 1 =>
                    blk[k] \in 1..w /\ turns[k].row = restored[blk[k]].row
              /\ turns[k].held /\ blk[k] = w + 1 => \A i \in 1..w : restored[i].row # turns[k].row
  BY <1>4, <1>10 DEF From
<1>21. ASSUME NEW k \in 1..Len(turns), src[k] = 0
       PROVE  /\ blk[k] \in 1..w /\ turns[k] = restored[blk[k]]
              /\ turns[k].held /\ ~turns[k].own /\ ~turns[k].item
              /\ \A j \in 1..Len(live) : ~RestoredFrom(live, restored[blk[k]], j)
  BY <1>4, <1>10, <1>21 DEF From
<1>11. \A k, l \in 1..Len(turns) : k < l =>
          blk[k] < blk[l] \/ (blk[k] = blk[l] /\ src[k] < src[l])
  BY <1>7 DEF Traced
<1>12. ASSUME NEW k \in 1..Len(turns), NEW l \in 1..Len(turns), k # l, src[k] # 0
       PROVE  src[k] # src[l]
  <2>1. k < l \/ l < k
    BY <1>4, <1>12
  <2>2. Len(live) \in Nat /\ Len(restored) \in Nat /\ Len(turns) \in Nat
    BY <1>1, <1>4
  <2>3. \A x, y \in 1..Len(restored) : restored[x].row = restored[y].row => x = y
    BY <1>4, <1>5
  <2>4. Apart(turns, src)
    BY <1>6, <1>7, <2>2, <2>3, TracedOnce, Zenon
  <2> QED
    BY <1>12, <2>1, <2>4 DEF Apart
\* Nothing read is of a message that is drawn without its row.
<1>13. ASSUME NEW b \in 1..w, NEW m \in Msgs, Unheld(m), restored[b].row[1] = m, restored[b].row \in Rows
       PROVE  FALSE
  <2>1. PICK r \in Rows : r = restored[b].row /\ r[1] = m
    BY <1>13
  <2>2. InOrder(r, m)
    BY <2>1 DEF PageInv, Order
  <2>3. Led(wire, Users(m), Brings(r))
    BY <1>13, <2>2 DEF InOrder
  <2>4. wire[1] \notin Brings(r)
    BY <2>3, LedPopped DEF Received
  <2> QED
    BY <1>9, <2>1, <2>4, KindParts DEF Received
<1>14. \A b \in 1..w : restored[b].row \in Rows /\ restored[b].row[1] \in Msgs
  <2>1. \A b \in 1..w : restored[b] \in Turns
    BY <1>2, <1>4
  <2>2. \A t \in Turns : t.row \in Rows
    BY DEF Turns
  <2> QED
    BY <2>1, <2>2, RowsTyped
<1>15. Draws(e)
  <2>1. ASSUME NEW r, Held(r)' PROVE Held(r) \/ e \in Says(r)
    <3>1. PICK k \in 1..Len(turns) : turns[k].row = r /\ turns[k].held
      BY <1>4, <2>1 DEF Held
    <3>2. CASE src[k] = 0
      <4>1. PICK b \in 1..w : restored[b].row = r
        BY <1>21, <3>1, <3>2
      <4>2. e \in Has(r)
        BY <1>9, <4>1
      <4> QED
        BY <4>2, KindParts
    <3>3. CASE src[k] # 0
      BY <1>4, <1>20, <1>21, <3>1, <3>3 DEF Held
    <3> QED
      BY <3>2, <3>3
  <2>2. ASSUME NEW k \in 1..Len(turns), ~turns[k].held \/ turns[k].own \/ turns[k].item
        PROVE  \E j \in 1..Len(page.turns) : turns[k] = page.turns[j]
    BY <1>4, <1>20, <1>21, <2>2
  <2>3. \A m : Unheld(m)' => Unheld(m)
    BY <1>4, <2>2 DEF Unheld
  <2>4. \A m : EchoOf(m)' => EchoOf(m)
    BY <1>4, <2>2 DEF EchoOf, IsEcho
  <2>5. \A m : PendOf(m)' => PendOf(m)
    BY <1>4, <2>2 DEF PendOf, Pending
  <2> QED
    BY <1>8, <2>1, <2>3, <2>4, <2>5 DEF Draws
<1>16. TurnShape'
  <2>1. ASSUME NEW k \in 1..Len(turns)
        PROVE  /\ ~turns[k].held => turns[k].row[3] = "said" /\ (turns[k].own <=> ~turns[k].item)
               /\ turns[k].own => turns[k].row[1] \in Own
    <3>1. CASE src[k] = 0
      BY <1>20, <1>21, <3>1
    <3>2. CASE src[k] # 0
      <4>1. PICK j \in 1..Len(page.turns) : turns[k] = page.turns[j]
        BY <1>20, <3>2
      <4>2. TurnShape
        BY DEF PageInv
      <4> QED
        BY <4>1, <4>2 DEF TurnShape
    <3> QED
      BY <3>1, <3>2
  <2> QED
    BY <1>4, <2>1 DEF TurnShape
<1>17. RunsFollow'
  <2> SUFFICES ASSUME NEW i \in 1..Len(turns), NEW j \in 1..Len(turns), NEW m,
                      turns[i].row[3] # "said", m = turns[i].row[1],
                      turns[j].row = Said(m), ~(j < i)
               PROVE  FALSE
    BY <1>4 DEF RunsFollow
  <2>1. Said(m)[3] = "said" /\ Said(m)[1] = m
    BY DEF Said
  <2>2. i # j /\ i < j
    BY <1>1, <1>4, <2>1
  <2>3. turns[i].held
    BY <1>4, <1>16 DEF TurnShape
  <2>4. CASE blk[i] = w + 1
    <3>1. blk[j] = w + 1 /\ src[i] < src[j]
      <4>1. blk[i] < blk[j] \/ (blk[i] = blk[j] /\ src[i] < src[j])
        BY <1>11, <2>2
      <4>2. blk[j] \in 1..w + 1
        BY <1>20, <1>21
      <4> QED
        BY <1>4, <2>4, <4>1, <4>2
    <3>2. src[i] # 0 /\ src[j] # 0
      BY <1>20, <1>21, <2>4, <3>1
    <3>3. PICK x \in 1..Len(page.turns), y \in 1..Len(page.turns) :
              x = src[i] /\ y = src[j] /\ turns[i] = page.turns[x] /\ turns[j] = page.turns[y] /\ x < y
      BY <1>4, <1>20, <1>21, <3>1, <3>2
    <3>4. y < x
      BY <2>1, <3>3 DEF PageInv, RunsFollow
    <3> QED
      BY <3>3, <3>4
  <2>5. CASE blk[i] # w + 1
    <3>1. PICK b \in 1..w : b = blk[i] /\ turns[i].row = restored[b].row
      BY <1>20, <1>21, <2>3, <2>5
    <3>2. m \in Msgs /\ restored[b].row[1] = m /\ restored[b].row \in Rows
      BY <1>14, <3>1
    <3>3. ~Unheld(m)
      BY <1>13, <3>2
    <3>4. turns[j].held
      <4>1. ~turns[j].held => src[j] # 0
        BY <1>20, <1>21
      <4>2. ASSUME ~turns[j].held PROVE Unheld(m)
        <5>1. PICK x \in 1..Len(page.turns) : turns[j] = page.turns[x]
          BY <1>20, <4>1, <4>2
        <5> QED
          BY <4>2, <5>1 DEF Unheld
      <4> QED
        BY <3>3, <4>2
    <3>5. CASE blk[j] # w + 1
      <4>1. PICK c \in 1..w : c = blk[j] /\ turns[j].row = restored[c].row
        BY <1>20, <1>21, <3>4, <3>5
      <4>2. c < b
        BY <1>5, <3>1, <4>1
      <4>3. b < c \/ b = c
        BY <1>11, <2>2, <3>1, <4>1
      <4> QED
        BY <4>2, <4>3
    <3>6. CASE blk[j] = w + 1
      <4>1. \A x \in 1..w : restored[x].row # Said(m)
        BY <1>20, <1>21, <3>4, <3>6
      <4>2. e \in Lacks(m)
        BY <1>4, <2>1, <3>1, <3>2, <4>1 DEF Lacks
      <4>3. Held(Said(m))
        <5>1. src[j] # 0
          BY <1>4, <1>20, <1>21, <3>6
        <5>2. PICK x \in 1..Len(page.turns) : turns[j] = page.turns[x]
          BY <1>20, <5>1
        <5> QED
          BY <3>4, <5>2 DEF Held
      <4>4. Led(wire, Drops(Said(m)), Lacks(m))
        BY <3>2, <4>3 DEF PageInv, Dropped
      <4>5. wire[1] \notin Lacks(m)
        BY <4>4, LedPopped DEF Received
      <4> QED
        BY <4>2, <4>5 DEF Received
    <3> QED
      BY <3>5, <3>6
  <2> QED
    BY <2>4, <2>5
<1>18. Once'
  <2> SUFFICES ASSUME NEW i \in 1..Len(turns), NEW j \in 1..Len(turns), i # j,
                      turns[i].row = turns[j].row
               PROVE  /\ IsEcho(turns[i]) <=> ~IsEcho(turns[j])
                      /\ On(wire', Takes(turns[i].row[1]))
    BY <1>4 DEF Once
  <2>1. ASSUME NEW k \in 1..Len(turns), NEW l \in 1..Len(turns), k # l, turns[k].row = turns[l].row,
               src[k] = 0
        PROVE  FALSE
    <3>1. blk[k] \in 1..w /\ turns[k] = restored[blk[k]]
          /\ \A j2 \in 1..Len(live) : ~RestoredFrom(live, restored[blk[k]], j2)
      BY <1>20, <1>21, <2>1
    <3>2. CASE src[l] = 0
      <4>1. blk[l] \in 1..w /\ turns[l] = restored[blk[l]]
        BY <1>20, <1>21, <3>2
      <4>2. blk[k] = blk[l]
        BY <1>5, <2>1, <3>1, <4>1
      <4>3. k < l \/ l < k
        BY <1>1, <1>4, <2>1
      <4>4. blk[k] < blk[l] \/ blk[l] < blk[k] \/ src[k] < src[l] \/ src[l] < src[k]
        BY <1>11, <4>3
      <4> QED
        BY <2>1, <3>1, <3>2, <4>1, <4>2, <4>4
    <3>3. CASE src[l] # 0
      <4>1. PICK x \in 1..Len(page.turns) : turns[l] = page.turns[x] /\ x = src[l]
        BY <1>4, <1>20, <1>21, <3>3
      <4>2. PICK b \in 1..w : b = blk[k]
        BY <3>1
      <4>3. restored[b].row = page.turns[x].row /\ ~RestoredFrom(live, restored[b], x)
        BY <1>4, <2>1, <3>1, <4>1, <4>2
      <4>4. ~page.turns[x].held
        BY <1>4, <4>3 DEF RestoredFrom
      <4>5. PICK m \in Msgs : page.turns[x].row = Said(m) /\ m = page.turns[x].row[1]
        BY <4>4, LooseTurns
      <4>6. Unheld(m)
        BY <4>4, <4>5 DEF Unheld
      <4> QED
        BY <1>13, <1>14, <4>3, <4>5, <4>6
    <3> QED
      BY <3>2, <3>3
  <2>2. src[i] # 0 /\ src[j] # 0
    BY <2>1
  <2>3. PICK x \in 1..Len(page.turns), y \in 1..Len(page.turns) :
            x = src[i] /\ y = src[j] /\ turns[i] = page.turns[x] /\ turns[j] = page.turns[y]
    BY <1>4, <1>20, <1>21, <2>2
  <2>4. x # y
    BY <1>12, <2>2, <2>3
  <2>5. /\ IsEcho(page.turns[x]) <=> ~IsEcho(page.turns[y])
        /\ On(wire, Takes(page.turns[x].row[1]))
    BY <2>3, <2>4 DEF PageInv, Once
  <2>6. On(wire', Takes(page.turns[x].row[1]))
    BY <1>8, <2>5, ReceivedOn
  <2> QED
    BY <2>3, <2>5, <2>6
<1> QED
  BY <1>15, <1>16, <1>17, <1>18

\* The page before is of earlier launches, and nothing of it is drawn.
LEMMA EarlierDraws ==
    ASSUME Shape, PageInv, NEW e, Received(e), e \in TurnAnswers, e.kind = "earlier",
           Pushed(e.rows, page.turns, page'.turns)
    PROVE  Draws(e) /\ TurnShape' /\ Once' /\ RunsFollow'
<1>1. page.turns \in Seq(Turns) /\ e.rows \in Seq(Turns)
  BY TurnsTyped DEF TurnAnswers
<1>2. PICK n, turns :
          /\ n \in Nat /\ n = Len(e.rows) /\ turns = page'.turns
          /\ Len(page.turns) \in Nat /\ Len(turns) = n + Len(page.turns)
          /\ \A k \in 1..n : turns[k] = e.rows[k]
  BY <1>1 DEF Pushed
<1>3. /\ WellRead(e)
      /\ \A r \in Rows : e \in Has(r) => r[1] \in History /\ ~Held(r) /\ ~Held(Said(r[1]))
  <2>1. 1 \in 1..Len(wire) /\ wire[1] = e
    BY PoppedAt DEF Received
  <2>2. /\ \A i \in 1..Len(wire) : wire[i] \in TurnAnswers => WellRead(wire[i])
        /\ \A i \in 1..Len(wire) : wire[i] \in TurnAnswers /\ wire[i].kind = "earlier" =>
              \A r \in Rows : wire[i] \in Has(r) =>
                 r[1] \in History /\ ~Held(r) /\ ~Held(Said(r[1]))
    BY DEF PageInv, Reads
  <2> QED
    BY <2>1, <2>2
<1>4. \A k \in 1..n : /\ turns[k].row \in Rows /\ e \in Has(turns[k].row)
                      /\ turns[k].held /\ ~turns[k].own /\ ~turns[k].item
  <2>1. \A t \in Turns : t.row \in Rows
    BY DEF Turns
  <2>2. \A k \in 1..n : e.rows[k] \in Turns
    BY <1>1, <1>2
  <2>3. \A k \in 1..n : e \in Has(e.rows[k].row)
    BY <1>2 DEF Has
  <2> QED
    BY <1>2, <1>3, <2>1, <2>2, <2>3 DEF WellRead
<1>5. \A k \in 1..Len(turns) : \/ k \in 1..n
                               \/ \E x \in 1..Len(page.turns) : k = n + x /\ turns[k] = page.turns[x]
  <2>1. PushedParts(e.rows, page.turns, page'.turns)
    BY PushedAt
  <2> QED
    BY <1>2, <2>1 DEF PushedParts
<1>6. /\ \A m : e \notin Users(m) /\ e \notin Takes(m)
      /\ \A r : e \notin Drops(r)
  BY KindOf
\* What is drawn of an earlier launch is drawn from its row.
<1>7. ASSUME NEW x \in 1..Len(page.turns), page.turns[x].row[1] \in History
      PROVE  page.turns[x].held
  <2> SUFFICES ASSUME ~page.turns[x].held PROVE FALSE
    OBVIOUS
  <2>1. PICK m \in Msgs : m = page.turns[x].row[1] /\ page.turns[x].row = Said(m)
    BY LooseTurns
  <2>2. IsEcho(page.turns[x]) \/ Pending(page.turns[x])
    BY LooseTurns
  <2>3. CASE IsEcho(page.turns[x])
    <3>1. m \in Own
      BY <2>1, <2>3 DEF PageInv, TurnShape, IsEcho
    <3> QED
      BY <1>7, <2>1, <3>1, TranscriptAssumption
  <2>4. CASE Pending(page.turns[x])
    <3>1. Via(m)
      BY <2>1, <2>4 DEF Via, PendOf
    <3> QED
      BY <1>7, <2>1, <3>1 DEF PageInv, Ways
  <2> QED
    BY <2>2, <2>3, <2>4
<1>8. ASSUME NEW k \in 1..n, NEW x \in 1..Len(page.turns)
      PROVE  page.turns[x].row # turns[k].row /\ page.turns[x].row # Said(turns[k].row[1])
  <2>1. PICK r \in Rows : r = turns[k].row /\ r[1] \in History /\ ~Held(r) /\ ~Held(Said(r[1]))
    BY <1>3, <1>4
  <2>2. Said(r[1])[1] = r[1]
    BY DEF Said
  <2>3. page.turns[x].held => page.turns[x].row # r /\ page.turns[x].row # Said(r[1])
    BY <2>1 DEF Held
  <2> QED
    BY <1>7, <2>1, <2>2, <2>3
<1>9. ASSUME NEW k \in 1..Len(turns), ~turns[k].held \/ turns[k].own \/ turns[k].item
      PROVE  \E x \in 1..Len(page.turns) : k = n + x /\ turns[k] = page.turns[x]
  BY <1>4, <1>5, <1>9
<1>20. ASSUME NEW k \in 1..Len(turns), ~turns[k].held \/ turns[k].own \/ turns[k].item
       PROVE  \E x \in 1..Len(page.turns) : turns[k] = page.turns[x]
  BY <1>9, <1>20
<1>10. Draws(e)
  <2>1. ASSUME NEW r, Held(r)' PROVE Held(r) \/ e \in Says(r)
    <3>1. PICK k \in 1..Len(turns) : turns[k].row = r /\ turns[k].held
      BY <1>2, <2>1 DEF Held
    <3>2. CASE k \in 1..n
      <4>1. e \in Has(r)
        BY <1>4, <3>1, <3>2
      <4> QED
        BY <4>1, KindParts
    <3>3. CASE k \notin 1..n
      BY <1>5, <3>1, <3>3 DEF Held
    <3> QED
      BY <3>2, <3>3
  <2>2. ASSUME NEW m, Unheld(m)' PROVE Unheld(m)
    <3>1. PICK k \in 1..Len(turns) : turns[k].row = Said(m) /\ ~turns[k].held
      BY <1>2, <2>2 DEF Unheld
    <3>2. PICK x \in 1..Len(page.turns) : turns[k] = page.turns[x]
      BY <1>20, <3>1
    <3> QED
      BY <3>1, <3>2 DEF Unheld
  <2>3. ASSUME NEW m, EchoOf(m)' PROVE EchoOf(m)
    <3>1. PICK k \in 1..Len(turns) : turns[k].row = Said(m) /\ turns[k].own /\ ~turns[k].held
      BY <1>2, <2>3 DEF EchoOf, IsEcho
    <3>2. PICK x \in 1..Len(page.turns) : turns[k] = page.turns[x]
      BY <1>20, <3>1
    <3> QED
      BY <3>1, <3>2 DEF EchoOf, IsEcho
  <2>4. ASSUME NEW m, PendOf(m)' PROVE PendOf(m)
    <3>1. PICK k \in 1..Len(turns) : turns[k].row = Said(m) /\ turns[k].item /\ ~turns[k].held
      BY <1>2, <2>4 DEF PendOf, Pending
    <3>2. PICK x \in 1..Len(page.turns) : turns[k] = page.turns[x]
      BY <1>20, <3>1
    <3> QED
      BY <3>1, <3>2 DEF PendOf, Pending
  <2> QED
    BY <1>6, <2>1, <2>2, <2>3, <2>4 DEF Draws
<1>11. TurnShape'
  <2>1. ASSUME NEW k \in 1..Len(turns)
        PROVE  /\ ~turns[k].held => turns[k].row[3] = "said" /\ (turns[k].own <=> ~turns[k].item)
               /\ turns[k].own => turns[k].row[1] \in Own
    <3>1. CASE k \in 1..n
      BY <1>4, <3>1
    <3>2. CASE k \notin 1..n
      BY <1>5, <3>2 DEF PageInv, TurnShape
    <3> QED
      BY <3>1, <3>2
  <2> QED
    BY <1>2, <2>1 DEF TurnShape
<1>12. RunsFollow'
  <2> SUFFICES ASSUME NEW i \in 1..Len(turns), NEW j \in 1..Len(turns),
                      turns[i].row[3] # "said", turns[j].row = Said(turns[i].row[1])
               PROVE  j < i
    BY <1>2 DEF RunsFollow
  <2>1. CASE i \in 1..n /\ j \in 1..n
    BY <1>2, <1>3, <2>1 DEF WellRead
  <2>2. ASSUME NEW x \in 1..Len(page.turns), j = n + x, turns[j] = page.turns[x], i \in 1..n
        PROVE  FALSE
    BY <1>8, <2>2
  <2>3. ASSUME NEW x \in 1..Len(page.turns), i = n + x, j \in 1..n
        PROVE  j < i
    BY <1>2, <2>3
  <2>4. ASSUME NEW x \in 1..Len(page.turns), i = n + x, turns[i] = page.turns[x],
               NEW y \in 1..Len(page.turns), j = n + y, turns[j] = page.turns[y]
        PROVE  j < i
    <3>1. y < x
      BY <2>4 DEF PageInv, RunsFollow
    <3> QED
      BY <1>2, <2>4, <3>1
  <2> QED
    BY <1>5, <2>1, <2>2, <2>3, <2>4
<1>13. Once'
  <2> SUFFICES ASSUME NEW i \in 1..Len(turns), NEW j \in 1..Len(turns), i # j,
                      turns[i].row = turns[j].row
               PROVE  /\ IsEcho(turns[i]) <=> ~IsEcho(turns[j])
                      /\ On(wire', Takes(turns[i].row[1]))
    BY <1>2 DEF Once
  <2>1. ~(i \in 1..n /\ j \in 1..n)
    BY <1>2, <1>3 DEF WellRead
  <2>2. i \notin 1..n /\ j \notin 1..n
    BY <1>5, <1>8, <2>1
  <2>3. PICK x \in 1..Len(page.turns) : i = n + x /\ turns[i] = page.turns[x]
    BY <1>5, <2>2
  <2>4. PICK y \in 1..Len(page.turns) : j = n + y /\ turns[j] = page.turns[y]
    BY <1>5, <2>2
  <2>5. /\ IsEcho(page.turns[x]) <=> ~IsEcho(page.turns[y])
        /\ On(wire, Takes(page.turns[x].row[1]))
    BY <2>3, <2>4 DEF PageInv, Once
  <2>6. On(wire', Takes(page.turns[x].row[1]))
    BY <1>6, <2>5, ReceivedOn
  <2> QED
    BY <2>3, <2>4, <2>5, <2>6
<1> QED
  BY <1>10, <1>11, <1>12, <1>13

\* What the page makes of what it receives.
Made(e) == Draws(e) /\ Notes(e) /\ TurnShape' /\ Once' /\ RunsFollow'

\* What leaves the page but for its turns tells it nothing else.
LEMMA StaysNotes ==
    ASSUME NEW e, e \notin TurnAnswers, Stays(page, page')
    PROVE  Notes(e)
BY DEF Notes, Stays

\* Events of which it draws nothing.
LEMMA QuietMade ==
    ASSUME Shape, PageInv, NEW e, Received(e), e.kind \notin {"user", "deleted", "sent"},
           e \notin TurnAnswers, Stays(page, page'), page'.turns = page.turns
    PROVE  Made(e)
<1>1. /\ \A m : e \notin Users(m) /\ e \notin Takes(m)
      /\ \A r : e \notin Drops(r)
  BY KindOf
<1>2. Draws(e) /\ TurnShape' /\ Once' /\ RunsFollow'
  BY <1>1, SameDraws
<1> QED
  BY <1>2, StaysNotes DEF Made

\* The latest page.
LEMMA PageMade ==
    ASSUME Shape, PageInv, NEW e, Received(e), e.kind = "page", page' = Restore(page, e)
    PROVE  Made(e)
<1>1. e \in TurnAnswers \cup Failures /\ page \in Pages
  BY EventFacts DEF Received, Shape, PageShape
<1>2. PICK p, q : p = page /\ q = page' /\ q = Restore(p, e) /\ p \in Pages
  BY <1>1
<1>3. /\ q.sends = p.sends /\ q.listening = p.listening
      /\ e \in Failures => q = p
      /\ e \in TurnAnswers /\ e.rows = <<>> => q = [p EXCEPT !.read = TRUE]
      /\ e \in TurnAnswers /\ e.rows # <<>> =>
            /\ q.read /\ q.earlier = e.earlier
            /\ q.turns = Merge(e.rows, p.turns)
  BY <1>1, <1>2, RestoreFacts
<1>4. CASE e \in Failures
  <2>1. Stays(page, page') /\ page'.turns = page.turns
    BY <1>2, <1>3, <1>4 DEF Stays
  <2>2. e \notin TurnAnswers
    BY <1>4 DEF Failures, TurnAnswers
  <2> QED
    BY <2>1, <2>2, QuietMade
<1>5. CASE e \in TurnAnswers /\ e.rows = <<>>
  <2>1. page'.turns = page.turns /\ page'.read /\ page'.earlier = page.earlier /\ page'.sends = page.sends
    BY <1>2, <1>3, <1>5 DEF Pages
  <2>2. /\ \A m : e \notin Users(m) /\ e \notin Takes(m)
        /\ \A r : e \notin Drops(r)
    BY KindOf
  <2>3. Draws(e) /\ TurnShape' /\ Once' /\ RunsFollow'
    BY <2>1, <2>2, SameDraws
  <2>4. \A r : e \notin Has(r)
    BY <1>5 DEF Has
  <2>5. e \in LatestReads
    BY DEF Received, LatestReads
  <2>6. Notes(e)
    BY <1>5, <2>1, <2>4, <2>5 DEF Notes
  <2> QED
    BY <2>3, <2>6 DEF Made
<1>6. CASE e \in TurnAnswers /\ e.rows # <<>>
  <2>1. e.rows \in Seq(Turns) /\ page.turns \in Seq(Turns)
    BY <1>6, TurnsTyped DEF TurnAnswers
  <2>2. /\ Merge(e.rows, page.turns) \in Seq(Turns)
        /\ MergeMakes(e.rows, page.turns, Merge(e.rows, page.turns))
    BY <2>1, MergeFacts
  <2>3. page'.turns = Merge(e.rows, page.turns)
    BY <1>2, <1>3, <1>6
  <2>4. MergeMakes(e.rows, page.turns, page'.turns) /\ page'.turns \in Seq(Turns)
    BY <2>2, <2>3
  <2>5. Draws(e) /\ TurnShape' /\ Once' /\ RunsFollow'
    BY <1>6, <2>4, MergeDraws
  <2>6. e \in LatestReads
    BY DEF Received, LatestReads
  <2>7. Notes(e)
    BY <1>2, <1>3, <1>6, <2>6 DEF Notes
  <2> QED
    BY <2>5, <2>7 DEF Made
<1> QED
  BY <1>1, <1>4, <1>5, <1>6

\* The page before.
LEMMA EarlierMade ==
    ASSUME Shape, PageInv, NEW e, Received(e), e.kind = "earlier", page' = PutEarlier(page, e)
    PROVE  Made(e)
<1>1. e \in TurnAnswers \cup Failures /\ page \in Pages
  BY EventFacts DEF Received, Shape, PageShape
<1>2. PICK p, q : p = page /\ q = page' /\ q = PutEarlier(p, e) /\ p \in Pages
  BY <1>1
<1>3. /\ q.sends = p.sends /\ q.read = p.read
      /\ e \in Failures => q = p
      /\ e \in TurnAnswers /\ p.earlier = e.asked =>
            /\ q.turns = e.rows \o p.turns
            /\ q.earlier = IF e.earlier < e.asked THEN e.earlier ELSE 0
  <2>1. e.kind # "snapshot"
    OBVIOUS
  <2>2. PutEarlier(p, e).sends = p.sends /\ PutEarlier(p, e).read = p.read
    BY <1>1, <1>2, <2>1, PutEarlierFacts
  <2>3. e \in Failures => PutEarlier(p, e) = p
    BY <1>1, <1>2, <2>1, PutEarlierFacts
  <2>4. e \in TurnAnswers /\ p.earlier = e.asked =>
            /\ PutEarlier(p, e).turns = e.rows \o p.turns
            /\ PutEarlier(p, e).earlier = IF e.earlier < e.asked THEN e.earlier ELSE 0
    BY <1>1, <1>2, <2>1, PutEarlierFacts, Zenon
  <2>5. q = PutEarlier(p, e)
    BY <1>2
  <2> QED
    BY <2>2, <2>3, <2>4, <2>5, Zenon
<1>4. CASE e \in Failures
  <2>1. Stays(page, page') /\ page'.turns = page.turns
    BY <1>2, <1>3, <1>4 DEF Stays
  <2>2. e \notin TurnAnswers
    BY <1>4 DEF Failures, TurnAnswers
  <2> QED
    BY <2>1, <2>2, QuietMade
<1>5. CASE e \in TurnAnswers
  <2>1. e.asked = page.earlier
    <3>1. 1 \in 1..Len(wire) /\ wire[1] = e
      BY PoppedAt DEF Received
    <3>2. \A i \in 1..Len(wire) : wire[i] \in TurnAnswers /\ wire[i].kind = "earlier" =>
             wire[i].asked = page.earlier
      BY DEF PageInv, Reads
    <3> QED
      BY <1>5, <3>1, <3>2
  <2>2. e.rows \in Seq(Turns) /\ page.turns \in Seq(Turns)
    BY <1>5, TurnsTyped DEF TurnAnswers
  <2>3. Pushed(e.rows, page.turns, page'.turns)
    <3>1. page'.turns = e.rows \o page.turns
      BY <1>2, <1>3, <1>5, <2>1
    <3>2. Pushed(e.rows, page.turns, e.rows \o page.turns)
      BY <2>2, PushedSeq
    <3> QED
      BY <3>1, <3>2
  <2>4. Draws(e) /\ TurnShape' /\ Once' /\ RunsFollow'
    BY <1>5, <2>3, EarlierDraws
  <2>5. page'.earlier \in {0, e.earlier}
    BY <1>2, <1>3, <1>5, <2>1
  <2>6. Notes(e)
    BY <1>2, <1>3, <1>5, <2>5 DEF Notes
  <2> QED
    BY <2>4, <2>6 DEF Made
<1> QED
  BY <1>1, <1>4, <1>5

\* A queue or a snapshot of it.
LEMMA ShownMade ==
    ASSUME Shape, PageInv, NEW e, Received(e), e \in Lists \cup Snapshots,
           page' = Shown(page, e.items)
    PROVE  Made(e)
<1>1. page \in Pages /\ e.items \in Seq(Items) /\ e.kind \in {"queue", "snapshot"}
  BY DEF Shape, PageShape, Lists, Snapshots
<1>2. Stays(page, Shown(page, e.items)) /\ SyncMakes(page.turns, e.items, Shown(page, e.items).turns)
  BY <1>1, ShownFacts
<1>3. Stays(page, page') /\ SyncMakes(page.turns, e.items, page'.turns)
  BY <1>2
<1>4. Draws(e) /\ TurnShape' /\ Once' /\ RunsFollow'
  BY <1>3, SyncDraws
<1>5. e \notin TurnAnswers
  BY <1>1, KindOf
<1> QED
  BY <1>3, <1>4, <1>5, StaysNotes DEF Made

\* A broadcast.
LEMMA UserMade ==
    ASSUME Shape, PageInv, NEW e, Received(e), e.kind = "user", page' = Persisted(page, e)
    PROVE  Made(e)
<1>1. page \in Pages /\ e \in UserEvents
  BY EventFacts DEF Received, Shape, PageShape
<1>2. Stays(page, Persisted(page, e)) /\ PersistedMakes(page.turns, e, Persisted(page, e).turns)
  BY <1>1, PersistedFacts
<1>3. Stays(page, page') /\ PersistedMakes(page.turns, e, page'.turns)
  BY <1>2
<1>4. PICK m \in Msgs : e \in Users(m)
  <2>1. e.msg \in Msgs /\ e.item \in BOOLEAN
    BY <1>1 DEF UserEvents
  <2> QED
    BY <1>1, <2>1 DEF Users, Announcements, Pops
<1>5. Draws(e) /\ TurnShape' /\ Once' /\ RunsFollow'
  BY <1>3, <1>4, UserDraws
<1>6. e \notin TurnAnswers
  BY KindOf
<1> QED
  BY <1>3, <1>5, <1>6, StaysNotes DEF Made

\* The answer to a send.
LEMMA SentMade ==
    ASSUME Shape, PageInv, NEW e, Received(e), e.kind = "sent", page' = Settle(page, e)
    PROVE  Made(e)
<1>1. page \in Pages /\ e \in SendAnswers
  BY EventFacts DEF Received, Shape, PageShape
<1>2. /\ Settle(page, e).sends = page.sends \ {e.msg} /\ Settle(page, e).read = page.read
      /\ Settle(page, e).earlier = page.earlier
  BY <1>1, SettleFacts
<1>3. Draws(e) /\ TurnShape' /\ Once' /\ RunsFollow'
  BY <1>1, SentDraws
<1>4. e \notin TurnAnswers
  BY KindOf
<1>5. Notes(e)
  BY <1>2, <1>4 DEF Notes
<1> QED
  BY <1>3, <1>5 DEF Made

\* A deletion.
LEMMA DeletedMade ==
    ASSUME Shape, PageInv, NEW e, Received(e), e.kind = "deleted", page' = DropDeleted(page, e.rows)
    PROVE  Made(e)
<1>1. page \in Pages /\ e \in Deletions
  BY EventFacts DEF Received, Shape, PageShape
<1>2. Stays(page, DropDeleted(page, e.rows)) /\ DropMakes(page.turns, e.rows, DropDeleted(page, e.rows).turns)
  BY <1>1, DropFacts
<1>3. Stays(page, page') /\ DropMakes(page.turns, e.rows, page'.turns)
  BY <1>2
<1>4. Draws(e) /\ TurnShape' /\ Once' /\ RunsFollow'
  BY <1>1, <1>3, DropDraws
<1>5. e \notin TurnAnswers
  BY KindOf
<1> QED
  BY <1>3, <1>4, <1>5, StaysNotes DEF Made

\* A step's end, or a line told.
LEMMA RowMade ==
    ASSUME Shape, PageInv, NEW e, Received(e), e.kind \in {"turn_end", "tell_user"},
           \/ page' = [page EXCEPT !.turns = LandedStep(page.turns, Turn(e.row)), !.phase = "none"]
           \/ page' = [page EXCEPT !.turns = Landed(page.turns, Turn(e.row))]
    PROVE  Made(e)
<1>1. page \in Pages /\ e \in [kind : {"turn_end", "tell_user"}, row : Rows]
  BY EventFacts DEF Received, Shape, PageShape
<1>2. PICK r \in Rows : r = e.row
  BY <1>1
<1>3. e \in RowEv(r)
  BY <1>1, <1>2 DEF RowEv
<1>4. PICK turns : /\ turns = LandedStep(page.turns, Turn(r)) \/ turns = Landed(page.turns, Turn(r))
                   /\ page'.turns = turns
  BY <1>1, <1>2 DEF Pages
<1>5. Draws(e) /\ TurnShape' /\ Once' /\ RunsFollow'
  BY <1>3, <1>4, RowDraws
<1>6. Stays(page, page')
  BY <1>1 DEF Stays, Pages
<1>7. e \notin TurnAnswers
  BY KindOf
<1> QED
  BY <1>5, <1>6, <1>7, StaysNotes DEF Made

\* However the page handles it.
LEMMA HandledMade ==
    ASSUME Shape, PageInv, NEW e, Received(e), page' = Handled(page, e)
    PROVE  Made(e)
<1>1. e \in Events /\ page \in Pages
  BY DEF Received, Shape, PageShape
<1>2. ASSUME e.kind \in {"turn_end", "tell_user", "run_complete", "closed", "stopped", "live",
                          "snapshot", "queue"}
      PROVE  e.kind \notin {"user", "deleted", "sent"} /\ e \notin TurnAnswers
  BY <1>2, KindOf
<1>3. CASE OfRunner(e) /\ ~page.listening
  <2>1. page' = page
    BY <1>3 DEF Handled
  <2>2. Stays(page, page') /\ page'.turns = page.turns
    BY <2>1 DEF Stays
  <2>3. e.kind \notin {"user", "deleted", "sent"} /\ e \notin TurnAnswers
    BY <1>2, <1>3 DEF OfRunner
  <2> QED
    BY <2>2, <2>3, QuietMade
<1>4. CASE ~(OfRunner(e) /\ ~page.listening)
  <2>1. page' =
      CASE e.kind = "turn_end"          -> [page EXCEPT !.turns = LandedStep(@, Turn(e.row)),
                                                   !.phase = "none"]
      [] e.kind = "tell_user"         -> [page EXCEPT !.turns = Landed(@, Turn(e.row))]
      [] e.kind = "run_complete"      -> SetRunning(page, FALSE)
      [] e.kind = "closed"            -> Asleep(page)
      [] e.kind = "user"              -> Persisted(page, e)
      [] e.kind = "queue"             -> Shown(page, e.items)
      [] e.kind = "deleted"           -> DropDeleted(page, e.rows)
      [] e.kind = "sent"              -> Settle(page, e)
      [] e.kind = "page"              -> Restore(page, e)
      [] e.kind = "earlier"           -> PutEarlier(page, e)
      [] e.kind = "snapshot"          -> IF e.failed THEN page ELSE Shown(page, e.items)
      [] e.kind = "stopped"           -> HearStop(page, e.dispatch)
      [] e.kind = "live"              -> page
    BY <1>4, Zenon DEF Handled
  <2>2. CASE e.kind = "turn_end"
    <3>1. page' = [page EXCEPT !.turns = LandedStep(page.turns, Turn(e.row)), !.phase = "none"]
      BY <1>1, <2>1, <2>2 DEF Pages
    <3> QED
      BY <2>2, <3>1, RowMade
  <2>3. CASE e.kind = "tell_user"
    <3>1. page' = [page EXCEPT !.turns = Landed(page.turns, Turn(e.row))]
      BY <1>1, <2>1, <2>3 DEF Pages
    <3> QED
      BY <2>3, <3>1, RowMade
  <2>4. CASE e.kind \in {"run_complete", "closed", "stopped", "live"}
    <3>1. \/ page' = SetRunning(page, FALSE) \/ page' = Asleep(page)
          \/ page' = HearStop(page, e.dispatch) \/ page' = page
      BY <2>1, <2>4
    <3>2. Stays(page, page') /\ page'.turns = page.turns
      <4>1. CASE page' = SetRunning(page, FALSE)
        BY <1>1, <4>1, SetRunningFacts
      <4>2. CASE page' = Asleep(page)
        BY <1>1, <4>2, AsleepFacts
      <4>3. CASE page' = HearStop(page, e.dispatch)
        BY <1>1, <4>3, HearStopFacts
      <4>4. CASE page' = page
        BY <4>4 DEF Stays
      <4> QED
        BY <3>1, <4>1, <4>2, <4>3, <4>4
    <3>3. e.kind \notin {"user", "deleted", "sent"} /\ e \notin TurnAnswers
      BY <1>2, <2>4
    <3> QED
      BY <3>2, <3>3, QuietMade
  <2>5. CASE e.kind = "user"
    BY <2>1, <2>5, UserMade
  <2>6. CASE e.kind = "queue"
    <3>1. page' = Shown(page, e.items) /\ e \in Lists \cup Snapshots
      BY <1>1, <2>1, <2>6, EventFacts
    <3> QED
      BY <3>1, ShownMade
  <2>7. CASE e.kind = "deleted"
    BY <2>1, <2>7, DeletedMade
  <2>8. CASE e.kind = "sent"
    BY <2>1, <2>8, SentMade
  <2>9. CASE e.kind = "page"
    BY <2>1, <2>9, PageMade
  <2>10. CASE e.kind = "earlier"
    BY <2>1, <2>10, EarlierMade
  <2>11. CASE e.kind = "snapshot"
    <3>1. CASE e.failed
      <4>1. page' = page
        BY <2>1, <2>11, <3>1
      <4>2. Stays(page, page') /\ page'.turns = page.turns
        BY <4>1 DEF Stays
      <4>3. e.kind \notin {"user", "deleted", "sent"} /\ e \notin TurnAnswers
        BY <1>2, <2>11
      <4> QED
        BY <4>2, <4>3, QuietMade
    <3>2. CASE ~e.failed
      <4>1. page' = Shown(page, e.items) /\ e \in Lists \cup Snapshots
        BY <1>1, <2>1, <2>11, <3>2, EventFacts
      <4> QED
        BY <4>1, ShownMade
    <3> QED
      BY <3>1, <3>2
  <2> QED
    BY <1>1, <2>2, <2>3, <2>4, <2>5, <2>6, <2>7, <2>8, <2>9, <2>10, <2>11, EventFacts
<1> QED
  BY <1>3, <1>4

\* What arrives is the first of what is on its way, and Core does nothing.
LEMMA ReceiveReceived ==
    ASSUME Shape, PageInv, Calm, NEW i \in 1..Len(wire), Receive(i)
    PROVE  Received(wire[1]) /\ page' = Handled(page, wire[1])
<1>1. i = 1
  BY DEF Receive, Arrives, Calm, Open
<1>2. PICK e : e = wire[1]
  OBVIOUS
<1>3. wire \in Seq(Events) /\ e \in Events
  BY <1>1, <1>2 DEF Shape, ChannelShape
<1>4. wire' = RemoveAt(wire, 1) /\ page' = Handled(page, e)
  BY <1>1, <1>2 DEF Receive
<1>5. Popped(wire, wire')
  BY <1>1, <1>3, <1>4, PoppedSeq
<1>6. \/ calls' = calls
      \/ /\ calls' = calls \cup {"page"} /\ e.kind = "live"
         /\ ~page.read /\ ~On(wire, LatestReads) /\ page' = page
  <2>1. IF e.kind = "live" THEN AttachLive(e.runOpen) ELSE calls' = calls
    BY <1>1, <1>2 DEF Receive
  <2>2. CASE e.kind # "live"
    BY <2>1, <2>2
  <2>3. CASE e.kind = "live" /\ calls' # calls
    <3>1. AttachLive(e.runOpen)
      BY <2>1, <2>3
    <3>2. calls' = calls \cup {"page"} /\ ~page.read /\ ~Asked("page", "page")
      BY <2>3, <3>1 DEF AttachLive, Ask
    <3>3. ~On(wire, LatestReads)
      BY <3>2 DEF Asked, On, LatestReads
    <3>4. ~OfRunner(e)
      BY <2>3 DEF OfRunner
    <3>5. page' = page
      BY <1>4, <2>3, <3>4 DEF Handled
    <3> QED
      BY <2>3, <3>2, <3>3, <3>5
  <2> QED
    BY <2>2, <2>3
<1>7. UNCHANGED <<rows, gone, queue, pc, lost, midway, emits, acts>>
  BY DEF Receive, core
<1> QED
  BY <1>2, <1>3, <1>4, <1>5, <1>6, <1>7 DEF Received

\* So what reaches the page leaves it in order.
LEMMA ReceiveGoes ==
    ASSUME Shape, CoreInv, PageInv, Calm, NEW i \in 1..Len(wire), Receive(i)
    PROVE  PageInv'
<1>1. Received(wire[1]) /\ page' = Handled(page, wire[1])
  BY ReceiveReceived
<1>2. PICK e : e = wire[1] /\ Received(e) /\ page' = Handled(page, e)
  BY <1>1
<1>3. Made(e)
  BY <1>2, HandledMade
<1> QED
  BY <1>2, <1>3, ReceivedInv DEF Made

-----------------------------------------------------------------------------
(* What the page does by itself.                                           *)

\* It asks for pages it does not have and is not waiting for.
Asking ==
    /\ "page" \in calls' => "page" \in calls \/ (~page.read /\ ~On(wire, LatestReads))
    /\ "earlier" \in calls' => "earlier" \in calls \/ (page.earlier > 0 /\ ~On(wire, EarlierReads))

\* What it draws stays the same, and so does what is on its way.
Rests ==
    /\ UNCHANGED <<rows, gone, queue, pc, lost, midway, emits, acts, wire>>
    /\ page'.turns = page.turns /\ page'.sends = page.sends
    /\ page'.read = page.read /\ page'.earlier = page.earlier
    /\ Asking

\* What is drawn, when the turns are the same.
LEMMA TurnsSame ==
    ASSUME page'.turns = page.turns
    PROVE  /\ \A r : Held(r)' <=> Held(r)
           /\ \A m : Unheld(m)' <=> Unheld(m)
           /\ \A m : EchoOf(m)' <=> EchoOf(m)
           /\ \A m : PendOf(m)' <=> PendOf(m)
BY DEF Held, Unheld, EchoOf, PendOf, IsEcho, Pending

\* What the reads say when Core and what is on its way stay.
LEMMA ReadsSame ==
    ASSUME PageInv, UNCHANGED <<rows, gone, wire>>, Asking,
           page'.read = page.read, page'.earlier = page.earlier,
           \A r : Held(r)' <=> Held(r)
    PROVE  Reads'
<1>1. Reads
  BY DEF PageInv
<1>2. /\ \A A : On(wire', A) <=> On(wire, A)
      /\ \A A : OneOf(wire', A) <=> OneOf(wire, A)
      /\ Len(wire') = Len(wire) /\ \A i : wire'[i] = wire[i]
  BY DEF On, OneOf
<1>3. /\ \A i \in 1..Len(wire') : wire'[i] \in TurnAnswers => WellRead(wire'[i])
      /\ OneOf(wire', LatestReads) /\ OneOf(wire', EarlierReads)
  BY <1>1, <1>2 DEF Reads
<1>4. /\ "page" \in calls' => ~On(wire', LatestReads)
      /\ "earlier" \in calls' => ~On(wire', EarlierReads)
  BY <1>1, <1>2 DEF Reads, Asking
<1>5. ~page.read => page.earlier = 0
  BY <1>1 DEF Reads
<1>6. /\ "page" \in calls' \/ On(wire', LatestReads) => ~page'.read
      /\ "earlier" \in calls' \/ On(wire', EarlierReads) => page'.read /\ page'.earlier > 0
  BY <1>1, <1>2, <1>5 DEF Reads, Asking
<1>7. ~page'.read => page'.earlier = 0 /\ \A r \in Rows : Held(r)' => r[1] \notin History
  BY <1>1 DEF Reads
<1>8. \A b : Base(b) => Base(b)'
  <2> SUFFICES ASSUME NEW b, b > 0, Base(b)
               PROVE  Base(b)'
    BY DEF Base
  <2>1. /\ b <= Len(rows) /\ rows[b][3] = "said"
        /\ \A i \in 1..b - 1 : IF rows[i][1] \in History THEN ~Held(rows[i]) ELSE rows[i] \in gone
    BY DEF Base
  <2>2. \A i \in 1..b - 1 : IF rows[i][1] \in History THEN ~Held(rows[i])' ELSE rows[i] \in gone
    <3> SUFFICES ASSUME NEW i \in 1..b - 1
                 PROVE  IF rows[i][1] \in History THEN ~Held(rows[i])' ELSE rows[i] \in gone
      OBVIOUS
    <3>1. PICK r : r = rows[i]
      OBVIOUS
    <3>2. Held(r)' <=> Held(r)
      OBVIOUS
    <3>3. Held(rows[i])' <=> Held(r)'
      BY <3>1 DEF Held
    <3> QED
      BY <2>1, <3>1, <3>2, <3>3
  <2> QED
    BY <2>1, <2>2 DEF Base
<1>9. Base(page.earlier)'
  <2>1. PICK b : b = page.earlier
    OBVIOUS
  <2>2. Base(b)'
    BY <1>1, <1>8, <2>1 DEF Reads
  <2> QED
    BY <2>1, <2>2
<1>10. ASSUME NEW i \in 1..Len(wire'), wire'[i] \in TurnAnswers
       PROVE  /\ Base(wire[i].earlier)'
              /\ \A k \in 1..wire'[i].earlier - 1 : wire'[i] \notin Has(rows'[k])
              /\ wire'[i].kind = "earlier" =>
                    /\ wire'[i].asked = page'.earlier
                    /\ \A r \in Rows : wire'[i] \in Has(r) =>
                          r[1] \in History /\ ~Held(r)' /\ ~Held(Said(r[1]))'
  <2>1. PICK e, b : e = wire'[i] /\ b = e.earlier
    OBVIOUS
  <2>2. /\ Base(b)
        /\ \A k \in 1..b - 1 : e \notin Has(rows[k])
        /\ e.kind = "earlier" =>
              /\ e.asked = page.earlier
              /\ \A r \in Rows : e \in Has(r) =>
                    r[1] \in History /\ ~Held(r) /\ ~Held(Said(r[1]))
    BY <1>1, <1>10, <2>1 DEF Reads
  <2>3. Base(b)'
    BY <1>8, <2>2
  <2>4. Base(wire[i].earlier)'
    BY <2>1, <2>3
  <2> QED
    BY <2>1, <2>2, <2>4
<1> QED
  BY <1>3, <1>4, <1>6, <1>7, <1>9, <1>10 DEF Reads

\* What is said of Core, of what is on its way and of what is drawn, when
\* the page asks or waits.
LEMMA RestsGoes ==
    ASSUME PageInv, Rests
    PROVE  PageInv'
<1>1. /\ UNCHANGED <<rows, gone, queue, pc, lost, midway, emits, acts, wire>>
      /\ page'.turns = page.turns /\ page'.sends = page.sends
      /\ page'.read = page.read /\ page'.earlier = page.earlier /\ Asking
  BY DEF Rests
<1>2. /\ \A r : Held(r)' <=> Held(r)
      /\ \A m : Unheld(m)' <=> Unheld(m)
      /\ \A m : EchoOf(m)' <=> EchoOf(m)
      /\ \A m : PendOf(m)' <=> PendOf(m)
  BY <1>1, TurnsSame
<1>3. /\ \A r : Stored(r)' <=> Stored(r)
      /\ \A m : Queued(m)' <=> Queued(m)
  BY <1>1, StoredSame, QueuedSame
<1>4. TurnShape' /\ Once' /\ RunsFollow'
  BY <1>1 DEF PageInv, TurnShape, Once, RunsFollow, Pending, IsEcho
<1>5. EchoPlace'
  BY <1>1, <1>2 DEF PageInv, EchoPlace
<1>6. Ways' /\ Finished'
  BY <1>1, <1>2, <1>3 DEF PageInv, Ways, Finished, Via, Direct
<1>7. Answers'
  BY <1>1, <1>2 DEF PageInv, Answers
<1>8. Announced'
  BY <1>1, <1>2, <1>3 DEF PageInv, Announced, Ann
<1>9. Order'
  BY <1>1, <1>2 DEF PageInv, Order, InOrder
<1>10. Known'
  BY <1>1, <1>2, <1>3 DEF PageInv, Known
<1>11. Dropped'
  BY <1>1, <1>2 DEF PageInv, Dropped
<1>12. Reads'
  BY <1>1, <1>2, ReadsSame
<1> QED
  BY <1>4, <1>5, <1>6, <1>7, <1>8, <1>9, <1>10, <1>11, <1>12 DEF PageInv

\* Stopping, activating, asking for earlier turns, listening, doing nothing.
LEMMA AsksGoes ==
    ASSUME Shape, PageInv, AskStop \/ Activate \/ LoadEarlier \/ ListenUp \/ UNCHANGED vars
    PROVE  PageInv'
<1>1. page \in Pages
  BY DEF Shape, PageShape
<1>2. /\ UNCHANGED <<rows, gone, queue, pc, lost, midway, emits, acts, wire>>
      /\ page'.turns = page.turns /\ page'.sends = page.sends
      /\ page'.read = page.read /\ page'.earlier = page.earlier
  <2>1. CASE AskStop
    BY <1>1, <2>1 DEF AskStop, Pages, core
  <2>2. CASE Activate
    BY <1>1, <2>2 DEF Activate, Pages, core
  <2>3. CASE LoadEarlier
    BY <2>3 DEF LoadEarlier, core
  <2>4. CASE ListenUp
    <3>1. UNCHANGED <<core, channel>>
      BY <2>4 DEF ListenUp
    <3>2. \/ page' = [SetRunning(page, TRUE) EXCEPT !.listening = TRUE]
          \/ page' = [page EXCEPT !.listening = TRUE]
      BY <2>4 DEF ListenUp
    <3>3. /\ SetRunning(page, TRUE) \in Pages /\ SetRunning(page, TRUE).turns = page.turns
          /\ Stays(page, SetRunning(page, TRUE))
      BY <1>1, SetRunningFacts
    <3> QED
      BY <1>1, <3>1, <3>2, <3>3 DEF Pages, Stays, core, channel
  <2>5. CASE UNCHANGED vars
    BY <2>5 DEF vars, core, channel
  <2> QED
    BY <2>1, <2>2, <2>3, <2>4, <2>5
<1>3. Asking
  <2>1. CASE AskStop
    BY <2>1 DEF AskStop, Ask, Asking
  <2>2. CASE Activate
    BY <2>2 DEF Activate, Asked, Asking, On, LatestReads
  <2>3. CASE LoadEarlier
    BY <2>3 DEF LoadEarlier, Ask, Asked, Asking, On, EarlierReads
  <2>4. CASE ListenUp
    BY <2>4 DEF ListenUp, channel, Asking
  <2>5. CASE UNCHANGED vars
    BY <2>5 DEF vars, channel, Asking
  <2> QED
    BY <2>1, <2>2, <2>3, <2>4, <2>5
<1> QED
  BY <1>2, <1>3, RestsGoes DEF Rests

\* A page that has reloaded draws nothing, and nothing is on its way to it.
LEMMA ReloadGoes ==
    ASSUME Shape, CoreInv, PageInv, Reload
    PROVE  PageInv'
<1>1. /\ UNCHANGED <<rows, gone, midway, queue, pc, lost, emits, acts>>
      /\ page' = [FreshPage EXCEPT !.listening = FALSE] /\ Len(wire') = 0
      /\ calls' = (calls \cap {"stop"}) \cup {"live"}
  BY DEF Reload, core
<1>2. Len(page'.turns) = 0 /\ ~page'.read /\ page'.earlier = 0
  BY <1>1 DEF FreshPage
<1>3. /\ \A r : ~Held(r)'
      /\ \A m : ~Unheld(m)' /\ ~EchoOf(m)' /\ ~PendOf(m)'
      /\ \A A : ~On(wire', A)
  BY <1>1, <1>2 DEF Held, Unheld, EchoOf, PendOf, On
<1>4. TurnShape' /\ Once' /\ RunsFollow' /\ EchoPlace'
  BY <1>2, <1>3 DEF TurnShape, Once, RunsFollow, EchoPlace
<1>5. Ways'
  <2>1. \A m : Queued(m)' <=> Queued(m)
    BY <1>1, QueuedSame
  <2>2. \A m \in Msgs : Via(m)' => Via(m)
    BY <1>1, <1>3, <2>1 DEF Via
  <2>3. \A m \in Msgs : Direct(m)' => Direct(m)
    BY <1>1, <1>3 DEF Direct
  <2> QED
    BY <1>1, <2>2, <2>3 DEF PageInv, Ways
<1>6. Finished' /\ Answers' /\ Announced'
  BY <1>1, <1>3 DEF Finished, Answers, Announced, Ordered
<1>7. Order'
  BY <1>1, <1>3 DEF Order, InOrder, Led, Ordered, Between
<1>8. Known'
  BY <1>1, <1>3 DEF Known, Ordered, OneOf
<1>9. Dropped'
  BY <1>1, <1>3 DEF Dropped, Led, Between, Trailed
<1>10. Base(page.earlier)'
  BY <1>2 DEF Base
<1>11. Reads'
  BY <1>1, <1>2, <1>3, <1>10 DEF Reads, OneOf
<1> QED
  BY <1>4, <1>5, <1>6, <1>7, <1>8, <1>9, <1>11 DEF PageInv

\* Nothing is drawn or told of a message that has not been sent.
LEMMA NewUnseen ==
    ASSUME Shape, CoreInv, PageInv, NEW m \in Msgs, pc[m] = "new"
    PROVE  /\ \A i \in 1..Len(page.turns) : page.turns[i].row[1] # m
           /\ ~Via(m) /\ ~Stored(Said(m)) /\ m \notin lost
           /\ ~On(wire, Users(m)) /\ ~On(wire, Finals(m)) /\ ~On(wire, Pendings(m))
           /\ \A r \in Rows : r[1] = m => ~On(wire, Brings(r))
<1>1. ~Stored(Said(m)) /\ m \notin lost
  BY DEF CoreInv, Places
<1>2. ~Via(m)
  BY DEF PageInv, Ways
<1>3. ~On(wire, Users(m))
  BY <1>1 DEF PageInv, Known
<1>4. ~On(wire, Finals(m))
  BY DEF PageInv, Finished
<1>5. ~On(wire, Pendings(m))
  BY <1>3, KindParts, OnMore
<1>6. \A r \in Rows : r[1] = m => ~On(wire, Brings(r)) /\ ~Held(r)
  BY <1>1, Sources DEF PageInv, Whence
<1>7. ASSUME NEW i \in 1..Len(page.turns), page.turns[i].row[1] = m
      PROVE  FALSE
  <2>1. page.turns[i].row \in Rows
    BY TurnsTyped
  <2>2. CASE page.turns[i].held
    BY <1>6, <1>7, <2>1, <2>2 DEF Held
  <2>3. CASE ~page.turns[i].held
    <3>1. page.turns[i].row[3] = "said" /\ (page.turns[i].own <=> ~page.turns[i].item)
      BY <2>3 DEF PageInv, TurnShape
    <3>2. page.turns[i].row = Said(m)
      BY <1>7, <2>1, <3>1, RowsTyped
    <3>3. CASE page.turns[i].own
      <4>1. EchoOf(m)
        BY <2>3, <3>2, <3>3 DEF EchoOf, IsEcho
      <4>2. On(wire, Takes(m))
        BY <1>1, <1>5, <4>1 DEF PageInv, EchoPlace
      <4> QED
        BY <1>2, <4>2 DEF Via
    <3>4. CASE ~page.turns[i].own
      <4>1. PendOf(m)
        BY <2>3, <3>1, <3>2, <3>4 DEF PendOf, Pending
      <4> QED
        BY <1>2, <4>1 DEF Via
    <3> QED
      BY <3>3, <3>4
  <2> QED
    BY <2>2, <2>3
<1> QED
  BY <1>1, <1>2, <1>3, <1>4, <1>5, <1>6, <1>7

\* The page sends message m, and may draw it below everything.
Submits(m) ==
    /\ m \in Own \cap Msgs /\ pc[m] = "new" /\ pc' = [pc EXCEPT ![m] = "sent"]
    /\ UNCHANGED <<rows, gone, midway, queue, lost, emits, acts, wire, calls>>
    /\ page'.read = page.read /\ page'.earlier = page.earlier
    /\ page'.sends = page.sends \cup {m}
    /\ Len(page.turns) \in Nat
    /\ \A i \in 1..Len(page.turns) : page'.turns[i] = page.turns[i]
    /\ \/ Len(page'.turns) = Len(page.turns)
       \/ /\ Len(page'.turns) = Len(page.turns) + 1
          /\ \E t : /\ t = page'.turns[Len(page.turns) + 1]
                    /\ t.row = Said(m) /\ t.own /\ ~t.held /\ ~t.item

\* That is sendThroughCore.
LEMMA SubmitSubmits ==
    ASSUME Shape, NEW m \in Own, Submit(m)
    PROVE  Submits(m)
<1>1. m \in Msgs /\ page \in Pages /\ pc \in [Msgs -> {"new", "sent", "saved", "pending", "written",
                                                        "drained", "taken", "over"}]
  BY TranscriptAssumption DEF Shape, CoreShape, PageShape
<1>2. /\ pc[m] = "new" /\ pc' = [pc EXCEPT ![m] = "sent"]
      /\ UNCHANGED <<rows, gone, midway, queue, lost, emits, acts, wire, calls>>
  BY DEF Submit, Go, channel
<1>3. page.turns \in Seq(Turns) /\ Len(page.turns) \in Nat
  BY TurnsTyped
<1>4. CASE page.running \/ page.stopping
  <2>1. page' = [page EXCEPT !.sends = @ \cup {m}]
    BY <1>4 DEF Submit
  <2>2. /\ page'.turns = page.turns /\ page'.read = page.read /\ page'.earlier = page.earlier
        /\ page'.sends = page.sends \cup {m}
    BY <1>1, <2>1 DEF Pages
  <2> QED
    BY <1>1, <1>2, <1>3, <2>2 DEF Submits
<1>5. CASE ~(page.running \/ page.stopping)
  <2>1. page' = [Echo(page, m) EXCEPT !.sends = @ \cup {m}]
    BY <1>5 DEF Submit
  <2>2. PICK t : t = [row |-> Said(m), held |-> FALSE, own |-> TRUE, item |-> FALSE, inter |-> FALSE]
    OBVIOUS
  <2>3. /\ page'.turns = Append(page.turns, t) /\ page'.read = page.read
        /\ page'.earlier = page.earlier /\ page'.sends = page.sends \cup {m}
    BY <1>1, <2>1, <2>2 DEF Echo, Pages
  <2>4. t \in Turns
    BY <1>1, <2>2 DEF Turns, Rows
  <2>5. /\ Len(page'.turns) = Len(page.turns) + 1
        /\ \A i \in 1..Len(page.turns) : page'.turns[i] = page.turns[i]
        /\ page'.turns[Len(page.turns) + 1] = t
    BY <1>3, <2>3, <2>4
  <2>6. t.row = Said(m) /\ t.own /\ ~t.held /\ ~t.item
    BY <2>2
  <2>7. \E u : /\ u = page'.turns[Len(page.turns) + 1]
               /\ u.row = Said(m) /\ u.own /\ ~u.held /\ ~u.item
    BY <2>5, <2>6
  <2> QED
    BY <1>1, <1>2, <1>3, <2>3, <2>5, <2>7 DEF Submits
<1> QED
  BY <1>4, <1>5

\* Which turns there are then.
LEMMA SubmitsDrawn ==
    ASSUME NEW m, Submits(m)
    PROVE  /\ \A i \in 1..Len(page'.turns) :
                 \/ i \in 1..Len(page.turns) /\ page'.turns[i] = page.turns[i]
                 \/ /\ i = Len(page.turns) + 1
                    /\ page'.turns[i].row = Said(m) /\ IsEcho(page'.turns[i])
                    /\ ~Pending(page'.turns[i]) /\ ~page'.turns[i].item /\ ~page'.turns[i].held
           /\ \A i \in 1..Len(page.turns) :
                 i \in 1..Len(page'.turns) /\ page'.turns[i] = page.turns[i]
BY DEF Submits, IsEcho, Pending

\* What of them is held or waits.
LEMMA SubmitsHeld ==
    ASSUME NEW m, Submits(m)
    PROVE  /\ \A r : Held(r)' <=> Held(r)
           /\ \A k : PendOf(k)' <=> PendOf(k)
           /\ \A k : k # m => (Unheld(k)' <=> Unheld(k))
           /\ \A k : k # m => (EchoOf(k)' <=> EchoOf(k))
<1>1. /\ \A i \in 1..Len(page'.turns) :
             \/ i \in 1..Len(page.turns) /\ page'.turns[i] = page.turns[i]
             \/ /\ i = Len(page.turns) + 1
                /\ page'.turns[i].row = Said(m) /\ IsEcho(page'.turns[i])
                /\ ~Pending(page'.turns[i]) /\ ~page'.turns[i].item /\ ~page'.turns[i].held
      /\ \A i \in 1..Len(page.turns) :
             i \in 1..Len(page'.turns) /\ page'.turns[i] = page.turns[i]
  BY SubmitsDrawn
<1>2. \A r : Held(r)' <=> Held(r)
  BY <1>1 DEF Held
<1>3. \A k : PendOf(k)' <=> PendOf(k)
  BY <1>1 DEF PendOf, Pending
<1>4. ASSUME NEW k, k # m
      PROVE  (Unheld(k)' <=> Unheld(k)) /\ (EchoOf(k)' <=> EchoOf(k))
  <2>1. Said(k) # Said(m)
    BY <1>4 DEF Said
  <2>2. \A i \in 1..Len(page'.turns) : page'.turns[i].row = Said(k) =>
           i \in 1..Len(page.turns) /\ page'.turns[i] = page.turns[i]
    BY <1>1, <2>1
  <2>3. Unheld(k)' <=> Unheld(k)
    BY <1>1, <2>2 DEF Unheld
  <2>4. EchoOf(k)' <=> EchoOf(k)
    BY <1>1, <2>2 DEF EchoOf, IsEcho
  <2> QED
    BY <2>3, <2>4
<1> QED
  BY <1>2, <1>3, <1>4

\* The turns stay in order: nothing of the message was drawn.
LEMMA SubmitsTurns ==
    ASSUME Shape, CoreInv, PageInv, NEW m, Submits(m)
    PROVE  TurnShape' /\ Once' /\ RunsFollow'
<1>1. m \in Msgs /\ pc[m] = "new" /\ m \in Own /\ wire' = wire /\ Len(page.turns) \in Nat
  BY DEF Submits
<1>2. /\ \A i \in 1..Len(page'.turns) :
             \/ i \in 1..Len(page.turns) /\ page'.turns[i] = page.turns[i]
             \/ /\ i = Len(page.turns) + 1
                /\ page'.turns[i].row = Said(m) /\ IsEcho(page'.turns[i])
                /\ ~Pending(page'.turns[i]) /\ ~page'.turns[i].item /\ ~page'.turns[i].held
      /\ \A i \in 1..Len(page.turns) : page.turns[i].row[1] # m
  BY <1>1, SubmitsDrawn, NewUnseen
<1>3. Said(m)[1] = m /\ Said(m)[3] = "said"
  BY DEF Said
<1>4. TurnShape'
  <2> SUFFICES ASSUME NEW i \in 1..Len(page'.turns)
               PROVE  LET t == page'.turns[i]
                      IN  /\ ~t.held => t.row[3] = "said" /\ (t.own <=> ~t.item)
                          /\ t.own => t.row[1] \in Own
    BY DEF TurnShape
  <2>1. CASE i \in 1..Len(page.turns) /\ page'.turns[i] = page.turns[i]
    BY <2>1 DEF PageInv, TurnShape
  <2>2. CASE ~(i \in 1..Len(page.turns) /\ page'.turns[i] = page.turns[i])
    BY <1>1, <1>2, <1>3, <2>2 DEF IsEcho
  <2> QED
    BY <2>1, <2>2
<1>5. Once'
  <2> SUFFICES ASSUME NEW i \in 1..Len(page'.turns), NEW j \in 1..Len(page'.turns), i # j,
                      page'.turns[i].row = page'.turns[j].row
               PROVE  /\ IsEcho(page'.turns[i]) <=> ~IsEcho(page'.turns[j])
                      /\ On(wire', Takes(page'.turns[i].row[1]))
    BY DEF Once
  <2>1. i \in 1..Len(page.turns) /\ j \in 1..Len(page.turns)
        /\ page'.turns[i] = page.turns[i] /\ page'.turns[j] = page.turns[j]
    BY <1>2, <1>3
  <2> QED
    BY <1>1, <2>1 DEF PageInv, Once
<1>6. RunsFollow'
  <2> SUFFICES ASSUME NEW i \in 1..Len(page'.turns), NEW j \in 1..Len(page'.turns),
                      page'.turns[i].row[3] # "said",
                      page'.turns[j].row = Said(page'.turns[i].row[1])
               PROVE  j < i
    BY DEF RunsFollow
  <2>1. i \in 1..Len(page.turns) /\ page'.turns[i] = page.turns[i]
    BY <1>2, <1>3
  <2>2. page'.turns[j].row # Said(m)
    BY <1>2, <2>1 DEF Said
  <2>3. j \in 1..Len(page.turns) /\ page'.turns[j] = page.turns[j]
    BY <1>2, <2>2
  <2> QED
    BY <2>1, <2>3 DEF PageInv, RunsFollow
<1> QED
  BY <1>4, <1>5, <1>6

\* A message that is sent is still nowhere else.
LEMMA SubmitsGoes ==
    ASSUME Shape, CoreInv, PageInv, NEW m, Submits(m)
    PROVE  PageInv'
<1>1. /\ m \in Msgs /\ pc[m] = "new" /\ pc' = [pc EXCEPT ![m] = "sent"]
      /\ UNCHANGED <<rows, gone, midway, queue, lost, emits, acts, wire, calls>>
      /\ page'.read = page.read /\ page'.earlier = page.earlier
      /\ page'.sends = page.sends \cup {m}
  BY DEF Submits
<1>2. \A k \in Msgs : pc'[k] = IF k = m THEN "sent" ELSE pc[k]
  BY <1>1 DEF Shape, CoreShape
<1>3. /\ \A r : Held(r)' <=> Held(r)
      /\ \A k : PendOf(k)' <=> PendOf(k)
      /\ \A k : k # m => (Unheld(k)' <=> Unheld(k))
      /\ \A k : k # m => (EchoOf(k)' <=> EchoOf(k))
  BY SubmitsHeld
<1>4. /\ ~Via(m) /\ ~Stored(Said(m)) /\ m \notin lost
      /\ ~On(wire, Users(m)) /\ ~On(wire, Finals(m))
      /\ \A r \in Rows : r[1] = m => ~On(wire, Brings(r))
  BY <1>1, NewUnseen
<1>5. /\ \A r : Stored(r)' <=> Stored(r)
      /\ \A k : Queued(k)' <=> Queued(k)
  BY <1>1, StoredSame, QueuedSame
<1>6. TurnShape' /\ Once' /\ RunsFollow'
  BY SubmitsTurns
<1>7. EchoPlace'
  <2> SUFFICES ASSUME NEW k \in Msgs, EchoOf(k)'
               PROVE  \/ k \in lost'
                      \/ /\ k \in page'.sends
                         /\ \/ pc'[k] \in {"sent", "saved"} \/ On(wire', Pendings(k))
                            \/ On(wire', Takes(k))
    BY DEF EchoPlace
  <2>1. CASE k = m
    BY <1>1, <1>2, <2>1
  <2>2. CASE k # m
    <3>1. EchoOf(k)
      BY <1>3, <2>2
    <3>2. \/ k \in lost
          \/ /\ k \in page.sends
             /\ pc[k] \in {"sent", "saved"} \/ On(wire, Pendings(k)) \/ On(wire, Takes(k))
      BY <3>1 DEF PageInv, EchoPlace
    <3> QED
      BY <1>1, <1>2, <2>2, <3>2
  <2> QED
    BY <2>1, <2>2
<1>8. Ways'
  <2> SUFFICES ASSUME NEW k \in Msgs, Via(k)'
               PROVE  /\ ~Direct(k)' /\ pc'[k] \in {"over", "drained", "taken"}
                      /\ k \notin lost' /\ k \notin History
    BY DEF Ways
  <2>1. Via(k)
    BY <1>1, <1>2, <1>3, <1>5 DEF Via
  <2>2. k # m
    BY <1>4, <2>1
  <2>3. ~Direct(k) /\ pc[k] \in {"over", "drained", "taken"} /\ k \notin lost /\ k \notin History
    BY <2>1 DEF PageInv, Ways
  <2>4. ~Direct(k)'
    BY <1>1, <1>2, <2>2, <2>3 DEF Direct
  <2> QED
    BY <1>1, <1>2, <2>2, <2>3, <2>4
<1>9. Finished'
  BY <1>1, <1>2, <1>4 DEF PageInv, Finished
<1>10. Answers'
  BY <1>1, <1>3 DEF PageInv, Answers
<1>11. Announced'
  <2> SUFFICES ASSUME NEW k \in Msgs, Ann(k)', Unheld(k)' \/ On(wire', Offers(k))
               PROVE  On(wire', Users(k))
    BY DEF Announced
  <2>1. k # m
    BY <1>4, <1>5 DEF Ann
  <2>2. Ann(k) /\ (Unheld(k) \/ On(wire, Offers(k)))
    BY <1>1, <1>2, <1>3, <1>5, <2>1 DEF Ann
  <2> QED
    BY <1>1, <2>2 DEF PageInv, Announced
<1>12. Order'
  <2> SUFFICES ASSUME NEW r \in Rows, NEW k \in Msgs, k = r[1]
               PROVE  InOrder(r, k)'
    BY RowsTyped DEF Order
  <2>1. InOrder(r, k)
    BY DEF PageInv, Order
  <2>2. Unheld(k)' => Led(wire', Users(k), Brings(r))
    <3>1. CASE k = m
      <4>1. ~On(wire, Brings(r))
        BY <1>4, <3>1
      <4> QED
        BY <1>1, <4>1 DEF Led, On
    <3>2. CASE k # m
      BY <1>1, <1>3, <2>1, <3>2 DEF InOrder
    <3> QED
      BY <3>1, <3>2
  <2> QED
    BY <1>1, <1>3, <2>1, <2>2 DEF InOrder
<1>13. Known'
  BY <1>1, <1>3, <1>5 DEF PageInv, Known
<1>14. Dropped'
  BY <1>1, <1>3 DEF PageInv, Dropped
<1>15. Asking
  BY <1>1 DEF Asking
<1>16. Reads'
  BY <1>1, <1>3, <1>15, ReadsSame
<1> QED
  BY <1>6, <1>7, <1>8, <1>9, <1>10, <1>11, <1>12, <1>13, <1>14, <1>16 DEF PageInv

-----------------------------------------------------------------------------
(* A conversation that can be read.                                        *)

\* At first nothing is drawn, and nothing is on its way.
LEMMA PageInvInit ==
    ASSUME Init
    PROVE  PageInv
<1>1. /\ page = FreshPage /\ Len(wire) = 0 /\ Len(emits) = 0 /\ Len(acts) = 0 /\ Len(queue) = 0
      /\ calls = {} /\ gone = {}
      /\ pc = [m \in Msgs |-> IF m \in History THEN "over" ELSE "new"]
  BY DEF Init
<1>2. Len(page.turns) = 0 /\ ~page.read /\ page.earlier = 0
  BY <1>1 DEF FreshPage
<1>3. /\ \A r : ~Held(r)
      /\ \A m : ~Unheld(m) /\ ~EchoOf(m) /\ ~PendOf(m) /\ ~Queued(m)
      /\ \A A : ~On(wire, A)
  BY <1>1, <1>2 DEF Held, Unheld, EchoOf, PendOf, On, Queued
<1>4. TurnShape /\ Once /\ RunsFollow /\ EchoPlace
  BY <1>2, <1>3 DEF TurnShape, Once, RunsFollow, EchoPlace
<1>5. Ways
  <2>1. \A m \in Msgs : pc[m] \notin {"drained", "taken"}
    BY <1>1
  <2> QED
    BY <1>3, <2>1 DEF Ways, Via
<1>6. Finished /\ Answers /\ Announced
  BY <1>1, <1>3 DEF Finished, Answers, Announced, Ordered
<1>7. Order
  BY <1>1, <1>3 DEF Order, InOrder, Led, Ordered, Between
<1>8. Known
  BY <1>1, <1>3 DEF Known, Ordered, OneOf
<1>9. Dropped
  BY <1>1, <1>3 DEF Dropped, Led, Between, Trailed
<1>10. Base(page.earlier)
  BY <1>2 DEF Base
<1>11. Reads
  BY <1>1, <1>2, <1>3, <1>10 DEF Reads, OneOf
<1> QED
  BY <1>4, <1>5, <1>6, <1>7, <1>8, <1>9, <1>11 DEF PageInv

\* Every step keeps what the page draws in order.
LEMMA PageInvNext ==
    ASSUME Calm, Shape, Shape', CoreInv, CoreInv', PageInv, [Next]_vars
    PROVE  PageInv'
<1>1. CASE CoreStep
  BY <1>1, CoreStepGoes
<1>2. CASE CoreAnswer \/ CoreFails
  BY <1>2, CoreAnswerGoes
<1>3. CASE \E m \in Own : Submit(m)
  <2>1. PICK m \in Own : Submit(m)
    BY <1>3
  <2>2. Submits(m)
    BY <2>1, SubmitSubmits
  <2> QED
    BY <2>2, SubmitsGoes
<1>4. CASE AskStop \/ Activate \/ LoadEarlier \/ ListenUp \/ UNCHANGED vars
  BY <1>4, AsksGoes
<1>5. CASE Reload
  BY <1>5, ReloadGoes
<1>6. CASE \E i \in 1..Len(wire) : Receive(i)
  BY <1>6, ReceiveGoes
<1> QED
  BY <1>1, <1>2, <1>3, <1>4, <1>5, <1>6 DEF Next, PageStep

\* No row is drawn twice, but for an echo whose answer is on its way; and a
\* run's rows are drawn below the message that opened it.
LEMMA PageInvReadable ==
    ASSUME Shape, PageInv
    PROVE  Readable
<1>1. NoTwins
  <2> SUFFICES ASSUME NEW i \in 1..Len(page.turns), NEW j \in 1..Len(page.turns), i # j,
                      page.turns[i].row = page.turns[j].row
               PROVE  page.turns[i].row[1] \in page.sends
    BY DEF NoTwins
  <2>1. PICK m \in Msgs : m = page.turns[i].row[1]
    BY TurnsTyped
  <2>2. /\ IsEcho(page.turns[i]) \/ IsEcho(page.turns[j])
        /\ On(wire, Takes(m))
    BY <2>1 DEF PageInv, Once
  <2>3. page.turns[i].row = Said(m)
    <3>1. page.turns[i].row \in Rows
      BY TurnsTyped
    <3>2. page.turns[i].row[3] = "said"
      BY <2>2 DEF PageInv, TurnShape, IsEcho
    <3> QED
      BY <2>1, <3>1, <3>2, RowsTyped
  <2>4. EchoOf(m)
    BY <2>2, <2>3 DEF EchoOf
  <2>5. m \notin lost
    BY <2>2 DEF PageInv, Ways, Via
  <2> QED
    BY <2>1, <2>4, <2>5 DEF PageInv, EchoPlace
<1>2. RunsFollow
  BY DEF PageInv
<1> QED
  BY <1>1, <1>2 DEF Readable

\* The page's copy is in order with Core's, at every moment.
THEOREM PageKept ==
    ASSUME Calm
    PROVE  Spec => []PageInv
<1>1. Init => Shape /\ CoreInv /\ PageInv
  BY InitShape, CoreInvInit, PageInvInit
<1>2. Shape /\ Shape' /\ CoreInv /\ CoreInv' /\ PageInv /\ [Next]_vars => PageInv'
  BY PageInvNext
<1> QED
  BY <1>1, <1>2, ShapeInvariant, BookKept, PTL DEF Spec

\* What is drawn can be read as a conversation, at every moment, whatever cuts
\* in: no row is on the page twice, but for the echo of a send Core has not
\* answered, and nothing of a run is above the message that opened it.
THEOREM ReadableKept ==
    ASSUME Calm
    PROVE  Spec => []Readable
<1>1. Shape /\ PageInv => Readable
  BY PageInvReadable
<1> QED
  BY <1>1, ShapeInvariant, PageKept, PTL
=============================================================================
