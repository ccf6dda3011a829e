--------------------------- MODULE TodoPanel_proofs ---------------------------
(***************************************************************************)
(* The panel, for every set of to-dos, items, messages and sends and every *)
(* bound.  In whatever order writes are answered and reads are served and  *)
(* come back: the page's list is Core's once nothing is on its way         *)
(* (Agrees), a send overtakes no deletion (Promised), and the marks on the *)
(* rows count the writes (TypeOK).                                         *)
(***************************************************************************)
EXTENDS TodoPanel, FiniteSetTheorems, SequenceTheorems, TLAPS

-----------------------------------------------------------------------------
(* The invariant.                                                          *)

\* What a read brings.
Lists(c) == <<c.todos, c.items, c.ticked>>

\* The lists have their four parts.
Whole(c) ==
    c = [todos |-> c.todos, items |-> c.items, ticked |-> c.ticked, messages |-> c.messages]

\* Who asks for reads: the lines that read again after a write, and "load".
Readers == (Lines \ {"message"}) \cup {"load"}

\* A read's record.
ReadShape(r) ==
    /\ r = [by |-> r.by, got |-> r.got, late |-> r.late]
    /\ r.by \in Readers
    /\ r.late \in BOOLEAN
    /\ r.got # NoList => Whole(r.got)

\* The reads on their way.
ReadsShape(reads) ==
    /\ \E G : reads \in Seq(G)
    /\ \A k \in DOMAIN reads : ReadShape(reads[k])

\* A batch of deletions.
BatchShape(b) == b = [ids |-> b.ids, all |-> b.all, waits |-> b.waits]

\* The batches of messages: the line rests exactly when there is none.
MessageShape(n) ==
    /\ \E G : n.chain["message"] \in Seq(G)
    /\ \A k \in DOMAIN n.chain["message"] : BatchShape(n.chain["message"][k])
    /\ n.at["message"] = "idle" <=> n.chain["message"] = <<>>

\* What is on its way is a record of functions on the lines.
FrameShape(n) ==
    \E C, A, R : n \in [chain : [Lines -> C], at : [Lines -> A], reads : R]

NetShape(n) == FrameShape(n) /\ ReadsShape(n.reads) /\ MessageShape(n)

\* A read shows Core's lists: it is served still, or it has them.
Current(r, c) == r.got = NoList \/ Lists(r.got) = Lists(c)

\* The page will have Core's lists from read n, or has them for n = 0: that
\* read counts, and what counts of those asked for after it shows them too.
AheadAt(n, p, c, reads) ==
    /\ IF n = 0 THEN Lists(p) = Lists(c)
       ELSE ~reads[n].late /\ Current(reads[n], c)
    /\ \A k \in n + 1..Len(reads) : reads[k].late \/ Current(reads[k], c)

Ahead(p, c, reads) == \E n \in 0..Len(reads) : AheadAt(n, p, c, reads)

\* The deletion of a message that Core made and the page has not heard of.
InDoubt(n) == IF n.at["message"] = "ok" THEN {Head(Head(n.chain["message"]).ids)} ELSE {}

\* The page's messages are Core's and the one in doubt.
SameMessages(p, c, n) ==
    /\ p.messages = c.messages \cup InDoubt(n)
    /\ c.messages \cap InDoubt(n) = {}

IInv ==
    /\ Whole(core) /\ Whole(page) /\ NetShape(net)
    /\ SameMessages(page, core, net)
    /\ ~soon /\ "read" \notin excused => Ahead(page, core, net.reads)

-----------------------------------------------------------------------------
(* Reads on their way.                                                     *)

\* More was asked for: the reads there were, and new ones.
Longer(r, s) ==
    /\ Len(r) <= Len(s)
    /\ \A k \in 1..Len(r) : s[k] = r[k]
    /\ \A k \in Len(r) + 1..Len(s) : s[k].got = NoList /\ ~s[k].late

\* A read asked for is the last.
LEMMA ReadAsked ==
    ASSUME NEW reads, NEW line \in Readers, ReadsShape(reads)
    PROVE  /\ ReadsShape(Append(reads, Read(line)))
           /\ Longer(reads, Append(reads, Read(line)))
<1> DEFINE new == Append(reads, Read(line))
<1>1. PICK G : reads \in Seq(G)
  BY DEF ReadsShape
<1>2. ReadShape(Read(line)) /\ Read(line).got = NoList /\ ~Read(line).late
  BY DEF ReadShape, Read
<1> HIDE DEF Read
<1>3. reads \in Seq(G \cup {Read(line)})
  BY <1>1, SMT
<1>4. /\ new \in Seq(G \cup {Read(line)})
      /\ Len(new) = Len(reads) + 1 /\ Len(reads) \in Nat
      /\ \A k \in 1..Len(reads) : new[k] = reads[k]
      /\ new[Len(reads) + 1] = Read(line)
      /\ DOMAIN new = 1..Len(new) /\ DOMAIN reads = 1..Len(reads)
  BY <1>3
<1>5. \A k \in DOMAIN new : ReadShape(new[k])
  <2> TAKE k \in DOMAIN new
  <2>1. CASE k \in 1..Len(reads)
    BY <2>1, <1>4 DEF ReadsShape
  <2>2. CASE k = Len(reads) + 1
    BY <2>2, <1>2, <1>4
  <2> QED
    BY <2>1, <2>2, <1>4
<1> QED
  BY <1>2, <1>4, <1>5 DEF ReadsShape, Longer

\* As they are, they are no longer; and longer again is longer.
LEMMA LongerStays ==
    ASSUME NEW r, ReadsShape(r)
    PROVE  Longer(r, r)
<1>1. Len(r) \in Nat
  BY DEF ReadsShape
<1> QED
  BY <1>1 DEF Longer

LEMMA LongerOnward ==
    ASSUME NEW r, NEW s, NEW u, ReadsShape(r), ReadsShape(s), ReadsShape(u),
           Longer(r, s), Longer(s, u)
    PROVE  Longer(r, u)
<1>1. Len(r) \in Nat /\ Len(s) \in Nat /\ Len(u) \in Nat
  BY DEF ReadsShape
<1>2. \A k \in Len(r) + 1..Len(u) : u[k].got = NoList /\ ~u[k].late
  <2> TAKE k \in Len(r) + 1..Len(u)
  <2>1. CASE k <= Len(s)
    BY <2>1, <1>1 DEF Longer
  <2>2. CASE k > Len(s)
    BY <2>2, <1>1 DEF Longer
  <2> QED
    BY <2>1, <2>2, <1>1
<1> QED
  BY <1>1, <1>2 DEF Longer

\* The page stays ahead whatever more it asks for.
LEMMA AheadLonger ==
    ASSUME NEW p, NEW c, NEW r, NEW s, ReadsShape(r), ReadsShape(s),
           Longer(r, s), Ahead(p, c, r)
    PROVE  Ahead(p, c, s)
<1>1. Len(r) \in Nat /\ Len(s) \in Nat
  BY DEF ReadsShape
<1>2. PICK n \in 0..Len(r) : AheadAt(n, p, c, r)
  BY DEF Ahead
<1>3. \A k \in n + 1..Len(s) : s[k].late \/ Current(s[k], c)
  <2> TAKE k \in n + 1..Len(s)
  <2>1. CASE k <= Len(r)
    BY <2>1, <1>1, <1>2 DEF Longer, AheadAt
  <2>2. CASE k > Len(r)
    BY <2>2, <1>1 DEF Longer, Current
  <2> QED
    BY <2>1, <2>2, <1>1
<1>4. IF n = 0 THEN Lists(p) = Lists(c) ELSE ~s[n].late /\ Current(s[n], c)
  BY <1>1, <1>2 DEF Longer, AheadAt
<1>5. n \in 0..Len(s)
  BY <1>1 DEF Longer
<1> QED
  BY <1>3, <1>4, <1>5 DEF Ahead, AheadAt

\* A page that has just asked has Core's lists ahead of it.
LEMMA AheadAsked ==
    ASSUME NEW p, NEW c, NEW reads, NEW line, ReadsShape(reads)
    PROVE  Ahead(p, c, Append(reads, Read(line)))
<1> DEFINE new == Append(reads, Read(line))
<1>1. PICK G : reads \in Seq(G)
  BY DEF ReadsShape
<1>2. Read(line).got = NoList /\ ~Read(line).late
  BY DEF Read
<1> HIDE DEF Read
<1>3. Len(new) = Len(reads) + 1 /\ Len(reads) \in Nat /\ new[Len(reads) + 1] = Read(line)
  BY <1>1
<1> HIDE DEF new
<1>4. AheadAt(Len(new), p, c, new)
  BY <1>2, <1>3 DEF AheadAt, Current
<1>5. Len(new) \in 0..Len(new)
  BY <1>3
<1>6. Ahead(p, c, new)
  BY <1>4, <1>5 DEF Ahead
<1> QED
  BY <1>6 DEF new

\* A sequence without its k-th.
LEMMA WithoutKth ==
    ASSUME NEW G, NEW s \in Seq(G), NEW k \in 1..Len(s)
    PROVE  /\ RemoveAt(s, k) \in Seq(G)
           /\ Len(RemoveAt(s, k)) = Len(s) - 1
           /\ \A j \in 1..Len(s) - 1 : RemoveAt(s, k)[j] = s[IF j < k THEN j ELSE j + 1]
<1> DEFINE a == SubSeq(s, 1, k - 1)
           b == SubSeq(s, k + 1, Len(s))
<1>1. Len(s) \in Nat /\ k \in Nat /\ k >= 1 /\ k <= Len(s)
  OBVIOUS
<1>2. /\ a \in Seq(G) /\ Len(a) = k - 1
      /\ \A j \in 1..k - 1 : a[j] = s[j]
  BY <1>1, SubSeqProperties
<1>3. /\ b \in Seq(G) /\ Len(b) = Len(s) - k
      /\ \A j \in 1..Len(s) - k : b[j] = s[k + j]
  BY <1>1, SubSeqProperties
<1> HIDE DEF a, b
<1>4. /\ a \o b \in Seq(G) /\ Len(a \o b) = Len(a) + Len(b)
      /\ \A j \in 1..Len(a) + Len(b) : (a \o b)[j] = IF j <= Len(a) THEN a[j] ELSE b[j - Len(a)]
  BY <1>2, <1>3, ConcatProperties
<1>5. \A j \in 1..Len(s) - 1 : (a \o b)[j] = s[IF j < k THEN j ELSE j + 1]
  <2> TAKE j \in 1..Len(s) - 1
  <2>1. CASE j < k
    BY <2>1, <1>1, <1>2, <1>3, <1>4
  <2>2. CASE ~(j < k)
    <3> DEFINE i == j - (k - 1)
    <3>1. i \in 1..Len(s) - k /\ k + i = j + 1 /\ ~(j <= k - 1) /\ ~(j < k)
      BY <2>2, <1>1
    <3>2. (a \o b)[j] = b[i]
      BY <3>1, <1>1, <1>2, <1>3, <1>4
    <3>3. b[i] = s[k + i]
      BY <3>1, <1>3
    <3>4. (IF j < k THEN j ELSE j + 1) = k + i
      BY <3>1
    <3> HIDE DEF i
    <3> QED
      BY <3>2, <3>3, <3>4, Zenon
  <2> QED
    BY <2>1, <2>2
<1>6. RemoveAt(s, k) = a \o b
  BY DEF RemoveAt, a, b
<1>7. Len(a) + Len(b) = Len(s) - 1
  BY <1>1, <1>2, <1>3
<1> QED
  BY <1>4, <1>5, <1>6, <1>7

-----------------------------------------------------------------------------
(* What is on its way, one step later.                                     *)

\* More is asked for, and the message line is in no other doubt.
Follows(n, m) ==
    /\ NetShape(m)
    /\ Longer(n.reads, m.reads)
    /\ InDoubt(m) = InDoubt(n)

LEMMA FollowsOnward ==
    ASSUME NEW n, NEW m, NEW o, NetShape(n), Follows(n, m), Follows(m, o)
    PROVE  Follows(n, o)
BY LongerOnward DEF Follows, NetShape

\* No line is called as another is, and the message line is a line.
LEMMA LineNames ==
    /\ {"moves", "adds", "todo", "item", "message"} \subseteq Lines
    /\ "message" \notin Todos \cup Ids
    /\ \A line \in Readers : line # "message"
    /\ \A line \in Lines : line # "message" => line \in Readers
BY PanelAssumption DEF Lines, Ids, Stores, Readers

\* One part written, the others stay.
WriteChain(n, line, w) == [n EXCEPT !.chain[line] = w]
WriteAt(n, line, w)    == [n EXCEPT !.at[line] = w]
WriteReads(n, w)       == [n EXCEPT !.reads = w]

LEMMA ChainWritten ==
    ASSUME NEW n, FrameShape(n), NEW line \in Lines, NEW w
    PROVE  /\ FrameShape(WriteChain(n, line, w))
           /\ WriteChain(n, line, w).reads = n.reads
           /\ WriteChain(n, line, w).at = n.at
           /\ WriteChain(n, line, w).chain[line] = w
           /\ \A l \in Lines \ {line} : WriteChain(n, line, w).chain[l] = n.chain[l]
<1>1. PICK C, A, R : n \in [chain : [Lines -> C], at : [Lines -> A], reads : R]
  BY DEF FrameShape
<1>2. WriteChain(n, line, w) \in [chain : [Lines -> C \cup {w}], at : [Lines -> A], reads : R]
  BY <1>1 DEF WriteChain
<1>3. FrameShape(WriteChain(n, line, w))
  BY <1>2 DEF FrameShape
<1> QED
  BY <1>1, <1>3 DEF WriteChain

LEMMA AtWritten ==
    ASSUME NEW n, FrameShape(n), NEW line \in Lines, NEW w
    PROVE  /\ FrameShape(WriteAt(n, line, w))
           /\ WriteAt(n, line, w).reads = n.reads
           /\ WriteAt(n, line, w).chain = n.chain
           /\ WriteAt(n, line, w).at[line] = w
           /\ \A l \in Lines \ {line} : WriteAt(n, line, w).at[l] = n.at[l]
<1>1. PICK C, A, R : n \in [chain : [Lines -> C], at : [Lines -> A], reads : R]
  BY DEF FrameShape
<1>2. WriteAt(n, line, w) \in [chain : [Lines -> C], at : [Lines -> A \cup {w}], reads : R]
  BY <1>1 DEF WriteAt
<1>3. FrameShape(WriteAt(n, line, w))
  BY <1>2 DEF FrameShape
<1> QED
  BY <1>1, <1>3 DEF WriteAt

LEMMA ReadsWritten ==
    ASSUME NEW n, FrameShape(n), NEW w
    PROVE  /\ FrameShape(WriteReads(n, w))
           /\ WriteReads(n, w).reads = w
           /\ WriteReads(n, w).chain = n.chain
           /\ WriteReads(n, w).at = n.at
<1>1. PICK C, A, R : n \in [chain : [Lines -> C], at : [Lines -> A], reads : R]
  BY DEF FrameShape
<1>2. WriteReads(n, w) \in [chain : [Lines -> C], at : [Lines -> A], reads : {w}]
  BY <1>1 DEF WriteReads
<1>3. FrameShape(WriteReads(n, w))
  BY <1>2 DEF FrameShape
<1> QED
  BY <1>1, <1>3 DEF WriteReads

\* A write of another line than the messages', or of none, leaves them alone.
LEMMA OtherLine ==
    ASSUME NEW n, NetShape(n), NEW line \in Lines \ {"message"}, NEW w
    PROVE  Follows(n, WriteChain(n, line, w)) /\ Follows(n, WriteAt(n, line, w))
<1> DEFINE c == WriteChain(n, line, w)
           a == WriteAt(n, line, w)
<1>1. FrameShape(n) /\ "message" \in Lines
  BY LineNames DEF NetShape
<1>2. /\ FrameShape(c) /\ c.reads = n.reads
      /\ c.chain["message"] = n.chain["message"] /\ c.at = n.at
  BY <1>1, ChainWritten
<1>3. /\ FrameShape(a) /\ a.reads = n.reads
      /\ a.at["message"] = n.at["message"] /\ a.chain = n.chain
  BY <1>1, AtWritten
<1> HIDE DEF c, a
<1>4. NetShape(c) /\ NetShape(a)
  BY <1>2, <1>3 DEF NetShape, MessageShape
<1>5. InDoubt(c) = InDoubt(n) /\ InDoubt(a) = InDoubt(n)
  BY <1>2, <1>3 DEF InDoubt
<1>6. Longer(n.reads, c.reads) /\ Longer(n.reads, a.reads)
  BY <1>2, <1>3, LongerStays DEF NetShape
<1> QED
  BY <1>4, <1>5, <1>6 DEF Follows, c, a

\* A read asked for, by whichever line reads.
LEMMA ReadingFollows ==
    ASSUME NEW n, NetShape(n), NEW line \in Readers
    PROVE  /\ Follows(n, Reading(n, line))
           /\ Reading(n, line).reads = Append(n.reads, Read(line))
<1> DEFINE m == Reading(n, line)
           reads == Append(n.reads, Read(line))
<1>1. /\ FrameShape(n) /\ ReadsShape(reads) /\ Longer(n.reads, reads)
      /\ line # "message" /\ "message" \in Lines /\ (line # "load" => line \in Lines)
  BY LineNames, ReadAsked DEF Readers, NetShape
<1>2. PICK C, A, R : n \in [chain : [Lines -> C], at : [Lines -> A], reads : R]
  BY DEF NetShape, FrameShape
<1>3. /\ FrameShape(m) /\ m.reads = reads
      /\ m.chain = n.chain /\ m.at["message"] = n.at["message"]
  <2> HIDE DEF reads
  <2>1. CASE line = "load"
    <3>1. m = WriteReads(n, reads)
      BY <1>2, <2>1 DEF Reading, WriteReads, reads
    <3> QED
      BY <3>1, <1>1, ReadsWritten
  <2>2. CASE line # "load"
    <3>1. m = WriteReads(WriteAt(n, line, "reading"), reads)
      BY <1>2, <2>2 DEF Reading, WriteReads, WriteAt, reads
    <3>2. LET a == WriteAt(n, line, "reading")
          IN FrameShape(a) /\ a.chain = n.chain /\ a.at["message"] = n.at["message"]
      BY <2>2, <1>1, AtWritten
    <3> HIDE DEF m
    <3> QED
      BY <3>1, <3>2, <1>1, ReadsWritten
  <2> QED
    BY <2>1, <2>2
<1> HIDE DEF m
<1>4. NetShape(m) /\ InDoubt(m) = InDoubt(n)
  BY <1>1, <1>3 DEF NetShape, MessageShape, InDoubt
<1> QED
  BY <1>1, <1>3, <1>4 DEF Follows, m

\* The next write of another line than the messages' has its turn.
LEMMA GoOnFollows ==
    ASSUME NEW n, NetShape(n), NEW line \in Lines \ {"message"}, NEW writes, NEW todos
    PROVE  Follows(n, GoOn(n, line, writes, todos))
<1> DEFINE Now(w, where) == WriteAt(WriteChain(n, line, w), line, where)
           ids == SkipDone(writes[1].ids, todos)
           skipped == [writes EXCEPT ![1].ids = ids]
<1> HIDE DEF ids, skipped
<1>1. ASSUME NEW w, NEW where PROVE Follows(n, Now(w, where))
  <2> DEFINE c == WriteChain(n, line, w)
  <2>1. Follows(n, c)
    BY OtherLine
  <2> HIDE DEF c
  <2>2. Follows(c, WriteAt(c, line, where))
    BY <2>1, OtherLine DEF Follows
  <2>3. Follows(n, WriteAt(c, line, where))
    BY <2>1, <2>2, FollowsOnward
  <2> QED
    BY <2>3 DEF c
<1>2. ASSUME NEW w, NEW where PROVE Follows(n, Reading(Now(w, where), line))
  <2> DEFINE m == Now(w, where)
  <2>1. Follows(n, m)
    BY <1>1
  <2> HIDE DEF m
  <2>2. Follows(m, Reading(m, line))
    BY <2>1, LineNames, ReadingFollows DEF Follows
  <2>3. Follows(n, Reading(m, line))
    BY <2>1, <2>2, FollowsOnward
  <2> QED
    BY <2>3 DEF m
<1>3. PICK C, A, R : n \in [chain : [Lines -> C], at : [Lines -> A], reads : R]
  BY DEF NetShape, FrameShape
<1>4. ASSUME NEW w, NEW where
      PROVE  [n EXCEPT !.chain[line] = w, !.at[line] = where] = Now(w, where)
  BY <1>3 DEF WriteAt, WriteChain
<1> HIDE DEF Now
<1>5. \/ GoOn(n, line, writes, todos) = Now(writes, "idle")
      \/ GoOn(n, line, writes, todos) = Now(writes, "asked")
      \/ GoOn(n, line, writes, todos) = Now(skipped, "asked")
      \/ GoOn(n, line, writes, todos) = Reading(Now(skipped, "reading"), line)
  BY <1>4 DEF GoOn, ids, skipped
<1> QED
  BY <1>1, <1>2, <1>5

\* The next batch of messages has its turn: of none the page is in doubt.
LEMMA GoOnMessage ==
    ASSUME NEW n, NetShape(n), NEW G, NEW writes \in Seq(G), NEW todos,
           \A k \in DOMAIN writes : BatchShape(writes[k])
    PROVE  LET m == GoOn(n, "message", writes, todos)
           IN NetShape(m) /\ m.reads = n.reads /\ InDoubt(m) = {}
<1> DEFINE where == IF writes = <<>> THEN "idle" ELSE "asked"
           c == WriteChain(n, "message", writes)
           m == WriteAt(c, "message", where)
<1>1. PICK C, A, R : n \in [chain : [Lines -> C], at : [Lines -> A], reads : R]
  BY DEF NetShape, FrameShape
<1>2. FrameShape(n) /\ "message" \in Lines
  BY LineNames DEF NetShape
<1>3. GoOn(n, "message", writes, todos) = m
  BY <1>1, <1>2 DEF GoOn, WriteChain, WriteAt
<1> HIDE DEF where, m
<1>4. FrameShape(c) /\ c.reads = n.reads /\ c.chain["message"] = writes
  BY <1>2, ChainWritten
<1>5. /\ FrameShape(m) /\ m.reads = n.reads
      /\ m.chain["message"] = writes /\ m.at["message"] = where
  <2> HIDE DEF c
  <2> QED
    BY <1>2, <1>4, AtWritten DEF m
<1>6. MessageShape(m)
  BY <1>5 DEF MessageShape, where
<1>7. NetShape(m) /\ InDoubt(m) = {}
  BY <1>5, <1>6 DEF NetShape, InDoubt, where
<1> QED
  BY <1>3, <1>5, <1>7

\* A sequence and one more after it.
LEMMA OneMore ==
    ASSUME NEW G, NEW s \in Seq(G), NEW w
    PROVE  /\ Append(s, w) \in Seq(G \cup {w})
           /\ Append(s, w) # <<>> /\ Len(Append(s, w)) = Len(s) + 1
           /\ \A k \in 1..Len(s) : Append(s, w)[k] = s[k]
           /\ Append(s, w)[Len(s) + 1] = w
           /\ s # <<>> => Head(Append(s, w)) = Head(s)
<1>1. s \in Seq(G \cup {w}) /\ w \in G \cup {w}
  BY SMT
<1>2. /\ Append(s, w) \in Seq(G \cup {w}) /\ Len(Append(s, w)) = Len(s) + 1
      /\ \A k \in 1..Len(s) : Append(s, w)[k] = s[k]
      /\ Append(s, w)[Len(s) + 1] = w
  BY <1>1
<1>3. Append(s, w) # <<>>
  BY <1>1
<1>4. ASSUME s # <<>> PROVE Head(Append(s, w)) = Head(s)
  BY <1>1, <1>4
<1> QED
  BY <1>2, <1>3, <1>4

\* One more write on a line.
LEMMA QueueFollows ==
    ASSUME NEW n, NetShape(n), NEW line \in Lines, NEW w,
           line = "message" => BatchShape(w)
    PROVE  Follows(n, Queue(n, line, w))
<1>1. CASE line # "message"
  <2>1. Follows(n, GoOn(n, line, <<w>>, page.todos))
    BY <1>1, GoOnFollows
  <2>2. Follows(n, WriteChain(n, line, Append(n.chain[line], w)))
    BY <1>1, OtherLine
  <2>3. PICK C, A, R : n \in [chain : [Lines -> C], at : [Lines -> A], reads : R]
    BY DEF NetShape, FrameShape
  <2>4. \/ Queue(n, line, w) = GoOn(n, line, <<w>>, page.todos)
        \/ Queue(n, line, w) = WriteChain(n, line, Append(n.chain[line], w))
    BY <2>3 DEF Queue, WriteChain
  <2> QED
    BY <2>1, <2>2, <2>4
<1>2. CASE line = "message" /\ n.chain["message"] = <<>>
  <2> DEFINE m == GoOn(n, "message", <<w>>, page.todos)
  <2>1. <<w>> \in Seq({w}) /\ DOMAIN <<w>> = {1} /\ <<w>>[1] = w
    OBVIOUS
  <2>2. NetShape(m) /\ m.reads = n.reads /\ InDoubt(m) = {}
    BY <1>2, <2>1, GoOnMessage
  <2>3. InDoubt(n) = {}
    BY <1>2 DEF NetShape, MessageShape, InDoubt
  <2>4. Queue(n, line, w) = m
    BY <1>2 DEF Queue
  <2> HIDE DEF m
  <2> QED
    BY <2>2, <2>3, <2>4, LongerStays DEF Follows, NetShape
<1>3. CASE line = "message" /\ n.chain["message"] # <<>>
  <2> DEFINE s == n.chain["message"]
             t == Append(s, w)
             m == WriteChain(n, "message", t)
  <2>1. PICK G : s \in Seq(G)
    BY DEF NetShape, MessageShape
  <2>2. /\ FrameShape(m) /\ m.reads = n.reads
        /\ m.chain["message"] = t /\ m.at = n.at
    <3>1. FrameShape(n) /\ "message" \in Lines
      BY LineNames DEF NetShape
    <3> HIDE DEF t
    <3> QED
      BY <3>1, ChainWritten
  <2>3. /\ Append(s, w) \in Seq(G \cup {w})
        /\ Append(s, w) # <<>> /\ Len(Append(s, w)) = Len(s) + 1
        /\ \A k \in 1..Len(s) : Append(s, w)[k] = s[k]
        /\ Append(s, w)[Len(s) + 1] = w
        /\ Head(Append(s, w)) = Head(s)
    BY <2>1, <1>3, OneMore
  <2>4. \A k \in 1..Len(s) : BatchShape(s[k])
    BY <2>1 DEF NetShape, MessageShape
  <2>5. \A k \in DOMAIN Append(s, w) : BatchShape(Append(s, w)[k])
    <3>1. DOMAIN Append(s, w) = 1..Len(s) + 1 /\ Len(s) \in Nat
      BY <2>1, <2>3
    <3> QED
      BY <3>1, <2>3, <2>4, <1>3
  <2>6. n.at["message"] # "idle"
    BY <1>3 DEF NetShape, MessageShape
  <2>7. Queue(n, line, w) = m
    <3>1. PICK C, A, R : n \in [chain : [Lines -> C], at : [Lines -> A], reads : R]
      BY DEF NetShape, FrameShape
    <3> QED
      BY <3>1, <1>3 DEF Queue, WriteChain
  <2> HIDE DEF m
  <2>8. MessageShape(m)
    BY <2>2, <2>3, <2>5, <2>6 DEF MessageShape
  <2>9. InDoubt(m) = InDoubt(n)
    BY <2>2, <2>3 DEF InDoubt
  <2> QED
    BY <2>2, <2>7, <2>8, <2>9, LongerStays DEF Follows, NetShape
<1> QED
  BY <1>1, <1>2, <1>3

\* What was staged is a batch, or the last batch has one more waiting for it.
LEMMA CommitFollows ==
    ASSUME NEW n, NetShape(n), NEW store \in Stores, NEW waiter
    PROVE  Follows(n, Commit(n, store, waiter))
<1> DEFINE batch == [ids |-> staged[store], all |-> ToSet(staged[store]), waits |-> waiter]
           s == n.chain[store]
           last == [s[Len(s)] EXCEPT !.waits = @ \cup waiter]
           t == [s EXCEPT ![Len(s)] = last]
<1>1. store \in Lines
  BY DEF Lines
<1>2. CASE staged[store] # <<>>
  <2>1. BatchShape(batch)
    BY DEF BatchShape
  <2>2. Commit(n, store, waiter) = Queue(n, store, batch)
    BY <1>2 DEF Commit
  <2> HIDE DEF batch
  <2> QED
    BY <1>1, <2>1, <2>2, QueueFollows
<1>3. CASE staged[store] = <<>> /\ s # <<>>
  <2>1. Commit(n, store, waiter) = WriteChain(n, store, t)
    <3>1. PICK C, A, R : n \in [chain : [Lines -> C], at : [Lines -> A], reads : R]
      BY DEF NetShape, FrameShape
    <3> QED
      BY <1>1, <1>3, <3>1 DEF Commit, WriteChain
  <2>2. CASE store # "message"
    <3> HIDE DEF t
    <3> QED
      BY <1>1, <2>1, <2>2, OtherLine
  <2>3. CASE store = "message"
    <3>1. PICK G : s \in Seq(G)
      BY <2>3 DEF NetShape, MessageShape
    <3>2. Len(s) \in 1..Len(s) /\ DOMAIN s = 1..Len(s) /\ n.at["message"] # "idle"
      BY <1>3, <2>3, <3>1 DEF NetShape, MessageShape
    <3>3. \A k \in 1..Len(s) : BatchShape(s[k])
      BY <2>3, <3>2 DEF NetShape, MessageShape
    <3>4. BatchShape(last) /\ last.ids = s[Len(s)].ids
      <4> DEFINE b == s[Len(s)]
      <4>1. b = [ids |-> b.ids, all |-> b.all, waits |-> b.waits]
        BY <3>2, <3>3 DEF BatchShape
      <4> HIDE DEF b
      <4>2. [b EXCEPT !.waits = @ \cup waiter]
              = [ids |-> b.ids, all |-> b.all, waits |-> b.waits \cup waiter]
        BY <4>1
      <4>3. last = [ids |-> b.ids, all |-> b.all, waits |-> b.waits \cup waiter]
        BY <4>2 DEF b
      <4> QED
        BY <4>3 DEF BatchShape, b
    <3> HIDE DEF last
    <3>5. /\ t \in Seq(G \cup {last}) /\ t # <<>> /\ DOMAIN t = 1..Len(s)
          /\ t[Len(s)] = last /\ \A k \in 1..Len(s) : k # Len(s) => t[k] = s[k]
      <4>1. s \in Seq(G \cup {last}) /\ last \in G \cup {last}
        BY <3>1, SMT
      <4> QED
        BY <3>2, <4>1
    <3>6. \A k \in DOMAIN t : BatchShape(t[k])
      BY <3>3, <3>4, <3>5
    <3>7. Head(t).ids = Head(s).ids
      <4>1. Head(t) = t[1] /\ Head(s) = s[1] /\ 1 \in 1..Len(s)
        BY <3>1, <3>2, <3>5
      <4> QED
        BY <4>1, <3>4, <3>5
    <3> HIDE DEF t
    <3> DEFINE m == WriteChain(n, "message", t)
    <3>8. /\ FrameShape(m) /\ m.reads = n.reads
          /\ m.chain["message"] = t /\ m.at = n.at
      <4>1. FrameShape(n) /\ "message" \in Lines
        BY LineNames DEF NetShape
      <4> QED
        BY <4>1, ChainWritten
    <3> HIDE DEF m
    <3>9. MessageShape(m) /\ InDoubt(m) = InDoubt(n)
      BY <2>3, <3>2, <3>5, <3>6, <3>7, <3>8 DEF MessageShape, InDoubt
    <3>10. Follows(n, m)
      BY <3>8, <3>9, LongerStays DEF Follows, NetShape
    <3> QED
      BY <2>1, <2>3, <3>10 DEF m
  <2> QED
    BY <2>2, <2>3
<1>4. CASE staged[store] = <<>> /\ s = <<>>
  <2>1. Commit(n, store, waiter) = n
    BY <1>4 DEF Commit
  <2> QED
    BY <2>1, LongerStays DEF Follows, NetShape
<1> QED
  BY <1>2, <1>3, <1>4

\* What a read back lets go is behind the reads that are still on their way.
LEMMA LetGoFollows ==
    ASSUME NEW n, NetShape(n), NEW line \in Readers, LetGo(n, line)
    PROVE  Follows(n, net')
<1>1. CASE line = "load"
  BY <1>1, LongerStays DEF LetGo, Follows, NetShape
<1>2. CASE line # "load"
  <2>1. net' = GoOn(n, line, Rest(line), page'.todos)
    BY <1>2 DEF LetGo
  <2>2. line \in Lines \ {"message"}
    BY <1>2 DEF Readers
  <2> QED
    BY <2>1, <2>2, GoOnFollows
<1> QED
  BY <1>1, <1>2

-----------------------------------------------------------------------------
(* A read comes back.                                                      *)

\* The others as a read leaves them: what was asked for before it counts no
\* more, if it counts.
LEMMA OvertakenReads ==
    ASSUME ReadsShape(net.reads), NEW k \in DOMAIN net.reads
    PROVE  LET over == Overtaken(k)
           IN /\ ReadsShape(over) /\ Len(over) = Len(net.reads)
              /\ \A j \in 1..Len(net.reads) :
                    /\ over[j].by = net.reads[j].by /\ over[j].got = net.reads[j].got
                    /\ over[j].late <=> (net.reads[j].late \/ (j < k /\ Counts(k)))
<1> DEFINE over == Overtaken(k)
           H == {over[j] : j \in DOMAIN net.reads}
<1>1. DOMAIN net.reads = 1..Len(net.reads) /\ Len(net.reads) \in Nat
  BY DEF ReadsShape
<1>2. \A j \in DOMAIN net.reads :
        over[j] = IF j < k /\ Counts(k) THEN [net.reads[j] EXCEPT !.late = TRUE] ELSE net.reads[j]
  BY DEF Overtaken
<1>3. \A j \in DOMAIN net.reads :
         /\ over[j].by = net.reads[j].by /\ over[j].got = net.reads[j].got
         /\ over[j].late <=> (net.reads[j].late \/ (j < k /\ Counts(k)))
         /\ ReadShape(over[j])
  <2> TAKE j \in DOMAIN net.reads
  <2>1. ReadShape(net.reads[j])
    BY DEF ReadsShape
  <2>2. CASE j < k /\ Counts(k)
    <3>1. over[j] = [net.reads[j] EXCEPT !.late = TRUE]
      BY <1>2, <2>2
    <3>2. over[j] = [by |-> net.reads[j].by, got |-> net.reads[j].got, late |-> TRUE]
      BY <2>1, <3>1 DEF ReadShape
    <3> QED
      BY <2>1, <2>2, <3>2 DEF ReadShape
  <2>3. CASE ~(j < k /\ Counts(k))
    <3>1. over[j] = net.reads[j]
      BY <1>2, <2>3
    <3> HIDE DEF over
    <3> QED
      BY <2>1, <2>3, <3>1 DEF ReadShape
  <2> QED
    BY <2>2, <2>3
<1>4. over \in [1..Len(net.reads) -> H]
  BY <1>1 DEF Overtaken
<1> HIDE DEF over, H
<1>5. over \in Seq(H) /\ Len(over) = Len(net.reads) /\ DOMAIN over = DOMAIN net.reads
  BY <1>1, <1>4
<1>6. ReadsShape(over)
  BY <1>3, <1>5 DEF ReadsShape
<1> QED
  BY <1>1, <1>3, <1>5, <1>6 DEF over

\* A sequence of reads without its k-th.
LEMMA ReadTaken ==
    ASSUME NEW reads, ReadsShape(reads), NEW k \in DOMAIN reads
    PROVE  /\ ReadsShape(RemoveAt(reads, k))
           /\ Len(RemoveAt(reads, k)) = Len(reads) - 1
           /\ \A j \in 1..Len(reads) - 1 :
                 RemoveAt(reads, k)[j] = reads[IF j < k THEN j ELSE j + 1]
<1>1. PICK G : reads \in Seq(G)
  BY DEF ReadsShape
<1>2. DOMAIN reads = 1..Len(reads) /\ Len(reads) \in Nat
  BY <1>1
<1>3. /\ RemoveAt(reads, k) \in Seq(G)
      /\ Len(RemoveAt(reads, k)) = Len(reads) - 1
      /\ \A j \in 1..Len(reads) - 1 :
            RemoveAt(reads, k)[j] = reads[IF j < k THEN j ELSE j + 1]
  BY <1>1, <1>2, WithoutKth
<1>4. \A j \in DOMAIN RemoveAt(reads, k) : ReadShape(RemoveAt(reads, k)[j])
  <2>1. DOMAIN RemoveAt(reads, k) = 1..Len(reads) - 1
    BY <1>3
  <2>2. \A j \in 1..Len(reads) - 1 : (IF j < k THEN j ELSE j + 1) \in DOMAIN reads
    BY <1>2
  <2> QED
    BY <1>3, <2>1, <2>2 DEF ReadsShape
<1> QED
  BY <1>3, <1>4 DEF ReadsShape

\* Whichever read comes back, and whether it counts or not, the page has
\* Core's lists ahead of it as before.
LEMMA AheadLanded ==
    ASSUME ReadsShape(net.reads), NEW k \in DOMAIN net.reads,
           net.reads[k].got # NoList, Ahead(page, core, net.reads), NEW p,
           Lists(p) = IF Counts(k) THEN Lists(net.reads[k].got) ELSE Lists(page)
    PROVE  Ahead(p, core, RemoveAt(Overtaken(k), k))
<1> DEFINE r == net.reads
           after == RemoveAt(Overtaken(k), k)
           At(j) == IF j < k THEN j ELSE j + 1
<1>1. DOMAIN r = 1..Len(r) /\ Len(r) \in Nat /\ k \in 1..Len(r)
  BY DEF ReadsShape
<1>2. /\ Len(after) = Len(r) - 1
      /\ \A j \in 1..Len(r) - 1 :
            /\ At(j) \in 1..Len(r)
            /\ after[j].got = r[At(j)].got
            /\ after[j].late <=> (r[At(j)].late \/ (j < k /\ Counts(k)))
  <2> DEFINE over == Overtaken(k)
  <2>1. /\ ReadsShape(over) /\ Len(over) = Len(r) /\ k \in DOMAIN over
        /\ \A j \in 1..Len(r) :
              /\ over[j].got = r[j].got
              /\ over[j].late <=> (r[j].late \/ (j < k /\ Counts(k)))
    BY <1>1, OvertakenReads DEF ReadsShape
  <2> HIDE DEF over
  <2>2. /\ Len(RemoveAt(over, k)) = Len(r) - 1
        /\ \A j \in 1..Len(r) - 1 : RemoveAt(over, k)[j] = over[At(j)]
    BY <2>1, ReadTaken
  <2>3. \A j \in 1..Len(r) - 1 : At(j) \in 1..Len(r) /\ (At(j) < k <=> j < k)
    BY <1>1
  <2> HIDE DEF At
  <2> QED
    BY <2>1, <2>2, <2>3 DEF over
<1>3. PICK n \in 0..Len(r) : AheadAt(n, page, core, r)
  BY DEF Ahead
<1> HIDE DEF after
<1> SUFFICES Ahead(p, core, after)
  BY DEF after
<1> DEFINE Fine(j) == r[At(j)].late \/ (j < k /\ Counts(k)) \/ Current(r[At(j)], core)
<1>4. \A j \in 1..Len(r) - 1 : Fine(j) => after[j].late \/ Current(after[j], core)
  BY <1>2 DEF Current
<1>5. ASSUME Lists(p) = Lists(core), \A j \in 1..Len(r) - 1 : Fine(j)
      PROVE  Ahead(p, core, after)
  <2>1. AheadAt(0, p, core, after)
    <3> HIDE DEF Fine
    <3> QED
      BY <1>1, <1>2, <1>4, <1>5 DEF AheadAt
  <2>2. 0 \in 0..Len(after)
    BY <1>1, <1>2
  <2> QED
    BY <2>1, <2>2 DEF Ahead
<1>6. ASSUME NEW m \in 1..Len(r) - 1, ~r[At(m)].late, Current(r[At(m)], core),
             ~(m < k /\ Counts(k)), \A j \in m + 1..Len(r) - 1 : Fine(j)
      PROVE  Ahead(p, core, after)
  <2>1. ~after[m].late /\ Current(after[m], core)
    BY <1>2, <1>6 DEF Current
  <2>2. \A j \in m + 1..Len(after) : after[j].late \/ Current(after[j], core)
    <3> HIDE DEF Fine
    <3> QED
      BY <1>1, <1>2, <1>4, <1>6
  <2>3. AheadAt(m, p, core, after)
    BY <1>1, <2>1, <2>2 DEF AheadAt
  <2>4. m \in 0..Len(after)
    BY <1>1, <1>2
  <2> QED
    BY <2>3, <2>4 DEF Ahead
\* The one that shows them, a later one, or one asked for before it.
<1>7. CASE n <= k /\ Counts(k)
  <2>1. Lists(p) = Lists(core)
    <3>1. CASE n = k
      BY <1>1, <1>3, <1>7, <3>1 DEF AheadAt, Counts, Current
    <3>2. CASE n # k
      <4>1. k \in n + 1..Len(r)
        BY <1>1, <1>7, <3>2
      <4>2. Current(r[k], core)
        BY <1>3, <1>7, <4>1 DEF AheadAt, Counts
      <4> QED
        BY <1>7, <4>2 DEF Current
    <3> QED
      BY <3>1, <3>2
  <2>2. ASSUME NEW j \in 1..Len(r) - 1 PROVE Fine(j)
    <3>1. CASE j < k
      BY <1>7, <3>1
    <3>2. CASE ~(j < k)
      <4>1. j + 1 \in n + 1..Len(r)
        BY <1>1, <1>7, <3>2
      <4>2. r[j + 1].late \/ Current(r[j + 1], core)
        BY <1>3, <4>1 DEF AheadAt
      <4> QED
        BY <3>2, <4>2
    <3> QED
      BY <3>1, <3>2
  <2> HIDE DEF Fine
  <2> QED
    BY <1>5, <2>1, <2>2
<1>8. CASE n > k
  <2> DEFINE m == n - 1
  <2>1. m \in 1..Len(r) - 1 /\ ~(m < k) /\ m + 1 = n /\ n # 0
    BY <1>1, <1>8
  <2> HIDE DEF m
  <2>2. ~r[At(m)].late /\ Current(r[At(m)], core)
    <3>1. At(m) = n
      BY <2>1
    <3>2. ~r[n].late /\ Current(r[n], core)
      BY <1>3, <2>1 DEF AheadAt
    <3> QED
      BY <3>1, <3>2
  <2>3. ASSUME NEW j \in m + 1..Len(r) - 1 PROVE Fine(j)
    <3>1. ~(j < k) /\ j + 1 \in n + 1..Len(r)
      BY <1>1, <1>8, <2>1
    <3>2. r[j + 1].late \/ Current(r[j + 1], core)
      BY <1>3, <3>1 DEF AheadAt
    <3> QED
      BY <3>1, <3>2
  <2> HIDE DEF Fine, At
  <2> QED
    BY <1>6, <2>1, <2>2, <2>3
<1>9. CASE n <= k /\ ~Counts(k)
  <2>1. n < k
    <3>1. r[k].late
      BY <1>9 DEF Counts
    <3>2. CASE n = k
      BY <1>1, <1>3, <3>1, <3>2 DEF AheadAt
    <3> QED
      BY <1>1, <1>9, <3>2
  <2>2. ASSUME NEW j \in n + 1..Len(r) - 1 PROVE Fine(j)
    <3> DEFINE i == At(j)
    <3>1. i \in n + 1..Len(r)
      BY <1>1, <2>1
    <3> HIDE DEF i
    <3>2. r[i].late \/ Current(r[i], core)
      BY <1>3, <3>1 DEF AheadAt
    <3> QED
      BY <3>2 DEF i
  <2>3. CASE n = 0
    <3>1. Lists(p) = Lists(core)
      BY <1>3, <1>9, <2>3 DEF AheadAt
    <3> HIDE DEF Fine
    <3> QED
      BY <1>5, <2>2, <2>3, <3>1
  <2>4. CASE n # 0
    <3>1. n \in 1..Len(r) - 1 /\ At(n) = n
      BY <1>1, <2>1, <2>4
    <3>2. ~r[At(n)].late /\ Current(r[At(n)], core)
      <4>1. ~r[n].late /\ Current(r[n], core)
        BY <1>3, <2>4 DEF AheadAt
      <4> QED
        BY <3>1, <4>1
    <3> HIDE DEF Fine, At
    <3> QED
      BY <1>6, <1>9, <2>2, <3>1, <3>2
  <2> QED
    BY <2>3, <2>4
<1> QED
  BY <1>1, <1>7, <1>8, <1>9

-----------------------------------------------------------------------------
(* Every step keeps the invariant.                                         *)

LEMMA InitHolds ==
    ASSUME Init
    PROVE  IInv
<1>1. "message" \in Lines
  BY LineNames
<1>2. FrameShape(net)
  <2>1. net \in [chain : [Lines -> {<<>>}], at : [Lines -> {"idle"}], reads : {<<>>}]
    BY DEF Init
  <2> QED
    BY <2>1 DEF FrameShape
<1>3. net.reads = <<>> /\ net.chain["message"] = <<>> /\ net.at["message"] = "idle"
  BY <1>1 DEF Init
<1>4. <<>> \in Seq({}) /\ DOMAIN <<>> = {} /\ Len(<<>>) = 0
  OBVIOUS
<1>5. NetShape(net) /\ InDoubt(net) = {}
  BY <1>2, <1>3, <1>4 DEF NetShape, ReadsShape, MessageShape, InDoubt
<1>6. Ahead(page, core, net.reads)
  <2>1. AheadAt(0, page, core, net.reads)
    BY <1>3, <1>4 DEF AheadAt, Init
  <2> QED
    BY <1>3, <1>4, <2>1 DEF Ahead
<1>7. Whole(core) /\ page = core
  BY DEF Init, Whole
<1> QED
  BY <1>5, <1>6, <1>7 DEF IInv, SameMessages

\* More asked for, and nothing else of what the invariant speaks of.
LEMMA AskedMore ==
    ASSUME IInv, Follows(net, net'), UNCHANGED <<core, page, soon>>, excused \subseteq excused'
    PROVE  IInv'
<1>1. NetShape(net') /\ ReadsShape(net.reads) /\ ReadsShape(net'.reads)
  BY DEF Follows, NetShape, IInv
<1>2. SameMessages(page, core, net')
  BY DEF IInv, SameMessages, Follows
<1>3. ~soon /\ "read" \notin excused' => Ahead(page, core, net'.reads)
  BY <1>1, AheadLonger DEF IInv, Follows
<1> QED
  BY <1>1, <1>2, <1>3 DEF IInv

\* An event of Core's came: the page will read again.
LEMMA EventCame ==
    ASSUME IInv, soon', Whole(core'), page' = page, NetShape(net'), SameMessages(page, core', net')
    PROVE  IInv'
BY DEF IInv

LEMMA NetStays ==
    ASSUME IInv, net' = net
    PROVE  Follows(net, net')
BY LongerStays DEF IInv, Follows, NetShape

\* What the user does.
LEMMA UserStep ==
    ASSUME IInv, User
    PROVE  IInv'
<1>0. NetShape(net)
  BY DEF IInv
<1>1. ASSUME NEW t \in Todos, Toggle(t) PROVE IInv'
  BY <1>1, NetStays, AskedMore DEF Toggle, UserRest
<1>2. ASSUME NEW store, NEW x, Stage(store, x) PROVE IInv'
  BY <1>2, NetStays, AskedMore DEF Stage
<1>3. ASSUME NEW t \in Todos, DeleteTodo(t) PROVE IInv'
  BY <1>2, <1>3 DEF DeleteTodo
<1>4. ASSUME NEW i \in Ids, Tick(i) PROVE IInv'
  <2>1. i \in Lines /\ i # "message"
    BY LineNames DEF Lines
  <2>2. PICK to : net' = Queue(net, i, to)
    BY <1>4 DEF Tick
  <2>3. Follows(net, net')
    BY <1>0, <2>1, <2>2, QueueFollows
  <2> QED
    BY <1>4, <2>3, AskedMore DEF Tick, UserRest
<1>5. ASSUME NEW i \in Ids, DeleteItem(i) PROVE IInv'
  BY <1>2, <1>5 DEF DeleteItem
<1>6. ASSUME NEW i \in Ids, NEW k, Move(i, k) PROVE IInv'
  <2>1. PICK w : net' = Queue(net, "moves", w)
    BY <1>6 DEF Move
  <2>2. Follows(net, net')
    BY <1>0, <2>1, LineNames, QueueFollows
  <2> QED
    BY <1>6, <2>2, AskedMore DEF Move, UserRest
<1>7. ASSUME NEW d \in Drafts, Add(d) PROVE IInv'
  <2>1. net' = Queue(net, "adds", d)
    BY <1>7 DEF Add
  <2>2. Follows(net, net')
    BY <1>0, <2>1, LineNames, QueueFollows
  <2> QED
    BY <1>7, <2>2, AskedMore DEF Add, UserRest
<1>8. ASSUME NEW m \in Messages, DeleteMessage(m) PROVE IInv'
  BY <1>2, <1>8 DEF DeleteMessage
<1>9. ASSUME NEW store \in Stores, Undo(store) PROVE IInv'
  BY <1>9, NetStays, AskedMore DEF Undo, UserRest
<1> QED
  BY <1>1, <1>3, <1>4, <1>5, <1>6, <1>7, <1>8, <1>9 DEF User

\* What is committed, by a send or a toast that goes.
LEMMA CommitStep ==
    ASSUME IInv,
           \/ \E s \in Sends : Submit(s) \/ FlushTodos(s)
           \/ \E store \in Stores : Close(store)
    PROVE  IInv'
<1>0. NetShape(net)
  BY DEF IInv
<1>1. ASSUME NEW s \in Sends, Submit(s) PROVE IInv'
  <2>1. Follows(net, net')
    BY <1>0, <1>1, CommitFollows DEF Submit, Stores
  <2> QED
    BY <1>1, <2>1, AskedMore DEF Submit
<1>2. ASSUME NEW store \in Stores, Close(store) PROVE IInv'
  <2>1. Follows(net, net')
    BY <1>0, <1>2, CommitFollows DEF Close
  <2> QED
    BY <1>2, <2>1, AskedMore DEF Close, PageRest
<1>3. ASSUME NEW s \in Sends, FlushTodos(s) PROVE IInv'
  <2> DEFINE n == Commit(net, "todo", {s})
  <2>1. Follows(net, n)
    BY <1>0, CommitFollows DEF Stores
  <2> HIDE DEF n
  <2>2. Follows(n, Commit(n, "item", {s}))
    BY <2>1, CommitFollows DEF Follows, Stores
  <2>3. net' = Commit(n, "item", {s})
    BY <1>3 DEF FlushTodos, n
  <2>4. Follows(net, net')
    BY <1>0, <2>1, <2>2, <2>3, FollowsOnward
  <2> QED
    BY <1>3, <2>4, AskedMore DEF FlushTodos
<1> QED
  BY <1>1, <1>2, <1>3

\* A tick that has settled, a send that goes, a run that ends.
LEMMA QuietStep ==
    ASSUME IInv,
           \/ \E t \in Todos : Settle(t)
           \/ \E s \in Sends : Deliver(s)
           \/ RunEnds
    PROVE  IInv'
<1>1. ASSUME NEW t \in Todos, Settle(t) PROVE IInv'
  <2>1. t \in Lines /\ t # "message"
    BY LineNames DEF Lines
  <2>2. Follows(net, net')
    BY <1>1, <2>1, QueueFollows DEF Settle, IInv
  <2> QED
    BY <1>1, <2>2, AskedMore DEF Settle, PageRest
<1>2. ASSUME NEW s \in Sends, Deliver(s) PROVE IInv'
  BY <1>2, NetStays, AskedMore DEF Deliver
<1>3. CASE RunEnds
  BY <1>3, NetStays, AskedMore DEF RunEnds
<1> QED
  BY <1>1, <1>2, <1>3

\* A read after an event.
LEMMA LoadStep ==
    ASSUME IInv, Load
    PROVE  IInv'
<1>1. "load" \in Readers
  BY DEF Readers
<1>2. /\ Follows(net, net') /\ net'.reads = Append(net.reads, Read("load"))
  BY <1>1, ReadingFollows DEF Load, IInv
<1>3. Ahead(page, core, net'.reads)
  BY <1>2, AheadAsked DEF IInv, NetShape
<1> QED
  BY <1>2, <1>3 DEF Load, PageRest, IInv, SameMessages, Follows

\* Core serves a read: it brings Core's lists.
LEMMA ServeReadStep ==
    ASSUME IInv, NEW k \in DOMAIN net.reads, ServeRead(k)
    PROVE  IInv'
<1> DEFINE r == net.reads
           s == [r EXCEPT ![k] = [r[k] EXCEPT !.got = core]]
<1>1. /\ FrameShape(net) /\ ReadsShape(r) /\ MessageShape(net) /\ Whole(core)
  BY DEF IInv, NetShape
<1>2. DOMAIN r = 1..Len(r) /\ Len(r) \in Nat /\ k \in 1..Len(r)
  BY <1>1 DEF ReadsShape
<1>3. net' = WriteReads(net, s)
  <2>1. PICK C, A, R : net \in [chain : [Lines -> C], at : [Lines -> A], reads : R]
    BY <1>1 DEF FrameShape
  <2> QED
    BY <2>1 DEF ServeRead, WriteReads
<1>4. /\ ReadShape(s[k]) /\ s[k].got = core /\ s[k].late = r[k].late
  <2> DEFINE x == r[k]
  <2>1. x = [by |-> x.by, got |-> x.got, late |-> x.late] /\ x.by \in Readers /\ x.late \in BOOLEAN
    BY <1>1 DEF ReadsShape, ReadShape
  <2> HIDE DEF x
  <2>2. [x EXCEPT !.got = core] = [by |-> x.by, got |-> core, late |-> x.late]
    BY <2>1
  <2>3. s[k] = [x EXCEPT !.got = core]
    BY DEF x
  <2> HIDE DEF s
  <2> QED
    BY <1>1, <2>1, <2>2, <2>3 DEF ReadShape, x
<1>5. PICK G : r \in Seq(G)
  BY <1>1 DEF ReadsShape
<1>6. /\ s \in Seq(G \cup {s[k]}) /\ Len(s) = Len(r) /\ DOMAIN s = DOMAIN r
      /\ \A j \in 1..Len(r) : j # k => s[j] = r[j]
  <2> DEFINE x == [r[k] EXCEPT !.got = core]
  <2> HIDE DEF x
  <2>1. r \in Seq(G \cup {x}) /\ x \in G \cup {x}
    BY <1>5, SMT
  <2>2. /\ [r EXCEPT ![k] = x] \in Seq(G \cup {x})
        /\ Len([r EXCEPT ![k] = x]) = Len(r) /\ DOMAIN [r EXCEPT ![k] = x] = DOMAIN r
        /\ [r EXCEPT ![k] = x][k] = x
        /\ \A j \in 1..Len(r) : j # k => [r EXCEPT ![k] = x][j] = r[j]
    BY <1>2, <2>1
  <2> QED
    BY <2>2 DEF x
<1> HIDE DEF s
<1>7. ReadsShape(s)
  BY <1>1, <1>2, <1>4, <1>6 DEF ReadsShape
<1>8. NetShape(net') /\ net'.reads = s /\ InDoubt(net') = InDoubt(net)
  <2>1. FrameShape(net') /\ net'.reads = s /\ net'.chain = net.chain /\ net'.at = net.at
    BY <1>1, <1>3, ReadsWritten
  <2> QED
    BY <1>1, <1>7, <2>1 DEF NetShape, MessageShape, InDoubt
<1>9. ASSUME Ahead(page, core, r) PROVE Ahead(page, core, s)
  <2>1. PICK n \in 0..Len(r) : AheadAt(n, page, core, r)
    BY <1>9 DEF Ahead
  <2>2. \A j \in 1..Len(r) : /\ s[j].late = r[j].late
                             /\ Current(r[j], core) => Current(s[j], core)
    BY <1>2, <1>4, <1>6 DEF Current
  <2>3. AheadAt(n, page, core, s)
    BY <1>2, <1>6, <2>1, <2>2 DEF AheadAt
  <2> QED
    BY <1>2, <1>6, <2>3 DEF Ahead
<1> QED
  BY <1>8, <1>9 DEF ServeRead, IInv, SameMessages

\* A list with Core's lists is as good as another with them.
LEMMA AheadSame ==
    ASSUME NEW p, NEW q, NEW c, NEW r, Lists(p) = Lists(q), Ahead(p, c, r)
    PROVE  Ahead(q, c, r)
BY DEF Ahead, AheadAt

\* What a read brought, with the messages the page has.
LEMMA Drawn ==
    ASSUME NEW c, Whole(c), NEW ms
    PROVE  LET d == [c EXCEPT !.messages = ms]
           IN Whole(d) /\ Lists(d) = Lists(c) /\ d.messages = ms
BY DEF Whole, Lists

\* A read comes back.
LEMMA LandedStep ==
    ASSUME IInv, NEW k \in DOMAIN net.reads, Landed(k)
    PROVE  IInv'
<1> DEFINE over == Overtaken(k)
           after == RemoveAt(over, k)
           n == WriteReads(net, after)
           got == net.reads[k].got
<1>1. FrameShape(net) /\ ReadsShape(net.reads) /\ MessageShape(net) /\ Whole(page)
  BY DEF IInv, NetShape
<1>2. got # NoList /\ Whole(got) /\ net.reads[k].by \in Readers
  BY <1>1 DEF Landed, ReadsShape, ReadShape
<1>3. ReadsShape(over) /\ k \in DOMAIN over
  <2>1. ReadsShape(over) /\ Len(over) = Len(net.reads)
    BY <1>1, OvertakenReads
  <2> HIDE DEF over
  <2> QED
    BY <1>1, <2>1 DEF ReadsShape
<1>4. ReadsShape(after)
  <2> HIDE DEF over
  <2> QED
    BY <1>3, ReadTaken
<1>5. LetGo(n, net.reads[k].by)
  <2>1. n = [net EXCEPT !.reads = RemoveAt(Overtaken(k), k)]
    BY DEF WriteReads
  <2> HIDE DEF n, over, after
  <2> QED
    BY <2>1 DEF Landed
<1>6. NetShape(n) /\ n.reads = after /\ InDoubt(n) = InDoubt(net)
  <2> HIDE DEF after
  <2>1. FrameShape(n) /\ n.reads = after /\ n.chain = net.chain /\ n.at = net.at
    BY <1>1, ReadsWritten
  <2> HIDE DEF n
  <2> QED
    BY <1>1, <1>4, <2>1 DEF NetShape, MessageShape, InDoubt
<1>7. Follows(n, net')
  <2> HIDE DEF n
  <2> QED
    BY <1>2, <1>5, <1>6, LetGoFollows
<1>8. /\ Whole(page') /\ page'.messages = page.messages
      /\ Lists(page') = IF Counts(k) THEN Lists(got) ELSE Lists(page)
  <2>1. CASE Counts(k)
    <3>1. page' = [got EXCEPT !.messages = page.messages]
      BY <2>1 DEF Landed
    <3> HIDE DEF got
    <3> QED
      BY <1>2, <2>1, <3>1, Drawn
  <2>2. CASE ~Counts(k)
    BY <1>1, <2>2 DEF Landed
  <2> QED
    BY <2>1, <2>2
<1>9. ASSUME Ahead(page, core, net.reads) PROVE Ahead(page', core, net'.reads)
  <2>1. Ahead(page', core, after)
    <3> DEFINE p == page'
    <3>1. Lists(p) = IF Counts(k) THEN Lists(net.reads[k].got) ELSE Lists(page)
      BY <1>8
    <3> HIDE DEF p, over, after
    <3>2. Ahead(p, core, RemoveAt(Overtaken(k), k))
      BY <1>1, <1>2, <1>9, <3>1, AheadLanded
    <3> QED
      BY <3>2 DEF p, over, after
  <2> HIDE DEF n, after
  <2> QED
    BY <1>4, <1>6, <1>7, <2>1, AheadLonger DEF Follows, NetShape
<1>10. SameMessages(page', core', net')
  <2> HIDE DEF n
  <2> QED
    BY <1>6, <1>7, <1>8 DEF IInv, SameMessages, Follows, Landed, PageRest
<1>11. NetShape(net') /\ Whole(core') /\ UNCHANGED <<soon, core, excused>>
  <2> HIDE DEF n
  <2> QED
    BY <1>7 DEF Follows, Landed, PageRest, IInv
<1> QED
  BY <1>8, <1>9, <1>10, <1>11 DEF IInv

\* A read fails: nothing is said any more of what the page has.
LEMMA ReadFailsStep ==
    ASSUME IInv, NEW k \in DOMAIN net.reads, ReadFails(k)
    PROVE  IInv'
<1> DEFINE after == RemoveAt(net.reads, k)
           n == WriteReads(net, after)
<1>1. FrameShape(net) /\ ReadsShape(net.reads) /\ MessageShape(net)
  BY DEF IInv, NetShape
<1>2. ReadsShape(after) /\ net.reads[k].by \in Readers
  BY <1>1, ReadTaken DEF ReadsShape, ReadShape
<1>3. LetGo(n, net.reads[k].by)
  <2>1. PICK C, A, R : net \in [chain : [Lines -> C], at : [Lines -> A], reads : R]
    BY <1>1 DEF FrameShape
  <2>2. n = [net EXCEPT !.reads = RemoveAt(@, k)]
    BY <2>1 DEF WriteReads
  <2> HIDE DEF n
  <2> QED
    BY <2>2 DEF ReadFails
<1> HIDE DEF after
<1>4. NetShape(n) /\ InDoubt(n) = InDoubt(net)
  <2>1. FrameShape(n) /\ n.reads = after /\ n.chain = net.chain /\ n.at = net.at
    BY <1>1, ReadsWritten
  <2> HIDE DEF n
  <2> QED
    BY <1>1, <1>2, <2>1 DEF NetShape, MessageShape, InDoubt
<1> HIDE DEF n
<1>5. Follows(n, net')
  BY <1>2, <1>3, <1>4, LetGoFollows
<1>6. "read" \in excused' /\ UNCHANGED <<core, page>>
  BY DEF ReadFails
<1> QED
  BY <1>4, <1>5, <1>6 DEF IInv, SameMessages, Follows

-----------------------------------------------------------------------------
(* Answers.                                                                *)

\* The answer to a write of a line that is not the messages'.
LEMMA OtherAnswered ==
    ASSUME IInv, NEW line \in Lines \ {"message"}, Answered(line)
    PROVE  IInv'
<1>1. NetShape(net) /\ line \in Readers /\ "load" \in Readers
  BY LineNames DEF IInv, Readers
<1>2. Follows(net, Reading(net, line))
  BY <1>1, ReadingFollows
<1>3. ASSUME NEW w, NEW todos PROVE Follows(net, GoOn(net, line, w, todos))
  BY <1>1, GoOnFollows
<1>4. ASSUME NEW w, NEW todos PROVE Follows(net, Reading(GoOn(net, line, w, todos), "load"))
  <2> DEFINE n == GoOn(net, line, w, todos)
  <2>1. Follows(net, n)
    BY <1>3
  <2> HIDE DEF n
  <2>2. Follows(n, Reading(n, "load"))
    BY <1>1, <2>1, ReadingFollows DEF Follows
  <2>3. Follows(net, Reading(n, "load"))
    BY <1>1, <2>1, <2>2, FollowsOnward
  <2> QED
    BY <2>3 DEF n
<1> SUFFICES Follows(net, net')
  <2>1. page' = page
    BY DEF Answered
  <2> QED
    BY <2>1, AskedMore DEF Answered, PageRest
<1>5. CASE line \in Todos /\ FlipAnswered(line)
  <2>1. \/ net' = Reading(net, line)
        \/ net' = Reading(GoOn(net, line, Rest(line), page.todos), "load")
    BY <1>5 DEF FlipAnswered
  <2> QED
    BY <1>2, <1>4, <2>1
<1>6. CASE line \in Ids /\ TickAnswered(line)
  <2>1. \/ net' = Reading(net, line)
        \/ net' = GoOn(net, line, Rest(line), page.todos)
    BY <1>6 DEF TickAnswered
  <2> QED
    BY <1>2, <1>3, <2>1
<1>7. CASE line = "moves" /\ MoveAnswered
  <2>1. \/ net' = Reading(net, line)
        \/ net' = GoOn(net, line, Rest(line), page.todos)
    BY <1>7 DEF MoveAnswered
  <2> QED
    BY <1>2, <1>3, <2>1
<1>8. CASE line = "adds" /\ AddAnswered
  <2>1. \/ net' = Reading(net, line)
        \/ net' = GoOn(net, line, Rest(line), page.todos)
    BY <1>8 DEF AddAnswered
  <2> QED
    BY <1>2, <1>3, <2>1
<1>9. CASE line \in {"todo", "item"} /\ DeleteAnswered(line)
  <2>1. PICK ids : LET asked == [net EXCEPT !.chain[line][1].ids = ids]
                   IN \/ net' = Reading(asked, line)
                      \/ net' = [asked EXCEPT !.at[line] = "asked"]
    BY <1>9 DEF DeleteAnswered
  <2> DEFINE w == [net.chain[line] EXCEPT ![1].ids = ids]
             asked == WriteChain(net, line, w)
  <2>2. Follows(net, asked)
    <3> HIDE DEF w
    <3> QED
      BY <1>1, OtherLine
  <2>3. [net EXCEPT !.chain[line][1].ids = ids] = asked
    BY DEF WriteChain
  <2> HIDE DEF asked
  <2>4. Follows(asked, Reading(asked, line)) /\ Follows(asked, WriteAt(asked, line, "asked"))
    BY <1>1, <2>2, ReadingFollows, OtherLine DEF Follows
  <2>5. net' = Reading(asked, line) \/ net' = WriteAt(asked, line, "asked")
    BY <2>1, <2>3 DEF WriteAt
  <2> QED
    BY <1>1, <2>2, <2>4, <2>5, FollowsOnward
<1> QED
  BY <1>5, <1>6, <1>7, <1>8, <1>9 DEF Answered

\* The message line as Core answers it, or as its next deletion is asked for.
LEMMA MessageAt ==
    ASSUME NEW n, NetShape(n), n.at["message"] # "idle", NEW v, v # "idle"
    PROVE  LET m == WriteAt(n, "message", v)
           IN /\ NetShape(m) /\ m.reads = n.reads
              /\ InDoubt(m) = IF v = "ok" THEN {Head(Head(n.chain["message"]).ids)} ELSE {}
<1> DEFINE m == WriteAt(n, "message", v)
<1>1. FrameShape(n) /\ "message" \in Lines
  BY LineNames DEF NetShape
<1>2. FrameShape(m) /\ m.reads = n.reads /\ m.chain = n.chain /\ m.at["message"] = v
  BY <1>1, AtWritten
<1> HIDE DEF m
<1>3. NetShape(m)
  BY <1>2 DEF NetShape, MessageShape
<1>4. InDoubt(m) = IF v = "ok" THEN {Head(Head(n.chain["message"]).ids)} ELSE {}
  BY <1>2 DEF InDoubt
<1> QED
  BY <1>2, <1>3, <1>4 DEF m

\* The answer to a deletion of a message: the page lets go what Core deleted.
LEMMA MessagesAnswered ==
    ASSUME IInv, Answered("message")
    PROVE  IInv'
<1> DEFINE s == net.chain["message"]
           batch == Head(s)
           ids == IF net.at["message"] = "busy" THEN <<>> ELSE Tail(batch.ids)
<1>1. FrameShape(net) /\ NetShape(net) /\ MessageShape(net) /\ Whole(page) /\ "message" \in Lines
  BY LineNames DEF IInv, NetShape
<1>2. net.at["message"] \in {"ok", "busy", "refused"} /\ MessageAnswered
  BY LineNames DEF Answered
<1>3. PICK G : s \in Seq(G)
  BY <1>1 DEF MessageShape
<1>4. s # <<>> /\ DOMAIN s = 1..Len(s) /\ 1 \in DOMAIN s
  BY <1>1, <1>2, <1>3 DEF MessageShape
<1>5. NetShape(net') /\ net'.reads = net.reads /\ InDoubt(net') = {}
  <2>1. CASE ids = <<>>
    <3>1. net' = GoOn(net, "message", Tail(s), page.todos)
      BY <1>2, <2>1 DEF MessageAnswered, Rest
    <3>2. Tail(s) \in Seq(G) /\ \A k \in DOMAIN Tail(s) : BatchShape(Tail(s)[k])
      <4>1. Tail(s) \in Seq(G) /\ \A k \in DOMAIN Tail(s) : k + 1 \in DOMAIN s /\ Tail(s)[k] = s[k + 1]
        BY <1>3, <1>4
      <4> QED
        BY <1>1, <4>1 DEF MessageShape
    <3> QED
      BY <1>1, <3>1, <3>2, GoOnMessage
  <2>2. CASE ids # <<>>
    <3> DEFINE b == [batch EXCEPT !.ids = ids, !.all = ToSet(ids)]
               t == [s EXCEPT ![1] = b]
               c == WriteChain(net, "message", t)
    <3>1. net' = WriteAt(c, "message", "asked")
      <4>1. PICK C, A, R : net \in [chain : [Lines -> C], at : [Lines -> A], reads : R]
        BY <1>1 DEF FrameShape
      <4>2. net' = [net EXCEPT !.chain["message"][1] = [@ EXCEPT !.ids = ids, !.all = ToSet(ids)],
                               !.at["message"] = "asked"]
        BY <1>2, <2>2 DEF MessageAnswered
      <4>3. s[1] = batch
        BY <1>3, <1>4
      <4> HIDE DEF batch, ids
      <4> QED
        BY <1>1, <4>1, <4>2, <4>3 DEF WriteAt, WriteChain
    <3>2. BatchShape(b)
      <4> DEFINE x == s[1]
                 i == ids
                 a == ToSet(ids)
      <4>1. x = [ids |-> x.ids, all |-> x.all, waits |-> x.waits]
        BY <1>1, <1>4 DEF MessageShape, BatchShape
      <4>2. batch = x
        BY <1>3, <1>4
      <4> HIDE DEF x, i, a
      <4>3. [x EXCEPT !.ids = i, !.all = a] = [ids |-> i, all |-> a, waits |-> x.waits]
        <5>1. x \in [ids : {x.ids}, all : {x.all}, waits : {x.waits}]
          BY <4>1
        <5> DEFINE y == [x EXCEPT !.ids = i]
        <5>2. y = [ids |-> i, all |-> x.all, waits |-> x.waits]
          BY <5>1
        <5>3. [x EXCEPT !.ids = i, !.all = a] = [y EXCEPT !.all = a]
          OBVIOUS
        <5> HIDE DEF y
        <5> QED
          BY <5>2, <5>3
      <4>4. b = [x EXCEPT !.ids = i, !.all = a]
        BY <4>2 DEF i, a
      <4> HIDE DEF b
      <4> QED
        BY <4>3, <4>4 DEF BatchShape
    <3> HIDE DEF b
    <3>3. t \in Seq(G \cup {b}) /\ t # <<>> /\ \A k \in DOMAIN t : BatchShape(t[k])
      <4>1. s \in Seq(G \cup {b}) /\ b \in G \cup {b}
        BY <1>3, SMT
      <4>2. /\ t \in Seq(G \cup {b}) /\ t # <<>> /\ DOMAIN t = DOMAIN s /\ t[1] = b
            /\ \A k \in DOMAIN s : k # 1 => t[k] = s[k]
        BY <1>4, <4>1
      <4>3. \A k \in DOMAIN s : BatchShape(s[k])
        BY <1>1 DEF MessageShape
      <4> HIDE DEF t
      <4> QED
        BY <3>2, <4>2, <4>3
    <3> HIDE DEF t
    <3>4. FrameShape(c) /\ c.reads = net.reads /\ c.chain["message"] = t /\ c.at = net.at
      BY <1>1, ChainWritten
    <3> HIDE DEF c
    <3>5. NetShape(c) /\ c.at["message"] # "idle"
      BY <1>1, <1>2, <3>3, <3>4 DEF NetShape, MessageShape
    <3> QED
      BY <3>1, <3>4, <3>5, MessageAt
  <2> QED
    BY <2>1, <2>2
<1>6. /\ Whole(page') /\ Lists(page') = Lists(page)
      /\ page'.messages = page.messages \ InDoubt(net)
  <2>1. CASE net.at["message"] = "ok"
    <3>1. page' = [page EXCEPT !.messages = page.messages \ {Head(Head(net.chain["message"]).ids)}]
      BY <1>1, <1>2, <2>1 DEF MessageAnswered, Whole
    <3> QED
      BY <1>1, <2>1, <3>1, Drawn DEF InDoubt
  <2>2. CASE net.at["message"] # "ok"
    <3>1. page' = page
      BY <1>2, <2>2 DEF MessageAnswered
    <3> QED
      BY <1>1, <2>2, <3>1 DEF InDoubt
  <2> QED
    BY <2>1, <2>2
<1>7. UNCHANGED <<core, soon, excused>>
  BY DEF Answered, PageRest
<1>8. SameMessages(page', core, net')
  BY <1>5, <1>6 DEF IInv, SameMessages
<1>9. ASSUME Ahead(page, core, net.reads) PROVE Ahead(page', core, net'.reads)
  BY <1>5, <1>6, <1>9, AheadSame
<1> QED
  BY <1>5, <1>6, <1>7, <1>8, <1>9 DEF IInv

-----------------------------------------------------------------------------
(* Core's lists change.                                                    *)

\* One part of Core's lists, the others as they were.
LEMMA PartOfCore ==
    ASSUME NEW c, Whole(c), NEW x, NEW d,
           d \in {[c EXCEPT !.todos = x], [c EXCEPT !.items = x], [c EXCEPT !.ticked = x]}
    PROVE  Whole(d) /\ d.messages = c.messages
<1>1. \/ d = [todos |-> x, items |-> c.items, ticked |-> c.ticked, messages |-> c.messages]
      \/ d = [todos |-> c.todos, items |-> x, ticked |-> c.ticked, messages |-> c.messages]
      \/ d = [todos |-> c.todos, items |-> c.items, ticked |-> x, messages |-> c.messages]
  BY DEF Whole
<1> QED
  BY <1>1 DEF Whole

\* A write of Core's: only the messages' line deletes messages.
LEMMA CoreWritten ==
    ASSUME Whole(core), NEW line \in Lines, NEW w
    PROVE  LET c == Written(line, w)
           IN /\ Whole(c)
              /\ c.messages = IF line = "message" THEN core.messages \ {Head(w.ids)}
                                                  ELSE core.messages
<1> DEFINE c == Written(line, w)
<1> SUFFICES /\ Whole(c)
             /\ c.messages = IF line = "message" THEN core.messages \ {Head(w.ids)}
                                                 ELSE core.messages
  OBVIOUS
<1>1. CASE line \in Todos
  <2>1. line \notin Ids \cup {"moves", "adds", "todo", "item", "message"}
    BY <1>1, PanelAssumption DEF Ids, Stores
  <2>2. c = [core EXCEPT !.todos[line] = w]
    BY <1>1, <2>1 DEF Written
  <2>3. c = [core EXCEPT !.todos = [core.todos EXCEPT ![line] = w]]
    BY <2>2 DEF Whole
  <2> HIDE DEF c
  <2> QED
    BY <2>1, <2>3, PartOfCore
<1>2. CASE line \in Ids
  <2>1. line \notin Todos \cup {"moves", "adds", "todo", "item", "message"}
    BY <1>2, PanelAssumption DEF Ids, Stores
  <2> DEFINE x == IF w = "done" THEN core.ticked \cup {line} ELSE core.ticked \ {line}
  <2>2. c = [core EXCEPT !.ticked = x]
    BY <1>2, <2>1 DEF Written, Whole
  <2> HIDE DEF c, x
  <2> QED
    BY <2>1, <2>2, PartOfCore
<1>3. CASE line \in {"moves", "adds", "todo", "item", "message"}
  <2>1. line \notin Todos \cup Ids
    BY <1>3, PanelAssumption DEF Ids, Stores
  <2>2. CASE line = "moves"
    <3>1. c = [core EXCEPT !.items = Moved(core.items, w.item, w.to)]
      BY <2>1, <2>2 DEF Written, Whole
    <3> HIDE DEF c
    <3> QED
      BY <2>2, <3>1, PartOfCore
  <2>3. CASE line = "adds"
    <3>1. c = [core EXCEPT !.items = Append(core.items, w)]
      BY <2>1, <2>3 DEF Written, Whole
    <3> HIDE DEF c
    <3> QED
      BY <2>3, <3>1, PartOfCore
  <2>4. CASE line = "todo"
    <3>1. c = [core EXCEPT !.todos = [core.todos EXCEPT ![Head(w.ids)] = "gone"]]
      BY <2>1, <2>4 DEF Written, Whole
    <3> HIDE DEF c
    <3> QED
      BY <2>4, <3>1, PartOfCore
  <2>5. CASE line = "item"
    <3>1. c = [core EXCEPT !.items = Without(core.items, Head(w.ids))]
      BY <2>1, <2>5 DEF Written, Whole
    <3> HIDE DEF c
    <3> QED
      BY <2>5, <3>1, PartOfCore
  <2>6. CASE line = "message"
    <3>1. c = [core EXCEPT !.messages = core.messages \ {Head(w.ids)}]
      BY <2>1, <2>6 DEF Written, Whole
    <3> HIDE DEF c
    <3> QED
      BY <2>6, <3>1, Drawn
  <2> QED
    BY <1>3, <2>2, <2>3, <2>4, <2>5, <2>6
<1> QED
  BY <1>1, <1>2, <1>3 DEF Lines, Stores

\* Core makes a write or refuses it, and tells the page that something came.
LEMMA ServeStep ==
    ASSUME IInv, NEW line \in Lines, Serve(line)
    PROVE  IInv'
<1> DEFINE w == Head(net.chain[line])
           possible == Possible(line, w)
           v == IF possible THEN "ok" ELSE Refusal(line, w)
<1>1. NetShape(net) /\ Whole(core)
  BY DEF IInv
<1>2. /\ core' = IF possible THEN Written(line, w) ELSE core
      /\ net' = WriteAt(net, line, v)
      /\ soon' /\ page' = page /\ net.at[line] = "asked"
  <2>1. PICK C, A, R : net \in [chain : [Lines -> C], at : [Lines -> A], reads : R]
    BY <1>1 DEF NetShape, FrameShape
  <2> HIDE DEF w
  <2> QED
    BY <2>1 DEF Serve, WriteAt, w
<1> DEFINE c == Written(line, w)
<1>3. /\ Whole(c)
      /\ c.messages = IF line = "message" THEN core.messages \ {Head(w.ids)} ELSE core.messages
  <2> HIDE DEF w
  <2> QED
    BY <1>1, CoreWritten
<1>4. v # "idle" /\ (~possible => v # "ok")
  BY DEF Refusal
<1>5. CASE line # "message"
  <2> HIDE DEF v, c, w
  <2>1. Follows(net, net')
    BY <1>1, <1>2, <1>5, OtherLine
  <2>2. Whole(core') /\ core'.messages = core.messages
    BY <1>1, <1>2, <1>3, <1>5 DEF c
  <2>3. SameMessages(page, core', net')
    BY <2>1, <2>2 DEF IInv, SameMessages, Follows
  <2> QED
    BY <1>2, <2>1, <2>2, <2>3, EventCame DEF Follows
<1>6. CASE line = "message"
  <2>1. InDoubt(net) = {} /\ net.at["message"] # "idle"
    BY <1>2, <1>6 DEF InDoubt
  <2>2. NetShape(net') /\ InDoubt(net') = IF v = "ok" THEN {Head(w.ids)} ELSE {}
    <3> HIDE DEF v
    <3> QED
      BY <1>1, <1>2, <1>4, <1>6, <2>1, MessageAt
  <2>3. page.messages = core.messages
    BY <2>1 DEF IInv, SameMessages
  <2>4. possible => Head(w.ids) \in core.messages
    BY <1>6, PanelAssumption DEF Possible, Ids, Stores
  <2>5. Whole(core') /\ SameMessages(page, core', net')
    <3> HIDE DEF w, possible, c
    <3>1. CASE possible
      BY <1>2, <1>3, <1>6, <2>2, <2>3, <2>4, <3>1 DEF SameMessages, c
    <3>2. CASE ~possible
      BY <1>1, <1>2, <1>4, <2>2, <2>3, <3>2 DEF SameMessages
    <3> QED
      BY <3>1, <3>2
  <2> QED
    BY <1>2, <2>2, <2>5, EventCame
<1> QED
  BY <1>5, <1>6

\* A write fails.
LEMMA FailStep ==
    ASSUME IInv, NEW line \in Lines, Fail(line)
    PROVE  IInv'
<1>1. NetShape(net) /\ Whole(core)
  BY DEF IInv
<1>2. /\ net' = WriteAt(net, line, "refused")
      /\ soon' /\ UNCHANGED <<page, core>> /\ net.at[line] = "asked"
  BY DEF Fail, WriteAt
<1>3. NetShape(net') /\ InDoubt(net') = InDoubt(net)
  <2>1. CASE line # "message"
    BY <1>1, <1>2, <2>1, OtherLine DEF Follows
  <2>2. CASE line = "message"
    BY <1>1, <1>2, <2>2, MessageAt DEF InDoubt
  <2> QED
    BY <2>1, <2>2
<1> QED
  BY <1>1, <1>2, <1>3, EventCame DEF IInv, SameMessages

\* Someone else writes, or a run is opened.
LEMMA GalleyStep ==
    ASSUME IInv, Galley
    PROVE  IInv'
<1>1. Whole(core) /\ NetShape(net)
  BY DEF IInv
<1>2. CASE UNCHANGED <<core, soon, excused>>
  BY <1>2, NetStays, AskedMore DEF Galley
<1>3. CASE soon' = TRUE
  <2>1. Whole(core') /\ core'.messages = core.messages
    <3>1. \/ core' = core
          \/ \E x : core' = [core EXCEPT !.todos = x]
          \/ \E x : core' = [core EXCEPT !.ticked = x]
          \/ \E x : core' = [core EXCEPT !.items = x]
      BY <1>1 DEF Galley, Whole
    <3> QED
      BY <1>1, <3>1, PartOfCore
  <2>2. page' = page /\ net' = net
    BY DEF Galley
  <2>3. SameMessages(page, core', net')
    BY <2>1, <2>2 DEF IInv, SameMessages
  <2> QED
    BY <1>1, <1>3, <2>1, <2>2, <2>3, EventCame
<1> QED
  BY <1>2, <1>3 DEF Galley

-----------------------------------------------------------------------------
(* The theorem.                                                            *)

LEMMA NextHolds ==
    ASSUME IInv, [Next]_vars
    PROVE  IInv'
<1>1. CASE User
  BY <1>1, UserStep
<1>2. ASSUME NEW s \in Sends, Submit(s) \/ FlushTodos(s) PROVE IInv'
  BY <1>2, CommitStep
<1>3. ASSUME NEW store \in Stores, Close(store) PROVE IInv'
  BY <1>3, CommitStep
<1>4. ASSUME NEW t \in Todos, Settle(t) PROVE IInv'
  BY <1>4, QuietStep
<1>5. ASSUME NEW s \in Sends, Deliver(s) PROVE IInv'
  BY <1>5, QuietStep
<1>6. CASE RunEnds
  BY <1>6, QuietStep
<1>7. CASE Load
  BY <1>7, LoadStep
<1>8. ASSUME NEW line \in Lines, Serve(line) PROVE IInv'
  BY <1>8, ServeStep
<1>9. ASSUME NEW line \in Lines, Answered(line) PROVE IInv'
  BY <1>9, OtherAnswered, MessagesAnswered
<1>10. ASSUME NEW k \in DOMAIN net.reads, ServeRead(k) PROVE IInv'
  BY <1>10, ServeReadStep
<1>11. ASSUME NEW k \in DOMAIN net.reads, Landed(k) PROVE IInv'
  BY <1>11, LandedStep
<1>12. CASE Galley
  BY <1>12, GalleyStep
<1>13. ASSUME NEW line \in Lines, Fail(line) PROVE IInv'
  BY <1>13, FailStep
<1>14. ASSUME NEW k \in DOMAIN net.reads, ReadFails(k) PROVE IInv'
  BY <1>14, ReadFailsStep
<1>15. CASE UNCHANGED vars
  BY <1>15, NetStays, AskedMore DEF vars
<1>16. CASE System
  BY <1>16, <1>2, <1>3, <1>4, <1>5, <1>6, <1>7, <1>8, <1>9, <1>10, <1>11 DEF System
<1> QED
  BY <1>1, <1>2, <1>12, <1>13, <1>14, <1>15, <1>16 DEF Next

\* What the invariant says of a page that rests.
LEMMA IInvAgrees ==
    ASSUME IInv
    PROVE  Agrees
<1> SUFFICES ASSUME Quiet, "read" \notin excused PROVE page = core
  BY DEF Agrees
<1>1. ~soon /\ net.reads = <<>> /\ net.at["message"] = "idle"
  BY LineNames DEF Quiet
<1>2. Lists(page) = Lists(core)
  <2>1. PICK n \in 0..Len(net.reads) : AheadAt(n, page, core, net.reads)
    BY <1>1 DEF IInv, Ahead
  <2>2. n = 0
    BY <1>1
  <2> QED
    BY <2>1, <2>2 DEF AheadAt
<1>3. page.messages = core.messages
  BY <1>1 DEF IInv, SameMessages, InDoubt
<1>4. /\ page.todos = core.todos /\ page.items = core.items /\ page.ticked = core.ticked
  BY <1>2 DEF Lists
<1> QED
  BY <1>3, <1>4 DEF IInv, Whole

\* read()'s tickets and the read after each event: once nothing is on its way
\* the page's list is Core's, and so are its messages, however many writes and
\* reads there were, served and come back in whatever order.
THEOREM AgreesHolds == Spec => []Agrees
<1>1. Init => IInv
  BY InitHolds
<1>2. IInv /\ [Next]_vars => IInv'
  BY NextHolds
<1>3. IInv => Agrees
  BY IInvAgrees
<1> QED
  BY <1>1, <1>2, <1>3, PTL DEF Spec

-----------------------------------------------------------------------------
(* The lines.                                                              *)

\* A line that rests has nothing on it.
LinesShape(n) ==
    \A line \in Lines :
       /\ \E G : n.chain[line] \in Seq(G)
       /\ n.at[line] = "idle" <=> n.chain[line] = <<>>

\* A line that reads has one read on its way.
OneRead(n) ==
    /\ \A k \in DOMAIN n.reads : n.reads[k].by # "load" => n.at[n.reads[k].by] = "reading"
    /\ \A j, k \in DOMAIN n.reads :
          j # k /\ n.reads[j].by = n.reads[k].by => n.reads[j].by = "load"

Lined(n) == NetShape(n) /\ LinesShape(n) /\ OneRead(n)

NoRead(n, line) == \A k \in DOMAIN n.reads : n.reads[k].by # line

\* Nothing happened on the other lines.
Only(n, m, line) ==
    \A l \in Lines \ {line} : m.chain[l] = n.chain[l] /\ m.at[l] = n.at[l]

\* A line that does not read has no read on its way.
LEMMA NotReading ==
    ASSUME NEW n, Lined(n), NEW line, line # "load", n.at[line] # "reading"
    PROVE  NoRead(n, line)
BY DEF Lined, OneRead, NoRead

\* One line's writes and where it is.
LEMMA LineWritten ==
    ASSUME NEW n, Lined(n), NEW line \in Lines, NoRead(n, line), NEW G, NEW c \in Seq(G), NEW a,
           a = "idle" <=> c = <<>>,
           NetShape(WriteAt(WriteChain(n, line, c), line, a))
    PROVE  LET m == WriteAt(WriteChain(n, line, c), line, a)
           IN /\ Lined(m) /\ Only(n, m, line) /\ NoRead(m, line) /\ m.reads = n.reads
              /\ m.chain[line] = c /\ m.at[line] = a
<1> DEFINE d == WriteChain(n, line, c)
           m == WriteAt(d, line, a)
<1>1. FrameShape(n) /\ ReadsShape(n.reads)
  BY DEF Lined, NetShape
<1>2. /\ FrameShape(d) /\ d.reads = n.reads /\ d.at = n.at /\ d.chain[line] = c
      /\ \A l \in Lines \ {line} : d.chain[l] = n.chain[l]
  BY <1>1, ChainWritten
<1> HIDE DEF d
<1>3. /\ m.reads = d.reads /\ m.chain = d.chain /\ m.at[line] = a
      /\ \A l \in Lines \ {line} : m.at[l] = d.at[l]
  BY <1>2, AtWritten
<1>4. NetShape(m)
  BY DEF d
<1> HIDE DEF m
<1>5. Only(n, m, line) /\ m.chain[line] = c /\ m.reads = n.reads
  BY <1>2, <1>3 DEF Only
<1>6. LinesShape(m)
  BY <1>3, <1>5 DEF LinesShape, Lined, Only
<1>7. OneRead(m)
  <2>1. \A k \in DOMAIN n.reads : n.reads[k].by # "load" =>
           n.reads[k].by \in Lines \ {line}
    BY <1>1 DEF ReadsShape, ReadShape, Readers, NoRead
  <2> QED
    BY <1>5, <2>1 DEF OneRead, Lined, Only
<1> QED
  BY <1>3, <1>4, <1>5, <1>6, <1>7 DEF Lined, NoRead, m, d

\* A read asked for by a line that has none, or after an event.
LEMMA ReadingLined ==
    ASSUME NEW n, Lined(n), NEW line \in Readers,
           line # "load" => NoRead(n, line) /\ n.chain[line] # <<>>
    PROVE  LET m == Reading(n, line)
           IN Lined(m) /\ m.chain = n.chain /\ Only(n, m, line) /\ m.reads = Append(n.reads, Read(line))
<1> DEFINE m == Reading(n, line)
           reads == Append(n.reads, Read(line))
<1>1. /\ FrameShape(n) /\ ReadsShape(n.reads)
      /\ line # "load" => line \in Lines
      /\ line = "load" => line \notin Lines
  BY PanelAssumption DEF Lined, NetShape, Readers, Lines, Ids, Stores
<1>2. NetShape(m) /\ m.reads = reads
  BY ReadingFollows DEF Lined, Follows
<1>3. PICK C, A, R : n \in [chain : [Lines -> C], at : [Lines -> A], reads : R]
  BY <1>1 DEF FrameShape
<1>4. /\ m.chain = n.chain
      /\ \A l \in Lines : m.at[l] = IF l = line THEN "reading" ELSE n.at[l]
  <2> HIDE DEF reads
  <2>1. CASE line = "load"
    <3>1. m = WriteReads(n, reads)
      BY <1>3, <2>1 DEF Reading, WriteReads, reads
    <3>2. m.chain = n.chain /\ m.at = n.at
      BY <1>1, <3>1, ReadsWritten
    <3> HIDE DEF m
    <3> QED
      BY <1>1, <2>1, <3>2
  <2>2. CASE line # "load"
    <3>1. m = WriteReads(WriteAt(n, line, "reading"), reads)
      BY <1>3, <2>2 DEF Reading, WriteReads, WriteAt, reads
    <3>2. LET a == WriteAt(n, line, "reading")
          IN /\ FrameShape(a) /\ a.chain = n.chain /\ a.at[line] = "reading"
             /\ \A l \in Lines \ {line} : a.at[l] = n.at[l]
      BY <2>2, <1>1, AtWritten
    <3> HIDE DEF m
    <3>3. m.chain = WriteAt(n, line, "reading").chain /\ m.at = WriteAt(n, line, "reading").at
      BY <3>1, <3>2, ReadsWritten
    <3> QED
      BY <3>2, <3>3
  <2> QED
    BY <2>1, <2>2
<1>5. /\ DOMAIN n.reads = 1..Len(n.reads) /\ DOMAIN reads = 1..Len(n.reads) + 1 /\ Len(n.reads) \in Nat
      /\ \A k \in 1..Len(n.reads) : reads[k] = n.reads[k]
      /\ reads[Len(n.reads) + 1].by = line
  <2>1. PICK G : n.reads \in Seq(G)
    BY <1>1 DEF ReadsShape
  <2>2. Read(line).by = line
    BY DEF Read
  <2> HIDE DEF Read
  <2> QED
    BY <2>1, <2>2
<1> HIDE DEF m, reads
<1>6. LinesShape(m)
  BY <1>1, <1>4 DEF LinesShape, Lined
<1>7. OneRead(m)
  <2>1. ASSUME NEW k \in DOMAIN reads, reads[k].by # "load"
        PROVE  m.at[reads[k].by] = "reading"
    <3>1. CASE k = Len(n.reads) + 1
      BY <1>1, <1>4, <1>5, <2>1, <3>1
    <3>2. CASE k \in 1..Len(n.reads)
      <4>1. n.reads[k].by \in Lines /\ n.at[n.reads[k].by] = "reading" /\ reads[k] = n.reads[k]
        BY <1>1, <1>5, <2>1, <3>2 DEF ReadsShape, ReadShape, Readers, Lined, OneRead
      <4> QED
        BY <1>4, <4>1
    <3> QED
      BY <1>5, <2>1, <3>1, <3>2
  <2>2. ASSUME NEW j \in DOMAIN reads, NEW k \in DOMAIN reads, j # k, reads[j].by = reads[k].by
        PROVE  reads[j].by = "load"
    <3>1. CASE j \in 1..Len(n.reads) /\ k \in 1..Len(n.reads)
      BY <1>5, <2>2, <3>1 DEF Lined, OneRead
    <3>2. CASE j = Len(n.reads) + 1
      BY <1>5, <2>2, <3>2 DEF NoRead
    <3>3. CASE k = Len(n.reads) + 1
      BY <1>5, <2>2, <3>3 DEF NoRead
    <3> QED
      BY <1>5, <2>2, <3>1, <3>2, <3>3
  <2> QED
    BY <1>2, <2>1, <2>2 DEF OneRead
<1> QED
  BY <1>2, <1>4, <1>6, <1>7 DEF Lined, Only, m, reads

\* The same writes, the first of the to-dos' batches perhaps with fewer to ask for.
Skipped(line, c, d) ==
    d = c \/ (line = "todo" /\ c # <<>> /\ \E ids : d = [c EXCEPT ![1].ids = ids])

\* The first of a line's writes has its turn.
LEMMA GoOnLined ==
    ASSUME NEW n, Lined(n), NEW line \in Lines, NoRead(n, line),
           NEW G, NEW writes \in Seq(G), NEW todos,
           line = "message" => \A k \in DOMAIN writes : BatchShape(writes[k])
    PROVE  LET m == GoOn(n, line, writes, todos)
           IN Lined(m) /\ Only(n, m, line) /\ Skipped(line, writes, m.chain[line])
<1> DEFINE m == GoOn(n, line, writes, todos)
           Now(c, a) == WriteAt(WriteChain(n, line, c), line, a)
           ids == SkipDone(writes[1].ids, todos)
           skipped == [writes EXCEPT ![1].ids = ids]
<1>1. PICK C, A, R : n \in [chain : [Lines -> C], at : [Lines -> A], reads : R]
  BY DEF Lined, NetShape, FrameShape
<1>2. ASSUME NEW c, NEW a
      PROVE  [n EXCEPT !.chain[line] = c, !.at[line] = a] = Now(c, a)
  BY <1>1 DEF WriteAt, WriteChain
<1>3. ASSUME NEW c, NEW a, line # "message" PROVE NetShape(Now(c, a))
  <2> DEFINE d == WriteChain(n, line, c)
  <2>1. NetShape(d)
    BY <1>3, OtherLine DEF Lined, Follows
  <2> HIDE DEF d
  <2>2. NetShape(WriteAt(d, line, a))
    BY <1>3, <2>1, OtherLine DEF Follows
  <2> QED
    BY <2>2 DEF d
<1>4. ASSUME NEW a, a = "idle" <=> writes = <<>>, m = Now(writes, a)
      PROVE  Lined(m) /\ Only(n, m, line) /\ m.chain[line] = writes
  <2>1. NetShape(m)
    <3>1. CASE line = "message"
      BY <3>1, GoOnMessage DEF Lined
    <3>2. CASE line # "message"
      <4> HIDE DEF m, Now
      <4> QED
        BY <1>3, <1>4, <3>2
    <3> QED
      BY <3>1, <3>2
  <2> HIDE DEF m
  <2>2. NetShape(WriteAt(WriteChain(n, line, writes), line, a))
    BY <1>4, <2>1
  <2> QED
    BY <1>4, <2>2, LineWritten
<1>5. CASE writes = <<>>
  <2>1. m = Now(writes, "idle")
    <3> HIDE DEF Now
    <3> QED
      BY <1>2, <1>5 DEF GoOn
  <2> HIDE DEF m
  <2> QED
    BY <1>4, <1>5, <2>1 DEF m, Skipped
<1>6. CASE writes # <<>> /\ line # "todo"
  <2>1. m = Now(writes, "asked")
    <3> HIDE DEF Now
    <3> QED
      BY <1>2, <1>6 DEF GoOn
  <2> HIDE DEF m
  <2> QED
    BY <1>4, <1>6, <2>1 DEF m, Skipped
<1>7. CASE writes # <<>> /\ line = "todo"
  <2>0. line # "message" /\ line # "load" /\ line \in Readers
    BY <1>7 DEF Readers
  <2>1. PICK x : skipped = [writes EXCEPT ![1] = x]
    OBVIOUS
  <2>2. skipped \in Seq(G \cup {x}) /\ skipped # <<>>
    <3>1. writes \in Seq(G \cup {x}) /\ x \in G \cup {x} /\ 1 \in 1..Len(writes)
      BY <1>7, SMT
    <3> HIDE DEF skipped
    <3> QED
      BY <2>1, <3>1
  <2>3. \/ m = Now(skipped, "asked")
        \/ m = Reading(Now(skipped, "reading"), line)
    <3> HIDE DEF Now
    <3> QED
      BY <1>2, <1>7 DEF GoOn
  <2>4. \E i : skipped = [writes EXCEPT ![1].ids = i]
    OBVIOUS
  <2> HIDE DEF m, skipped
  <2>5. ASSUME NEW a, a # "idle"
        PROVE  /\ Lined(Now(skipped, a)) /\ Only(n, Now(skipped, a), line)
               /\ NoRead(Now(skipped, a), line) /\ Now(skipped, a).chain[line] = skipped
    <3>1. NetShape(WriteAt(WriteChain(n, line, skipped), line, a))
      BY <1>3, <2>0
    <3> QED
      BY <2>2, <2>5, <3>1, LineWritten
  <2>6. CASE m = Now(skipped, "asked")
    <3> HIDE DEF Now
    <3> QED
      BY <1>7, <2>4, <2>5, <2>6 DEF m, Skipped
  <2>7. CASE m = Reading(Now(skipped, "reading"), line)
    <3> DEFINE r == Now(skipped, "reading")
    <3>1. Lined(r) /\ Only(n, r, line) /\ NoRead(r, line) /\ r.chain[line] = skipped
      BY <2>5
    <3> HIDE DEF r
    <3>2. m = Reading(r, line)
      BY <2>7 DEF r
    <3>3. Lined(m) /\ m.chain = r.chain /\ Only(r, m, line)
      BY <2>0, <2>2, <3>1, <3>2, ReadingLined
    <3>4. Only(n, m, line)
      BY <3>1, <3>3 DEF Only
    <3> QED
      BY <1>7, <2>4, <3>1, <3>3, <3>4 DEF m, Skipped
  <2> QED
    BY <2>3, <2>6, <2>7
<1> QED
  BY <1>5, <1>6, <1>7

\* The same write, a batch of to-dos perhaps with fewer to ask for.
AskedFor(line, w, v) == v = w \/ (line = "todo" /\ \E ids : v = [w EXCEPT !.ids = ids])

\* One more write on a line.
LEMMA QueueLined ==
    ASSUME NEW n, Lined(n), NEW line \in Lines, NEW w,
           line = "message" => BatchShape(w)
    PROVE  LET m == Queue(n, line, w)
           IN /\ Lined(m) /\ Only(n, m, line)
              /\ \E v : m.chain[line] = Append(n.chain[line], v) /\ AskedFor(line, w, v)
<1> DEFINE c == n.chain[line]
           m == Queue(n, line, w)
<1>1. PICK G : c \in Seq(G)
  BY DEF Lined, LinesShape
<1>2. CASE c = <<>>
  <2>1. m = GoOn(n, line, <<w>>, page.todos)
    BY <1>2 DEF Queue
  <2>2. NoRead(n, line)
    <3>1. n.at[line] = "idle" /\ line # "load"
      BY <1>2, PanelAssumption DEF Lined, LinesShape, Lines, Ids, Stores
    <3> QED
      BY <3>1, NotReading
  <2> DEFINE s == <<w>>
  <2>3. s \in Seq({w}) /\ (line = "message" => \A k \in DOMAIN s : BatchShape(s[k]))
    OBVIOUS
  <2>4. m = GoOn(n, line, s, page.todos)
    BY <2>1
  <2>5. \A ids : [s EXCEPT ![1].ids = ids] = <<[w EXCEPT !.ids = ids]>>
    OBVIOUS
  <2>6. \A v : Append(c, v) = <<v>>
    BY <1>2
  <2> HIDE DEF m, s, c
  <2>7. Lined(m) /\ Only(n, m, line) /\ Skipped(line, s, m.chain[line])
    BY <2>2, <2>3, <2>4, GoOnLined
  <2>8. CASE m.chain[line] = s
    BY <2>6, <2>7, <2>8 DEF m, c, s, AskedFor
  <2>9. CASE line = "todo" /\ \E ids : m.chain[line] = [s EXCEPT ![1].ids = ids]
    <3>1. PICK ids : m.chain[line] = <<[w EXCEPT !.ids = ids]>>
      BY <2>5, <2>9
    <3> DEFINE v == [w EXCEPT !.ids = ids]
    <3>2. m.chain[line] = Append(c, v) /\ \E i : v = [w EXCEPT !.ids = i]
      BY <2>6, <3>1
    <3> HIDE DEF v
    <3> QED
      BY <2>7, <2>9, <3>2 DEF m, c, AskedFor
  <2> QED
    BY <2>7, <2>8, <2>9 DEF Skipped
<1>3. CASE c # <<>>
  <2> DEFINE d == Append(c, w)
             a == n.at[line]
  <2>1. m = WriteChain(n, line, d)
    <3>1. PICK C, A, R : n \in [chain : [Lines -> C], at : [Lines -> A], reads : R]
      BY DEF Lined, NetShape, FrameShape
    <3> QED
      BY <1>3, <3>1 DEF Queue, WriteChain
  <2>2. NetShape(m)
    BY QueueFollows DEF Lined, Follows
  <2>3. d \in Seq(G \cup {w}) /\ d # <<>>
    <3> HIDE DEF c
    <3> QED
      BY <1>1, OneMore
  <2> HIDE DEF d, m
  <2>4. /\ m.reads = n.reads /\ m.at = n.at /\ m.chain[line] = d
        /\ \A l \in Lines \ {line} : m.chain[l] = n.chain[l]
    BY <2>1, ChainWritten DEF Lined, NetShape
  <2>5. LinesShape(m) /\ OneRead(m) /\ Only(n, m, line)
    BY <1>3, <2>3, <2>4 DEF Lined, LinesShape, OneRead, Only
  <2> QED
    BY <2>2, <2>4, <2>5 DEF Lined, m, d, AskedFor
<1> QED
  BY <1>2, <1>3

-----------------------------------------------------------------------------
(* Batches of deletions, and who waits for them.                           *)

\* Send s waits for every batch on c with x among its deletions, or for a
\* later one; x is in none.
Waited(c, s, x) ==
    \A k \in 1..Len(c) : x \in c[k].all => \E j \in k..Len(c) : s \in c[j].waits
Spared(c, x) == \A k \in 1..Len(c) : x \notin c[k].all

\* Whatever was waited for is, whatever was in no batch is in none.
AsGood(c, d) ==
    \A x : /\ \A s : Waited(c, s, x) => Waited(d, s, x)
           /\ Spared(c, x) => Spared(d, x)

Batches(c) == (\E G : c \in Seq(G)) /\ \A k \in 1..Len(c) : BatchShape(c[k])

\* Messages are let go one by one: what is hidden is what is still asked for.
Honest(c) ==
    \A k \in 1..Len(c) :
       (\E G : c[k].ids \in Seq(G)) /\ c[k].ids # <<>> /\ c[k].all = ToSet(c[k].ids)

\* Fewer deletions, and the same or more wait.
LEMMA FewerAsGood ==
    ASSUME NEW c, NEW d, Batches(c), Batches(d), Len(d) = Len(c),
           \A k \in 1..Len(c) : d[k].all \subseteq c[k].all /\ c[k].waits \subseteq d[k].waits
    PROVE  AsGood(c, d)
<1>1. Len(c) \in Nat
  BY DEF Batches
<1>2. ASSUME NEW s, NEW x, Waited(c, s, x) PROVE Waited(d, s, x)
  <2> SUFFICES ASSUME NEW k \in 1..Len(c), x \in d[k].all
               PROVE  \E j \in k..Len(c) : s \in d[j].waits
    BY DEF Waited
  <2>1. PICK j \in k..Len(c) : s \in c[j].waits
    BY <1>2 DEF Waited
  <2>2. j \in 1..Len(c)
    BY <1>1
  <2> QED
    BY <2>1, <2>2
<1>3. ASSUME NEW x, Spared(c, x) PROVE Spared(d, x)
  BY <1>3 DEF Spared
<1> QED
  BY <1>2, <1>3 DEF AsGood

\* The first batch is done.
LEMMA TailAsGood ==
    ASSUME NEW c, Batches(c), c # <<>>
    PROVE  /\ AsGood(c, Tail(c)) /\ Batches(Tail(c))
           /\ Honest(c) => Honest(Tail(c))
<1>1. PICK G : c \in Seq(G)
  BY DEF Batches
<1>2. /\ Tail(c) \in Seq(G) /\ Len(Tail(c)) = Len(c) - 1 /\ Len(c) \in Nat
      /\ \A k \in 1..Len(c) - 1 : k + 1 \in 1..Len(c) /\ Tail(c)[k] = c[k + 1]
  BY <1>1
<1> DEFINE d == Tail(c)
<1> HIDE DEF d
<1>3. ASSUME NEW s, NEW x, Waited(c, s, x) PROVE Waited(d, s, x)
  <2> SUFFICES ASSUME NEW k \in 1..Len(c) - 1, x \in d[k].all
               PROVE  \E j \in k..Len(c) - 1 : s \in d[j].waits
    BY <1>2 DEF Waited, d
  <2>1. k + 1 \in 1..Len(c) /\ x \in c[k + 1].all
    BY <1>2 DEF d
  <2>2. PICK j \in k + 1..Len(c) : s \in c[j].waits
    BY <1>3, <2>1 DEF Waited
  <2> DEFINE i == j - 1
  <2>3. i \in k..Len(c) - 1 /\ i \in 1..Len(c) - 1 /\ i + 1 = j
    BY <1>2, <2>2
  <2> HIDE DEF i
  <2>4. d[i] = c[j]
    BY <1>2, <2>3 DEF d
  <2> QED
    BY <2>2, <2>3, <2>4
<1>4. ASSUME NEW x, Spared(c, x) PROVE Spared(d, x)
  BY <1>2, <1>4 DEF Spared, d
<1>5. Batches(d)
  BY <1>2 DEF Batches, d
<1>6. Honest(c) => Honest(d)
  BY <1>2 DEF Honest, d
<1> QED
  BY <1>3, <1>4, <1>5, <1>6 DEF AsGood, d

\* One batch more: what it does not delete is as it was, and who waits for it
\* waits for all.
LEMMA AppendedGood ==
    ASSUME NEW c, Batches(c), NEW v, BatchShape(v)
    PROVE  LET d == Append(c, v)
           IN /\ Batches(d)
              /\ \A s, x : x \notin v.all /\ Waited(c, s, x) => Waited(d, s, x)
              /\ \A x : x \notin v.all /\ Spared(c, x) => Spared(d, x)
              /\ \A s, x : s \in v.waits => Waited(d, s, x)
<1> DEFINE d == Append(c, v)
<1>1. PICK G : c \in Seq(G)
  BY DEF Batches
<1>2. /\ d \in Seq(G \cup {v}) /\ Len(d) = Len(c) + 1 /\ Len(c) \in Nat
      /\ \A k \in 1..Len(c) : d[k] = c[k]
      /\ d[Len(c) + 1] = v
  BY <1>1, OneMore
<1> HIDE DEF d
<1>3. Batches(d)
  <2>1. \A k \in 1..Len(d) : k \in 1..Len(c) \/ k = Len(c) + 1
    BY <1>2
  <2> QED
    BY <1>2, <2>1 DEF Batches
<1>4. ASSUME NEW s, NEW x, x \notin v.all, Waited(c, s, x) PROVE Waited(d, s, x)
  <2> SUFFICES ASSUME NEW k \in 1..Len(d), x \in d[k].all
               PROVE  \E j \in k..Len(d) : s \in d[j].waits
    BY DEF Waited
  <2>1. k \in 1..Len(c) /\ x \in c[k].all
    BY <1>2, <1>4
  <2>2. PICK j \in k..Len(c) : s \in c[j].waits
    BY <1>4, <2>1 DEF Waited
  <2>3. j \in k..Len(d) /\ d[j] = c[j]
    BY <1>2, <2>1, <2>2
  <2> QED
    BY <2>2, <2>3
<1>5. ASSUME NEW x, x \notin v.all, Spared(c, x) PROVE Spared(d, x)
  <2> SUFFICES ASSUME NEW k \in 1..Len(d) PROVE x \notin d[k].all
    BY DEF Spared
  <2>1. CASE k \in 1..Len(c)
    BY <1>2, <1>5, <2>1 DEF Spared
  <2>2. CASE k = Len(c) + 1
    BY <1>2, <1>5, <2>2
  <2> QED
    BY <1>2, <2>1, <2>2
<1>6. ASSUME NEW s, NEW x, s \in v.waits PROVE Waited(d, s, x)
  <2>1. Len(d) \in 1..Len(d) /\ s \in d[Len(d)].waits
    BY <1>2, <1>6
  <2>2. \A k \in 1..Len(d) : Len(d) \in k..Len(d)
    BY <1>2
  <2> QED
    BY <2>1, <2>2 DEF Waited
<1> QED
  BY <1>3, <1>4, <1>5, <1>6 DEF d

\* One batch is another.
LEMMA OneBatch ==
    ASSUME NEW c, Batches(c), NEW k \in 1..Len(c), NEW b, BatchShape(b)
    PROVE  LET d == [c EXCEPT ![k] = b]
           IN /\ Batches(d) /\ Len(d) = Len(c) /\ d[k] = b /\ d # <<>>
              /\ \A j \in 1..Len(c) : j # k => d[j] = c[j]
<1>1. PICK G : c \in Seq(G)
  BY DEF Batches
<1>2. c \in Seq(G \cup {b}) /\ b \in G \cup {b}
  BY <1>1, SMT
<1> DEFINE d == [c EXCEPT ![k] = b]
<1>3. /\ d \in Seq(G \cup {b}) /\ Len(d) = Len(c) /\ d[k] = b /\ d # <<>> /\ Len(c) \in Nat
      /\ \A j \in 1..Len(c) : j # k => d[j] = c[j]
  BY <1>2
<1> HIDE DEF d
<1>4. Batches(d)
  BY <1>3 DEF Batches
<1> QED
  BY <1>3, <1>4 DEF d

\* A part of a batch is another.
BatchIds(b, x)   == [b EXCEPT !.ids = x]
BatchAll(b, x)   == [b EXCEPT !.all = x]
BatchWaits(b, x) == [b EXCEPT !.waits = x]

LEMMA BatchParts ==
    ASSUME NEW b, BatchShape(b), NEW x
    PROVE  /\ BatchShape(BatchIds(b, x)) /\ BatchIds(b, x).ids = x
           /\ BatchIds(b, x).all = b.all /\ BatchIds(b, x).waits = b.waits
           /\ BatchShape(BatchAll(b, x)) /\ BatchAll(b, x).all = x
           /\ BatchAll(b, x).ids = b.ids /\ BatchAll(b, x).waits = b.waits
           /\ BatchShape(BatchWaits(b, x)) /\ BatchWaits(b, x).waits = x
           /\ BatchWaits(b, x).ids = b.ids /\ BatchWaits(b, x).all = b.all
<1>1. BatchIds(b, x) = [ids |-> x, all |-> b.all, waits |-> b.waits]
  BY DEF BatchShape, BatchIds
<1>2. BatchAll(b, x) = [ids |-> b.ids, all |-> x, waits |-> b.waits]
  BY DEF BatchShape, BatchAll
<1>3. BatchWaits(b, x) = [ids |-> b.ids, all |-> b.all, waits |-> x]
  BY DEF BatchShape, BatchWaits
<1> QED
  BY <1>1, <1>2, <1>3 DEF BatchShape

\* The first batch asks for other deletions, and hides the same.
LEMMA FirstIdsGood ==
    ASSUME NEW c, Batches(c), c # <<>>, NEW ids
    PROVE  LET d == [c EXCEPT ![1].ids = ids] IN AsGood(c, d) /\ Batches(d) /\ d # <<>>
<1> DEFINE b == BatchIds(c[1], ids)
           d == [c EXCEPT ![1] = b]
<1>1. 1 \in 1..Len(c) /\ BatchShape(c[1])
  BY DEF Batches
<1>2. BatchShape(b) /\ b.all = c[1].all /\ b.waits = c[1].waits
  BY <1>1, BatchParts
<1> HIDE DEF b
<1>3. /\ Batches(d) /\ Len(d) = Len(c) /\ d[1] = b /\ d # <<>>
      /\ \A j \in 1..Len(c) : j # 1 => d[j] = c[j]
  BY <1>1, <1>2, OneBatch
<1>4. d = [c EXCEPT ![1].ids = ids]
  BY DEF b, BatchIds
<1> HIDE DEF d
<1>5. \A k \in 1..Len(c) : d[k].all \subseteq c[k].all /\ c[k].waits \subseteq d[k].waits
  BY <1>2, <1>3
<1>6. AsGood(c, d)
  BY <1>3, <1>5, FewerAsGood
<1> QED
  BY <1>3, <1>4, <1>6

\* One more waits for the last batch, and so for all.
LEMMA LastWaits ==
    ASSUME NEW c, Batches(c), c # <<>>, NEW waiter
    PROVE  LET d == [c EXCEPT ![Len(c)].waits = @ \cup waiter]
           IN /\ AsGood(c, d) /\ Batches(d) /\ d # <<>>
              /\ \A s \in waiter : \A x : Waited(d, s, x)
              /\ Honest(c) => Honest(d)
<1> DEFINE last == c[Len(c)]
           b == BatchWaits(last, last.waits \cup waiter)
           d == [c EXCEPT ![Len(c)] = b]
<1>1. Len(c) \in 1..Len(c) /\ Len(c) \in Nat /\ BatchShape(last)
  BY DEF Batches
<1>2. BatchShape(b) /\ b.ids = last.ids /\ b.all = last.all /\ b.waits = last.waits \cup waiter
  <2> HIDE DEF last
  <2> QED
    BY <1>1, BatchParts
<1> HIDE DEF b
<1>3. /\ Batches(d) /\ Len(d) = Len(c) /\ d[Len(c)] = b /\ d # <<>>
      /\ \A j \in 1..Len(c) : j # Len(c) => d[j] = c[j]
  BY <1>1, <1>2, OneBatch
<1>4. d = [c EXCEPT ![Len(c)].waits = @ \cup waiter]
  BY <1>1 DEF b, BatchWaits
<1> HIDE DEF d
<1>5. \A k \in 1..Len(c) : d[k].all \subseteq c[k].all /\ c[k].waits \subseteq d[k].waits
  BY <1>2, <1>3
<1>6. AsGood(c, d)
  BY <1>3, <1>5, FewerAsGood
<1>7. ASSUME NEW s \in waiter, NEW x PROVE Waited(d, s, x)
  <2>1. s \in d[Len(d)].waits
    BY <1>2, <1>3
  <2>2. \A k \in 1..Len(d) : Len(d) \in k..Len(d)
    BY <1>1, <1>3
  <2> QED
    BY <2>1, <2>2 DEF Waited
<1>8. Honest(c) => Honest(d)
  <2> SUFFICES ASSUME Honest(c), NEW k \in 1..Len(d)
               PROVE  d[k].ids = c[k].ids /\ d[k].all = c[k].all /\ k \in 1..Len(c)
    BY DEF Honest
  <2> QED
    BY <1>2, <1>3
<1> QED
  BY <1>3, <1>4, <1>6, <1>7, <1>8

\* The first message of a batch is let go.
LEMMA MessageLetGo ==
    ASSUME NEW c, Batches(c), Honest(c), c # <<>>, NEW ids, ids = Tail(c[1].ids), ids # <<>>
    PROVE  LET d == [c EXCEPT ![1] = [@ EXCEPT !.ids = ids, !.all = ToSet(ids)]]
           IN AsGood(c, d) /\ Batches(d) /\ Honest(d) /\ d # <<>>
<1> DEFINE a == ToSet(ids)
           x == c[1]
           y == BatchIds(x, ids)
           b == BatchAll(y, a)
           d == [c EXCEPT ![1] = b]
<1>1. 1 \in 1..Len(c) /\ BatchShape(x) /\ x.all = ToSet(x.ids)
  BY DEF Batches, Honest
<1>2. PICK G : x.ids \in Seq(G)
  BY <1>1 DEF Honest
<1>3. ids \in Seq(G) /\ a \subseteq x.all
  <2> DEFINE s == x.ids
  <2>1. s \in Seq(G) /\ s # <<>> /\ ids = Tail(s) /\ x.all = ToSet(s)
    BY <1>1, <1>2 DEF Honest
  <2> HIDE DEF s, x
  <2>2. /\ Tail(s) \in Seq(G) /\ DOMAIN Tail(s) = 1..Len(s) - 1 /\ DOMAIN s = 1..Len(s)
        /\ \A k \in 1..Len(s) - 1 : k + 1 \in 1..Len(s) /\ Tail(s)[k] = s[k + 1]
    BY <2>1
  <2> QED
    BY <2>1, <2>2 DEF ToSet
<1> HIDE DEF a
<1>4. BatchShape(b) /\ b.ids = ids /\ b.all = a /\ b.waits = x.waits
  <2>1. BatchShape(y) /\ y.ids = ids /\ y.waits = x.waits
    <3> HIDE DEF x
    <3> QED
      BY <1>1, BatchParts
  <2> HIDE DEF y
  <2> QED
    BY <2>1, BatchParts
<1>5. [c[1] EXCEPT !.ids = ids, !.all = a] = b
  BY DEF BatchIds, BatchAll
<1> HIDE DEF b
<1>6. /\ Batches(d) /\ Len(d) = Len(c) /\ d[1] = b /\ d # <<>>
      /\ \A j \in 1..Len(c) : j # 1 => d[j] = c[j]
  BY <1>1, <1>4, OneBatch
<1>7. d = [c EXCEPT ![1] = [@ EXCEPT !.ids = ids, !.all = ToSet(ids)]]
  BY <1>1, <1>5 DEF a
<1> HIDE DEF d
<1>8. \A k \in 1..Len(c) : d[k].all \subseteq c[k].all /\ c[k].waits \subseteq d[k].waits
  BY <1>3, <1>4, <1>6
<1>9. AsGood(c, d)
  BY <1>6, <1>8, FewerAsGood
<1>10. Honest(d)
  <2> SUFFICES ASSUME NEW k \in 1..Len(d)
               PROVE  /\ \E H : d[k].ids \in Seq(H)
                      /\ d[k].ids # <<>> /\ d[k].all = ToSet(d[k].ids)
    BY DEF Honest
  <2>1. CASE k = 1
    BY <1>3, <1>4, <1>6, <2>1 DEF a
  <2>2. CASE k # 1
    BY <1>6, <2>2 DEF Honest
  <2> QED
    BY <2>1, <2>2
<1> QED
  BY <1>6, <1>7, <1>9, <1>10

-----------------------------------------------------------------------------
(* What is on its way keeps who waits for what.                            *)

Batched(n) ==
    /\ \A store \in Stores : Batches(n.chain[store])
    /\ Honest(n.chain["message"])

\* A step of what is on its way.
Good(n, m) ==
    /\ Lined(m) /\ Batched(m)
    /\ \A store \in Stores : AsGood(n.chain[store], m.chain[store])

LEMMA GoodOnward ==
    ASSUME NEW n, NEW m, NEW o, Good(n, m), Good(m, o)
    PROVE  Good(n, o)
BY DEF Good, AsGood

\* Nothing of the batches changed.
LEMMA SameBatches ==
    ASSUME NEW n, NEW m, Batched(n), Lined(m),
           \A store \in Stores : m.chain[store] = n.chain[store]
    PROVE  Good(n, m)
<1>1. "message" \in Stores
  BY DEF Stores
<1> QED
  BY <1>1 DEF Good, Batched, AsGood

\* A step on one line is as good as it is on that line.
LEMMA OnlyGood ==
    ASSUME NEW n, NEW m, NEW line, Batched(n), Lined(m), Only(n, m, line),
           line \in Stores => AsGood(n.chain[line], m.chain[line]) /\ Batches(m.chain[line]),
           line = "message" => Honest(m.chain[line])
    PROVE  Good(n, m)
<1>1. Stores \subseteq Lines /\ "message" \in Stores
  BY DEF Lines, Stores
<1>2. \A store \in Stores : store = line \/ m.chain[store] = n.chain[store]
  BY <1>1 DEF Only
<1>3. Batched(m)
  BY <1>1, <1>2 DEF Batched
<1>4. \A store \in Stores : AsGood(n.chain[store], m.chain[store])
  BY <1>2 DEF AsGood
<1> QED
  BY <1>3, <1>4 DEF Good

\* A read asked for.
LEMMA ReadingGood ==
    ASSUME NEW n, Lined(n), Batched(n), NEW line \in Readers,
           line # "load" => NoRead(n, line) /\ n.chain[line] # <<>>
    PROVE  Good(n, Reading(n, line))
<1> DEFINE m == Reading(n, line)
<1>1. Lined(m) /\ m.chain = n.chain
  BY ReadingLined
<1> HIDE DEF m
<1>2. Good(n, m)
  BY <1>1, SameBatches
<1> QED
  BY <1>2 DEF m

\* The first write of a line is done, the next has its turn.
LEMMA GoOnGood ==
    ASSUME NEW n, Lined(n), Batched(n), NEW line \in Lines, NoRead(n, line),
           n.chain[line] # <<>>, NEW todos
    PROVE  LET m == GoOn(n, line, Tail(n.chain[line]), todos)
           IN Good(n, m) /\ Only(n, m, line) /\ Skipped(line, Tail(n.chain[line]), m.chain[line])
<1> DEFINE c == n.chain[line]
           writes == Tail(c)
           m == GoOn(n, line, writes, todos)
<1>1. PICK G : c \in Seq(G)
  BY DEF Lined, LinesShape
<1>2. writes \in Seq(G)
  BY <1>1
<1>3. line \in Stores => /\ Batches(writes) /\ AsGood(c, writes)
                         /\ line = "message" => Honest(writes)
  <2> HIDE DEF c
  <2> QED
    BY TailAsGood DEF Batched, c
<1>4. line = "message" => \A k \in DOMAIN writes : BatchShape(writes[k])
  <2>1. DOMAIN writes = 1..Len(writes)
    BY <1>2
  <2> QED
    BY <1>3, <2>1 DEF Batches, Stores
<1> HIDE DEF writes
<1>5. Lined(m) /\ Only(n, m, line) /\ Skipped(line, writes, m.chain[line])
  BY <1>2, <1>4, GoOnLined
<1> HIDE DEF m
<1>6. line \in Stores => AsGood(writes, m.chain[line]) /\ Batches(m.chain[line])
  <2>1. CASE m.chain[line] = writes
    BY <1>3, <2>1 DEF AsGood
  <2>2. CASE line = "todo" /\ writes # <<>> /\ \E ids : m.chain[line] = [writes EXCEPT ![1].ids = ids]
    <3>1. Batches(writes)
      BY <1>3, <2>2 DEF Stores
    <3>2. PICK ids : m.chain[line] = [writes EXCEPT ![1].ids = ids]
      BY <2>2
    <3> DEFINE d == [writes EXCEPT ![1].ids = ids]
    <3>3. AsGood(writes, d) /\ Batches(d)
      BY <2>2, <3>1, FirstIdsGood
    <3> QED
      BY <3>2, <3>3
  <2> QED
    BY <1>5, <2>1, <2>2 DEF Skipped
<1>7. line \in Stores => AsGood(c, m.chain[line])
  BY <1>3, <1>6 DEF AsGood
<1>8. line = "message" => Honest(m.chain[line])
  BY <1>3, <1>5 DEF Skipped, Stores
<1>9. Good(n, m)
  BY <1>5, <1>6, <1>7, <1>8, OnlyGood DEF c
<1> QED
  BY <1>5, <1>9 DEF m, writes, c

\* One more write of a line that has no batches.
LEMMA QueueGood ==
    ASSUME NEW n, Lined(n), Batched(n), NEW line \in Lines \ Stores, NEW w
    PROVE  LET m == Queue(n, line, w)
           IN Good(n, m) /\ Only(n, m, line) /\ m.chain[line] = Append(n.chain[line], w)
<1> DEFINE m == Queue(n, line, w)
<1>1. line # "message" /\ line # "todo"
  BY DEF Stores
<1>2. Lined(m) /\ Only(n, m, line) /\ m.chain[line] = Append(n.chain[line], w)
  <2>1. /\ Lined(m) /\ Only(n, m, line)
        /\ \E v : m.chain[line] = Append(n.chain[line], v) /\ AskedFor(line, w, v)
    BY <1>1, QueueLined
  <2> QED
    BY <1>1, <2>1 DEF AskedFor
<1> HIDE DEF m
<1>3. Good(n, m)
  BY <1>1, <1>2, OnlyGood
<1> QED
  BY <1>2, <1>3 DEF m

\* Where a line is that does not read, and that has writes.
LEMMA AtGood ==
    ASSUME NEW n, Lined(n), Batched(n), NEW line \in Lines, NoRead(n, line),
           n.chain[line] # <<>>, NEW v, v # "idle"
    PROVE  LET m == WriteAt(n, line, v)
           IN /\ Good(n, m) /\ m.chain = n.chain /\ m.reads = n.reads /\ m.at[line] = v
              /\ Only(n, m, line)
<1> DEFINE m == WriteAt(n, line, v)
<1>1. FrameShape(n) /\ ReadsShape(n.reads) /\ n.at[line] # "idle"
  BY DEF Lined, NetShape, LinesShape
<1>2. NetShape(m)
  <2>1. CASE line = "message"
    BY <1>1, <2>1, MessageAt DEF Lined
  <2>2. CASE line # "message"
    BY <2>2, OtherLine DEF Lined, Follows
  <2> QED
    BY <2>1, <2>2
<1>3. /\ m.reads = n.reads /\ m.chain = n.chain /\ m.at[line] = v
      /\ \A l \in Lines \ {line} : m.at[l] = n.at[l]
  BY <1>1, AtWritten
<1> HIDE DEF m
<1>4. LinesShape(m)
  BY <1>1, <1>3 DEF LinesShape, Lined
<1>5. OneRead(m)
  <2>1. \A k \in DOMAIN n.reads : n.reads[k].by # "load" =>
           n.reads[k].by \in Lines \ {line}
    BY <1>1 DEF ReadsShape, ReadShape, Readers, NoRead
  <2> QED
    BY <1>3, <2>1 DEF OneRead, Lined
<1>6. Good(n, m)
  BY <1>2, <1>3, <1>4, <1>5, SameBatches DEF Lined
<1> QED
  BY <1>3, <1>6 DEF m, Only

\* What was staged goes behind the batches on their way: what is not staged is
\* waited for as before, and who waits waits for all of them.
LEMMA CommitGood ==
    ASSUME NEW n, Lined(n), Batched(n), NEW store \in Stores, NEW waiter,
           NEW G, staged[store] \in Seq(G)
    PROVE  LET m == Commit(n, store, waiter)
               c == n.chain[store]
               d == m.chain[store]
           IN /\ Lined(m) /\ Batched(m) /\ Only(n, m, store)
              /\ \A s, x : ~Contains(staged[store], x) /\ Waited(c, s, x) => Waited(d, s, x)
              /\ \A x : ~Contains(staged[store], x) /\ Spared(c, x) => Spared(d, x)
              /\ \A s \in waiter : \A x : Waited(d, s, x)
<1> DEFINE m == Commit(n, store, waiter)
           c == n.chain[store]
           d == m.chain[store]
           out == staged[store]
           batch == [ids |-> out, all |-> ToSet(out), waits |-> waiter]
<1>1. /\ store \in Lines /\ Stores \subseteq Lines /\ "message" \in Stores
      /\ Batches(c) /\ (store = "message" => Honest(c))
      /\ FrameShape(n)
  BY DEF Lines, Stores, Batched, Lined, NetShape
<1>2. \A x : Contains(out, x) <=> x \in ToSet(out)
  <2>1. DOMAIN out = 1..Len(out)
    OBVIOUS
  <2> HIDE DEF out
  <2> QED
    BY <2>1 DEF Contains, ToSet
<1>3. ASSUME Lined(m), Only(n, m, store), Batches(d), store = "message" => Honest(d)
      PROVE  Batched(m)
  <2> HIDE DEF m
  <2>1. \A l \in Stores : l = store \/ m.chain[l] = n.chain[l]
    BY <1>1, <1>3 DEF Only
  <2> QED
    BY <1>1, <1>3, <2>1 DEF Batched
<1>4. CASE out # <<>>
  <2>1. BatchShape(batch) /\ batch.all = ToSet(out) /\ batch.waits = waiter /\ batch.ids = out
    BY DEF BatchShape
  <2>2. m = Queue(n, store, batch)
    BY <1>4 DEF Commit
  <2> HIDE DEF batch, m, c, out
  <2>3. PICK v : Lined(m) /\ Only(n, m, store) /\ d = Append(c, v) /\ AskedFor(store, batch, v)
    BY <1>1, <2>1, <2>2, QueueLined DEF c
  <2>4. BatchShape(v) /\ v.all = ToSet(out) /\ v.waits = waiter /\ (store = "message" => v = batch)
    <3>1. CASE v = batch
      BY <2>1, <3>1
    <3>2. CASE store = "todo" /\ \E ids : v = [batch EXCEPT !.ids = ids]
      <4>1. PICK ids : v = BatchIds(batch, ids)
        BY <3>2 DEF BatchIds
      <4> QED
        BY <2>1, <3>2, <4>1, BatchParts
    <3> QED
      BY <2>3, <3>1, <3>2 DEF AskedFor
  <2> HIDE DEF d
  <2>5. /\ Batches(d)
        /\ \A s, x : x \notin v.all /\ Waited(c, s, x) => Waited(d, s, x)
        /\ \A x : x \notin v.all /\ Spared(c, x) => Spared(d, x)
        /\ \A s, x : s \in v.waits => Waited(d, s, x)
    BY <1>1, <2>3, <2>4, AppendedGood
  <2>6. store = "message" => Honest(d)
    <3> SUFFICES ASSUME store = "message" PROVE Honest(d)
      OBVIOUS
    <3>1. PICK H : c \in Seq(H)
      BY <1>1 DEF Batches
    <3>2. /\ Len(d) = Len(c) + 1 /\ Len(c) \in Nat
          /\ \A k \in 1..Len(c) : d[k] = c[k]
          /\ d[Len(c) + 1] = batch
      BY <2>3, <2>4, <3>1, OneMore
    <3>3. ASSUME NEW k \in 1..Len(d)
          PROVE  /\ \E E : d[k].ids \in Seq(E)
                 /\ d[k].ids # <<>> /\ d[k].all = ToSet(d[k].ids)
      <4>1. CASE k \in 1..Len(c)
        BY <1>1, <3>2, <4>1 DEF Honest
      <4>2. CASE k = Len(c) + 1
        BY <1>4, <2>1, <3>2, <4>2 DEF out
      <4> QED
        BY <3>2, <4>1, <4>2
    <3> QED
      BY <3>3 DEF Honest
  <2>7. Batched(m)
    BY <1>3, <2>3, <2>5, <2>6 DEF d
  <2> QED
    BY <1>2, <2>3, <2>4, <2>5, <2>7 DEF m, c, d, out
<1>5. CASE out = <<>> /\ c # <<>>
  <2> DEFINE t == [c EXCEPT ![Len(c)].waits = @ \cup waiter]
  <2>1. m = WriteChain(n, store, t)
    <3>1. PICK C, A, R : n \in [chain : [Lines -> C], at : [Lines -> A], reads : R]
      BY <1>1 DEF FrameShape
    <3> QED
      BY <1>1, <1>5, <3>1 DEF Commit, WriteChain
  <2>2. NetShape(m)
    BY CommitFollows DEF Lined, Follows
  <2>3. /\ AsGood(c, t) /\ Batches(t) /\ t # <<>>
        /\ \A s \in waiter : \A x : Waited(t, s, x)
        /\ Honest(c) => Honest(t)
    <3> HIDE DEF c
    <3> QED
      BY <1>1, <1>5, LastWaits
  <2> HIDE DEF t, m
  <2>4. /\ m.reads = n.reads /\ m.at = n.at /\ m.chain[store] = t
        /\ \A l \in Lines \ {store} : m.chain[l] = n.chain[l]
    BY <1>1, <2>1, ChainWritten
  <2>5. LinesShape(m) /\ OneRead(m) /\ Only(n, m, store)
    BY <1>5, <2>3, <2>4 DEF Lined, LinesShape, OneRead, Only, Batches
  <2>6. Lined(m) /\ Batched(m)
    BY <1>1, <1>3, <2>2, <2>3, <2>4, <2>5 DEF Lined
  <2>7. d = t
    BY <2>4
  <2> HIDE DEF c, d
  <2> QED
    BY <2>3, <2>5, <2>6, <2>7 DEF AsGood, m, c, d
<1>6. CASE out = <<>> /\ c = <<>>
  <2>1. m = n
    BY <1>6 DEF Commit
  <2>2. Len(c) = 0
    BY <1>6
  <2> QED
    BY <1>6, <2>1, <2>2 DEF Only, Waited
<1> QED
  BY <1>4, <1>5, <1>6

\* A read has come back or failed: who asked for it has none on its way.
LEMMA ReadGone ==
    ASSUME NEW n, Lined(n), Batched(n), NEW k \in DOMAIN n.reads, NEW after, ReadsShape(after),
           Len(after) = Len(n.reads) - 1,
           \A j \in 1..Len(after) : after[j].by = n.reads[IF j < k THEN j ELSE j + 1].by
    PROVE  LET m == WriteReads(n, after)
               line == n.reads[k].by
           IN /\ Good(n, m) /\ m.chain = n.chain /\ m.at = n.at
              /\ line # "load" => /\ NoRead(m, line) /\ n.at[line] = "reading"
                                  /\ line \in Lines /\ n.chain[line] # <<>>
<1> DEFINE m == WriteReads(n, after)
           line == n.reads[k].by
           At(j) == IF j < k THEN j ELSE j + 1
<1>1. /\ FrameShape(n) /\ ReadsShape(n.reads) /\ MessageShape(n)
      /\ DOMAIN n.reads = 1..Len(n.reads) /\ Len(n.reads) \in Nat /\ k \in 1..Len(n.reads)
      /\ DOMAIN after = 1..Len(n.reads) - 1
  BY DEF Lined, NetShape, ReadsShape
<1>2. m.reads = after /\ m.chain = n.chain /\ m.at = n.at /\ FrameShape(m)
  BY <1>1, ReadsWritten
<1> HIDE DEF m
<1>3. NetShape(m) /\ LinesShape(m)
  BY <1>1, <1>2 DEF NetShape, MessageShape, LinesShape, Lined
<1>4. \A j \in 1..Len(n.reads) - 1 : /\ At(j) \in 1..Len(n.reads) /\ At(j) # k
                                     /\ after[j].by = n.reads[At(j)].by
  BY <1>1
<1>5. \A i, j \in 1..Len(n.reads) - 1 : i # j => At(i) # At(j)
  BY <1>1
<1> HIDE DEF At
<1>6. OneRead(m)
  <2>1. DOMAIN m.reads = 1..Len(n.reads) - 1 /\ OneRead(n)
    BY <1>1, <1>2 DEF Lined
  <2>2. ASSUME NEW j \in 1..Len(n.reads) - 1, m.reads[j].by # "load"
        PROVE  m.at[m.reads[j].by] = "reading"
    <3>1. At(j) \in DOMAIN n.reads /\ m.reads[j].by = n.reads[At(j)].by
      BY <1>1, <1>2, <1>4, <2>2
    <3> QED
      BY <3>1, <2>1, <2>2, <1>2 DEF OneRead
  <2>3. ASSUME NEW i \in 1..Len(n.reads) - 1, NEW j \in 1..Len(n.reads) - 1,
               i # j, m.reads[i].by = m.reads[j].by
        PROVE  m.reads[i].by = "load"
    <3>1. /\ At(i) \in DOMAIN n.reads /\ m.reads[i].by = n.reads[At(i)].by
          /\ At(j) \in DOMAIN n.reads /\ m.reads[j].by = n.reads[At(j)].by
          /\ At(i) # At(j)
      BY <1>1, <1>2, <1>4, <1>5, <2>3
    <3> QED
      BY <3>1, <2>1, <2>3 DEF OneRead
  <2> QED
    BY <2>1, <2>2, <2>3 DEF OneRead
<1>7. Good(n, m)
  BY <1>2, <1>3, <1>6, SameBatches DEF Lined
<1>8. ASSUME line # "load"
      PROVE  NoRead(m, line) /\ n.at[line] = "reading" /\ line \in Lines /\ n.chain[line] # <<>>
  <2>1. NoRead(m, line)
    BY <1>1, <1>2, <1>4, <1>8 DEF NoRead, OneRead, Lined
  <2>2. n.at[line] = "reading" /\ line \in Lines
    BY <1>1, <1>8 DEF OneRead, Lined, ReadsShape, ReadShape, Readers
  <2> QED
    BY <2>1, <2>2 DEF Lined, LinesShape
<1> QED
  BY <1>2, <1>7, <1>8 DEF m

-----------------------------------------------------------------------------
(* What a send waits for.                                                  *)

\* A send's deletion x, where the send is at a: it is undoable no more, and
\* every batch it is in is waited for or has been answered.
Kept(a, s, x, st, n) ==
    /\ a = "messages" => ~Contains(st["message"], x) /\ Waited(n.chain["message"], s, x)
    /\ a = "todos" => /\ \A store \in Stores : ~Contains(st[store], x)
                      /\ Spared(n.chain["message"], x)
                      /\ Waited(n.chain["todo"], s, x)
                      /\ Waited(n.chain["item"], s, x)

AllKept(se, st, n) == \A s \in Sends : \A x \in se[s].owes : Kept(se[s].at, s, x, st, n)

\* What is staged, and the sends.
StagedShape(st) == \E G : st \in [Stores -> Seq(G)]
SendsShape(se) == \E A, O : se \in [Sends -> [at : A, owes : O]]

KInv ==
    /\ IInv /\ Lined(net) /\ Batched(net)
    /\ StagedShape(staged) /\ SendsShape(sends)
    /\ AllKept(sends, staged, net)

\* One list emptied, the others as they were.
Emptied(st, tt) == \A store \in Stores : tt[store] = st[store] \/ tt[store] = <<>>

LEMMA EmptyHasNone ==
    \A x : ~Contains(<<>>, x)
BY DEF Contains

\* As good a net, and perhaps less staged.
LEMMA KeptStays ==
    ASSUME NEW st, NEW tt, Emptied(st, tt), NEW n, NEW m, Good(n, m),
           NEW a, NEW s, NEW x, Kept(a, s, x, st, n)
    PROVE  Kept(a, s, x, tt, m)
<1>1. {"message", "todo", "item"} \subseteq Stores
  BY DEF Stores
<1>2. \A store \in Stores : ~Contains(st[store], x) => ~Contains(tt[store], x)
  BY EmptyHasNone DEF Emptied
<1>3. /\ Waited(n.chain["message"], s, x) => Waited(m.chain["message"], s, x)
      /\ Waited(n.chain["todo"], s, x) => Waited(m.chain["todo"], s, x)
      /\ Waited(n.chain["item"], s, x) => Waited(m.chain["item"], s, x)
      /\ Spared(n.chain["message"], x) => Spared(m.chain["message"], x)
  BY <1>1 DEF Good, AsGood
<1> QED
  BY <1>1, <1>2, <1>3 DEF Kept

LEMMA AllKeptStays ==
    ASSUME NEW se, NEW st, NEW tt, Emptied(st, tt), NEW n, NEW m, Good(n, m),
           AllKept(se, st, n)
    PROVE  AllKept(se, tt, m)
BY KeptStays DEF AllKept

\* A step that stages nothing and submits nothing.
LEMMA GoodStep ==
    ASSUME KInv, IInv', Good(net, net'), staged' = staged, sends' = sends
    PROVE  KInv'
<1>1. Emptied(staged, staged)
  BY DEF Emptied
<1>2. AllKept(sends, staged, net')
  BY <1>1, AllKeptStays DEF KInv
<1> QED
  BY <1>2 DEF KInv, Good

LEMMA StaysGood ==
    ASSUME NEW n, Lined(n), Batched(n)
    PROVE  Good(n, n)
BY SameBatches

\* What is staged is committed: what is not staged is kept as it was.
LEMMA KeptCommitted ==
    ASSUME NEW n, Lined(n), Batched(n), NEW store \in Stores, NEW waiter,
           StagedShape(staged), NEW a, NEW s, NEW x, Kept(a, s, x, staged, n)
    PROVE  LET tt == [staged EXCEPT ![store] = <<>>]
           IN Kept(a, s, x, tt, Commit(n, store, waiter))
<1> DEFINE m == Commit(n, store, waiter)
           tt == [staged EXCEPT ![store] = <<>>]
<1> SUFFICES Kept(a, s, x, tt, m)
  OBVIOUS
<1>1. PICK G : staged \in [Stores -> Seq(G)]
  BY DEF StagedShape
<1>2. /\ Only(n, m, store)
      /\ ~Contains(staged[store], x) /\ Waited(n.chain[store], s, x)
           => Waited(m.chain[store], s, x)
      /\ ~Contains(staged[store], x) /\ Spared(n.chain[store], x) => Spared(m.chain[store], x)
  BY <1>1, CommitGood
<1>3. {"message", "todo", "item"} \subseteq Stores /\ Stores \subseteq Lines
  BY DEF Stores, Lines
<1>4. \A other \in Stores \ {store} : m.chain[other] = n.chain[other]
  BY <1>2, <1>3 DEF Only
<1>5. \A other \in Stores : tt[other] = IF other = store THEN <<>> ELSE staged[other]
  BY <1>1
<1>6. \A other \in Stores : ~Contains(staged[other], x) => ~Contains(tt[other], x)
  BY <1>5, EmptyHasNone
<1> HIDE DEF m, tt
<1>7. CASE a = "messages"
  BY <1>2, <1>3, <1>4, <1>6, <1>7 DEF Kept
<1>8. CASE a = "todos"
  BY <1>2, <1>3, <1>4, <1>6, <1>8 DEF Kept
<1> QED
  BY <1>7, <1>8 DEF Kept

\* A store emptied.
LEMMA StoreEmptied ==
    ASSUME StagedShape(staged), NEW store
    PROVE  LET tt == [staged EXCEPT ![store] = <<>>]
           IN StagedShape(tt) /\ Emptied(staged, tt)
<1>1. PICK G : staged \in [Stores -> Seq(G)]
  BY DEF StagedShape
<1>2. <<>> \in Seq(G)
  OBVIOUS
<1>3. [staged EXCEPT ![store] = <<>>] \in [Stores -> Seq(G)]
  BY <1>1, <1>2
<1> QED
  BY <1>1, <1>3 DEF StagedShape, Emptied

LEMMA InitKeeps ==
    ASSUME Init
    PROVE  KInv
<1>1. IInv
  BY InitHolds
<1>2. net.reads = <<>> /\ \A line \in Lines : net.chain[line] = <<>> /\ net.at[line] = "idle"
  BY DEF Init
<1>3. <<>> \in Seq({}) /\ DOMAIN <<>> = {} /\ Len(<<>>) = 0
  OBVIOUS
<1>4. LinesShape(net) /\ OneRead(net)
  BY <1>2, <1>3 DEF LinesShape, OneRead
<1>5. Batched(net)
  <2>1. Stores \subseteq Lines /\ "message" \in Stores
    BY DEF Stores, Lines
  <2>2. Batches(<<>>) /\ Honest(<<>>)
    <3>1. 1..Len(<<>>) = {}
      BY <1>3
    <3> QED
      BY <1>3, <3>1 DEF Batches, Honest
  <2>3. \A store \in Stores : net.chain[store] = <<>>
    BY <1>2, <2>1
  <2> QED
    BY <2>1, <2>2, <2>3, Zenon DEF Batched
<1>6. StagedShape(staged)
  <2>1. staged \in [Stores -> Seq({})]
    BY <1>3 DEF Init
  <2> QED
    BY <2>1 DEF StagedShape
<1>7. SendsShape(sends)
  <2>1. sends \in [Sends -> [at : {"new"}, owes : {{}}]]
    BY DEF Init
  <2> QED
    BY <2>1 DEF SendsShape
<1>8. AllKept(sends, staged, net)
  <2>1. \A s \in Sends : sends[s].owes = {}
    BY DEF Init
  <2> QED
    BY <2>1 DEF AllKept
<1> QED
  BY <1>1, <1>4, <1>5, <1>6, <1>7, <1>8 DEF KInv, Lined, IInv

\* The user's clicks: one more write of a line that has no batches, one more
\* staged and no longer promised, or what was staged taken back.
LEMMA StageKeeps ==
    ASSUME KInv, IInv', NEW store \in Stores, NEW x, Stage(store, x)
    PROVE  KInv'
<1> DEFINE list == staged[store]
           more == Append(list, x)
<1>1. PICK G : staged \in [Stores -> Seq(G)]
  BY DEF KInv, StagedShape
<1>2. PICK A, O : sends \in [Sends -> [at : A, owes : O]]
  BY DEF KInv, SendsShape
<1>3. list \in Seq(G)
  BY <1>1
<1> HIDE DEF list
<1>4. \A y : y # x /\ ~Contains(list, y) => ~Contains(more, y)
  <2>1. Len(more) = Len(list) + 1 /\ Len(list) \in Nat
    BY <1>3
  <2>2. more[Len(list) + 1] = x /\ \A k \in 1..Len(list) : more[k] = list[k]
    BY <1>3
  <2> HIDE DEF more
  <2> QED
    BY <2>1, <2>2 DEF Contains
<1>5. more \in Seq(G \cup {x}) /\ \A l : l \in Seq(G) => l \in Seq(G \cup {x})
  <2>1. \A l : l \in Seq(G) => l \in Seq(G \cup {x})
    BY SMT
  <2>2. more \in Seq(G \cup {x})
    BY <2>1, <1>3
  <2> QED
    BY <2>1, <2>2
<1> HIDE DEF more
<1>6. staged' = [staged EXCEPT ![store] = more]
  BY <1>1 DEF Stage, list, more
<1>7. /\ staged' \in [Stores -> Seq(G \cup {x})]
      /\ \A other \in Stores : staged'[other] = IF other = store THEN more ELSE staged[other]
  BY <1>1, <1>5, <1>6
<1>8. /\ sends' \in [Sends -> [at : A, owes : {o \ {x} : o \in O}]]
      /\ \A s \in Sends : sends'[s].at = sends[s].at /\ sends'[s].owes = sends[s].owes \ {x}
  <2>1. sends' = [s \in Sends |-> [sends[s] EXCEPT !.owes = sends[s].owes \ {x}]]
    BY <1>2 DEF Stage
  <2> QED
    BY <1>2, <2>1
<1>9. \A other \in Stores : \A y : y # x /\ ~Contains(staged[other], y) => ~Contains(staged'[other], y)
  BY <1>4, <1>7 DEF list
<1>10. AllKept(sends', staged', net)
  <2>1. SUFFICES ASSUME NEW s \in Sends, NEW y \in sends'[s].owes
                 PROVE  Kept(sends'[s].at, s, y, staged', net)
    BY DEF AllKept
  <2>2. y # x /\ Kept(sends[s].at, s, y, staged, net) /\ sends'[s].at = sends[s].at
    BY <1>8, <2>1 DEF KInv, AllKept
  <2> QED
    BY <1>9, <2>2 DEF Kept, Stores
<1>11. StagedShape(staged') /\ SendsShape(sends') /\ net' = net
  BY <1>7, <1>8 DEF StagedShape, SendsShape, Stage
<1> QED
  BY <1>10, <1>11 DEF KInv

LEMMA UserKeeps ==
    ASSUME KInv, IInv', User
    PROVE  KInv'
<1>0. Lined(net) /\ Batched(net)
  BY DEF KInv
<1>1. ASSUME NEW t \in Todos, Toggle(t) PROVE KInv'
  BY <1>0, <1>1, StaysGood, GoodStep DEF Toggle, UserRest
<1>2. ASSUME NEW t \in Todos, DeleteTodo(t) PROVE KInv'
  BY <1>2, StageKeeps DEF DeleteTodo, Stores
<1>3. ASSUME NEW i \in Ids, DeleteItem(i) PROVE KInv'
  BY <1>3, StageKeeps DEF DeleteItem, Stores
<1>4. ASSUME NEW m \in Messages, DeleteMessage(m) PROVE KInv'
  BY <1>4, StageKeeps DEF DeleteMessage, Stores
<1>5. \A line \in Lines \ Stores : \A w : Good(net, Queue(net, line, w))
  BY <1>0, QueueGood
<1>6. {"moves", "adds"} \cup Ids \subseteq Lines \ Stores
  BY PanelAssumption DEF Lines, Stores, Ids
<1>7. ASSUME NEW i \in Ids, Tick(i) PROVE KInv'
  <2>1. PICK to : net' = Queue(net, i, to)
    BY <1>7 DEF Tick
  <2> QED
    BY <1>5, <1>6, <1>7, <2>1, GoodStep DEF Tick, UserRest
<1>8. ASSUME NEW i \in Ids, NEW k, Move(i, k) PROVE KInv'
  <2>1. PICK w : net' = Queue(net, "moves", w)
    BY <1>8 DEF Move
  <2> QED
    BY <1>5, <1>6, <1>8, <2>1, GoodStep DEF Move, UserRest
<1>9. ASSUME NEW d \in Drafts, Add(d) PROVE KInv'
  <2>1. net' = Queue(net, "adds", d)
    BY <1>9 DEF Add
  <2> QED
    BY <1>5, <1>6, <1>9, <2>1, GoodStep DEF Add, UserRest
<1>10. ASSUME NEW store \in Stores, Undo(store) PROVE KInv'
  <2>1. /\ staged' = [staged EXCEPT ![store] = <<>>]
        /\ UNCHANGED <<net, sends>>
    BY <1>10 DEF Undo, UserRest
  <2>2. StagedShape(staged') /\ Emptied(staged, staged')
    BY <2>1, StoreEmptied DEF KInv
  <2>3. AllKept(sends, staged', net)
    BY <1>0, <2>2, StaysGood, AllKeptStays DEF KInv
  <2> QED
    BY <2>1, <2>2, <2>3 DEF KInv
<1> QED
  BY <1>1, <1>2, <1>3, <1>4, <1>7, <1>8, <1>9, <1>10 DEF User

\* What is committed: a toast goes, or a send that waits for it.
LEMMA CloseKeeps ==
    ASSUME KInv, IInv', NEW store \in Stores, Close(store)
    PROVE  KInv'
<1>1. /\ net' = Commit(net, store, {}) /\ staged' = [staged EXCEPT ![store] = <<>>]
      /\ sends' = sends
  BY DEF Close, PageRest
<1>2. StagedShape(staged')
  BY <1>1, StoreEmptied DEF KInv
<1>3. Lined(net') /\ Batched(net')
  <2>1. PICK G : staged \in [Stores -> Seq(G)]
    BY DEF KInv, StagedShape
  <2> QED
    BY <1>1, <2>1, CommitGood DEF KInv
<1>4. AllKept(sends, staged', net')
  <2>1. SUFFICES ASSUME NEW s \in Sends, NEW x \in sends[s].owes
                 PROVE  Kept(sends[s].at, s, x, staged', net')
    BY DEF AllKept
  <2>2. Kept(sends[s].at, s, x, staged, net)
    BY <2>1 DEF KInv, AllKept
  <2> QED
    BY <1>1, <2>2, KeptCommitted DEF KInv
<1> QED
  BY <1>1, <1>2, <1>3, <1>4 DEF KInv

\* The send waits for every deletion of messages there is.
LEMMA SubmitKeeps ==
    ASSUME KInv, IInv', NEW s \in Sends, Submit(s)
    PROVE  KInv'
<1>1. /\ net' = Commit(net, "message", {s}) /\ staged' = [staged EXCEPT !["message"] = <<>>]
      /\ sends' = [sends EXCEPT ![s] = [at |-> "messages", owes |-> Hidden]]
  BY DEF Submit
<1>2. PICK A, O : sends \in [Sends -> [at : A, owes : O]]
  BY DEF KInv, SendsShape
<1>3. /\ sends' \in [Sends -> [at : A \cup {"messages"}, owes : O \cup {Hidden}]]
      /\ sends'[s] = [at |-> "messages", owes |-> Hidden]
      /\ \A r \in Sends \ {s} : sends'[r] = sends[r]
  <2> HIDE DEF Hidden
  <2> QED
    BY <1>1, <1>2
<1>4. PICK G : staged \in [Stores -> Seq(G)]
  BY DEF KInv, StagedShape
<1>5. "message" \in Stores
  BY DEF Stores
<1>6. /\ Lined(net') /\ Batched(net')
      /\ \A x : Waited(net'.chain["message"], s, x)
  BY <1>1, <1>4, <1>5, CommitGood DEF KInv
<1>7. StagedShape(staged') /\ staged'["message"] = <<>>
  BY <1>1, <1>4, <1>5, StoreEmptied DEF KInv
<1>8. AllKept(sends', staged', net')
  <2>1. SUFFICES ASSUME NEW r \in Sends, NEW x \in sends'[r].owes
                 PROVE  Kept(sends'[r].at, r, x, staged', net')
    BY DEF AllKept
  <2>2. CASE r = s
    <3>1. sends'[r].at = "messages"
      BY <1>3, <2>2
    <3> QED
      BY <1>6, <1>7, <2>2, <3>1, EmptyHasNone DEF Kept
  <2>3. CASE r # s
    <3>1. sends'[r] = sends[r]
      BY <1>3, <2>3
    <3>2. Kept(sends[r].at, r, x, staged, net)
      BY <2>1, <3>1 DEF KInv, AllKept
    <3> QED
      BY <1>1, <1>5, <3>1, <3>2, KeptCommitted DEF KInv
  <2> QED
    BY <2>2, <2>3
<1>9. SendsShape(sends')
  BY <1>3 DEF SendsShape
<1> QED
  BY <1>6, <1>7, <1>8, <1>9 DEF KInv

\* Who waits for no batch was promised nothing that is in one.
LEMMA WaitOver ==
    ASSUME NEW n, Batched(n), NEW store \in Stores, NEW s, NEW x,
           Waited(n.chain[store], s, x), ~\E k \in DOMAIN n.chain[store] : s \in n.chain[store][k].waits
    PROVE  Spared(n.chain[store], x)
<1>1. DOMAIN n.chain[store] = 1..Len(n.chain[store]) /\ Len(n.chain[store]) \in Nat
  BY DEF Batched, Batches
<1> QED
  BY <1>1 DEF Waited, Spared

\* Its messages are answered: it waits for the to-dos and the items.
LEMMA FlushKeeps ==
    ASSUME KInv, IInv', NEW s \in Sends, FlushTodos(s)
    PROVE  KInv'
<1> DEFINE n == Commit(net, "todo", {s})
           m == Commit(n, "item", {s})
           st == [staged EXCEPT !["todo"] = <<>>]
<1>1. /\ net' = m /\ staged' = [staged EXCEPT !["todo"] = <<>>, !["item"] = <<>>]
      /\ sends' = [sends EXCEPT ![s].at = "todos"]
      /\ sends[s].at = "messages" /\ ~WaitsFor(s, "message")
  BY DEF FlushTodos
<1>2. PICK A, O : sends \in [Sends -> [at : A, owes : O]]
  BY DEF KInv, SendsShape
<1>3. /\ sends' \in [Sends -> [at : A \cup {"todos"}, owes : O]]
      /\ sends'[s].at = "todos" /\ sends'[s].owes = sends[s].owes
      /\ \A r \in Sends \ {s} : sends'[r] = sends[r]
  BY <1>1, <1>2
<1>4. PICK G : staged \in [Stores -> Seq(G)]
  BY DEF KInv, StagedShape
<1>5. {"message", "todo", "item"} \subseteq Stores /\ Stores = {"message", "todo", "item"}
      /\ Stores \subseteq Lines
  BY DEF Stores, Lines
<1>6. /\ Lined(n) /\ Batched(n) /\ Only(net, n, "todo")
      /\ \A x : Waited(n.chain["todo"], s, x)
  BY <1>4, <1>5, CommitGood DEF KInv
<1>7. /\ Lined(m) /\ Batched(m) /\ Only(n, m, "item")
      /\ \A x : Waited(m.chain["item"], s, x)
  <2> HIDE DEF n
  <2> QED
    BY <1>4, <1>5, <1>6, CommitGood
<1>8. /\ m.chain["message"] = net.chain["message"]
      /\ m.chain["todo"] = n.chain["todo"]
  <2> HIDE DEF n, m
  <2> QED
    BY <1>5, <1>6, <1>7 DEF Only
<1>9. /\ StagedShape(staged')
      /\ \A store \in Stores : staged'[store] = IF store = "message" THEN staged[store] ELSE <<>>
  <2>1. <<>> \in Seq(G)
    OBVIOUS
  <2>2. st \in [Stores -> Seq(G)]
    BY <1>4, <2>1
  <2>3. staged' = [st EXCEPT !["item"] = <<>>]
    BY <1>1
  <2>4. staged' \in [Stores -> Seq(G)]
    <3> HIDE DEF st
    <3> QED
      BY <2>1, <2>2, <2>3
  <2> QED
    BY <1>1, <1>4, <1>5, <2>4 DEF StagedShape
<1>10. AllKept(sends', staged', m)
  <2>1. SUFFICES ASSUME NEW r \in Sends, NEW x \in sends'[r].owes
                 PROVE  Kept(sends'[r].at, r, x, staged', m)
    BY DEF AllKept
  <2>2. CASE r = s
    <3>1. ~Contains(staged["message"], x) /\ Waited(net.chain["message"], s, x)
      BY <1>1, <1>3, <2>1, <2>2 DEF KInv, AllKept, Kept
    <3>2. Spared(net.chain["message"], x)
      BY <1>1, <1>5, <3>1, WaitOver DEF KInv, WaitsFor
    <3>3. \A store \in Stores : ~Contains(staged'[store], x)
      BY <1>9, <3>1, EmptyHasNone
    <3>4. sends'[r].at = "todos"
      BY <1>3, <2>2
    <3> HIDE DEF n, m
    <3> QED
      BY <1>6, <1>7, <1>8, <2>2, <3>2, <3>3, <3>4 DEF Kept
  <2>3. CASE r # s
    <3>1. sends'[r] = sends[r]
      BY <1>3, <2>3
    <3>2. Kept(sends[r].at, r, x, staged, net)
      BY <2>1, <3>1 DEF KInv, AllKept
    <3>3. Kept(sends[r].at, r, x, st, n)
      BY <1>5, <3>2, KeptCommitted DEF KInv
    <3> HIDE DEF n
    <3>4. /\ \A store \in Stores \ {"todo"} : st[store] = staged[store]
          /\ st["todo"] = <<>>
      BY <1>4, <1>5
    <3> HIDE DEF st
    <3>5. ~Contains(st["item"], x) => ~Contains(staged["item"], x)
      BY <1>5, <3>4
    <3>6. \A store \in Stores : ~Contains(st[store], x) => ~Contains(staged'[store], x)
      BY <1>9, <3>4, EmptyHasNone
    <3>7. ~Contains(st["item"], x) /\ Waited(n.chain["item"], r, x) => Waited(m.chain["item"], r, x)
      BY <1>4, <1>5, <1>6, <3>5, CommitGood
    <3>8. m.chain["message"] = n.chain["message"]
      BY <1>5, <1>7 DEF Only
    <3> HIDE DEF m
    <3> QED
      BY <1>5, <1>8, <3>1, <3>3, <3>6, <3>7, <3>8 DEF Kept
  <2> QED
    BY <2>2, <2>3
<1>11. SendsShape(sends')
  BY <1>3 DEF SendsShape
<1> HIDE DEF n, m
<1> QED
  BY <1>1, <1>7, <1>9, <1>10, <1>11 DEF KInv

\* A send that goes: nothing it promised is hidden.
LEMMA DeliverKeeps ==
    ASSUME KInv, IInv', NEW s \in Sends, Deliver(s)
    PROVE  KInv' /\ sends[s].owes \cap Hidden = {}
<1>1. /\ sends' = [sends EXCEPT ![s].at = "sent"] /\ UNCHANGED <<staged, net>>
      /\ sends[s].at = "todos" /\ ~WaitsFor(s, "todo") /\ ~WaitsFor(s, "item")
  BY DEF Deliver
<1>2. PICK A, O : sends \in [Sends -> [at : A, owes : O]]
  BY DEF KInv, SendsShape
<1>3. /\ sends' \in [Sends -> [at : A \cup {"sent"}, owes : O]]
      /\ sends'[s].at = "sent" /\ \A r \in Sends \ {s} : sends'[r] = sends[r]
  BY <1>1, <1>2
<1>4. AllKept(sends', staged, net)
  <2>1. SUFFICES ASSUME NEW r \in Sends, NEW x \in sends'[r].owes
                 PROVE  Kept(sends'[r].at, r, x, staged, net)
    BY DEF AllKept
  <2>2. CASE r = s
    BY <1>3, <2>2 DEF Kept
  <2>3. CASE r # s
    <3>1. sends'[r] = sends[r]
      BY <1>3, <2>3
    <3> QED
      BY <2>1, <3>1 DEF KInv, AllKept
  <2> QED
    BY <2>2, <2>3
<1>5. KInv'
  BY <1>1, <1>3, <1>4 DEF KInv, SendsShape
<1>6. ASSUME NEW x \in sends[s].owes
      PROVE  \A store \in Stores : ~Deleting(store, x)
  <2>1. Kept("todos", s, x, staged, net)
    BY <1>1, <1>6 DEF KInv, AllKept
  <2>2. Stores = {"message", "todo", "item"}
    BY DEF Stores
  <2>3. \A store \in Stores : Spared(net.chain[store], x)
    BY <1>1, <2>1, <2>2, WaitOver DEF Kept, KInv, WaitsFor
  <2>4. \A store \in Stores : DOMAIN net.chain[store] = 1..Len(net.chain[store])
    BY DEF KInv, Batched, Batches
  <2> QED
    BY <2>1, <2>3, <2>4 DEF Kept, Deleting, Spared
<1>7. sends[s].owes \cap Hidden = {}
  BY <1>6 DEF Hidden, Stores
<1> QED
  BY <1>5, <1>7

\* A read after an event.
LEMMA LoadKeeps ==
    ASSUME KInv, IInv', Load
    PROVE  KInv'
<1>1. "load" \in Readers
  BY DEF Readers
<1>2. Good(net, net')
  BY <1>1, ReadingGood DEF Load, KInv
<1> QED
  BY <1>2, GoodStep DEF Load, PageRest

\* Core serves a read, and who asked for it is who did.
LEMMA ServeReadKeeps ==
    ASSUME KInv, IInv', NEW k \in DOMAIN net.reads, ServeRead(k)
    PROVE  KInv'
<1> DEFINE r == net.reads
           s == [r EXCEPT ![k].got = core]
<1>1. FrameShape(net) /\ ReadsShape(r) /\ LinesShape(net) /\ OneRead(net)
  BY DEF KInv, Lined, NetShape
<1>2. net' = WriteReads(net, s)
  <2>1. PICK C, A, R : net \in [chain : [Lines -> C], at : [Lines -> A], reads : R]
    BY <1>1 DEF FrameShape
  <2> QED
    BY <2>1 DEF ServeRead, WriteReads
<1>3. DOMAIN s = DOMAIN r /\ \A j \in DOMAIN r : s[j].by = r[j].by
  <2>1. \A j \in DOMAIN r : r[j] = [by |-> r[j].by, got |-> r[j].got, late |-> r[j].late]
    BY <1>1 DEF ReadsShape, ReadShape
  <2>2. DOMAIN s = DOMAIN r /\ s[k] = [r[k] EXCEPT !.got = core]
        /\ \A j \in DOMAIN r : j # k => s[j] = r[j]
    BY <1>1 DEF ReadsShape
  <2>3. [r[k] EXCEPT !.got = core].by = r[k].by
    BY <2>1
  <2> HIDE DEF s, r
  <2> QED
    BY <2>2, <2>3
<1> HIDE DEF s
<1>4. net'.reads = s /\ net'.chain = net.chain /\ net'.at = net.at
  BY <1>1, <1>2, ReadsWritten
<1>5. LinesShape(net') /\ OneRead(net')
  BY <1>1, <1>3, <1>4 DEF LinesShape, OneRead
<1>6. Good(net, net')
  BY <1>4, <1>5, SameBatches DEF KInv, Lined, IInv
<1> QED
  BY <1>6, GoodStep DEF ServeRead

\* What a read's return lets go of.
LEMMA LetGoKeeps ==
    ASSUME KInv, IInv', NEW k \in DOMAIN net.reads, NEW after, ReadsShape(after),
           Len(after) = Len(net.reads) - 1,
           \A j \in 1..Len(after) : after[j].by = net.reads[IF j < k THEN j ELSE j + 1].by,
           LetGo(WriteReads(net, after), net.reads[k].by),
           staged' = staged, sends' = sends
    PROVE  KInv'
<1> DEFINE n == WriteReads(net, after)
           line == net.reads[k].by
<1>1. /\ Good(net, n) /\ n.chain = net.chain
      /\ line # "load" => /\ NoRead(n, line) /\ line \in Lines /\ net.chain[line] # <<>>
  BY ReadGone DEF KInv
<1>2. net' = IF line = "load" THEN n ELSE GoOn(n, line, Tail(net.chain[line]), page'.todos)
  BY DEF LetGo, Rest
<1> HIDE DEF n, line
<1>3. Good(net, net')
  <2>1. CASE line = "load"
    BY <1>1, <1>2, <2>1
  <2>2. CASE line # "load"
    <3>1. Good(n, GoOn(n, line, Tail(n.chain[line]), page'.todos))
      BY <1>1, <2>2, GoOnGood DEF Good
    <3> QED
      BY <1>1, <1>2, <2>2, <3>1, GoodOnward
  <2> QED
    BY <2>1, <2>2
<1> QED
  BY <1>3, GoodStep

LEMMA LandedKeeps ==
    ASSUME KInv, IInv', NEW k \in DOMAIN net.reads, Landed(k)
    PROVE  KInv'
<1> DEFINE over == Overtaken(k)
           after == RemoveAt(over, k)
<1>1. ReadsShape(net.reads)
  BY DEF KInv, Lined, NetShape
<1>2. /\ ReadsShape(over) /\ Len(over) = Len(net.reads)
      /\ \A j \in 1..Len(net.reads) : over[j].by = net.reads[j].by
  BY <1>1, OvertakenReads
<1>3. LetGo(WriteReads(net, after), net.reads[k].by)
  <2>1. WriteReads(net, after) = [net EXCEPT !.reads = RemoveAt(Overtaken(k), k)]
    BY DEF WriteReads
  <2> DEFINE n == WriteReads(net, after)
  <2> HIDE DEF n, over, after
  <2> SUFFICES LetGo(n, net.reads[k].by)
    BY DEF n
  <2> QED
    BY <2>1 DEF Landed, n
<1> HIDE DEF over
<1>4. DOMAIN over = 1..Len(over) /\ Len(over) \in Nat /\ DOMAIN net.reads = 1..Len(net.reads)
  BY <1>1, <1>2 DEF ReadsShape
<1>5. ReadsShape(after)
  BY <1>2, <1>4, ReadTaken
<1>6. /\ Len(after) = Len(net.reads) - 1
      /\ \A j \in 1..Len(after) : after[j].by = net.reads[IF j < k THEN j ELSE j + 1].by
  <2>1. PICK G : over \in Seq(G)
    BY <1>2 DEF ReadsShape
  <2>2. /\ Len(after) = Len(over) - 1
        /\ \A j \in 1..Len(over) - 1 : after[j] = over[IF j < k THEN j ELSE j + 1]
    BY <1>2, <1>4, <2>1, WithoutKth
  <2> HIDE DEF after
  <2>3. \A j \in 1..Len(over) - 1 : (IF j < k THEN j ELSE j + 1) \in 1..Len(over)
    BY <1>2, <1>4
  <2> QED
    BY <1>2, <2>2, <2>3
<1> HIDE DEF after
<1> QED
  BY <1>3, <1>5, <1>6, LetGoKeeps DEF Landed, PageRest

LEMMA ReadFailsKeeps ==
    ASSUME KInv, IInv', NEW k \in DOMAIN net.reads, ReadFails(k)
    PROVE  KInv'
<1> DEFINE after == RemoveAt(net.reads, k)
           n == WriteReads(net, after)
<1>1. FrameShape(net) /\ ReadsShape(net.reads)
  BY DEF KInv, Lined, NetShape
<1>2. DOMAIN net.reads = 1..Len(net.reads)
  BY <1>1 DEF ReadsShape
<1>3. LetGo(n, net.reads[k].by)
  <2>1. PICK C, A, R : net \in [chain : [Lines -> C], at : [Lines -> A], reads : R]
    BY <1>1 DEF FrameShape
  <2>2. n = [net EXCEPT !.reads = RemoveAt(@, k)]
    BY <2>1 DEF WriteReads
  <2> HIDE DEF n
  <2> QED
    BY <2>2 DEF ReadFails
<1>4. ReadsShape(after)
  BY <1>1, ReadTaken
<1>5. PICK G : net.reads \in Seq(G)
  BY <1>1 DEF ReadsShape
<1>6. /\ Len(after) = Len(net.reads) - 1
      /\ \A j \in 1..Len(net.reads) - 1 : after[j] = net.reads[IF j < k THEN j ELSE j + 1]
  BY <1>2, <1>5, WithoutKth
<1> HIDE DEF after
<1>7. \A j \in 1..Len(after) : after[j].by = net.reads[IF j < k THEN j ELSE j + 1].by
  BY <1>6
<1> QED
  BY <1>3, <1>4, <1>6, <1>7, LetGoKeeps DEF ReadFails

\* Core's answer, or none.
LEMMA ServeKeeps ==
    ASSUME KInv, IInv', NEW line \in Lines, Serve(line) \/ Fail(line)
    PROVE  KInv'
<1>1. PICK v : net' = WriteAt(net, line, v) /\ v # "idle"
  <2>1. CASE Serve(line)
    <3> DEFINE w == Head(net.chain[line])
               v == IF Possible(line, w) THEN "ok" ELSE Refusal(line, w)
    <3>1. PICK C, A, R : net \in [chain : [Lines -> C], at : [Lines -> A], reads : R]
      BY DEF KInv, Lined, NetShape, FrameShape
    <3>2. net' = [net EXCEPT !.at[line] = v]
      BY <2>1 DEF Serve
    <3>3. v # "idle"
      BY DEF Refusal
    <3> HIDE DEF v
    <3> QED
      BY <3>2, <3>3 DEF WriteAt
  <2>2. CASE Fail(line)
    <3>1. net' = WriteAt(net, line, "refused")
      BY <2>2 DEF Fail, WriteAt
    <3> QED
      BY <3>1
  <2> QED
    BY <2>1, <2>2
<1>2. net.at[line] = "asked" /\ staged' = staged /\ sends' = sends
  BY DEF Serve, Fail
<1>3. NoRead(net, line)
  <2>1. line # "load"
    BY PanelAssumption DEF Lines, Ids, Stores
  <2> QED
    BY <1>2, <2>1, NotReading DEF KInv
<1>4. net.chain[line] # <<>>
  BY <1>2 DEF KInv, Lined, LinesShape
<1>5. Good(net, net')
  BY <1>1, <1>3, <1>4, AtGood DEF KInv
<1> QED
  BY <1>2, <1>5, GoodStep

\* The first batch of a line asks for other deletions.
LEMMA AskedGood ==
    ASSUME NEW n, Lined(n), Batched(n), NEW line \in {"todo", "item"}, NoRead(n, line),
           n.chain[line] # <<>>, NEW ids
    PROVE  LET m == WriteChain(n, line, [n.chain[line] EXCEPT ![1].ids = ids])
           IN Good(n, m) /\ NoRead(m, line) /\ m.chain[line] # <<>>
<1> DEFINE c == n.chain[line]
           d == [c EXCEPT ![1].ids = ids]
           m == WriteChain(n, line, d)
<1>1. FrameShape(n) /\ NetShape(n) /\ LinesShape(n) /\ OneRead(n)
  BY DEF Lined, NetShape
<1>2. line \in Stores /\ line \in Lines /\ line # "message" /\ Batches(c)
  BY DEF Stores, Lines, Batched
<1> HIDE DEF c
<1>3. AsGood(c, d) /\ Batches(d) /\ d # <<>>
  BY <1>2, FirstIdsGood DEF c
<1> HIDE DEF d
<1>4. /\ m.reads = n.reads /\ m.at = n.at /\ m.chain[line] = d
      /\ \A l \in Lines \ {line} : m.chain[l] = n.chain[l]
  BY <1>1, <1>2, ChainWritten
<1>5. NetShape(m)
  BY <1>1, <1>2, OtherLine DEF Follows
<1> HIDE DEF m
<1>6. LinesShape(m)
  <2>1. ASSUME NEW l \in Lines
        PROVE  (\E G : m.chain[l] \in Seq(G)) /\ (m.at[l] = "idle" <=> m.chain[l] = <<>>)
    <3>1. CASE l = line
      BY <1>1, <1>2, <1>3, <1>4, <3>1 DEF LinesShape, Batches, c
    <3>2. CASE l # line
      BY <1>1, <1>4, <3>2 DEF LinesShape
    <3> QED
      BY <3>1, <3>2
  <2> QED
    BY <2>1 DEF LinesShape
<1>7. OneRead(m) /\ NoRead(m, line)
  BY <1>1, <1>4 DEF OneRead, NoRead
<1>8. Good(n, m)
  BY <1>2, <1>3, <1>4, <1>5, <1>6, <1>7, OnlyGood DEF Only, Lined, c
<1> QED
  BY <1>3, <1>4, <1>7, <1>8 DEF m, d, c

\* The answer to a write of a line that is not the messages'.
LEMMA OtherAnsweredKeeps ==
    ASSUME KInv, IInv', NEW line \in Lines \ {"message"}, Answered(line)
    PROVE  KInv'
<1>1. Lined(net) /\ Batched(net) /\ line \in Readers /\ "load" \in Readers /\ line # "load"
  BY LineNames, PanelAssumption DEF KInv, Readers, Lines, Ids, Stores
<1>2. net.at[line] \in {"ok", "busy", "refused"} /\ staged' = staged /\ sends' = sends
  BY DEF Answered, PageRest
<1>3. NoRead(net, line) /\ net.chain[line] # <<>>
  BY <1>1, <1>2, NotReading DEF Lined, LinesShape
<1>4. Good(net, Reading(net, line))
  BY <1>1, <1>3, ReadingGood
<1>5. ASSUME NEW todos PROVE Good(net, GoOn(net, line, Rest(line), todos))
  BY <1>1, <1>3, GoOnGood DEF Rest
<1>6. ASSUME NEW todos PROVE Good(net, Reading(GoOn(net, line, Rest(line), todos), "load"))
  <2> DEFINE n == GoOn(net, line, Rest(line), todos)
  <2>1. Good(net, n)
    BY <1>5
  <2> HIDE DEF n
  <2>2. Good(n, Reading(n, "load"))
    BY <1>1, <2>1, ReadingGood DEF Good
  <2>3. Good(net, Reading(n, "load"))
    BY <2>1, <2>2, GoodOnward
  <2> QED
    BY <2>3 DEF n
<1> SUFFICES Good(net, net')
  BY <1>2, GoodStep
<1>7. CASE line \in Todos /\ FlipAnswered(line)
  <2>1. \/ net' = Reading(net, line)
        \/ net' = Reading(GoOn(net, line, Rest(line), page.todos), "load")
    BY <1>7 DEF FlipAnswered
  <2> QED
    BY <1>4, <1>6, <2>1
<1>8. CASE \/ line \in Ids /\ TickAnswered(line)
           \/ line = "moves" /\ MoveAnswered
           \/ line = "adds" /\ AddAnswered
  <2>1. \/ net' = Reading(net, line)
        \/ net' = GoOn(net, line, Rest(line), page.todos)
    BY <1>8 DEF TickAnswered, MoveAnswered, AddAnswered
  <2> QED
    BY <1>4, <1>5, <2>1
<1>9. CASE line \in {"todo", "item"} /\ DeleteAnswered(line)
  <2>1. PICK ids : LET asked == [net EXCEPT !.chain[line][1].ids = ids]
                   IN \/ net' = Reading(asked, line)
                      \/ net' = [asked EXCEPT !.at[line] = "asked"]
    BY <1>9 DEF DeleteAnswered
  <2> DEFINE asked == WriteChain(net, line, [net.chain[line] EXCEPT ![1].ids = ids])
  <2>2. Good(net, asked) /\ NoRead(asked, line) /\ asked.chain[line] # <<>>
    BY <1>1, <1>3, <1>9, AskedGood
  <2>3. [net EXCEPT !.chain[line][1].ids = ids] = asked
    BY DEF WriteChain
  <2> HIDE DEF asked
  <2>4. Good(asked, Reading(asked, line)) /\ Good(asked, WriteAt(asked, line, "asked"))
    BY <1>1, <2>2, ReadingGood, AtGood DEF Good
  <2>5. net' = Reading(asked, line) \/ net' = WriteAt(asked, line, "asked")
    BY <2>1, <2>3 DEF WriteAt
  <2> QED
    BY <2>2, <2>4, <2>5, GoodOnward
<1> QED
  BY <1>7, <1>8, <1>9 DEF Answered

\* The answer to a deletion of a message.
LEMMA MessagesAnsweredKeeps ==
    ASSUME KInv, IInv', Answered("message")
    PROVE  KInv'
<1> DEFINE c == net.chain["message"]
           ids == IF net.at["message"] = "busy" THEN <<>> ELSE Tail(Head(c).ids)
<1>1. /\ Lined(net) /\ Batched(net) /\ "message" \in Lines /\ "message" \in Stores
      /\ FrameShape(net) /\ Batches(c) /\ Honest(c)
  BY DEF KInv, Stores, Lines, Lined, NetShape, Batched
<1>2. /\ net.at["message"] \in {"ok", "busy", "refused"} /\ MessageAnswered
      /\ staged' = staged /\ sends' = sends
  BY LineNames DEF Answered, PageRest
<1>3. NoRead(net, "message") /\ c # <<>>
  BY <1>1, <1>2, NotReading DEF Lined, LinesShape
<1>4. c[1] = Head(c) /\ \E G : c \in Seq(G)
  BY <1>1, <1>3 DEF Batches
<1>5. CASE ids = <<>>
  <2>1. net' = GoOn(net, "message", Tail(c), page.todos)
    BY <1>2, <1>5 DEF MessageAnswered, Rest
  <2>2. Good(net, net')
    BY <1>1, <1>3, <2>1, GoOnGood
  <2> QED
    BY <1>2, <2>2, GoodStep
<1>6. CASE ids # <<>>
  <2> DEFINE rest == Tail(c[1].ids)
             d == [c EXCEPT ![1] = [@ EXCEPT !.ids = rest, !.all = ToSet(rest)]]
             m == WriteAt(WriteChain(net, "message", d), "message", "asked")
  <2>1. ids = rest
    BY <1>4, <1>6
  <2>2. net' = m
    <3>1. PICK C, A, R : net \in [chain : [Lines -> C], at : [Lines -> A], reads : R]
      BY <1>1 DEF FrameShape
    <3>2. net' = [net EXCEPT !.chain["message"][1] = [@ EXCEPT !.ids = ids, !.all = ToSet(ids)],
                             !.at["message"] = "asked"]
      BY <1>2, <1>6 DEF MessageAnswered
    <3> HIDE DEF ids, rest
    <3> QED
      BY <1>1, <2>1, <3>1, <3>2 DEF WriteAt, WriteChain
  <2>3. AsGood(c, d) /\ Batches(d) /\ Honest(d) /\ d # <<>>
    <3> HIDE DEF c
    <3> QED
      BY <1>1, <1>3, <1>6, <2>1, MessageLetGo
  <2>4. NetShape(m)
    <3> HIDE DEF m
    <3> QED
      BY <2>2 DEF IInv
  <2>5. PICK G : d \in Seq(G)
    <3> HIDE DEF d
    <3> QED
      BY <2>3 DEF Batches
  <2> HIDE DEF d, c
  <2>6. Lined(m) /\ Only(net, m, "message") /\ m.chain["message"] = d
    BY <1>1, <1>3, <2>3, <2>4, <2>5, LineWritten
  <2> HIDE DEF m
  <2>7. Good(net, m)
    BY <1>1, <2>3, <2>6, OnlyGood DEF c
  <2> QED
    BY <1>2, <2>2, <2>7, GoodStep
<1> QED
  BY <1>5, <1>6

\* Every step keeps what a send waits for.
LEMMA NextKeeps ==
    ASSUME KInv, [Next]_vars
    PROVE  KInv'
<1>0. IInv'
  BY NextHolds DEF KInv
<1>1. CASE User
  BY <1>0, <1>1, UserKeeps
<1>2. ASSUME NEW s \in Sends, Submit(s) \/ FlushTodos(s) \/ Deliver(s) PROVE KInv'
  BY <1>0, <1>2, SubmitKeeps, FlushKeeps, DeliverKeeps
<1>3. ASSUME NEW store \in Stores, Close(store) PROVE KInv'
  BY <1>0, <1>3, CloseKeeps
<1>4. ASSUME NEW t \in Todos, Settle(t) PROVE KInv'
  <2>1. t \in Lines \ Stores
    BY PanelAssumption DEF Lines
  <2>2. Good(net, net')
    BY <1>4, <2>1, QueueGood DEF Settle, KInv
  <2> QED
    BY <1>0, <1>4, <2>2, GoodStep DEF Settle, PageRest
<1>5. CASE RunEnds \/ Galley \/ UNCHANGED vars
  <2>1. net' = net /\ staged' = staged /\ sends' = sends
    BY <1>5 DEF RunEnds, Galley, vars
  <2> QED
    BY <1>0, <2>1, StaysGood, GoodStep DEF KInv
<1>6. CASE Load
  BY <1>0, <1>6, LoadKeeps
<1>7. ASSUME NEW line \in Lines, Serve(line) \/ Fail(line) PROVE KInv'
  BY <1>0, <1>7, ServeKeeps
<1>8. ASSUME NEW line \in Lines, Answered(line) PROVE KInv'
  BY <1>0, <1>8, OtherAnsweredKeeps, MessagesAnsweredKeeps
<1>9. ASSUME NEW k \in DOMAIN net.reads, ServeRead(k) \/ Landed(k) \/ ReadFails(k) PROVE KInv'
  BY <1>0, <1>9, ServeReadKeeps, LandedKeeps, ReadFailsKeeps
<1>10. CASE System
  BY <1>2, <1>3, <1>4, <1>5, <1>6, <1>7, <1>8, <1>9, <1>10 DEF System
<1> QED
  BY <1>1, <1>2, <1>5, <1>7, <1>9, <1>10 DEF Next

\* No step but its delivery makes a send one that has gone.
LEMMA OnlyDelivered ==
    ASSUME KInv, [Next]_vars, NEW s \in Sends, Goes(s)
    PROVE  Deliver(s)
<1>1. PICK A, O : sends \in [Sends -> [at : A, owes : O]]
  BY DEF KInv, SendsShape
<1>2. sends' # sends
  BY DEF Goes
<1>3. ASSUME NEW r \in Sends, Submit(r) PROVE FALSE
  BY <1>1, <1>3 DEF Submit, Goes
<1>4. ASSUME NEW r \in Sends, FlushTodos(r) PROVE FALSE
  BY <1>1, <1>4 DEF FlushTodos, Goes
<1>5. ASSUME NEW r \in Sends, Deliver(r) PROVE r = s
  BY <1>1, <1>5 DEF Deliver, Goes
<1>6. ASSUME NEW store, NEW x, Stage(store, x) PROVE FALSE
  <2>1. sends'[s].at = sends[s].at
    BY <1>1, <1>6 DEF Stage
  <2> QED
    BY <2>1 DEF Goes
<1>7. ~User
  BY <1>2, <1>6 DEF User, Toggle, DeleteTodo, Tick, DeleteItem, Move, Add, DeleteMessage, Undo, UserRest
<1>8. CASE System
  BY <1>2, <1>4, <1>5, <1>8 DEF System, Close, Settle, Load, PageRest, Serve, Answered,
     ServeRead, Landed, RunEnds
<1> QED
  BY <1>2, <1>3, <1>7, <1>8 DEF Next, Galley, Fail, ReadFails, vars

\* useMessageSend.ts:59-61: when a message goes to Core, nothing the user
\* deleted before it was sent is hidden on the page and alive in Core, for any
\* number of sends, batches and toasts and whatever Core answered meanwhile:
\* nothing it promised is hidden at all.
THEOREM PromisedHolds == Spec => Promised
<1>1. Init => KInv
  BY InitKeeps
<1>2. KInv /\ [Next]_vars => KInv'
  BY NextKeeps
<1>3. KInv /\ [Next]_vars =>
        [ \A s \in Sends : Goes(s) =>
            \A x \in sends[s].owes \cap Hidden :
               /\ x \in Todos => core.todos[x] = "gone"
               /\ x \in Ids => ~Contains(core.items, x)
               /\ x \in Messages => x \notin core.messages ]_vars
  <2> SUFFICES ASSUME KInv, [Next]_vars, NEW s \in Sends, Goes(s)
               PROVE  sends[s].owes \cap Hidden = {}
    OBVIOUS
  <2>1. Deliver(s)
    BY OnlyDelivered
  <2>2. IInv'
    BY NextHolds DEF KInv
  <2> QED
    BY <2>1, <2>2, DeliverKeeps
<1> QED
  BY <1>1, <1>2, <1>3, PTL DEF Spec, Promised

-----------------------------------------------------------------------------
(* Lists that name everything once.                                        *)

LEMMA WithoutOnce ==
    ASSUME NEW G, NEW s \in Seq(G), NEW x
    PROVE  /\ Without(s, x) \in Seq(G)
           /\ \A y : Contains(Without(s, x), y) => Contains(s, y)
           /\ IsInjective(s) => IsInjective(Without(s, x)) /\ ~Contains(Without(s, x), x)
           /\ Contains(s, x) => Len(Without(s, x)) = Len(s) - 1
<1> DEFINE t == Without(s, x)
           k == Place(s, x)
           At(j) == IF j < k THEN j ELSE j + 1
<1>1. CASE ~Contains(s, x)
  <2>1. t = s
    BY <1>1 DEF Without
  <2> QED
    BY <1>1, <2>1
<1>2. CASE Contains(s, x)
  <2>1. k \in 1..Len(s) /\ s[k] = x
    <3>1. \E j \in 1..Len(s) : s[j] = x
      BY <1>2 DEF Contains
    <3> QED
      BY <3>1 DEF Place
  <2> HIDE DEF k
  <2>2. t = RemoveAt(s, k)
    BY <1>2 DEF Without, k
  <2>3. /\ t \in Seq(G) /\ Len(t) = Len(s) - 1
        /\ \A j \in 1..Len(s) - 1 : t[j] = s[At(j)]
    BY <2>1, <2>2, WithoutKth
  <2>4. /\ Len(s) \in Nat /\ DOMAIN s = 1..Len(s) /\ DOMAIN t = 1..Len(s) - 1
    BY <2>3
  <2>5. /\ \A j \in 1..Len(s) - 1 : At(j) \in 1..Len(s) /\ At(j) # k
        /\ \A i, j \in 1..Len(s) - 1 : At(i) = At(j) => i = j
    BY <2>1, <2>4
  <2> HIDE DEF At, t
  <2>6. ASSUME NEW y, Contains(t, y) PROVE Contains(s, y)
    BY <2>3, <2>4, <2>5, <2>6 DEF Contains
  <2>7. ASSUME IsInjective(s) PROVE IsInjective(t) /\ ~Contains(t, x)
    <3>1. IsInjective(t)
      BY <2>3, <2>4, <2>5, <2>7 DEF IsInjective
    <3>2. ASSUME NEW j \in 1..Len(t), t[j] = x PROVE FALSE
      BY <2>1, <2>3, <2>4, <2>5, <2>7, <3>2 DEF IsInjective
    <3> QED
      BY <3>1, <3>2 DEF Contains
  <2> QED
    BY <2>3, <2>6, <2>7 DEF t
<1> QED
  BY <1>1, <1>2

LEMMA InsertedOnce ==
    ASSUME NEW G, NEW s \in Seq(G), NEW p \in 1..Len(s) + 1, NEW x \in G
    PROVE  /\ InsertAt(s, p, x) \in Seq(G)
           /\ \A y : Contains(InsertAt(s, p, x), y) => y = x \/ Contains(s, y)
           /\ IsInjective(s) /\ ~Contains(s, x) => IsInjective(InsertAt(s, p, x))
<1> DEFINE a == SubSeq(s, 1, p - 1)
           b == SubSeq(s, p, Len(s))
           t == InsertAt(s, p, x)
           From(j) == IF j < p THEN j ELSE j - 1
<1>1. Len(s) \in Nat /\ p \in Nat /\ p >= 1 /\ p <= Len(s) + 1 /\ DOMAIN s = 1..Len(s)
  OBVIOUS
<1>2. /\ a \in Seq(G) /\ Len(a) = p - 1
      /\ \A j \in 1..p - 1 : a[j] = s[j]
  BY <1>1, SubSeqProperties
<1>3. /\ b \in Seq(G) /\ Len(b) = Len(s) - p + 1
      /\ \A j \in 1..Len(s) - p + 1 : b[j] = s[p + j - 1]
  <2>1. CASE p = Len(s) + 1
    <3>1. b = <<>>
      BY <1>1, <2>1, SubSeqEmpty
    <3> QED
      BY <1>1, <2>1, <3>1
  <2>2. CASE p # Len(s) + 1
    BY <1>1, <2>2, SubSeqProperties
  <2> QED
    BY <2>1, <2>2
<1>4. <<x>> \in Seq(G) /\ Len(<<x>>) = 1 /\ <<x>>[1] = x
  OBVIOUS
<1>5. t = (a \o <<x>>) \o b
  BY DEF InsertAt
<1> HIDE DEF a, b, t
<1> DEFINE c == a \o <<x>>
<1>0. t = c \o b
  BY <1>5
<1> HIDE DEF c
<1>6. /\ c \in Seq(G) /\ Len(c) = p
      /\ \A j \in 1..p : c[j] = IF j < p THEN s[j] ELSE x
  <2>1. /\ c \in Seq(G) /\ Len(c) = Len(a) + Len(<<x>>)
        /\ \A j \in 1..Len(a) + Len(<<x>>) :
              c[j] = IF j <= Len(a) THEN a[j] ELSE <<x>>[j - Len(a)]
    BY <1>2, <1>4, ConcatProperties DEF c
  <2>2. Len(c) = p
    BY <1>1, <1>2, <1>4, <2>1
  <2>3. ASSUME NEW j \in 1..p PROVE c[j] = IF j < p THEN s[j] ELSE x
    <3>1. CASE j < p
      BY <1>1, <1>2, <1>4, <2>1, <3>1
    <3>2. CASE j = p
      <4>1. ~(j <= Len(a)) /\ j - Len(a) = 1 /\ j \in 1..Len(a) + Len(<<x>>)
        BY <1>1, <1>2, <1>4, <3>2
      <4> QED
        BY <1>4, <2>1, <3>2, <4>1
    <3> QED
      BY <1>1, <3>1, <3>2
  <2> QED
    BY <2>1, <2>2, <2>3
<1>7. /\ t \in Seq(G) /\ Len(t) = Len(s) + 1
      /\ \A j \in 1..Len(s) + 1 : t[j] = IF j = p THEN x ELSE s[From(j)]
  <2>1. /\ t \in Seq(G) /\ Len(t) = Len(c) + Len(b)
        /\ \A j \in 1..Len(c) + Len(b) : t[j] = IF j <= Len(c) THEN c[j] ELSE b[j - Len(c)]
    BY <1>0, <1>3, <1>6, ConcatProperties
  <2>2. Len(c) + Len(b) = Len(s) + 1
    BY <1>1, <1>3, <1>6
  <2>3. ASSUME NEW j \in 1..Len(s) + 1 PROVE t[j] = IF j = p THEN x ELSE s[From(j)]
    <3>1. CASE j <= p
      <4>1. t[j] = c[j] /\ j \in 1..p
        BY <1>1, <1>6, <2>1, <2>2, <3>1
      <4> QED
        BY <1>1, <1>6, <3>1, <4>1
    <3>2. CASE j > p
      <4> DEFINE i == j - p
      <4>1. i \in 1..Len(s) - p + 1 /\ p + i - 1 = j - 1 /\ ~(j <= p) /\ ~(j < p) /\ j # p
        BY <1>1, <3>2
      <4>2. t[j] = b[i]
        BY <1>6, <2>1, <2>2, <4>1
      <4>3. b[i] = s[j - 1]
        <5> HIDE DEF i
        <5> QED
          BY <1>3, <4>1
      <4> QED
        BY <4>1, <4>2, <4>3
    <3> QED
      BY <1>1, <3>1, <3>2
  <2> QED
    BY <2>1, <2>2, <2>3
<1>8. /\ \A j \in 1..Len(s) + 1 : j # p => From(j) \in 1..Len(s)
      /\ \A i, j \in 1..Len(s) + 1 : i # p /\ j # p /\ From(i) = From(j) => i = j
  BY <1>1
<1>9. DOMAIN t = 1..Len(s) + 1
  BY <1>7
<1> HIDE DEF From
<1>10. ASSUME NEW y, Contains(t, y) PROVE y = x \/ Contains(s, y)
  BY <1>7, <1>8, <1>10 DEF Contains
<1>11. ASSUME IsInjective(s), ~Contains(s, x) PROVE IsInjective(t)
  <2> SUFFICES ASSUME NEW i \in 1..Len(s) + 1, NEW j \in 1..Len(s) + 1, t[i] = t[j]
               PROVE  i = j
    BY <1>9 DEF IsInjective
  <2>1. \A k \in 1..Len(s) : s[k] # x
    BY <1>11 DEF Contains
  <2>2. CASE i = p \/ j = p
    BY <1>7, <1>8, <2>1, <2>2
  <2>3. CASE i # p /\ j # p
    <3>1. s[From(i)] = s[From(j)] /\ From(i) \in 1..Len(s) /\ From(j) \in 1..Len(s)
      BY <1>7, <1>8, <2>3
    <3> QED
      BY <1>1, <1>8, <1>11, <2>3, <3>1 DEF IsInjective
  <2> QED
    BY <2>2, <2>3
<1> QED
  BY <1>7, <1>10, <1>11 DEF t

LEMMA AppendedOnce ==
    ASSUME NEW G, NEW s \in Seq(G), NEW x \in G
    PROVE  /\ Append(s, x) \in Seq(G)
           /\ \A y : Contains(Append(s, x), y) => y = x \/ Contains(s, y)
           /\ IsInjective(s) /\ ~Contains(s, x) => IsInjective(Append(s, x))
<1> DEFINE t == Append(s, x)
<1>1. /\ t \in Seq(G) /\ Len(t) = Len(s) + 1 /\ t[Len(s) + 1] = x
      /\ \A j \in 1..Len(s) : t[j] = s[j]
  BY AppendProperties
<1>2. Len(s) \in Nat /\ DOMAIN s = 1..Len(s) /\ DOMAIN t = 1..Len(s) + 1
  BY <1>1
<1> HIDE DEF t
<1>3. \A y : Contains(t, y) => y = x \/ Contains(s, y)
  BY <1>1, <1>2 DEF Contains
<1>4. ASSUME IsInjective(s), ~Contains(s, x) PROVE IsInjective(t)
  <2>1. \A k \in 1..Len(s) : s[k] # x
    BY <1>4 DEF Contains
  <2> QED
    BY <1>1, <1>2, <1>4, <2>1 DEF IsInjective
<1> QED
  BY <1>1, <1>3, <1>4 DEF t

\* The first is taken off.
LEMMA FirstTaken ==
    ASSUME NEW G, NEW s \in Seq(G), s # <<>>
    PROVE  /\ Tail(s) \in Seq(G) /\ Len(Tail(s)) = Len(s) - 1
           /\ \A k \in 1..Len(s) - 1 : k + 1 \in 1..Len(s) /\ Tail(s)[k] = s[k + 1]
           /\ IsInjective(s) => Without(s, Head(s)) = Tail(s) /\ IsInjective(Tail(s))
<1> DEFINE x == Head(s)
           t == Without(s, x)
           u == Tail(s)
<1>1. /\ Len(s) \in Nat /\ Len(s) >= 1 /\ DOMAIN s = 1..Len(s) /\ x = s[1]
      /\ u \in Seq(G) /\ Len(u) = Len(s) - 1
      /\ \A k \in 1..Len(s) - 1 : k + 1 \in 1..Len(s) /\ u[k] = s[k + 1]
  OBVIOUS
<1> HIDE DEF x, u
<1>2. ASSUME IsInjective(s) PROVE t = u /\ IsInjective(u)
  <2>1. Contains(s, x)
    BY <1>1 DEF Contains
  <2>2. Place(s, x) = 1
    <3>1. \E j \in 1..Len(s) : s[j] = x
      BY <2>1 DEF Contains
    <3>2. Place(s, x) \in 1..Len(s) /\ s[Place(s, x)] = x
      BY <3>1 DEF Place
    <3> QED
      BY <1>1, <1>2, <3>2 DEF IsInjective
  <2>3. t = RemoveAt(s, 1)
    BY <2>1, <2>2 DEF Without
  <2> HIDE DEF t
  <2>4. /\ t \in Seq(G) /\ Len(t) = Len(s) - 1
        /\ \A j \in 1..Len(s) - 1 : t[j] = s[IF j < 1 THEN j ELSE j + 1]
    <3>1. 1 \in 1..Len(s)
      BY <1>1
    <3>2. /\ RemoveAt(s, 1) \in Seq(G) /\ Len(RemoveAt(s, 1)) = Len(s) - 1
          /\ \A j \in 1..Len(s) - 1 : RemoveAt(s, 1)[j] = s[IF j < 1 THEN j ELSE j + 1]
      BY <3>1, WithoutKth
    <3> QED
      BY <2>3, <3>2
  <2>5. \A j \in 1..Len(u) : u[j] = t[j]
    BY <1>1, <2>4
  <2>6. u = t
    BY <1>1, <2>4, <2>5, SeqEqual
  <2>7. IsInjective(u)
    <3>1. DOMAIN u = 1..Len(s) - 1
      BY <1>1
    <3>2. ASSUME NEW a \in 1..Len(s) - 1, NEW b \in 1..Len(s) - 1, u[a] = u[b]
          PROVE  a = b
      <4>1. a + 1 \in DOMAIN s /\ b + 1 \in DOMAIN s /\ s[a + 1] = s[b + 1]
        BY <1>1, <3>2
      <4>2. a + 1 = b + 1
        BY <1>2, <4>1 DEF IsInjective
      <4> QED
        BY <4>2
    <3> QED
      BY <3>1, <3>2 DEF IsInjective
  <2> QED
    BY <2>6, <2>7
<1> QED
  BY <1>1, <1>2 DEF x, u

-----------------------------------------------------------------------------
(* The rows, the marks, and the writes the marks count.                    *)

\* Core's lists, as the page reads them.
ListOK(c) == c.todos \in [Todos -> Row] /\ c.items \in Seq(Ids)
GotOK(reads) == \A k \in DOMAIN reads : reads[k].got # NoList => ListOK(reads[k].got)

MarkTypes(fl, ti, mo) ==
    /\ fl \in [Todos -> [phase : {"none", "settling", "saving"}, to : {"open", "done"}]]
    /\ ti \in [Ids -> [sending : Nat, to : {"open", "done"}]]
    /\ mo = [sending |-> mo.sending, ids |-> mo.ids]

\* The writes on a line, and the mark that counts them.
LineOK(line, c, fl, ti, mo, ad) ==
    /\ line \in Todos => /\ c \in Seq({"open", "done"}) /\ Len(c) <= 1
                         /\ fl[line].phase = "saving" <=> c # <<>>
    /\ line \in Ids => ti[line].sending = Len(c)
    /\ line = "moves" => /\ mo.sending = Len(c)
                         /\ \A k \in 1..Len(c) : c[k].item \in Ids /\ c[k].to \in Nat \ {0}
    /\ line = "adds" => ad = c /\ c \in Seq(Drafts) /\ IsInjective(c)

Told(fl, ti, mo, ad, n) == \A line \in Lines : LineOK(line, n.chain[line], fl, ti, mo, ad)

\* An item is added once: what the user may add still is nowhere, and of what
\* is being added Core's list has at most the first, once Core has said so.
Fresh(items, ad, at, drafts) ==
    /\ drafts \subseteq Drafts
    /\ \A d \in drafts : ~Contains(items, d) /\ ~Contains(ad, d)
    /\ \A k \in 1..Len(ad) : Contains(items, ad[k]) => k = 1 /\ at \in {"ok", "reading"}

LeftShape(le) == le = [clicks |-> le.clicks, twists |-> le.twists, drafts |-> le.drafts]

TInv ==
    /\ KInv
    /\ ListOK(core) /\ ListOK(page) /\ GotOK(net.reads)
    /\ IsInjective(core.items)
    /\ MarkTypes(flips, ticks, moved)
    /\ Told(flips, ticks, moved, adds, net)
    /\ Fresh(core.items, adds, net.at["adds"], left.drafts)
    /\ LeftShape(left)

LEMMA TInvTypeOK ==
    ASSUME TInv
    PROVE  TypeOK
<1>1. /\ {"moves", "adds"} \cup Todos \cup Ids \subseteq Lines
  BY DEF Lines
<1>2. {ToSet(core.items), ToSet(page.items)} \subseteq SUBSET Ids
  BY DEF TInv, ListOK, ToSet
<1>3. \A line \in Lines : LineOK(line, net.chain[line], flips, ticks, moved, adds)
  BY DEF TInv, Told
<1>4. \A t \in Todos : flips[t].phase = "saving" <=> net.chain[t] # <<>>
  BY <1>1, <1>3 DEF LineOK
<1>5. \A i \in Ids : ticks[i].sending = Len(net.chain[i])
  BY <1>1, <1>3 DEF LineOK
<1>6. moved.sending = Len(net.chain["moves"]) /\ adds = net.chain["adds"]
  BY <1>1, <1>3 DEF LineOK
<1>7. \A line \in Lines : net.at[line] = "idle" <=> net.chain[line] = <<>>
  BY DEF TInv, KInv, Lined, LinesShape
<1> QED
  BY <1>2, <1>4, <1>5, <1>6, <1>7 DEF TInv, ListOK, TypeOK

\* No name is a line's and another's.
LEMMA Apart ==
    /\ \A t \in Todos : t \in Lines /\ t \notin Ids \cup {"moves", "adds", "load"} \cup Stores
    /\ \A i \in Ids : i \in Lines /\ i \notin {"moves", "adds", "load"} \cup Stores
    /\ {"moves", "adds"} \subseteq Lines /\ {"moves", "adds", "load"} \cap Stores = {}
    /\ "load" \notin Lines /\ Stores \subseteq Lines
BY PanelAssumption DEF Ids, Lines, Stores

LEMMA GotLonger ==
    ASSUME NEW r, NEW s, ReadsShape(r), ReadsShape(s), Longer(r, s), GotOK(r)
    PROVE  GotOK(s)
<1>1. DOMAIN r = 1..Len(r) /\ DOMAIN s = 1..Len(s) /\ Len(r) \in Nat /\ Len(s) \in Nat
  BY DEF ReadsShape
<1> SUFFICES ASSUME NEW k \in 1..Len(s), s[k].got # NoList
             PROVE  ListOK(s[k].got)
  BY <1>1 DEF GotOK
<1>2. k \in 1..Len(r) /\ s[k] = r[k]
  BY <1>1 DEF Longer
<1> QED
  BY <1>1, <1>2 DEF GotOK

\* The writes that marks count are as they were.
LEMMA RestTyped ==
    ASSUME TInv, KInv', UNCHANGED <<core, flips, ticks, moved, adds>>, ListOK(page'),
           GotOK(net'.reads), LeftShape(left'), left'.drafts = left.drafts,
           \A line \in Lines \ Stores : net'.chain[line] = net.chain[line],
           net'.at["adds"] = net.at["adds"] \/ net'.at["adds"] \in {"ok", "reading"}
    PROVE  TInv'
<1>1. Told(flips, ticks, moved, adds, net')
  <2> SUFFICES ASSUME NEW line \in Lines
               PROVE  LineOK(line, net'.chain[line], flips, ticks, moved, adds)
    BY DEF Told
  <2>1. CASE line \in Stores
    BY <2>1, Apart DEF LineOK
  <2>2. CASE line \notin Stores
    BY <2>2 DEF TInv, Told
  <2> QED
    BY <2>1, <2>2
<1>2. Fresh(core.items, adds, net'.at["adds"], left'.drafts)
  BY DEF TInv, Fresh
<1> QED
  BY <1>1, <1>2 DEF TInv

\* One line and its mark changed.
OthersKept(line) ==
    /\ \A t \in Todos \ {line} : flips'[t] = flips[t]
    /\ \A i \in Ids \ {line} : ticks'[i] = ticks[i]
    /\ line # "moves" => moved' = moved
    /\ line # "adds" => adds' = adds

LEMMA OneLineTold ==
    ASSUME TInv, NEW line \in Lines, Only(net, net', line), OthersKept(line),
           LineOK(line, net'.chain[line], flips', ticks', moved', adds')
    PROVE  Told(flips', ticks', moved', adds', net')
<1> SUFFICES ASSUME NEW l \in Lines \ {line}
             PROVE  LineOK(l, net'.chain[l], flips', ticks', moved', adds')
  BY DEF Told
<1>1. LineOK(l, net.chain[l], flips, ticks, moved, adds) /\ net'.chain[l] = net.chain[l]
  BY DEF TInv, Told, Only
<1>2. /\ l \in Todos => flips'[l] = flips[l]
      /\ l \in Ids => ticks'[l] = ticks[l]
      /\ l = "moves" => moved' = moved
      /\ l = "adds" => adds' = adds
  BY DEF OthersKept
<1> QED
  BY <1>1, <1>2 DEF LineOK

\* What is taken off a line, and what becomes of its mark.
Done(line) ==
    /\ flips' = IF line \in Todos THEN [flips EXCEPT ![line] = NoFlip] ELSE flips
    /\ ticks' = IF line \notin Ids THEN ticks
                ELSE IF ticks[line].sending > 1
                THEN [ticks EXCEPT ![line].sending = @ - 1]
                ELSE [ticks EXCEPT ![line] = NoTick]
    /\ moved' = IF line # "moves" THEN moved
                ELSE IF moved.sending > 1 THEN [moved EXCEPT !.sending = @ - 1]
                ELSE NoMove
    /\ adds' = IF line = "adds" THEN Without(adds, Head(net.chain[line])) ELSE adds

LEMMA DoneTyped ==
    ASSUME TInv, KInv', core' = core, ListOK(page'), GotOK(net'.reads),
           LeftShape(left'), left'.drafts = left.drafts,
           NEW line \in Lines, Only(net, net', line), net.chain[line] # <<>>,
           line \notin Stores => net'.chain[line] = Tail(net.chain[line]),
           Done(line)
    PROVE  TInv'
<1> DEFINE c == net.chain[line]
           d == net'.chain[line]
<1>1. /\ LineOK(line, c, flips, ticks, moved, adds) /\ MarkTypes(flips, ticks, moved)
      /\ Fresh(core.items, adds, net.at["adds"], left.drafts)
  BY DEF TInv, Told
<1>2. PICK G : c \in Seq(G)
  BY DEF TInv, KInv, Lined, LinesShape
<1>3. /\ Len(c) \in Nat /\ Len(c) >= 1
      /\ line \notin Stores => Len(d) = Len(c) - 1 /\ (Len(c) <= 1 <=> d = <<>>)
  <2>1. Len(c) \in Nat /\ Len(c) >= 1 /\ Tail(c) \in Seq(G) /\ Len(Tail(c)) = Len(c) - 1
    BY <1>2
  <2>2. \A e \in Seq(G) : Len(e) = 0 <=> e = <<>>
    OBVIOUS
  <2>3. Tail(c) = <<>> <=> Len(c) - 1 = 0
    BY <2>1, <2>2
  <2>4. Len(c) <= 1 <=> Tail(c) = <<>>
    <3> DEFINE l == Len(c)
    <3>1. l \in Nat /\ l >= 1 /\ (Tail(c) = <<>> <=> l - 1 = 0)
      BY <2>1, <2>3
    <3> HIDE DEF l
    <3>2. l <= 1 <=> Tail(c) = <<>>
      BY <3>1
    <3> QED
      BY <3>2 DEF l
  <2> HIDE DEF c, d
  <2> QED
    BY <2>1, <2>4 DEF c, d
<1>4. CASE line \in Stores
  <2>1. UNCHANGED <<flips, ticks, moved, adds>>
    BY <1>4, Apart DEF Done
  <2>2. \A l \in Lines \ Stores : net'.chain[l] = net.chain[l] /\ net'.at[l] = net.at[l]
    BY <1>4 DEF Only
  <2>3. "adds" \in Lines \ Stores
    BY Apart
  <2> QED
    BY <2>1, <2>2, <2>3, RestTyped
<1>5. CASE line \in Todos
  <2>1. line \notin Ids \cup {"moves", "adds", "load"} \cup Stores
    BY <1>5, Apart
  <2>2. /\ flips' = [flips EXCEPT ![line] = NoFlip]
        /\ UNCHANGED <<ticks, moved, adds>>
    BY <1>5, <2>1 DEF Done
  <2>3. d = <<>>
    BY <1>1, <1>3, <1>5, <2>1 DEF LineOK
  <2>4. OthersKept(line) /\ MarkTypes(flips', ticks', moved') /\ flips'[line].phase = "none"
    BY <1>1, <1>5, <2>1, <2>2 DEF OthersKept, MarkTypes, NoFlip
  <2>5. d \in Seq({"open", "done"}) /\ Len(d) <= 1
    BY <2>3
  <2>6. LineOK(line, d, flips', ticks', moved', adds')
    BY <2>1, <2>3, <2>4, <2>5 DEF LineOK
  <2>7. Told(flips', ticks', moved', adds', net')
    BY <2>4, <2>6, OneLineTold
  <2>8. net'.at["adds"] = net.at["adds"]
    BY <2>1, Apart DEF Only
  <2> QED
    BY <1>1, <2>2, <2>4, <2>7, <2>8 DEF TInv
<1>6. CASE line \in Ids
  <2>1. line \notin Todos \cup {"moves", "adds", "load"} \cup Stores
    BY <1>6, Apart
  <2>2. /\ ticks' = IF ticks[line].sending > 1
                    THEN [ticks EXCEPT ![line].sending = ticks[line].sending - 1]
                    ELSE [ticks EXCEPT ![line] = NoTick]
        /\ UNCHANGED <<flips, moved, adds>>
    BY <1>6, <2>1 DEF Done
  <2>3. ticks[line].sending = Len(c) /\ Len(d) = Len(c) - 1
    BY <1>1, <1>3, <1>6, <2>1 DEF LineOK
  <2>4. /\ ticks'[line].sending = Len(d)
        /\ ticks' \in [Ids -> [sending : Nat, to : {"open", "done"}]]
        /\ \A i \in Ids \ {line} : ticks'[i] = ticks[i]
    <3>1. ticks \in [Ids -> [sending : Nat, to : {"open", "done"}]]
      BY <1>1 DEF MarkTypes
    <3>2. CASE ticks[line].sending > 1
      <4>1. ticks[line].sending - 1 \in Nat
        BY <1>3, <2>3, <3>2
      <4>2. ticks' = [ticks EXCEPT ![line].sending = ticks[line].sending - 1]
        BY <2>2, <3>2
      <4> QED
        BY <1>6, <2>3, <3>1, <4>1, <4>2
    <3>3. CASE ~(ticks[line].sending > 1)
      <4>1. ticks' = [ticks EXCEPT ![line] = NoTick]
        BY <2>2, <3>3
      <4>2. Len(d) = 0
        <5> HIDE DEF c, d
        <5> QED
          BY <1>3, <2>3, <3>3
      <4> QED
        BY <1>6, <3>1, <4>1, <4>2 DEF NoTick
    <3> QED
      BY <3>2, <3>3
  <2>5. OthersKept(line) /\ MarkTypes(flips', ticks', moved')
    BY <1>1, <2>1, <2>2, <2>4 DEF OthersKept, MarkTypes
  <2>6. LineOK(line, d, flips', ticks', moved', adds')
    BY <2>1, <2>4 DEF LineOK
  <2>7. Told(flips', ticks', moved', adds', net')
    BY <2>5, <2>6, OneLineTold
  <2>8. net'.at["adds"] = net.at["adds"]
    BY <2>1, Apart DEF Only
  <2> QED
    BY <1>1, <2>2, <2>5, <2>7, <2>8 DEF TInv
<1>7. CASE line = "moves"
  <2>1. line \notin Todos \cup Ids \cup {"adds", "load"} \cup Stores
    BY <1>7, Apart
  <2>2. /\ moved' = IF moved.sending > 1 THEN [moved EXCEPT !.sending = moved.sending - 1] ELSE NoMove
        /\ UNCHANGED <<flips, ticks, adds>>
    BY <1>7, <2>1 DEF Done
  <2>3. moved.sending = Len(c) /\ Len(d) = Len(c) - 1 /\ d = Tail(c)
    BY <1>1, <1>3, <1>7, <2>1 DEF LineOK
  <2>4. moved'.sending = Len(d) /\ MarkTypes(flips', ticks', moved')
    <3>1. moved = [sending |-> moved.sending, ids |-> moved.ids]
      BY <1>1 DEF MarkTypes
    <3>2. CASE moved.sending > 1
      <4>1. moved' = [sending |-> moved.sending - 1, ids |-> moved.ids]
        BY <2>2, <3>1, <3>2
      <4> QED
        BY <1>1, <2>2, <2>3, <4>1 DEF MarkTypes
    <3>3. CASE ~(moved.sending > 1)
      <4>1. moved' = NoMove
        BY <2>2, <3>3
      <4>2. Len(d) = 0
        <5>1. Len(c) \in Nat /\ Len(c) >= 1 /\ ~(Len(c) > 1) /\ Len(d) = Len(c) - 1
          BY <1>3, <2>3, <3>3
        <5>2. \A a \in Nat : \A b : a >= 1 /\ ~(a > 1) /\ b = a - 1 => b = 0
          OBVIOUS
        <5> HIDE DEF c, d
        <5> QED
          BY <5>1, <5>2, Zenon
      <4>3. moved'.sending = 0 /\ moved' = [sending |-> moved'.sending, ids |-> moved'.ids]
        BY <4>1 DEF NoMove
      <4> QED
        BY <1>1, <2>2, <4>2, <4>3 DEF MarkTypes
    <3> QED
      BY <3>2, <3>3
  <2>5. \A k \in 1..Len(d) : d[k].item \in Ids /\ d[k].to \in Nat \ {0}
    <3>1. \A k \in 1..Len(c) - 1 : k + 1 \in 1..Len(c) /\ d[k] = c[k + 1]
      BY <1>2, <2>3, FirstTaken
    <3>2. \A k \in 1..Len(c) : c[k].item \in Ids /\ c[k].to \in Nat \ {0}
      BY <1>1, <1>7 DEF LineOK
    <3> HIDE DEF c, d
    <3> QED
      BY <2>3, <3>1, <3>2
  <2>6. LineOK(line, d, flips', ticks', moved', adds')
    BY <2>1, <2>4, <2>5 DEF LineOK
  <2>7. OthersKept(line)
    BY <1>7, <2>2 DEF OthersKept
  <2>8. Told(flips', ticks', moved', adds', net')
    BY <2>6, <2>7, OneLineTold
  <2>9. net'.at["adds"] = net.at["adds"]
    BY <2>1, Apart DEF Only
  <2> QED
    BY <1>1, <2>2, <2>4, <2>8, <2>9 DEF TInv
<1>8. CASE line = "adds"
  <2>1. line \notin Todos \cup Ids \cup {"moves", "load"} \cup Stores
    BY <1>8, Apart
  <2>2. adds' = Without(adds, Head(c)) /\ UNCHANGED <<flips, ticks, moved>>
    BY <1>8, <2>1 DEF Done
  <2>3. adds = c /\ c \in Seq(Drafts) /\ IsInjective(c) /\ d = Tail(c)
    BY <1>1, <1>8, <2>1 DEF LineOK
  <2> HIDE DEF c, d
  <2>4. /\ d \in Seq(Drafts) /\ IsInjective(d) /\ adds' = d /\ Len(d) = Len(c) - 1
        /\ \A k \in 1..Len(c) - 1 : k + 1 \in 1..Len(c) /\ d[k] = c[k + 1]
    BY <2>2, <2>3, FirstTaken DEF c
  <2>5. LineOK(line, d, flips', ticks', moved', adds')
    BY <2>1, <2>4 DEF LineOK
  <2>6. OthersKept(line)
    BY <1>8, <2>2 DEF OthersKept
  <2>7. Told(flips', ticks', moved', adds', net')
    BY <2>5, <2>6, OneLineTold DEF d
  <2>8. ASSUME NEW x, Contains(d, x) PROVE Contains(c, x)
    BY <2>4, <2>8 DEF Contains
  <2>9. ASSUME NEW k \in 1..Len(d) PROVE ~Contains(core.items, d[k])
    <3>1. k + 1 \in 1..Len(c) /\ d[k] = c[k + 1] /\ k + 1 # 1
      BY <1>3, <2>4
    <3> QED
      BY <1>1, <2>3, <3>1 DEF Fresh
  <2>10. Fresh(core.items, adds', net'.at["adds"], left'.drafts)
    BY <1>1, <2>3, <2>4, <2>8, <2>9 DEF Fresh
  <2> QED
    BY <1>1, <2>2, <2>7, <2>10 DEF TInv
<1> QED
  BY <1>4, <1>5, <1>6, <1>7, <1>8 DEF Lines

-----------------------------------------------------------------------------
(* Every step keeps the rows and the marks.                                *)

LEMMA InitTyped ==
    ASSUME Init
    PROVE  TInv
<1>1. SetToSeq(Items) \in Seq(Items) /\ IsInjective(SetToSeq(Items))
  <2>1. PICK n \in Nat : ExistsBijection(1..n, Items)
    BY PanelAssumption, FS_NatBijection
  <2>2. Cardinality(Items) = n
    BY <2>1, FS_CountingElements
  <2>3. PICK f : f \in Bijection(1..n, Items)
    BY <2>1 DEF ExistsBijection
  <2>4. f \in [1..n -> Items] /\ IsInjective(f)
    BY <2>3 DEF Bijection, Injection, IsInjective
  <2>5. SetToSeq(Items) \in [1..n -> Items] /\ IsInjective(SetToSeq(Items))
    BY <2>2, <2>4 DEF SetToSeq
  <2> QED
    BY <2>1, <2>5
<1>2. /\ core = [todos |-> [t \in Todos |-> "open"], items |-> SetToSeq(Items),
                 ticked |-> {}, messages |-> Messages]
      /\ page = core
  BY DEF Init
<1>3. core.items \in Seq(Items) /\ IsInjective(core.items) /\ core.todos \in [Todos -> Row]
  BY <1>1, <1>2 DEF Row
<1>4. core.items \in Seq(Ids)
  BY <1>3, SeqMonotonic DEF Ids
<1>5. GotOK(net.reads)
  BY DEF Init, GotOK
<1>6. MarkTypes(flips, ticks, moved) /\ LeftShape(left)
  BY DEF Init, MarkTypes, LeftShape, NoFlip, NoTick, NoMove
<1>7. Told(flips, ticks, moved, adds, net)
  <2>1. \A S : <<>> \in Seq(S)
    OBVIOUS
  <2>2. Len(<<>>) = 0 /\ IsInjective(<<>>) /\ 1..Len(<<>>) = {}
    BY DEF IsInjective
  <2>3. \A line \in Lines : net.chain[line] = <<>>
    BY DEF Init
  <2>4. /\ \A t \in Todos : flips[t].phase = "none"
        /\ \A i \in Ids : ticks[i].sending = 0
        /\ moved.sending = 0 /\ adds = <<>>
    BY DEF Init, NoFlip, NoTick, NoMove
  <2> SUFFICES ASSUME NEW line \in Lines
               PROVE  LineOK(line, <<>>, flips, ticks, moved, adds)
    BY <2>3 DEF Told
  <2> QED
    BY <2>1, <2>2, <2>4 DEF LineOK
<1>8. Fresh(core.items, adds, net.at["adds"], left.drafts)
  <2>1. adds = <<>> /\ left.drafts = Drafts /\ 1..Len(<<>>) = {}
    BY DEF Init
  <2>2. \A d \in Drafts : ~Contains(core.items, d)
    BY <1>3, PanelAssumption DEF Contains
  <2> QED
    BY <2>1, <2>2 DEF Fresh, Contains
<1> QED
  BY <1>2, <1>3, <1>4, <1>5, <1>6, <1>7, <1>8, InitKeeps DEF TInv, ListOK

LEMMA GotFollows ==
    ASSUME TInv, NEW m, Follows(net, m)
    PROVE  GotOK(m.reads)
BY GotLonger DEF Follows, TInv, KInv, IInv, NetShape

\* One more write on a line whose writes a mark counts.
LEMMA QueueTyped ==
    ASSUME TInv, NEW line \in Lines \ Stores, NEW w, net' = Queue(net, line, w)
    PROVE  /\ GotOK(net'.reads) /\ Only(net, net', line)
           /\ net'.chain[line] = Append(net.chain[line], w)
           /\ \E G : net.chain[line] \in Seq(G)
           /\ net.chain[line] # <<>> => net'.at[line] = net.at[line]
<1>1. Lined(net) /\ Batched(net) /\ NetShape(net)
  BY DEF TInv, KInv, Lined
<1>2. line # "message"
  BY DEF Stores
<1>3. GotOK(net'.reads)
  BY <1>1, <1>2, QueueFollows, GotFollows
<1>4. Only(net, net', line) /\ net'.chain[line] = Append(net.chain[line], w)
  BY <1>1, QueueGood
<1>5. ASSUME net.chain[line] # <<>> PROVE net'.at[line] = net.at[line]
  <2>1. net' = WriteChain(net, line, Append(net.chain[line], w))
    BY <1>5 DEF Queue, WriteChain
  <2> QED
    BY <1>1, <2>1, ChainWritten DEF NetShape
<1> QED
  BY <1>1, <1>3, <1>4, <1>5 DEF Lined, LinesShape

LEMMA TickTyped ==
    ASSUME TInv, KInv', NEW i \in Ids, Tick(i)
    PROVE  TInv'
<1>1. i \in Lines \ Stores /\ i \notin Todos \cup {"moves", "adds"}
  BY Apart
<1>2. PICK to : /\ to \in {"open", "done"} /\ net' = Queue(net, i, to)
                /\ ticks' = [ticks EXCEPT ![i] = [sending |-> @.sending + 1, to |-> to]]
  BY DEF Tick
<1>3. /\ GotOK(net'.reads) /\ Only(net, net', i)
      /\ net'.chain[i] = Append(net.chain[i], to)
      /\ \E G : net.chain[i] \in Seq(G)
  BY <1>1, <1>2, QueueTyped
<1>4. Len(net'.chain[i]) = Len(net.chain[i]) + 1 /\ Len(net.chain[i]) \in Nat
  <2>1. PICK G : net.chain[i] \in Seq(G)
    BY <1>3
  <2> DEFINE c == net.chain[i]
  <2>2. c \in Seq(G)
    BY <2>1
  <2> HIDE DEF c
  <2>3. Len(Append(c, to)) = Len(c) + 1 /\ Len(c) \in Nat
    BY <2>2
  <2> QED
    BY <1>3, <2>3 DEF c
<1>5. /\ UNCHANGED <<core, page, flips, moved, adds>>
      /\ LeftShape(left') /\ left'.drafts = left.drafts
  BY DEF Tick, UserRest, Click, TInv, LeftShape
<1>6. MarkTypes(flips, ticks, moved) /\ LineOK(i, net.chain[i], flips, ticks, moved, adds)
  BY <1>1 DEF TInv, Told
<1>7. /\ ticks' \in [Ids -> [sending : Nat, to : {"open", "done"}]]
      /\ ticks'[i].sending = Len(net'.chain[i])
      /\ \A j \in Ids \ {i} : ticks'[j] = ticks[j]
  <2>1. ticks[i].sending = Len(net.chain[i])
    BY <1>6 DEF LineOK
  <2>2. ticks \in [Ids -> [sending : Nat, to : {"open", "done"}]]
    BY <1>6 DEF MarkTypes
  <2> QED
    BY <1>2, <1>4, <2>1, <2>2
<1>8. MarkTypes(flips', ticks', moved') /\ OthersKept(i)
  BY <1>5, <1>6, <1>7 DEF MarkTypes, OthersKept
<1>9. LineOK(i, net'.chain[i], flips', ticks', moved', adds')
  BY <1>1, <1>7 DEF LineOK
<1>10. Told(flips', ticks', moved', adds', net')
  BY <1>1, <1>3, <1>8, <1>9, OneLineTold
<1>11. net'.at["adds"] = net.at["adds"]
  BY <1>1, <1>3, Apart DEF Only
<1> QED
  BY <1>3, <1>5, <1>8, <1>10, <1>11 DEF TInv

\* The place an item is dropped at is one or later.
LEMMA DroppedSomewhere ==
    ASSUME NEW all, NEW i, NEW k
    PROVE  DroppedAt(all, i, k).to \in Nat \ {0}
<1> DEFINE Seen(j) == ~Deleting("item", j)
           shown == Without(SelectSeq(all, Seen), i)
           rest  == Without(all, i)
           into  == IF k = 1 THEN 0
                    ELSE IF Contains(rest, shown[k - 1]) THEN Place(rest, shown[k - 1]) ELSE 0
<1>1. \A x : Contains(rest, x) => Place(rest, x) \in Nat
  <2> HIDE DEF rest
  <2> TAKE x
  <2> HAVE Contains(rest, x)
  <2>1. \E j \in 1..Len(rest) : rest[j] = x
    BY DEF Contains
  <2>2. Place(rest, x) \in 1..Len(rest)
    BY <2>1 DEF Place
  <2> QED
    BY <2>2
<1>2. into \in Nat
  <2> HIDE DEF rest, shown
  <2> QED
    BY <1>1
<1>3. DroppedAt(all, i, k).to = into + 1
  BY DEF DroppedAt
<1> HIDE DEF into
<1> QED
  BY <1>2, <1>3

LEMMA MoveTyped ==
    ASSUME TInv, KInv', NEW i \in Ids, NEW k, Move(i, k)
    PROVE  TInv'
<1> DEFINE line == "moves"
           move == DroppedAt(Ordered, i, k)
           w == [item |-> i, to |-> move.to, of |-> ToSet(Ordered)]
           c == net.chain[line]
           d == net'.chain[line]
<1>1. line \in Lines \ Stores /\ line \notin Todos \cup Ids \cup {"adds"}
  BY Apart
<1>2. net' = Queue(net, line, w) /\ moved' = [ids |-> move.order, sending |-> moved.sending + 1]
  BY DEF Move
<1>3. w.item \in Ids /\ w.to \in Nat \ {0}
  BY DroppedSomewhere
<1> HIDE DEF move, w
<1>4. /\ GotOK(net'.reads) /\ Only(net, net', line) /\ d = Append(c, w)
      /\ \E G : c \in Seq(G)
  BY <1>1, <1>2, QueueTyped
<1>5. /\ UNCHANGED <<core, page, flips, ticks, adds>>
      /\ LeftShape(left') /\ left'.drafts = left.drafts
  BY DEF Move, UserRest, Click, TInv, LeftShape
<1>6. /\ MarkTypes(flips, ticks, moved)
      /\ moved.sending = Len(c)
      /\ \A j \in 1..Len(c) : c[j].item \in Ids /\ c[j].to \in Nat \ {0}
  BY <1>1 DEF TInv, Told, LineOK
<1> HIDE DEF c, d
<1>7. /\ Len(d) = Len(c) + 1
      /\ \A j \in 1..Len(d) : d[j].item \in Ids /\ d[j].to \in Nat \ {0}
  <2>1. PICK G : c \in Seq(G)
    BY <1>4
  <2>2. /\ Len(d) = Len(c) + 1 /\ Len(c) \in Nat /\ d[Len(c) + 1] = w
        /\ \A j \in 1..Len(c) : d[j] = c[j]
    BY <1>4, <2>1
  <2>3. \A j \in 1..Len(c) + 1 : j \in 1..Len(c) \/ j = Len(c) + 1
    BY <2>2
  <2> QED
    BY <1>3, <1>6, <2>2, <2>3
<1>8. moved'.sending = Len(d) /\ moved' = [sending |-> moved'.sending, ids |-> moved'.ids]
  BY <1>2, <1>6, <1>7
<1>9. MarkTypes(flips', ticks', moved') /\ OthersKept(line)
  BY <1>5, <1>6, <1>8 DEF MarkTypes, OthersKept
<1>10. LineOK(line, d, flips', ticks', moved', adds')
  BY <1>1, <1>7, <1>8 DEF LineOK
<1>11. Told(flips', ticks', moved', adds', net')
  BY <1>1, <1>4, <1>9, <1>10, OneLineTold DEF d
<1>12. net'.at["adds"] = net.at["adds"]
  BY <1>1, <1>4, Apart DEF Only
<1> QED
  BY <1>4, <1>5, <1>9, <1>11, <1>12 DEF TInv

LEMMA AddTyped ==
    ASSUME TInv, KInv', NEW d \in Drafts, Add(d)
    PROVE  TInv'
<1> DEFINE line == "adds"
           c == net.chain[line]
           e == net'.chain[line]
<1>1. line \in Lines \ Stores /\ line \notin Todos \cup Ids \cup {"moves"}
  BY Apart
<1>2. /\ net' = Queue(net, line, d) /\ adds' = Append(adds, d) /\ d \in left.drafts
      /\ left' = [left EXCEPT !.clicks = @ - 1, !.drafts = @ \ {d}]
      /\ UNCHANGED <<core, page, flips, ticks, moved>>
  BY DEF Add, Typed, UserRest
<1>3. /\ GotOK(net'.reads) /\ Only(net, net', line) /\ e = Append(c, d)
      /\ c # <<>> => net'.at[line] = net.at[line]
  BY <1>1, <1>2, QueueTyped
<1>4. /\ MarkTypes(flips, ticks, moved) /\ LeftShape(left)
      /\ adds = c /\ c \in Seq(Drafts) /\ IsInjective(c)
      /\ Fresh(core.items, adds, net.at[line], left.drafts)
  BY <1>1 DEF TInv, Told, LineOK
<1>5. LeftShape(left') /\ left'.drafts = left.drafts \ {d}
  <2>1. left = [clicks |-> left.clicks, twists |-> left.twists, drafts |-> left.drafts]
    BY <1>4 DEF LeftShape
  <2>2. left' = [clicks |-> left.clicks - 1, twists |-> left.twists, drafts |-> left.drafts \ {d}]
    BY <1>2, <2>1
  <2> QED
    BY <2>2 DEF LeftShape
<1> HIDE DEF c, e
<1>6. ~Contains(core.items, d) /\ ~Contains(c, d)
  BY <1>2, <1>4 DEF Fresh
<1>7. /\ e \in Seq(Drafts) /\ IsInjective(e) /\ adds' = e
      /\ \A x : Contains(e, x) => x = d \/ Contains(c, x)
  BY <1>2, <1>3, <1>4, <1>6, AppendedOnce
<1>8. ASSUME NEW k \in 1..Len(e), Contains(core.items, e[k])
      PROVE  k = 1 /\ net'.at[line] \in {"ok", "reading"}
  <2>1. /\ Len(e) = Len(c) + 1 /\ Len(c) \in Nat /\ e[Len(c) + 1] = d
        /\ \A j \in 1..Len(c) : e[j] = c[j]
    BY <1>3, <1>4
  <2>2. k \in 1..Len(c) /\ e[k] = c[k]
    BY <1>6, <1>8, <2>1
  <2>3. c # <<>>
    BY <2>2
  <2> QED
    BY <1>3, <1>4, <1>8, <2>2, <2>3 DEF Fresh
<1>9. Fresh(core.items, adds', net'.at[line], left'.drafts)
  BY <1>4, <1>5, <1>7, <1>8 DEF Fresh
<1>10. OthersKept(line)
  BY <1>2 DEF OthersKept
<1>11. LineOK(line, e, flips', ticks', moved', adds')
  BY <1>1, <1>7 DEF LineOK
<1>12. Told(flips', ticks', moved', adds', net')
  BY <1>1, <1>3, <1>10, <1>11, OneLineTold DEF e
<1> QED
  BY <1>2, <1>3, <1>4, <1>5, <1>9, <1>12 DEF TInv

LEMMA SettleTyped ==
    ASSUME TInv, KInv', NEW t \in Todos, Settle(t)
    PROVE  TInv'
<1> DEFINE c == net.chain[t]
           d == net'.chain[t]
<1>1. t \in Lines \ Stores /\ t \notin Ids \cup {"moves", "adds"}
  BY Apart
<1>2. /\ net' = Queue(net, t, flips[t].to) /\ flips' = [flips EXCEPT ![t].phase = "saving"]
      /\ flips[t].phase = "settling"
      /\ UNCHANGED <<core, page, ticks, moved, adds, left>>
  BY DEF Settle, PageRest
<1>3. /\ GotOK(net'.reads) /\ Only(net, net', t) /\ d = Append(c, flips[t].to)
  BY <1>1, <1>2, QueueTyped
<1>4. /\ MarkTypes(flips, ticks, moved) /\ LineOK(t, c, flips, ticks, moved, adds)
  BY <1>1 DEF TInv, Told
<1>5. flips[t].to \in {"open", "done"} /\ flips' \in [Todos -> [phase : {"none", "settling", "saving"}, to : {"open", "done"}]]
      /\ flips'[t].phase = "saving" /\ \A u \in Todos \ {t} : flips'[u] = flips[u]
  BY <1>2, <1>4 DEF MarkTypes
<1>6. c = <<>>
  BY <1>2, <1>4 DEF LineOK
<1>7. d \in Seq({"open", "done"}) /\ Len(d) <= 1 /\ d # <<>>
  <2> DEFINE to == flips[t].to
  <2>1. to \in {"open", "done"} /\ d = Append(<<>>, to)
    BY <1>3, <1>5, <1>6
  <2> HIDE DEF to, d
  <2> QED
    BY <2>1
<1> HIDE DEF c, d
<1>8. MarkTypes(flips', ticks', moved') /\ OthersKept(t)
  BY <1>2, <1>4, <1>5 DEF MarkTypes, OthersKept
<1>9. LineOK(t, d, flips', ticks', moved', adds')
  BY <1>1, <1>5, <1>7 DEF LineOK
<1>10. Told(flips', ticks', moved', adds', net')
  BY <1>1, <1>3, <1>8, <1>9, OneLineTold DEF d
<1>11. net'.at["adds"] = net.at["adds"]
  BY <1>1, <1>3, Apart DEF Only
<1> QED
  BY <1>2, <1>3, <1>8, <1>10, <1>11 DEF TInv

\* A click that is held, and one taken back.
LEMMA ToggleTyped ==
    ASSUME TInv, KInv', NEW t \in Todos, Toggle(t)
    PROVE  TInv'
<1>1. /\ flips[t].phase # "saving"
      /\ flips' = [flips EXCEPT ![t] =
           IF flips[t].phase = "settling" THEN NoFlip
           ELSE [phase |-> "settling", to |-> IF page.todos[t] = "done" THEN "open" ELSE "done"]]
      /\ UNCHANGED <<core, page, ticks, moved, adds, net>>
      /\ LeftShape(left') /\ left'.drafts = left.drafts
  BY DEF Toggle, UserRest, Click, TInv, LeftShape
<1>2. MarkTypes(flips, ticks, moved) /\ t \in Lines
  BY Apart DEF TInv
<1>3. /\ MarkTypes(flips', ticks', moved')
      /\ flips'[t].phase # "saving" /\ \A u \in Todos \ {t} : flips'[u] = flips[u]
  BY <1>1, <1>2 DEF MarkTypes, NoFlip
<1>4. Told(flips', ticks', moved', adds', net')
  <2>1. LineOK(t, net.chain[t], flips, ticks, moved, adds)
    BY <1>2 DEF TInv, Told
  <2>2. LineOK(t, net.chain[t], flips', ticks', moved', adds')
    BY <1>1, <1>3, <2>1 DEF LineOK
  <2>3. OthersKept(t) /\ Only(net, net', t)
    BY <1>1, <1>3 DEF OthersKept, Only
  <2> QED
    BY <1>1, <1>2, <2>2, <2>3, OneLineTold
<1> QED
  BY <1>1, <1>3, <1>4 DEF TInv

\* A step of the stores only, or one that asks for a read after an event.
LEMMA StoreTyped ==
    ASSUME TInv, KInv', UNCHANGED <<core, flips, ticks, moved, adds>>, ListOK(page'),
           LeftShape(left'), left'.drafts = left.drafts, GotOK(net'.reads),
           NEW store \in Stores \cup {"load"}, Only(net, net', store)
    PROVE  TInv'
<1>1. "adds" \in Lines \ Stores /\ "load" \notin Lines
  BY Apart
<1>2. \A line \in Lines \ Stores : net'.chain[line] = net.chain[line] /\ net'.at[line] = net.at[line]
  BY <1>1 DEF Only
<1> QED
  BY <1>1, <1>2, RestTyped

LEMMA CommitTyped ==
    ASSUME TInv, NEW n, Lined(n), Batched(n), GotOK(n.reads),
           NEW store \in Stores, NEW waiter
    PROVE  LET m == Commit(n, store, waiter)
           IN Lined(m) /\ Batched(m) /\ Only(n, m, store) /\ GotOK(m.reads)
<1> DEFINE m == Commit(n, store, waiter)
<1>1. PICK G : staged \in [Stores -> Seq(G)]
  BY DEF TInv, KInv, StagedShape
<1>2. Lined(m) /\ Batched(m) /\ Only(n, m, store)
  BY <1>1, CommitGood
<1>3. Follows(n, m)
  BY CommitFollows DEF Lined
<1> HIDE DEF m
<1>4. GotOK(m.reads)
  BY <1>2, <1>3, GotLonger DEF Follows, Lined, NetShape
<1> QED
  BY <1>2, <1>4 DEF m

LEMMA CommitsTyped ==
    ASSUME TInv, KInv',
           \/ \E s \in Sends : Submit(s) \/ FlushTodos(s)
           \/ \E store \in Stores : Close(store)
    PROVE  TInv'
<1>1. /\ Lined(net) /\ Batched(net) /\ GotOK(net.reads) /\ ListOK(page)
      /\ {"message", "todo", "item"} \subseteq Stores
  BY DEF TInv, KInv, Stores
<1>2. ASSUME NEW s \in Sends, Submit(s) PROVE TInv'
  <2>1. net' = Commit(net, "message", {s})
    BY <1>2 DEF Submit
  <2>2. Only(net, net', "message") /\ GotOK(net'.reads)
    BY <1>1, <2>1, CommitTyped
  <2>3. /\ UNCHANGED <<core, page, flips, ticks, moved, adds>>
        /\ LeftShape(left') /\ left'.drafts = left.drafts
    BY <1>2 DEF Submit, Twist, TInv, LeftShape, marks
  <2> QED
    BY <1>1, <2>2, <2>3, StoreTyped
<1>3. ASSUME NEW store \in Stores, Close(store) PROVE TInv'
  <2>1. net' = Commit(net, store, {}) /\ UNCHANGED <<core, page, flips, ticks, moved, adds, left>>
    BY <1>3 DEF Close, PageRest, marks
  <2>2. Only(net, net', store) /\ GotOK(net'.reads)
    BY <1>1, <2>1, CommitTyped
  <2> QED
    BY <1>1, <2>1, <2>2, StoreTyped DEF TInv
<1>4. ASSUME NEW s \in Sends, FlushTodos(s) PROVE TInv'
  <2> DEFINE n == Commit(net, "todo", {s})
  <2>1. net' = Commit(n, "item", {s}) /\ UNCHANGED <<core, page, flips, ticks, moved, adds, left>>
    BY <1>4 DEF FlushTodos, marks
  <2>2. Lined(n) /\ Batched(n) /\ Only(net, n, "todo") /\ GotOK(n.reads)
    BY <1>1, CommitTyped
  <2> HIDE DEF n
  <2>3. Only(n, net', "item") /\ GotOK(net'.reads)
    BY <1>1, <2>1, <2>2, CommitTyped
  <2>4. "adds" \in Lines \ Stores
    BY Apart
  <2>5. \A line \in Lines \ Stores : net'.chain[line] = net.chain[line] /\ net'.at[line] = net.at[line]
    BY <1>1, <2>2, <2>3 DEF Only
  <2> QED
    BY <1>1, <2>1, <2>3, <2>4, <2>5, RestTyped DEF TInv
<1> QED
  BY <1>2, <1>3, <1>4

\* Steps that send and read nothing.
LEMMA NetTyped ==
    ASSUME TInv, KInv', net' = net,
           UNCHANGED <<core, page, flips, ticks, moved, adds>>,
           LeftShape(left'), left'.drafts = left.drafts
    PROVE  TInv'
BY RestTyped DEF TInv

LEMMA UserTyped ==
    ASSUME TInv, KInv', User
    PROVE  TInv'
<1>1. ASSUME NEW store, NEW x, Stage(store, x) PROVE TInv'
  <2>1. /\ UNCHANGED <<core, page, flips, ticks, moved, adds, net>>
        /\ LeftShape(left') /\ left'.drafts = left.drafts
    BY <1>1 DEF Stage, Click, TInv, LeftShape, marks
  <2> QED
    BY <2>1, NetTyped
<1>2. ASSUME NEW store \in Stores, Undo(store) PROVE TInv'
  <2>1. /\ UNCHANGED <<core, page, flips, ticks, moved, adds, net>>
        /\ LeftShape(left') /\ left'.drafts = left.drafts
    BY <1>2 DEF Undo, UserRest, Click, TInv, LeftShape, marks
  <2> QED
    BY <2>1, NetTyped
<1>3. \/ \E t \in Todos : Toggle(t)
      \/ \E i \in Ids : Tick(i)
      \/ \E i \in Ids : \E k \in 1..Cardinality(Ids) : Move(i, k)
      \/ \E d \in Drafts : Add(d)
      \/ \E store \in Stores : Undo(store)
      \/ \E store, x : Stage(store, x)
  BY DEF User, DeleteTodo, DeleteItem, DeleteMessage
<1> QED
  BY <1>1, <1>2, <1>3, ToggleTyped, TickTyped, MoveTyped, AddTyped

LEMMA LoadTyped ==
    ASSUME TInv, KInv', Load
    PROVE  TInv'
<1>1. net' = Reading(net, "load") /\ UNCHANGED <<core, page, flips, ticks, moved, adds, left>>
  BY DEF Load, PageRest, marks
<1>2. "load" \in Readers /\ Lined(net) /\ NetShape(net)
  BY DEF Readers, TInv, KInv, Lined
<1>3. Only(net, net', "load") /\ GotOK(net'.reads)
  BY <1>1, <1>2, ReadingLined, ReadingFollows, GotFollows
<1> QED
  BY <1>1, <1>3, StoreTyped DEF TInv

LEMMA ServeReadTyped ==
    ASSUME TInv, KInv', NEW k \in DOMAIN net.reads, ServeRead(k)
    PROVE  TInv'
<1> DEFINE r == net.reads
           s == [r EXCEPT ![k].got = core]
<1>1. FrameShape(net) /\ ReadsShape(r)
  BY DEF TInv, KInv, Lined, NetShape
<1>2. net' = WriteReads(net, s)
  <2>1. PICK C, A, R : net \in [chain : [Lines -> C], at : [Lines -> A], reads : R]
    BY <1>1 DEF FrameShape
  <2> QED
    BY <2>1 DEF ServeRead, WriteReads
<1>3. DOMAIN s = DOMAIN r /\ s[k].got = core /\ \A j \in DOMAIN r : j # k => s[j] = r[j]
  <2>1. r[k] = [by |-> r[k].by, got |-> r[k].got, late |-> r[k].late]
    BY <1>1 DEF ReadsShape, ReadShape
  <2>2. DOMAIN s = DOMAIN r /\ s[k] = [r[k] EXCEPT !.got = core]
        /\ \A j \in DOMAIN r : j # k => s[j] = r[j]
    BY <1>1 DEF ReadsShape
  <2>3. [r[k] EXCEPT !.got = core].got = core
    BY <2>1
  <2> HIDE DEF s, r
  <2> QED
    BY <2>2, <2>3
<1> HIDE DEF s
<1>4. net'.reads = s /\ net'.chain = net.chain /\ net'.at = net.at
  BY <1>1, <1>2, ReadsWritten
<1>5. GotOK(net'.reads)
  <2> SUFFICES ASSUME NEW j \in DOMAIN r, s[j].got # NoList
               PROVE  ListOK(s[j].got)
    BY <1>3, <1>4 DEF GotOK
  <2>1. CASE j = k
    BY <1>3, <2>1 DEF TInv
  <2>2. CASE j # k
    BY <1>3, <2>2 DEF TInv, GotOK
  <2> QED
    BY <2>1, <2>2
<1>6. UNCHANGED <<core, page, flips, ticks, moved, adds, left>>
  BY DEF ServeRead, marks
<1> QED
  BY <1>4, <1>5, <1>6, RestTyped DEF TInv

\* The first write of a line is done, the next has its turn.
LEMMA GoOnTyped ==
    ASSUME TInv, NEW n, Good(net, n), GotOK(n.reads), n.chain = net.chain,
           NEW line \in Lines, NoRead(n, line), net.chain[line] # <<>>, NEW todos
    PROVE  LET m == GoOn(n, line, Tail(net.chain[line]), todos)
           IN /\ Good(n, m) /\ GotOK(m.reads) /\ Only(n, m, line)
              /\ line \notin Stores => m.chain[line] = Tail(net.chain[line])
<1> DEFINE writes == Tail(net.chain[line])
           m == GoOn(n, line, writes, todos)
<1>1. Lined(n) /\ Batched(n) /\ NetShape(n) /\ ReadsShape(n.reads)
  BY DEF Good, Lined, NetShape
<1>2. Good(n, m) /\ Only(n, m, line) /\ Skipped(line, writes, m.chain[line])
  BY <1>1, GoOnGood
<1>3. line \notin Stores => m.chain[line] = writes
  BY <1>2 DEF Skipped, Stores
<1>4. GotOK(m.reads)
  <2>1. CASE line # "message"
    <3>1. Follows(n, m)
      BY <1>1, <2>1, GoOnFollows
    <3> HIDE DEF m
    <3> QED
      BY <1>1, <3>1, GotLonger DEF Follows, NetShape
  <2>2. CASE line = "message"
    <3> DEFINE c == net.chain["message"]
    <3>1. PICK G : c \in Seq(G)
      BY <1>1 DEF NetShape, MessageShape
    <3>2. \A k \in DOMAIN c : BatchShape(c[k])
      BY <1>1 DEF NetShape, MessageShape
    <3>3. Tail(c) \in Seq(G) /\ \A k \in DOMAIN Tail(c) : k + 1 \in DOMAIN c /\ Tail(c)[k] = c[k + 1]
      <4>1. c # <<>>
        BY <2>2
      <4> HIDE DEF c
      <4>2. Tail(c) \in Seq(G) /\ DOMAIN Tail(c) = 1..Len(c) - 1 /\ DOMAIN c = 1..Len(c) /\ Len(c) \in Nat
        BY <3>1, <4>1
      <4> QED
        BY <3>1, <4>1, <4>2, FirstTaken
    <3>4. m = GoOn(n, "message", Tail(c), todos)
      BY <2>2
    <3> HIDE DEF c, m
    <3>5. \A k \in DOMAIN Tail(c) : BatchShape(Tail(c)[k])
      BY <3>2, <3>3
    <3>6. GoOn(n, "message", Tail(c), todos).reads = n.reads
      BY <1>1, <3>3, <3>5, GoOnMessage
    <3> QED
      BY <3>4, <3>6
  <2> QED
    BY <2>1, <2>2
<1> QED
  BY <1>2, <1>3, <1>4

\* What a read's return lets go of.
LEMMA LetGoTyped ==
    ASSUME TInv, KInv', NEW k \in DOMAIN net.reads, NEW after, ReadsShape(after), GotOK(after),
           Len(after) = Len(net.reads) - 1,
           \A j \in 1..Len(after) : after[j].by = net.reads[IF j < k THEN j ELSE j + 1].by,
           LetGo(WriteReads(net, after), net.reads[k].by),
           core' = core, ListOK(page'), LeftShape(left'), left'.drafts = left.drafts
    PROVE  TInv'
<1> DEFINE n == WriteReads(net, after)
           line == net.reads[k].by
<1>1. /\ Good(net, n) /\ n.chain = net.chain /\ n.at = net.at
      /\ line # "load" => /\ NoRead(n, line) /\ line \in Lines /\ net.chain[line] # <<>>
  BY ReadGone DEF TInv, KInv
<1>2. /\ net' = IF line = "load" THEN n ELSE GoOn(n, line, Tail(net.chain[line]), page'.todos)
      /\ Done(line)
  BY DEF LetGo, Rest, Done
<1>3. GotOK(n.reads)
  <2>1. n.reads = after
    BY ReadsWritten DEF TInv, KInv, Lined, NetShape
  <2> QED
    BY <2>1
<1> HIDE DEF n, line
<1>4. CASE line = "load"
  <2>1. UNCHANGED <<flips, ticks, moved, adds>>
    <3>1. line \notin Todos \cup Ids \cup {"moves", "adds"}
      BY <1>4, Apart
    <3> QED
      BY <1>2, <3>1 DEF Done
  <2>2. Only(net, net', "load")
    BY <1>1, <1>2, <1>4 DEF Only
  <2> QED
    BY <1>2, <1>3, <1>4, <2>1, <2>2, StoreTyped
<1>5. CASE line # "load"
  <2>1. /\ GotOK(net'.reads) /\ Only(n, net', line)
        /\ line \notin Stores => net'.chain[line] = Tail(net.chain[line])
    BY <1>1, <1>2, <1>3, <1>5, GoOnTyped
  <2>2. Only(net, net', line)
    BY <1>1, <2>1 DEF Only
  <2> QED
    BY <1>1, <1>2, <1>5, <2>1, <2>2, DoneTyped
<1> QED
  BY <1>4, <1>5

LEMMA LandedTyped ==
    ASSUME TInv, KInv', NEW k \in DOMAIN net.reads, Landed(k)
    PROVE  TInv'
<1> DEFINE over == Overtaken(k)
           after == RemoveAt(over, k)
           got == net.reads[k].got
<1>1. ReadsShape(net.reads) /\ DOMAIN net.reads = 1..Len(net.reads)
  BY DEF TInv, KInv, Lined, NetShape, ReadsShape
<1>2. /\ ReadsShape(over) /\ Len(over) = Len(net.reads)
      /\ \A j \in 1..Len(net.reads) : over[j].by = net.reads[j].by /\ over[j].got = net.reads[j].got
  BY <1>1, OvertakenReads
<1>3. LetGo(WriteReads(net, after), net.reads[k].by)
  <2> DEFINE n == WriteReads(net, after)
  <2>1. n = [net EXCEPT !.reads = RemoveAt(Overtaken(k), k)]
    BY DEF WriteReads
  <2> HIDE DEF n, over, after
  <2> SUFFICES LetGo(n, net.reads[k].by)
    BY DEF n
  <2> QED
    BY <2>1 DEF Landed
<1> HIDE DEF over
<1>4. /\ ReadsShape(after) /\ Len(after) = Len(over) - 1
      /\ \A j \in 1..Len(over) - 1 : after[j] = over[IF j < k THEN j ELSE j + 1]
  <2>1. k \in DOMAIN over
    BY <1>1, <1>2 DEF ReadsShape
  <2> QED
    BY <1>2, <2>1, ReadTaken
<1>5. \A j \in 1..Len(over) - 1 : (IF j < k THEN j ELSE j + 1) \in 1..Len(over)
  BY <1>1, <1>2 DEF ReadsShape
<1> HIDE DEF after
<1>6. \A j \in 1..Len(after) : after[j].by = net.reads[IF j < k THEN j ELSE j + 1].by
  BY <1>2, <1>4, <1>5
<1>7. GotOK(after)
  <2>1. DOMAIN after = 1..Len(over) - 1
    BY <1>4 DEF ReadsShape
  <2> SUFFICES ASSUME NEW j \in 1..Len(over) - 1, after[j].got # NoList
               PROVE  ListOK(after[j].got)
    BY <2>1 DEF GotOK
  <2> DEFINE i == IF j < k THEN j ELSE j + 1
  <2>2. i \in DOMAIN net.reads /\ after[j].got = net.reads[i].got
    BY <1>1, <1>2, <1>4, <1>5
  <2> HIDE DEF i
  <2> QED
    BY <2>2 DEF TInv, GotOK
<1>8. ListOK(page')
  <2>1. CASE Counts(k)
    <3>1. ListOK(got) /\ Whole(got)
      BY <1>1 DEF Landed, TInv, GotOK, ReadsShape, ReadShape
    <3>2. page' = [got EXCEPT !.messages = page.messages]
      BY <2>1 DEF Landed
    <3> HIDE DEF got
    <3>3. Lists(page') = Lists(got)
      BY <3>1, <3>2, Drawn
    <3> QED
      BY <3>1, <3>3 DEF ListOK, Lists
  <2>2. CASE ~Counts(k)
    BY <2>2 DEF Landed, TInv
  <2> QED
    BY <2>1, <2>2
<1>9. core' = core /\ LeftShape(left') /\ left'.drafts = left.drafts
  BY DEF Landed, PageRest, TInv
<1> QED
  BY <1>2, <1>3, <1>4, <1>6, <1>7, <1>8, <1>9, LetGoTyped

LEMMA ReadFailsTyped ==
    ASSUME TInv, KInv', NEW k \in DOMAIN net.reads, ReadFails(k)
    PROVE  TInv'
<1> DEFINE after == RemoveAt(net.reads, k)
           n == WriteReads(net, after)
<1>1. FrameShape(net) /\ ReadsShape(net.reads) /\ DOMAIN net.reads = 1..Len(net.reads)
      /\ Len(net.reads) \in Nat
  BY DEF TInv, KInv, Lined, NetShape, ReadsShape
<1>2. LetGo(n, net.reads[k].by)
  <2>1. PICK C, A, R : net \in [chain : [Lines -> C], at : [Lines -> A], reads : R]
    BY <1>1 DEF FrameShape
  <2>2. n = [net EXCEPT !.reads = RemoveAt(@, k)]
    BY <2>1 DEF WriteReads
  <2> HIDE DEF n
  <2> QED
    BY <2>2 DEF ReadFails
<1>3. /\ ReadsShape(after) /\ Len(after) = Len(net.reads) - 1
      /\ \A j \in 1..Len(net.reads) - 1 : after[j] = net.reads[IF j < k THEN j ELSE j + 1]
  BY <1>1, ReadTaken
<1> HIDE DEF after
<1>4. \A j \in 1..Len(after) : after[j].by = net.reads[IF j < k THEN j ELSE j + 1].by
  BY <1>3
<1>5. GotOK(after)
  <2>1. DOMAIN after = 1..Len(net.reads) - 1
    BY <1>3 DEF ReadsShape
  <2>2. \A j \in 1..Len(net.reads) - 1 : (IF j < k THEN j ELSE j + 1) \in DOMAIN net.reads
    BY <1>1
  <2> QED
    BY <1>3, <2>1, <2>2 DEF GotOK, TInv
<1>6. ListOK(page') /\ core' = core /\ LeftShape(left') /\ left'.drafts = left.drafts
  BY DEF ReadFails, Twist, TInv, LeftShape
<1> QED
  BY <1>2, <1>3, <1>4, <1>5, <1>6, LetGoTyped

LEMMA AnsweredTyped ==
    ASSUME TInv, KInv', NEW line \in Lines \ {"message"}, Answered(line)
    PROVE  TInv'
<1>1. /\ Lined(net) /\ Batched(net) /\ NetShape(net) /\ GotOK(net.reads)
      /\ line \in Readers /\ "load" \in Readers /\ line # "load"
  BY LineNames, Apart DEF TInv, KInv, Lined, Readers
<1>2. /\ net.at[line] \in {"ok", "busy", "refused"}
      /\ UNCHANGED <<core, page, left>> /\ ListOK(page) /\ LeftShape(left)
  BY DEF Answered, PageRest, TInv
<1>3. NoRead(net, line) /\ net.chain[line] # <<>>
  BY <1>1, <1>2, NotReading DEF Lined, LinesShape
<1>4. ASSUME net' = Reading(net, line), UNCHANGED <<flips, ticks, moved, adds>>
      PROVE  TInv'
  <2>1. net'.chain = net.chain /\ Only(net, net', line) /\ GotOK(net'.reads)
    BY <1>1, <1>3, <1>4, ReadingLined, ReadingFollows, GotFollows
  <2>2. net'.at["adds"] = net.at["adds"] \/ net'.at["adds"] = "reading"
    <3>1. CASE line # "adds"
      BY <2>1, <3>1, Apart DEF Only
    <3>2. CASE line = "adds"
      <4>1. PICK C, A, R : net \in [chain : [Lines -> C], at : [Lines -> A], reads : R]
        BY <1>1 DEF NetShape, FrameShape
      <4>2. net'.at = [net.at EXCEPT !["adds"] = "reading"]
        BY <1>4, <3>2, <4>1 DEF Reading
      <4> QED
        BY <3>2, <4>1, <4>2
    <3> QED
      BY <3>1, <3>2
  <2> QED
    BY <1>2, <1>4, <2>1, <2>2, RestTyped
<1>5. ASSUME net' = GoOn(net, line, Rest(line), page.todos), line \notin Stores, Done(line)
      PROVE  TInv'
  <2>1. Good(net, net)
    BY <1>1, StaysGood
  <2>2. GotOK(net'.reads) /\ Only(net, net', line) /\ net'.chain[line] = Tail(net.chain[line])
    BY <1>1, <1>3, <1>5, <2>1, GoOnTyped DEF Rest
  <2> QED
    BY <1>2, <1>3, <1>5, <2>2, DoneTyped
<1>6. ASSUME net' = Reading(GoOn(net, line, Rest(line), page.todos), "load"),
             line \notin Stores, Done(line)
      PROVE  TInv'
  <2> DEFINE n == GoOn(net, line, Rest(line), page.todos)
  <2>1. Good(net, net)
    BY <1>1, StaysGood
  <2>2. /\ Good(net, n) /\ GotOK(n.reads) /\ Only(net, n, line)
        /\ n.chain[line] = Tail(net.chain[line])
    BY <1>1, <1>3, <1>6, <2>1, GoOnTyped DEF Rest
  <2>3. net' = Reading(n, "load")
    BY <1>6
  <2> HIDE DEF n
  <2>4. Lined(n) /\ NetShape(n) /\ ReadsShape(n.reads)
    BY <2>2 DEF Good, Lined, NetShape
  <2>5. net'.chain = n.chain /\ Only(n, net', "load") /\ Follows(n, net')
    BY <1>1, <2>3, <2>4, ReadingLined, ReadingFollows
  <2>6. GotOK(net'.reads)
    BY <2>2, <2>4, <2>5, GotLonger DEF Follows, NetShape
  <2>7. Only(net, net', line) /\ net'.chain[line] = Tail(net.chain[line])
    BY <2>2, <2>5, Apart DEF Only
  <2> QED
    BY <1>2, <1>3, <1>6, <2>6, <2>7, DoneTyped
<1>7. CASE line \in Todos /\ FlipAnswered(line)
  <2>0. line \notin Ids \cup {"moves", "adds"} \cup Stores
    BY <1>7, Apart
  <2>1. CASE net.at[line] = "ok"
    BY <1>4, <1>7, <2>1 DEF FlipAnswered
  <2>2. CASE net.at[line] # "ok"
    <3>1. Done(line)
      BY <1>7, <2>0, <2>2 DEF FlipAnswered, Done
    <3> QED
      BY <1>6, <1>7, <2>0, <2>2, <3>1 DEF FlipAnswered
  <2> QED
    BY <2>1, <2>2
<1>8. CASE line \in Ids /\ TickAnswered(line)
  <2>0. line \notin Todos \cup {"moves", "adds"} \cup Stores
    BY <1>8, Apart
  <2>1. CASE ~(ticks[line].sending > 1)
    BY <1>4, <1>8, <2>1 DEF TickAnswered
  <2>2. CASE ticks[line].sending > 1
    <3>1. Done(line)
      BY <1>8, <2>0, <2>2 DEF TickAnswered, Done
    <3> QED
      BY <1>5, <1>8, <2>0, <2>2, <3>1 DEF TickAnswered
  <2> QED
    BY <2>1, <2>2
<1>9. CASE line = "moves" /\ MoveAnswered
  <2>0. line \notin Todos \cup Ids \cup {"adds"} \cup Stores
    BY <1>9, Apart
  <2>1. CASE ~(moved.sending > 1)
    BY <1>4, <1>9, <2>1 DEF MoveAnswered
  <2>2. CASE moved.sending > 1
    <3>1. Done(line)
      BY <1>9, <2>0, <2>2 DEF MoveAnswered, Done
    <3> QED
      BY <1>5, <1>9, <2>0, <2>2, <3>1 DEF MoveAnswered
  <2> QED
    BY <2>1, <2>2
<1>10. CASE line = "adds" /\ AddAnswered
  <2>0. line \notin Todos \cup Ids \cup {"moves"} \cup Stores
    BY <1>10, Apart
  <2>1. CASE net.at[line] = "ok"
    BY <1>4, <1>10, <2>1 DEF AddAnswered
  <2>2. CASE net.at[line] # "ok"
    <3>1. Done(line)
      BY <1>10, <2>0, <2>2 DEF AddAnswered, Done
    <3> QED
      BY <1>5, <1>10, <2>0, <2>2, <3>1 DEF AddAnswered
  <2> QED
    BY <2>1, <2>2
<1>11. CASE line \in {"todo", "item"} /\ DeleteAnswered(line)
  <2>1. PICK ids : LET asked == [net EXCEPT !.chain[line][1].ids = ids]
                   IN \/ net' = Reading(asked, line)
                      \/ net' = [asked EXCEPT !.at[line] = "asked"]
    BY <1>11 DEF DeleteAnswered
  <2> DEFINE w == [net.chain[line] EXCEPT ![1].ids = ids]
             asked == WriteChain(net, line, w)
  <2>2. Good(net, asked) /\ NoRead(asked, line) /\ asked.chain[line] # <<>>
    BY <1>1, <1>3, <1>11, AskedGood
  <2>3. [net EXCEPT !.chain[line][1].ids = ids] = asked
    BY DEF WriteChain
  <2> HIDE DEF w
  <2>4. Only(net, asked, line) /\ Follows(net, asked)
    BY <1>1, ChainWritten, OtherLine DEF Only, NetShape
  <2> HIDE DEF asked
  <2>5. Lined(asked) /\ Batched(asked) /\ NetShape(asked)
    BY <2>2 DEF Good, Lined
  <2>6. net' = Reading(asked, line) \/ net' = WriteAt(asked, line, "asked")
    BY <2>1, <2>3 DEF WriteAt
  <2>7. Only(asked, net', line) /\ Follows(asked, net')
    <3>1. CASE net' = Reading(asked, line)
      BY <1>1, <2>2, <2>5, <3>1, ReadingLined, ReadingFollows
    <3>2. CASE net' = WriteAt(asked, line, "asked")
      BY <2>2, <2>5, <3>2, AtGood, OtherLine
    <3> QED
      BY <2>6, <3>1, <3>2
  <2>8. Only(net, net', line)
    BY <2>4, <2>7 DEF Only
  <2>9. GotOK(net'.reads)
    BY <1>1, <2>4, <2>7, FollowsOnward, GotFollows
  <2>10. UNCHANGED <<flips, ticks, moved, adds>> /\ line \in Stores
    BY <1>11 DEF DeleteAnswered, marks, Stores
  <2> QED
    BY <1>2, <2>8, <2>9, <2>10, StoreTyped
<1> QED
  BY <1>7, <1>8, <1>9, <1>10, <1>11 DEF Answered

LEMMA MessagesAnsweredTyped ==
    ASSUME TInv, KInv', Answered("message")
    PROVE  TInv'
<1> DEFINE c == net.chain["message"]
           ids == IF net.at["message"] = "busy" THEN <<>> ELSE Tail(Head(c).ids)
<1>1. /\ Lined(net) /\ Batched(net) /\ GotOK(net.reads) /\ FrameShape(net)
      /\ "message" \in Lines /\ "message" \in Stores
  BY DEF TInv, KInv, Stores, Lines, Lined, NetShape
<1>2. /\ net.at["message"] \in {"ok", "busy", "refused"} /\ MessageAnswered
      /\ UNCHANGED <<core, flips, ticks, moved, adds, left>> /\ LeftShape(left)
  BY LineNames DEF Answered, PageRest, MessageAnswered, marks, TInv
<1>3. NoRead(net, "message") /\ c # <<>>
  BY <1>1, <1>2, NotReading DEF Lined, LinesShape
<1>4. Only(net, net', "message") /\ GotOK(net'.reads)
  <2>1. CASE ids = <<>>
    <3>1. net' = GoOn(net, "message", Tail(c), page.todos)
      BY <1>2, <2>1 DEF MessageAnswered, Rest
    <3>2. Good(net, net)
      BY <1>1, StaysGood
    <3> QED
      BY <1>1, <1>3, <3>1, <3>2, GoOnTyped
  <2>2. CASE ids # <<>>
    <3> DEFINE d == [c EXCEPT ![1] = [@ EXCEPT !.ids = ids, !.all = ToSet(ids)]]
               n == WriteChain(net, "message", d)
    <3>1. net' = WriteAt(n, "message", "asked")
      <4>1. PICK C, A, R : net \in [chain : [Lines -> C], at : [Lines -> A], reads : R]
        BY <1>1 DEF FrameShape
      <4>2. net' = [net EXCEPT !.chain["message"][1] = [@ EXCEPT !.ids = ids, !.all = ToSet(ids)],
                               !.at["message"] = "asked"]
        BY <1>2, <2>2 DEF MessageAnswered
      <4> HIDE DEF ids
      <4> QED
        BY <1>1, <4>1, <4>2 DEF WriteAt, WriteChain
    <3> HIDE DEF d
    <3>2. /\ FrameShape(n) /\ n.reads = net.reads /\ n.at = net.at
          /\ \A l \in Lines \ {"message"} : n.chain[l] = net.chain[l]
      BY <1>1, ChainWritten
    <3> HIDE DEF n
    <3>3. /\ net'.reads = net.reads /\ net'.chain = n.chain
          /\ \A l \in Lines \ {"message"} : net'.at[l] = net.at[l]
      BY <1>1, <3>1, <3>2, AtWritten
    <3> QED
      BY <1>1, <3>2, <3>3 DEF Only
  <2> QED
    BY <2>1, <2>2
<1>5. ListOK(page')
  <2>1. CASE net.at["message"] = "ok"
    <3> DEFINE ms == page.messages \ {Head(Head(c).ids)}
    <3>1. page' = [page EXCEPT !.messages = ms] /\ Whole(page) /\ ListOK(page)
      BY <1>2, <2>1 DEF MessageAnswered, TInv, KInv, IInv
    <3> HIDE DEF ms
    <3>2. Lists(page') = Lists(page)
      BY <3>1, Drawn
    <3> QED
      BY <3>1, <3>2 DEF ListOK, Lists
  <2>2. CASE net.at["message"] # "ok"
    BY <1>2, <2>2 DEF MessageAnswered, TInv
  <2> QED
    BY <2>1, <2>2
<1> QED
  BY <1>1, <1>2, <1>4, <1>5, StoreTyped

-----------------------------------------------------------------------------
(* Core's lists change: they name what they named, or what is being added. *)

\* An item at another place.
LEMMA MovedOnce ==
    ASSUME NEW items \in Seq(Ids), IsInjective(items), NEW i \in Ids, Contains(items, i),
           NEW to \in Nat \ {0}
    PROVE  /\ Moved(items, i, to) \in Seq(Ids) /\ IsInjective(Moved(items, i, to))
           /\ \A y : Contains(Moved(items, i, to), y) => Contains(items, y)
<1> DEFINE rest == Without(items, i)
           p == IF to > Len(items) THEN Len(items) ELSE to
<1>1. /\ rest \in Seq(Ids) /\ IsInjective(rest) /\ ~Contains(rest, i)
      /\ Len(rest) = Len(items) - 1 /\ \A y : Contains(rest, y) => Contains(items, y)
  BY WithoutOnce
<1>2. Len(items) \in Nat /\ Len(items) >= 1
  BY DEF Contains
<1> HIDE DEF rest
<1>3. p \in 1..Len(rest) + 1
  BY <1>1, <1>2
<1>4. Moved(items, i, to) = InsertAt(rest, p, i)
  BY DEF Moved, rest
<1> HIDE DEF p
<1>5. /\ InsertAt(rest, p, i) \in Seq(Ids) /\ IsInjective(InsertAt(rest, p, i))
      /\ \A y : Contains(InsertAt(rest, p, i), y) => y = i \/ Contains(rest, y)
  BY <1>1, <1>3, InsertedOnce
<1> QED
  BY <1>1, <1>4, <1>5

\* Items that Core's list has, another to-do's state.
LEMMA CoreTyped ==
    ASSUME ListOK(core), IsInjective(core.items), Whole(core), NEW c,
           \/ \E t \in Todos, to \in Row : c = [core EXCEPT !.todos[t] = to]
           \/ \E x : c = [core EXCEPT !.ticked = x]
           \/ \E items \in Seq(Ids) :
                 /\ c = [core EXCEPT !.items = items]
                 /\ IsInjective(items) /\ \A y : Contains(items, y) => Contains(core.items, y)
    PROVE  /\ ListOK(c) /\ IsInjective(c.items)
           /\ \A y : Contains(c.items, y) => Contains(core.items, y)
<1>1. core = [todos |-> core.todos, items |-> core.items, ticked |-> core.ticked,
              messages |-> core.messages]
  BY DEF Whole
<1>2. CASE \E t \in Todos, to \in Row : c = [core EXCEPT !.todos[t] = to]
  <2>1. PICK t \in Todos, to \in Row : c = [core EXCEPT !.todos[t] = to]
    BY <1>2
  <2>2. c.todos = [core.todos EXCEPT ![t] = to] /\ c.items = core.items
    BY <1>1, <2>1
  <2> QED
    BY <2>2 DEF ListOK
<1>3. CASE \E x : c = [core EXCEPT !.ticked = x]
  <2>1. c.todos = core.todos /\ c.items = core.items
    BY <1>1, <1>3
  <2> QED
    BY <2>1 DEF ListOK
<1>4. CASE \E items \in Seq(Ids) :
              /\ c = [core EXCEPT !.items = items]
              /\ IsInjective(items) /\ \A y : Contains(items, y) => Contains(core.items, y)
  <2>1. PICK items \in Seq(Ids) :
               /\ c = [core EXCEPT !.items = items]
               /\ IsInjective(items) /\ \A y : Contains(items, y) => Contains(core.items, y)
    BY <1>4
  <2>2. c.todos = core.todos /\ c.items = items
    BY <1>1, <2>1
  <2> QED
    BY <2>1, <2>2 DEF ListOK
<1> QED
  BY <1>2, <1>3, <1>4

LEMMA GalleyTyped ==
    ASSUME TInv, KInv', Galley
    PROVE  TInv'
<1>1. /\ UNCHANGED <<page, flips, ticks, moved, adds, net>>
      /\ LeftShape(left') /\ left'.drafts = left.drafts
  BY DEF Galley, Twist, marks, TInv, LeftShape
<1>2. /\ ListOK(core) /\ IsInjective(core.items) /\ Whole(core)
      /\ Fresh(core.items, adds, net.at["adds"], left.drafts)
  BY DEF TInv, KInv, IInv
<1>3. \/ core' = core
      \/ \E t \in Todos, to \in Row : core' = [core EXCEPT !.todos[t] = to]
      \/ \E x : core' = [core EXCEPT !.ticked = x]
      \/ \E i : core' = [core EXCEPT !.items = Without(core.items, i)]
  BY DEF Galley, Row
<1>4. /\ ListOK(core') /\ IsInjective(core'.items)
      /\ \A y : Contains(core'.items, y) => Contains(core.items, y)
  <2>1. CASE \E i : core' = [core EXCEPT !.items = Without(core.items, i)]
    <3>1. PICK i : core' = [core EXCEPT !.items = Without(core.items, i)]
      BY <2>1
    <3> DEFINE items == Without(core.items, i)
    <3>2. /\ items \in Seq(Ids) /\ IsInjective(items)
          /\ \A y : Contains(items, y) => Contains(core.items, y)
      BY <1>2, WithoutOnce DEF ListOK
    <3> HIDE DEF items
    <3> QED
      BY <1>2, <3>1, <3>2, CoreTyped DEF items
  <2>2. CASE core' = core
    BY <1>2, <2>2
  <2> QED
    BY <1>2, <1>3, <2>1, <2>2, CoreTyped
<1>5. Fresh(core'.items, adds, net.at["adds"], left.drafts)
  BY <1>2, <1>4 DEF Fresh
<1> QED
  BY <1>1, <1>4, <1>5 DEF TInv

\* A write of Core's.
LEMMA WrittenTyped ==
    ASSUME TInv, NEW line \in Lines, net.at[line] = "asked"
    PROVE  LET w == Head(net.chain[line])
               c == Written(line, w)
           IN Possible(line, w) =>
              /\ ListOK(c) /\ IsInjective(c.items)
              /\ line # "adds" => \A y : Contains(c.items, y) => Contains(core.items, y)
              /\ line = "adds" => /\ c.items = Append(core.items, adds[1])
                                  /\ adds \in Seq(Drafts) /\ adds # <<>> /\ IsInjective(adds)
<1> DEFINE w == Head(net.chain[line])
           c == Written(line, w)
<1>1. /\ ListOK(core) /\ IsInjective(core.items) /\ Whole(core)
      /\ Fresh(core.items, adds, net.at["adds"], left.drafts)
      /\ LineOK(line, net.chain[line], flips, ticks, moved, adds)
  BY DEF TInv, Told, KInv, IInv
<1>2. net.chain[line] # <<>> /\ \E G : net.chain[line] \in Seq(G)
  BY DEF TInv, KInv, Lined, LinesShape
<1>3. w = net.chain[line][1] /\ Len(net.chain[line]) \in Nat /\ Len(net.chain[line]) >= 1
  BY <1>2
<1>4. core = [todos |-> core.todos, items |-> core.items, ticked |-> core.ticked,
              messages |-> core.messages]
  BY <1>1 DEF Whole
<1> HIDE DEF w
<1> SUFFICES ASSUME Possible(line, w)
             PROVE  /\ ListOK(c) /\ IsInjective(c.items)
                    /\ line # "adds" => \A y : Contains(c.items, y) => Contains(core.items, y)
                    /\ line = "adds" => /\ c.items = Append(core.items, adds[1])
                                        /\ adds \in Seq(Drafts) /\ adds # <<>> /\ IsInjective(adds)
  BY DEF w
<1> HIDE DEF c
<1>5. CASE line \in Todos
  <2>1. line \notin Ids \cup {"moves", "adds", "todo", "item", "message"}
    BY <1>5, Apart DEF Stores
  <2>2. c = [core EXCEPT !.todos[line] = w]
    BY <1>5, <2>1 DEF Written, c
  <2>3. w \in Row
    <3>1. net.chain[line] \in Seq({"open", "done"})
      BY <1>1, <1>5 DEF LineOK
    <3>2. net.chain[line][1] \in {"open", "done"}
      BY <1>3, <3>1, ElementOfSeq
    <3> QED
      BY <1>3, <3>2 DEF Row
  <2> QED
    BY <1>1, <1>5, <2>1, <2>2, <2>3, CoreTyped
<1>6. CASE line \in Ids
  <2>1. line \notin Todos \cup {"moves", "adds", "todo", "item", "message"}
    BY <1>6, Apart DEF Stores
  <2>2. \E x : c = [core EXCEPT !.ticked = x]
    BY <1>6, <2>1 DEF Written, c
  <2> QED
    BY <1>1, <2>1, <2>2, CoreTyped
<1>7. CASE line = "moves"
  <2>1. line \notin Todos \cup Ids
    BY <1>7, Apart
  <2> DEFINE items == Moved(core.items, w.item, w.to)
  <2>2. c = [core EXCEPT !.items = items] /\ Contains(core.items, w.item)
    BY <1>7, <2>1 DEF Written, Possible, c
  <2>3. w.item \in Ids /\ w.to \in Nat \ {0}
    BY <1>1, <1>3, <1>7 DEF LineOK
  <2>4. /\ items \in Seq(Ids) /\ IsInjective(items)
        /\ \A y : Contains(items, y) => Contains(core.items, y)
    BY <1>1, <2>2, <2>3, MovedOnce DEF ListOK
  <2> HIDE DEF items
  <2> QED
    BY <1>1, <1>7, <2>2, <2>4, CoreTyped
<1>8. CASE line = "adds"
  <2>1. line \notin Todos \cup Ids
    BY <1>8, Apart
  <2>2. c = [core EXCEPT !.items = Append(core.items, w)]
    BY <1>8, <2>1 DEF Written, c
  <2>3. /\ adds \in Seq(Drafts) /\ IsInjective(adds) /\ adds # <<>> /\ w = adds[1]
        /\ Len(adds) \in Nat /\ Len(adds) >= 1
    BY <1>1, <1>2, <1>3, <1>8 DEF LineOK
  <2>4. w \in Ids /\ ~Contains(core.items, w)
    <3>1. adds[1] \in Drafts /\ 1 \in 1..Len(adds)
      BY <2>3
    <3> QED
      BY <1>1, <1>8, <2>3, <3>1 DEF Fresh, Ids
  <2>5. c.items = Append(core.items, w) /\ c.todos = core.todos
    BY <1>4, <2>2
  <2>6. Append(core.items, w) \in Seq(Ids) /\ IsInjective(Append(core.items, w))
    BY <1>1, <2>4, AppendedOnce DEF ListOK
  <2> QED
    BY <1>1, <1>8, <2>3, <2>5, <2>6 DEF ListOK
<1>9. CASE line = "todo"
  <2>1. line \notin Todos \cup Ids
    BY <1>9, Apart DEF Stores
  <2>2. c = [core EXCEPT !.todos[Head(w.ids)] = "gone"]
    BY <1>9, <2>1 DEF Written, c
  <2>3. c.todos = [core.todos EXCEPT ![Head(w.ids)] = "gone"] /\ c.items = core.items
    BY <1>4, <2>2
  <2>4. c.todos \in [Todos -> Row]
    BY <1>1, <2>3 DEF ListOK, Row
  <2> QED
    BY <1>1, <1>9, <2>3, <2>4 DEF ListOK
<1>10. CASE line = "item"
  <2>1. line \notin Todos \cup Ids
    BY <1>10, Apart DEF Stores
  <2> DEFINE items == Without(core.items, Head(w.ids))
  <2>2. c = [core EXCEPT !.items = items]
    BY <1>10, <2>1 DEF Written, c
  <2>3. /\ items \in Seq(Ids) /\ IsInjective(items)
        /\ \A y : Contains(items, y) => Contains(core.items, y)
    BY <1>1, WithoutOnce DEF ListOK
  <2> HIDE DEF items
  <2> QED
    BY <1>1, <1>10, <2>2, <2>3, CoreTyped
<1>11. CASE line = "message"
  <2>1. line \notin Todos \cup Ids
    BY <1>11, Apart DEF Stores
  <2> DEFINE ms == core.messages \ {Head(w.ids)}
  <2>2. c = [core EXCEPT !.messages = ms]
    BY <1>11, <2>1 DEF Written, c
  <2> HIDE DEF ms
  <2>3. c.todos = core.todos /\ c.items = core.items
    BY <1>4, <2>2
  <2> QED
    BY <1>1, <1>11, <2>3 DEF ListOK
<1> QED
  BY <1>5, <1>6, <1>7, <1>8, <1>9, <1>10, <1>11 DEF Lines, Stores

LEMMA ServeTyped ==
    ASSUME TInv, KInv', NEW line \in Lines, Serve(line)
    PROVE  TInv'
<1> DEFINE w == Head(net.chain[line])
           c == Written(line, w)
           v == IF Possible(line, w) THEN "ok" ELSE Refusal(line, w)
<1>1. /\ net.at[line] = "asked"
      /\ core' = IF Possible(line, w) THEN c ELSE core
      /\ net' = WriteAt(net, line, v)
      /\ UNCHANGED <<page, flips, ticks, moved, adds, left>>
  <2>1. PICK C, A, R : net \in [chain : [Lines -> C], at : [Lines -> A], reads : R]
    BY DEF TInv, KInv, Lined, NetShape, FrameShape
  <2> HIDE DEF w, c
  <2> QED
    BY <2>1 DEF Serve, WriteAt, marks, w, c
<1>2. Possible(line, w) =>
        /\ ListOK(c) /\ IsInjective(c.items)
        /\ line # "adds" => \A y : Contains(c.items, y) => Contains(core.items, y)
        /\ line = "adds" => /\ c.items = Append(core.items, adds[1])
                            /\ adds \in Seq(Drafts) /\ adds # <<>> /\ IsInjective(adds)
  BY <1>1, WrittenTyped
<1>3. line = "adds" => Possible(line, w) /\ v = "ok"
  BY Apart DEF Possible
<1> HIDE DEF w, c, v
<1>4. /\ net'.reads = net.reads /\ net'.chain = net.chain /\ net'.at[line] = v
      /\ \A l \in Lines \ {line} : net'.at[l] = net.at[l]
  BY <1>1, AtWritten DEF TInv, KInv, Lined, NetShape
<1>5. ListOK(core') /\ IsInjective(core'.items)
  BY <1>1, <1>2 DEF TInv
<1>6. Fresh(core.items, adds, net.at["adds"], left.drafts)
  BY DEF TInv
<1>7. Fresh(core'.items, adds, net'.at["adds"], left.drafts)
  <2>1. CASE line # "adds"
    <3>1. \A y : Contains(core'.items, y) => Contains(core.items, y)
      BY <1>1, <1>2, <2>1
    <3>2. net'.at["adds"] = net.at["adds"]
      BY <1>4, <2>1, Apart
    <3> QED
      BY <1>6, <3>1, <3>2 DEF Fresh
  <2>2. CASE line = "adds"
    <3>1. /\ core'.items = Append(core.items, adds[1]) /\ net'.at["adds"] = "ok"
          /\ adds \in Seq(Drafts) /\ adds # <<>> /\ IsInjective(adds)
      BY <1>1, <1>2, <1>3, <1>4, <2>2
    <3>2. Len(adds) \in Nat /\ Len(adds) >= 1 /\ DOMAIN adds = 1..Len(adds)
      BY <3>1
    <3>3. Contains(adds, adds[1]) /\ adds[1] \in Drafts
      BY <3>1, <3>2 DEF Contains
    <3>4. \A y : Contains(core'.items, y) => y = adds[1] \/ Contains(core.items, y)
      <4>1. core.items \in Seq(Ids) /\ adds[1] \in Ids
        BY <3>3 DEF TInv, ListOK, Ids
      <4> QED
        BY <3>1, <4>1, AppendedOnce
    <3>5. ASSUME NEW k \in 1..Len(adds), Contains(core'.items, adds[k]) PROVE k = 1
      <4>1. adds[k] = adds[1] \/ Contains(core.items, adds[k])
        BY <3>4, <3>5
      <4>2. adds[k] = adds[1] => k = 1
        BY <3>1, <3>2 DEF IsInjective
      <4> QED
        BY <1>6, <4>1, <4>2 DEF Fresh
    <3>6. \A d \in left.drafts : ~Contains(core'.items, d)
      BY <1>6, <3>3, <3>4 DEF Fresh
    <3> QED
      BY <1>6, <3>1, <3>5, <3>6 DEF Fresh
  <2> QED
    BY <2>1, <2>2
<1>8. Told(flips, ticks, moved, adds, net')
  BY <1>4 DEF TInv, Told
<1> QED
  BY <1>1, <1>4, <1>5, <1>7, <1>8 DEF TInv

LEMMA FailTyped ==
    ASSUME TInv, KInv', NEW line \in Lines, Fail(line)
    PROVE  TInv'
<1>1. /\ net' = WriteAt(net, line, "refused") /\ net.at[line] = "asked"
      /\ UNCHANGED <<core, page, flips, ticks, moved, adds>>
      /\ LeftShape(left') /\ left'.drafts = left.drafts
  BY DEF Fail, WriteAt, marks, Twist, TInv, LeftShape
<1>2. /\ net'.reads = net.reads /\ net'.chain = net.chain
      /\ \A l \in Lines \ {line} : net'.at[l] = net.at[l]
  BY <1>1, AtWritten DEF TInv, KInv, Lined, NetShape
<1>3. Fresh(core.items, adds, net'.at["adds"], left'.drafts)
  <2>1. CASE line # "adds"
    BY <1>1, <1>2, <2>1, Apart DEF TInv
  <2>2. CASE line = "adds"
    BY <1>1, <2>2 DEF TInv, Fresh
  <2> QED
    BY <2>1, <2>2
<1>4. Told(flips, ticks, moved, adds, net')
  BY <1>2 DEF TInv, Told
<1> QED
  BY <1>1, <1>2, <1>3, <1>4 DEF TInv

LEMMA NextTyped ==
    ASSUME TInv, [Next]_vars
    PROVE  TInv'
<1>0. KInv'
  BY NextKeeps DEF TInv
<1>1. CASE User
  BY <1>0, <1>1, UserTyped
<1>2. ASSUME NEW s \in Sends, Submit(s) \/ FlushTodos(s) PROVE TInv'
  BY <1>0, <1>2, CommitsTyped
<1>3. ASSUME NEW store \in Stores, Close(store) PROVE TInv'
  BY <1>0, <1>3, CommitsTyped
<1>4. ASSUME NEW t \in Todos, Settle(t) PROVE TInv'
  BY <1>0, <1>4, SettleTyped
<1>5. CASE RunEnds \/ (\E s \in Sends : Deliver(s)) \/ UNCHANGED vars
  <2>1. UNCHANGED <<core, page, flips, ticks, moved, adds, net, left>>
    BY <1>5 DEF RunEnds, Deliver, vars, marks
  <2> QED
    BY <1>0, <2>1, NetTyped DEF TInv
<1>6. CASE Galley
  BY <1>0, <1>6, GalleyTyped
<1>7. CASE Load
  BY <1>0, <1>7, LoadTyped
<1>8. ASSUME NEW line \in Lines, Serve(line) \/ Fail(line) PROVE TInv'
  BY <1>0, <1>8, ServeTyped, FailTyped
<1>9. ASSUME NEW line \in Lines, Answered(line) PROVE TInv'
  BY <1>0, <1>9, AnsweredTyped, MessagesAnsweredTyped
<1>10. ASSUME NEW k \in DOMAIN net.reads, ServeRead(k) \/ Landed(k) \/ ReadFails(k) PROVE TInv'
  BY <1>0, <1>10, ServeReadTyped, LandedTyped, ReadFailsTyped
<1>11. CASE System
  BY <1>2, <1>3, <1>4, <1>5, <1>7, <1>8, <1>9, <1>10, <1>11 DEF System
<1> QED
  BY <1>1, <1>2, <1>5, <1>6, <1>8, <1>10, <1>11 DEF Next

\* The marks a row carries count the writes on its line, whatever answers and
\* reads come in: setItemChecked's, moveSubitem's and toggle's counters never
\* fall out of step, and Core's list names an item once although adds, moves
\* and deletions reach it on lines of their own.
THEOREM TypeOKHolds == Spec => []TypeOK
<1>1. Init => TInv
  BY InitTyped
<1>2. TInv /\ [Next]_vars => TInv'
  BY NextTyped
<1>3. TInv => TypeOK
  BY TInvTypeOK
<1> QED
  BY <1>1, <1>2, <1>3, PTL DEF Spec
=============================================================================
