------------------------------- MODULE Mailbox -------------------------------
(***************************************************************************)
(* What a session promises the people who send to it, whatever its tasks,  *)
(* its runner and its database do: a message is accepted or refused at     *)
(* once; one that waits is stored at most once, withdrawn by its owner, or *)
(* read by a running run; and an ordinary one is never stored while one    *)
(* accepted before it still waits.                                         *)
(***************************************************************************)
CONSTANT Msgs

VARIABLES
    fate,       \* where each message stands
    line,       \* <<n, m>> : both wait, n was accepted before m
    hurried,    \* jumped ahead of the line by a user
    spoken      \* given to the running run as well

vars == <<fate, line, hurried, spoken>>

Fates   == {"new", "sending", "waiting", "stored", "heard", "removed", "refused"}
Waiting == {m \in Msgs : fate[m] = "waiting"}

Become(m, f) == fate' = [fate EXCEPT ![m] = f]
Leave(S)     == line' = {p \in line : p[1] \notin S /\ p[2] \notin S}

Init == /\ fate = [m \in Msgs |-> "new"]
        /\ line = {} /\ hurried = {} /\ spoken = {}

\* Sent on its own task, at once.
Submit(m) ==
    /\ fate[m] = "new"
    /\ Become(m, "sending")
    /\ UNCHANGED <<line, hurried, spoken>>

\* Accepted into the line, perhaps handed to the running run too.
Accept(m) ==
    /\ fate[m] = "new"
    /\ Become(m, "waiting")
    /\ line' = line \cup (Waiting \X {m})
    /\ spoken' \in {spoken, spoken \cup {m}}
    /\ UNCHANGED hurried

\* A user moves a waiting message to the head of the line.
Hurry(m) ==
    /\ fate[m] = "waiting"
    /\ hurried' = hurried \cup {m}
    /\ UNCHANGED <<fate, line, spoken>>

MayBeStored(m) ==
    \/ fate[m] = "sending"
    \/ /\ fate[m] = "waiting"
       /\ \/ m \in hurried \cup spoken
          \/ \A n \in Waiting \ hurried : <<n, m>> \notin line

Store(m) ==
    /\ MayBeStored(m)
    /\ Become(m, "stored")
    /\ Leave({m})
    /\ UNCHANGED <<hurried, spoken>>

\* The sender is told it was not taken; a waiting message only if hurried.
Refuse(m) ==
    /\ fate[m] \in {"new", "sending"} \/ (fate[m] = "waiting" /\ m \in hurried)
    /\ Become(m, "refused")
    /\ Leave({m})
    /\ UNCHANGED <<hurried, spoken>>

Withdraw(m) ==
    /\ fate[m] = "waiting"
    /\ Become(m, "removed")
    /\ Leave({m})
    /\ UNCHANGED <<hurried, spoken>>

\* The running run read some of what was said to it: all stored, or none.
Hear(S, f) ==
    /\ S \subseteq Waiting \cap spoken
    /\ fate' = [m \in Msgs |-> IF m \in S THEN f ELSE fate[m]]
    /\ Leave(S)
    /\ UNCHANGED <<hurried, spoken>>

Next == \/ \E m \in Msgs : \/ Submit(m) \/ Accept(m) \/ Hurry(m) \/ Store(m)
                           \/ Refuse(m) \/ Withdraw(m)
        \/ \E S \in SUBSET Msgs, f \in {"stored", "heard"} : Hear(S, f)

Spec == Init /\ [][Next]_vars
=============================================================================
