---------------------------- MODULE MCReminders ----------------------------
(* ReportStore with a note of the fires that were passed over: they waited *)
(* when the main chat's gate was given back, nobody was looking, and no    *)
(* run signal told the drain task to look again.                           *)
EXTENDS ReportStore

VARIABLE passedOver

Looking   == \E c \in Lookers : step[c] \in {"queue", "due", "ask", "reserve", "take"}
GivenBack == open[Main] /\ ~open'[Main]

NoteInit == Init /\ passedOver = {}

\* Whoever looks next, and the next run signal, asks for all that waits.
NoteNext ==
    /\ Next
    /\ passedOver' = IF Looking' \/ signals' # <<>> THEN {}
                     ELSE IF GivenBack THEN KeysOf(Due(waiting'))
                     ELSE passedOver \cap KeysOf(waiting')

NoteSpec == NoteInit /\ [][NoteNext]_<<vars, passedOver>> /\ Fairness

\* A message of the user's that waits behind a free gate.
Blocked == queued > 0 /\ ~open[Main] /\ ~ask[Main]

(* Every pending fire is settled (delivered, notified or dropped) or       *)
(* cancelled, unless the gate was given back without a signal while it     *)
(* waited and nothing has happened in the main chat since, or a message    *)
(* left behind a free gate goes before it.                                 *)
FireAskedAgain == \A t \in Tasks :
    (lastWake[t] = "pending")
        ~> \/ lastWake[t] # "pending" \/ t \in cancelled
           \/ <<t, fired[t]>> \in passedOver \/ Blocked
=============================================================================
