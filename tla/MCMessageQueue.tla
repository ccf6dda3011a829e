--------------------------- MODULE MCMessageQueue ---------------------------
(* MessageQueue on small instances. Messages are interchangeable, and so   *)
(* are the stops.                                                          *)
EXTENDS MessageQueue, TLC

Symmetric == Permutations(Msgs) \cup Permutations(Stops)

(* "A run cannot start while the gate is free" (subtask_report.rs, on the  *)
(* look for a question before a wake reserves): a wake is never the answer *)
(* to a question. Not so (see README, "Known disagreements"): given as an  *)
(* INVARIANT, TLC finds it violated.                                       *)
WakeKeepsQuestion == \A i \in DOMAIN stdin :
    stdin[i].kind = "user" /\ who[stdin[i].msg] = "wake" => ~question
=============================================================================
