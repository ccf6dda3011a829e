---- MODULE MCTranscript ----
EXTENDS Transcript, TLC
\* Messages of other writers are alike.
Symmetric == Permutations(Msgs \ (Own \cup History))

\* "Optimistic: lock the button immediately; unlock if the stop never reached
\* Core, otherwise the run keeps going with Stop dead." (stopRun,
\* useMessageSend.ts:354-356): once nothing is on its way the button is locked
\* only while a run goes on that was told to stop.
StopHeard == Quiet /\ page.listening /\ page.stopping => gate /\ halting
====
