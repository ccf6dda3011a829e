----------------------------- MODULE BridgeRun -----------------------------
(***************************************************************************)
(* The Python bridge of one session (runner/workbench_bridge.py), thread   *)
(* by thread: the command thread, the engine's agent thread with its       *)
(* serial task queue (managed-ga/code/agentmain.py), and one progress      *)
(* drain per run. They share run_in_progress, the run generation, the      *)
(* account of interjections (runner/interject.py) and the engine's         *)
(* `intervene` slot. Core is the other end of stdin and stdout: it sends   *)
(* the next message once it has read run_complete, and hands what the user *)
(* says meanwhile to the run that is going.                                *)
(*                                                                         *)
(* A run, its task and its drain are named by the message that opened it.  *)
(* The text in `intervene` is named by the set of messages it holds.       *)
(***************************************************************************)
EXTENDS Naturals, Sequences, FiniteSets

CONSTANTS
    Msgs,      \* the messages the user sends
    NoMsg,     \* "no run"
    Slash,     \* the ones that are slash commands of the engine
    Aborts,    \* how many abort commands Core may send
    Raises,    \* a task may end without reporting an exit
    EarlyNext  \* Core may answer a run_complete before run_in_progress clears

ASSUME BridgeAssumption ==
    /\ NoMsg \notin Msgs
    /\ Slash \subseteq Msgs
    /\ Aborts \in Nat
    /\ {Raises, EarlyNext} \subseteq BOOLEAN

VARIABLES
    fresh, waiting, handing, coreOpen, aborts,  \* Core: unsent, queued, gate
    stdin, out,                                 \* the pipes
    cmd,                                        \* the command thread's step
    inProgress, generation, current,            \* run_in_progress, its run
    closing,                                    \* who holds the lock, closing
    unread, taken, written,                     \* Interjections
    intervene, taskQueue, isRunning, stopSig,   \* the engine's attributes
    agent,                                      \* the agent thread's step
    drain, drainGen,                            \* per run: its progress drain
    ended, closer, aborted,                     \* history: how runs ended,
    rejected, strayRead                         \* what was refused, misread

core    == <<fresh, waiting, handing, coreOpen, aborts>>
flag    == <<inProgress, generation, current>>
account == <<unread, taken, written>>
engine  == <<taskQueue, isRunning, stopSig>>
drains  == <<drain, drainGen>>
past    == <<ended, closer, aborted, rejected, strayRead>>
vars    == <<core, stdin, out, cmd, flag, closing, account, intervene, engine,
             agent, drains, past>>

Reasons  == {"no", "EXIT", "ABORTED", "DONE_WITHOUT_EXIT", "SLASH_COMMAND_COMPLETED"}
Gens     == 0 .. Cardinality(Msgs) + Aborts
Commands == [kind : {"user"}, msg : Msgs, ids : {{}}]
               \cup [kind : {"abort", "interject"}, msg : {NoMsg}, ids : SUBSET Msgs]
Events   == [kind : {"interject_delivered", "run_complete"}, ids : SUBSET Msgs]
Agent    == [at : {"idle", "start", "step", "end", "wipe", "account", "report",
                   "close", "clear", "done", "finally"},
             task : Msgs \cup {NoMsg}, took : SUBSET Msgs, final : BOOLEAN]
Command  == [at : {"idle", "open", "put", "abort", "signal", "stopped"},
             msg : Msgs \cup {NoMsg}]

Event(kind, ids)      == [kind |-> kind, ids |-> ids]
Cmd(kind, m, ids)     == [kind |-> kind, msg |-> m, ids |-> ids]
CmdAt(step, m)        == cmd' = [at |-> step, msg |-> m]
AgentAt(step)         == agent' = [agent EXCEPT !.at = step]

Init ==
    /\ fresh = Msgs /\ waiting = {} /\ handing = {} /\ coreOpen = FALSE /\ aborts = 0
    /\ stdin = <<>> /\ out = <<>>
    /\ cmd = [at |-> "idle", msg |-> NoMsg]
    /\ inProgress = FALSE /\ generation = 0 /\ current = NoMsg /\ closing = NoMsg
    /\ unread = {} /\ taken = {} /\ written = {}
    /\ intervene = {} /\ taskQueue = <<>> /\ isRunning = FALSE /\ stopSig = FALSE
    /\ agent = [at |-> "idle", task |-> NoMsg, took |-> {}, final |-> FALSE]
    /\ drain = [m \in Msgs |-> "none"] /\ drainGen = [m \in Msgs |-> 0]
    /\ ended = [m \in Msgs |-> "no"] /\ closer = [m \in Msgs |-> {}]
    /\ aborted = {} /\ rejected = {} /\ strayRead = {}

-----------------------------------------------------------------------------
(* Core, as the bridge sees it (MessageQueue has it in full): a message    *)
(* opens a run when none is open, and otherwise waits and is handed over.  *)

\* What a run that opens is handed: the messages still waiting.
HandOver(ids) == handing' = IF ids = {} THEN handing ELSE handing \cup {ids}

Dispatch(m, rest) ==
    /\ coreOpen' = TRUE
    /\ stdin' = Append(stdin, Cmd("user", m, {}))
    /\ waiting' = rest
    /\ HandOver(rest)

CoreSend(m) ==
    /\ m \in fresh
    /\ fresh' = fresh \ {m}
    /\ \/ ~coreOpen /\ Dispatch(m, waiting)
       \/ /\ coreOpen
          /\ waiting' = waiting \cup {m}
          /\ HandOver({m})
          /\ UNCHANGED <<coreOpen, stdin>>
    /\ UNCHANGED <<aborts, out, cmd, flag, closing, account, intervene, engine,
                   agent, drains, past>>

CoreInterject(ids) ==
    /\ ids \in handing
    /\ handing' = handing \ {ids}
    /\ stdin' = Append(stdin, Cmd("interject", NoMsg, ids))
    /\ UNCHANGED <<fresh, waiting, coreOpen, aborts, out, cmd, flag, closing,
                   account, intervene, engine, agent, drains, past>>

CoreAbort ==
    /\ coreOpen /\ aborts < Aborts
    /\ aborts' = aborts + 1
    /\ stdin' = Append(stdin, Cmd("abort", NoMsg, {}))
    /\ UNCHANGED <<fresh, waiting, handing, coreOpen, out, cmd, flag, closing,
                   account, intervene, engine, agent, drains, past>>

\* The watcher and the drain task: what a run read leaves the queue, and a
\* run's end sends the next message.
CoreReads ==
    /\ out # <<>>
    /\ EarlyNext \/ closing = NoMsg
    /\ out' = Tail(out)
    /\ LET e == Head(out)
       IN  \/ /\ e.kind = "interject_delivered"
              /\ waiting' = waiting \ e.ids
              /\ UNCHANGED <<handing, coreOpen, stdin>>
           \/ /\ e.kind = "run_complete"
              /\ \/ \E m \in waiting : Dispatch(m, waiting \ {m})
                 \/ /\ waiting = {}
                    /\ coreOpen' = FALSE
                    /\ UNCHANGED <<waiting, handing, stdin>>
    /\ UNCHANGED <<fresh, aborts, cmd, flag, closing, account, intervene, engine,
                   agent, drains, past>>

-----------------------------------------------------------------------------
(* Interjections. Each operation is atomic under the account's own lock.   *)

\* add: ids taken before in this run are skipped.
Add(ids) ==
    LET new == ids \ taken
    IN  /\ taken' = taken \cup new
        /\ unread' = unread \cup new
        /\ IF new = {} THEN UNCHANGED <<intervene, written>>
           ELSE /\ intervene' = unread \cup new
                /\ written' = written \cup {unread \cup new}

\* What a step's end read: a text of this account, if the loop goes on.
ReadBy(a) == IF ~a.final /\ a.took \in written THEN a.took ELSE {}

\* Variant: does not put back what the engine wiped.
StepEndedUnarmed(a) ==
    /\ unread' = unread \ ReadBy(a)
    /\ written' = {}
    /\ UNCHANGED <<taken, intervene>>

\* step_ended: what is still unread is put back for the next step.
StepEnded(a) ==
    /\ unread' = unread \ ReadBy(a)
    /\ IF a.final THEN written' = {} /\ UNCHANGED intervene
       ELSE /\ intervene' = unread'
            /\ written' = {unread'} \ {{}}
    /\ UNCHANGED taken

\* take_unread, for _return_unread_interjections.
TakeUnread == unread' = {} /\ taken' = {} /\ written' = {} /\ intervene' = {}

-----------------------------------------------------------------------------
(* Closing a run: the tail every path shares, under _run_complete_lock.    *)

LockFree == closing = NoMsg

\* run_complete is on its way to Core before run_in_progress is cleared.
Complete(by, reason) ==
    /\ TakeUnread
    /\ out' = Append(out, Event("run_complete", {}))
    /\ ended' = [ended EXCEPT ![current] = reason]
    /\ closer' = [closer EXCEPT ![current] = @ \cup {by}]

\* run_in_progress.clear() and the tracking reset.
Clear == inProgress' = FALSE /\ current' = NoMsg

-----------------------------------------------------------------------------
(* The command thread: dispatch_command, one command at a time.            *)

Reads(kind) == cmd.at = "idle" /\ stdin # <<>> /\ Head(stdin).kind = kind
               /\ stdin' = Tail(stdin)

CmdRest == <<core, closing, engine, agent, drains>>

\* user_message and ask_user_response look at the flag without the lock.
TakeMessage ==
    /\ Reads("user")
    /\ LET m == Head(stdin).msg
       IN  \/ /\ inProgress
              /\ rejected' = rejected \cup {m}
              /\ UNCHANGED <<cmd, account, intervene>>
           \/ /\ ~inProgress
              /\ TakeUnread
              /\ CmdAt("open", m)
              /\ UNCHANGED rejected
    /\ UNCHANGED <<CmdRest, out, flag, ended, closer, aborted, strayRead>>

\* _open_run.
OpenRun ==
    /\ cmd.at = "open" /\ LockFree
    /\ generation' = generation + 1
    /\ inProgress' = TRUE
    /\ current' = cmd.msg
    /\ drainGen' = [drainGen EXCEPT ![cmd.msg] = generation + 1]
    /\ CmdAt("put", cmd.msg)
    /\ UNCHANGED <<core, stdin, out, closing, account, intervene, engine, agent,
                   drain, past>>

\* put_task, and the run's progress drain starts.
PutTask ==
    /\ cmd.at = "put"
    /\ taskQueue' = Append(taskQueue, cmd.msg)
    /\ drain' = [drain EXCEPT ![cmd.msg] = "live"]
    /\ CmdAt("idle", NoMsg)
    /\ UNCHANGED <<core, stdin, out, flag, closing, account, intervene, isRunning,
                   stopSig, agent, drainGen, past>>

\* Variant: abort leaves the run its generation.
AbortKeepsGeneration ==
    /\ Reads("abort") /\ LockFree
    /\ aborted' = aborted \cup ({current} \ {NoMsg})
    /\ CmdAt("abort", NoMsg)
    /\ UNCHANGED <<CmdRest, out, flag, account, intervene, ended, closer,
                   rejected, strayRead>>

\* Variant: abort retires the generation twice.
AbortRetiresTwice ==
    /\ Reads("abort") /\ LockFree
    /\ generation' = generation + 2
    /\ aborted' = aborted \cup ({current} \ {NoMsg})
    /\ CmdAt("abort", NoMsg)
    /\ UNCHANGED <<CmdRest, out, inProgress, current, account, intervene, ended,
                   closer, rejected, strayRead>>

\* abort: the generation is retired first, so that no drain closes the run.
AbortRetire ==
    /\ Reads("abort") /\ LockFree
    /\ generation' = generation + 1
    /\ aborted' = aborted \cup ({current} \ {NoMsg})
    /\ CmdAt("abort", NoMsg)
    /\ UNCHANGED <<CmdRest, out, inProgress, current, account, intervene, ended,
                   closer, rejected, strayRead>>

\* agent.abort(): it looks at is_running, then sets stop_sig.
AbortLook ==
    /\ cmd.at = "abort"
    /\ CmdAt(IF isRunning THEN "signal" ELSE "stopped", NoMsg)
    /\ UNCHANGED <<CmdRest, stdin, out, flag, account, intervene, past>>

AbortSignal ==
    /\ cmd.at = "signal"
    /\ stopSig' = TRUE
    /\ CmdAt("stopped", NoMsg)
    /\ UNCHANGED <<core, closing, taskQueue, isRunning, agent, drains, stdin, out,
                   flag, account, intervene, past>>

\* Variant: closes the run without telling Core.
AbortCloseSilent ==
    /\ cmd.at = "stopped" /\ LockFree
    /\ TakeUnread /\ Clear
    /\ CmdAt("idle", NoMsg)
    /\ UNCHANGED <<CmdRest, stdin, out, generation, past>>

\* The synthesized run_complete, unless the run has ended meanwhile.
AbortClose ==
    /\ cmd.at = "stopped" /\ LockFree
    /\ \/ inProgress /\ Complete(current, "ABORTED") /\ Clear
       \/ ~inProgress /\ UNCHANGED <<account, intervene, out, ended, closer,
                                     inProgress, current>>
    /\ CmdAt("idle", NoMsg)
    /\ UNCHANGED <<CmdRest, stdin, generation, aborted, rejected, strayRead>>

\* Variant: takes the messages up with no run going.
InterjectAnyway ==
    /\ Reads("interject") /\ LockFree
    /\ Add(Head(stdin).ids)
    /\ UNCHANGED <<CmdRest, out, cmd, flag, past>>

\* _handle_interject: with no run going the messages are handed back.
TakeInterject ==
    /\ Reads("interject") /\ LockFree
    /\ \/ inProgress /\ Add(Head(stdin).ids)
       \/ ~inProgress /\ UNCHANGED <<account, intervene>>
    /\ UNCHANGED <<CmdRest, out, cmd, flag, past>>

CommandThread == \/ TakeMessage \/ OpenRun \/ PutTask \/ TakeInterject
                 \/ AbortRetire \/ AbortLook \/ AbortSignal \/ AbortClose

-----------------------------------------------------------------------------
(* The agent thread: one task at a time, step by step.                     *)

AgentRest == <<core, stdin, cmd, generation, drainGen>>
Untouched == <<AgentRest, out, inProgress, current, closing, account, drain, past>>

StartTask ==
    /\ agent.at = "idle" /\ taskQueue # <<>>
    /\ agent' = [at |-> "start", task |-> Head(taskQueue), took |-> {}, final |-> FALSE]
    /\ taskQueue' = Tail(taskQueue)
    /\ isRunning' = TRUE
    /\ UNCHANGED <<Untouched, intervene, stopSig>>

\* A slash command is answered at once; any other task enters its loop.
EnterLoop ==
    /\ agent.at = "start"
    /\ \/ /\ agent.task \in Slash
          /\ drain' = [drain EXCEPT ![agent.task] = "system"]
          /\ AgentAt("finally")
       \/ /\ agent.task \notin Slash
          /\ AgentAt("step")
          /\ UNCHANGED drain
    /\ UNCHANGED <<AgentRest, out, inProgress, current, closing, account, engine,
                   intervene, past>>

\* Each chunk looks at stop_sig; past the last one, the step reaches its end.
TakeStep(final) ==
    /\ agent.at = "step"
    /\ \/ stopSig /\ ~final /\ AgentAt("done")
       \/ ~stopSig /\ agent' = [agent EXCEPT !.at = "end", !.final = final]
       \/ Raises /\ ~final /\ AgentAt("done")
    /\ UNCHANGED <<Untouched, engine, intervene>>

\* turn_end_callback: reads `intervene`, then clears it, then the hook.
ReadIntervene ==
    /\ agent.at = "end"
    /\ agent' = [agent EXCEPT !.at = "wipe", !.took = intervene]
    /\ UNCHANGED <<Untouched, engine, intervene>>

WipeIntervene ==
    /\ agent.at = "wipe"
    /\ intervene' = {}
    /\ AgentAt("account")
    /\ UNCHANGED <<Untouched, engine>>

\* _on_turn_end: what the step read is accounted for ...
AccountStep ==
    /\ agent.at = "account"
    /\ StepEnded(agent)
    /\ agent' = [agent EXCEPT !.at = "report", !.took = ReadBy(agent)]
    /\ strayRead' = strayRead \cup (IF agent.task = current THEN {} ELSE ReadBy(agent))
    /\ UNCHANGED <<AgentRest, out, inProgress, current, closing, engine, drain,
                   ended, closer, aborted, rejected>>

\* Variant: the task's `done` is put before its run is closed.
DoneBeforeClose ==
    /\ agent.at = "report"
    /\ drain' = [drain EXCEPT ![agent.task] = IF agent.final THEN "done" ELSE @]
    /\ AgentAt(IF agent.final THEN "close" ELSE "step")
    /\ UNCHANGED <<AgentRest, out, inProgress, current, closing, account, engine,
                   intervene, past>>

\* ... and reported, after which the loop goes on or the run is closed.
ReportStep ==
    /\ agent.at = "report"
    /\ out' = IF agent.took = {} THEN out
              ELSE Append(out, Event("interject_delivered", agent.took))
    /\ AgentAt(IF agent.final THEN "close" ELSE "step")
    /\ UNCHANGED <<AgentRest, inProgress, current, closing, account, engine,
                   intervene, drain, past>>

\* Variant: closes without looking at run_in_progress again.
CloseRunAgain ==
    /\ agent.at = "close" /\ LockFree
    /\ out' = Append(out, Event("run_complete", {}))
    /\ TakeUnread
    /\ closing' = agent.task
    /\ AgentAt("clear")
    /\ UNCHANGED <<AgentRest, inProgress, current, engine, drain, past>>

\* The exit: run_complete goes out unless the run was closed already.
CloseRun ==
    /\ agent.at = "close" /\ LockFree
    /\ \/ /\ inProgress
          /\ Complete(agent.task, "EXIT")
          /\ closing' = agent.task
          /\ AgentAt("clear")
       \/ /\ ~inProgress
          /\ AgentAt("done")
          /\ UNCHANGED <<account, intervene, out, ended, closer, closing>>
    /\ UNCHANGED <<AgentRest, inProgress, current, engine, drain, aborted,
                   rejected, strayRead>>

ClearRun ==
    /\ agent.at = "clear"
    /\ Clear
    /\ closing' = NoMsg
    /\ AgentAt("done")
    /\ UNCHANGED <<AgentRest, out, account, intervene, engine, drain, past>>

\* The task's last word to its drain, then run()'s finally.
PutDone ==
    /\ agent.at = "done"
    /\ drain' = [drain EXCEPT ![agent.task] = "done"]
    /\ AgentAt("finally")
    /\ UNCHANGED <<AgentRest, out, inProgress, current, closing, account, engine,
                   intervene, past>>

Finally ==
    /\ agent.at = "finally"
    /\ isRunning' = FALSE /\ stopSig' = FALSE
    /\ agent' = [at |-> "idle", task |-> NoMsg, took |-> {}, final |-> FALSE]
    /\ UNCHANGED <<Untouched, taskQueue, intervene>>

AgentThread == \/ StartTask \/ EnterLoop \/ \E final \in BOOLEAN : TakeStep(final)
               \/ ReadIntervene \/ WipeIntervene \/ AccountStep \/ ReportStep
               \/ CloseRun \/ ClearRun \/ PutDone \/ Finally

-----------------------------------------------------------------------------
(* A progress drain: the task's `done` closes a run nothing else closed.   *)

\* Variants: without the generation check; without the safety net.
AnyRunOpen(m)   == inProgress
NeverOpen(m)    == FALSE

StillMine(m) == inProgress /\ generation = drainGen[m]

DrainRest == <<core, stdin, cmd, generation, engine, agent, drainGen, aborted,
               rejected, strayRead>>

DrainDone(m) ==
    /\ drain[m] \in {"done", "system"} /\ LockFree
    /\ \/ /\ StillMine(m)
          /\ Complete(m, IF drain[m] = "done" THEN "DONE_WITHOUT_EXIT"
                         ELSE "SLASH_COMMAND_COMPLETED")
          /\ closing' = m
          /\ drain' = [drain EXCEPT ![m] = "clear"]
       \/ /\ ~StillMine(m)
          /\ drain' = [drain EXCEPT ![m] = "over"]
          /\ UNCHANGED <<account, intervene, out, ended, closer, closing>>
    /\ UNCHANGED <<DrainRest, inProgress, current>>

DrainClear(m) ==
    /\ drain[m] = "clear"
    /\ Clear
    /\ closing' = NoMsg
    /\ drain' = [drain EXCEPT ![m] = "over"]
    /\ UNCHANGED <<DrainRest, out, account, intervene, ended, closer>>

ProgressDrain(m) == DrainDone(m) \/ DrainClear(m)

-----------------------------------------------------------------------------
Core == \/ \E m \in Msgs : CoreSend(m)
        \/ \E ids \in handing : CoreInterject(ids)
        \/ CoreAbort \/ CoreReads

Next == Core \/ CommandThread \/ AgentThread \/ \E m \in Msgs : ProgressDrain(m)

Spec == Init /\ [][Next]_vars

(* Fairness: every thread runs on, Core reads what it is sent, and a loop  *)
(* that is not stopped reaches a last step (agent_runner_loop stops at     *)
(* max_turns). Users owe nothing.                                          *)
Fairness ==
    /\ WF_vars(\E ids \in handing : CoreInterject(ids))
    /\ WF_vars(CoreReads)
    /\ WF_vars(CommandThread)
    /\ WF_vars(AgentThread)
    /\ SF_vars(TakeStep(TRUE))
    /\ \A m \in Msgs : WF_vars(ProgressDrain(m))

LiveSpec == Spec /\ Fairness

-----------------------------------------------------------------------------
(* Properties.                                                             *)

(* Every variable has its type; the generation only counts opened runs and *)
(* aborts.                                                                 *)
TypeOK ==
    /\ fresh \subseteq Msgs /\ waiting \subseteq Msgs /\ handing \subseteq SUBSET Msgs
    /\ coreOpen \in BOOLEAN /\ aborts \in 0 .. Aborts
    /\ stdin \in Seq(Commands) /\ out \in Seq(Events)
    /\ cmd \in Command /\ agent \in Agent
    /\ inProgress \in BOOLEAN /\ generation \in Gens
    /\ {current, closing} \subseteq Msgs \cup {NoMsg}
    /\ unread \subseteq Msgs /\ taken \subseteq Msgs /\ written \subseteq SUBSET Msgs
    /\ intervene \subseteq Msgs /\ taskQueue \in Seq(Msgs)
    /\ {isRunning, stopSig} \subseteq BOOLEAN
    /\ drain \in [Msgs -> {"none", "live", "done", "system", "clear", "over"}]
    /\ drainGen \in [Msgs -> Gens]
    /\ ended \in [Msgs -> Reasons] /\ closer \in [Msgs -> SUBSET Msgs]
    /\ aborted \subseteq Msgs /\ rejected \subseteq Msgs /\ strayRead \subseteq Msgs

Count(seq, kind) == Cardinality({i \in DOMAIN seq : seq[i].kind = kind})

(* Core and the bridge agree: while Core's gate is open there is exactly   *)
(* one of a message on its way, a run going, or a run_complete on its way; *)
(* otherwise none. So every run completes once, whichever of the turn end, *)
(* the abort and the drain gets there first.                               *)
OneComplete ==
    Count(stdin, "user") + Count(out, "run_complete")
      + (IF cmd.at = "open" THEN 1 ELSE 0)
      + (IF inProgress /\ closing = NoMsg THEN 1 ELSE 0)
    = IF coreOpen THEN 1 ELSE 0

(* A `done` closes only the run of its own task, and never one that the    *)
(* user stopped: the stop is told as ABORTED.                              *)
LateDone == \A m \in Msgs :
    ended[m] \in {"DONE_WITHOUT_EXIT", "SLASH_COMMAND_COMPLETED"}
        => closer[m] = {m} /\ m \notin aborted

(* A run is closed by its own task, or by an abort.                        *)
ClosedByOwnTask == \A m \in Msgs : closer[m] \subseteq {m}

\* Where the agent thread works on a task's steps.
Stepping == {"step", "end", "wipe", "account", "report", "close"}

(* Until the user stops one, the steps of a task fall inside the run it    *)
(* was put for, read only what was handed to that run, and nothing else    *)
(* closes it: turn ends, drains and interjects never meet another run.     *)
OwnRun == aborted = {} =>
    /\ agent.at \in Stepping => inProgress /\ current = agent.task
    /\ strayRead = {}
    /\ ClosedByOwnTask

(* While a run goes on, `intervene` holds every message not read yet, but  *)
(* for the moments between the engine's wipe and the account's answer: a   *)
(* message that arrives inside the engine's read and wipe is not lost.     *)
Armed ==
    inProgress /\ agent.at # "account" /\ ~(agent.final /\ agent.at # "end")
        => intervene = unread

(* Nothing said in one run is left in `intervene` for the next.            *)
CleanSlate == ~inProgress => intervene = {} /\ unread = {}

(* The bridge refuses no message of Core's.                                *)
NeverRejected == rejected = {}

(* Every run completes, however its task ends.                             *)
RunsEnd == \A m \in Msgs : (current = m) ~> (ended[m] # "no")

(* What the user said meanwhile is read, or opens a run of its own.        *)
WaitingEnds == \A m \in Msgs : (m \in waiting) ~> (m \notin waiting)
=============================================================================
