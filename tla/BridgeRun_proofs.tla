-------------------------- MODULE BridgeRun_proofs --------------------------
(***************************************************************************)
(* Theorems about BridgeRun, for every set of messages and slash commands, *)
(* every number of aborts, and whether or not tasks raise and Core answers *)
(* early.                                                                  *)
(***************************************************************************)
EXTENDS BridgeRun, FiniteSetTheorems, FunctionTheorems, TLAPS

-----------------------------------------------------------------------------
(* The inductive invariant, in named parts.                                *)

\* TypeOK, without the bound of the generation.
Typed ==
    /\ fresh \subseteq Msgs /\ waiting \subseteq Msgs /\ handing \subseteq SUBSET Msgs
    /\ stdin \in Seq(Commands)
    /\ cmd \in Command /\ agent \in Agent
    /\ inProgress \in BOOLEAN /\ generation \in Nat
    /\ current \in Msgs \cup {NoMsg} /\ closing \in Msgs \cup {NoMsg}
    /\ unread \subseteq Msgs /\ taken \subseteq Msgs
    /\ intervene \subseteq Msgs /\ taskQueue \in Seq(Msgs)
    /\ drain \in [Msgs -> {"none", "live", "done", "system", "clear", "over"}]
    /\ drainGen \in [Msgs -> Nat]
    /\ ended \in [Msgs -> Reasons] /\ closer \in [Msgs -> SUBSET Msgs]
    /\ aborted \subseteq Msgs

\* A thread at work on a run has the run's name.
Named ==
    /\ agent.at # "idle" => agent.task \in Msgs
    /\ cmd.at \in {"open", "put"} => cmd.msg \in Msgs

\* Who holds the lock between run_complete and the clear: one at most.
Locked ==
    /\ agent.at = "clear" => closing # NoMsg
    /\ \A m \in Msgs : drain[m] = "clear" => closing # NoMsg /\ agent.at # "clear"
    /\ \A m, n \in Msgs : drain[m] = "clear" /\ drain[n] = "clear" => m = n

\* Nothing unread is left once a run is told complete.
Clean == ~inProgress \/ closing # NoMsg => intervene = {} /\ unread = {}

\* The end of a task's last step, where what is unread is not put back.
LastStep == agent.final /\ agent.at \in {"wipe", "report", "close"}

\* The slot holds what is unread, but from the wipe to the account.
Mirror == agent.at # "account" /\ ~LastStep => intervene = unread

\* A message is in one place until its run opens ...
Sent(m)    == \E i \in DOMAIN stdin : stdin[i].kind = "user" /\ stdin[i].msg = m
Opening(m) == cmd.at = "open" /\ cmd.msg = m
Unopened ==
    /\ fresh \cap waiting = {}
    /\ \A m \in fresh \cup waiting : ~Sent(m) /\ ~Opening(m) /\ drainGen[m] = 0
    /\ \A m \in Msgs : Sent(m) => ~Opening(m) /\ drainGen[m] = 0
    /\ \A m \in Msgs : Opening(m) => drainGen[m] = 0
    /\ \A i, j \in DOMAIN stdin :
         stdin[i].kind = "user" /\ stdin[j].kind = "user" /\ stdin[i].msg = stdin[j].msg
            => i = j

\* ... and until then nothing is known of it.
Blank == \A m \in Msgs : drainGen[m] = 0 =>
    m # current /\ m \notin aborted /\ ended[m] = "no" /\ closer[m] = {}

\* A run that goes on has no end yet, and is nobody's once it is over.
Going ==
    /\ ~inProgress => current = NoMsg
    /\ inProgress => current \in Msgs
    /\ inProgress /\ closing = NoMsg => ended[current] = "no" /\ closer[current] = {}

\* The generation is a run's until the next one opens or this one is aborted.
Generations == \A m \in Msgs :
    /\ drainGen[m] <= generation
    /\ inProgress /\ drainGen[m] = generation => current = m /\ m \notin aborted

IInv == /\ Typed /\ Named /\ Locked /\ Clean /\ Mirror
        /\ Unopened /\ Blank /\ Going /\ Generations /\ LateDone

-----------------------------------------------------------------------------
(* The pipes and records.                                                  *)

\* A pipe with one entry more at its end.
LEMMA Appended ==
    ASSUME NEW S, NEW s \in Seq(S), NEW e \in S
    PROVE  /\ Append(s, e) \in Seq(S)
           /\ DOMAIN Append(s, e) = 1 .. Len(s) + 1
           /\ DOMAIN s = 1 .. Len(s)
           /\ Len(s) \in Nat
           /\ Append(s, e)[Len(s) + 1] = e
           /\ \A i \in 1 .. Len(s) : Append(s, e)[i] = s[i]
  OBVIOUS

\* A pipe whose first entry is taken.
LEMMA TakenFirst ==
    ASSUME NEW S, NEW s \in Seq(S), s # <<>>
    PROVE  /\ Tail(s) \in Seq(S) /\ Head(s) \in S
           /\ Len(s) \in Nat \ {0}
           /\ DOMAIN s = 1 .. Len(s)
           /\ DOMAIN Tail(s) = 1 .. Len(s) - 1
           /\ Head(s) = s[1]
           /\ \A i \in 1 .. Len(s) - 1 : Tail(s)[i] = s[i + 1]
  OBVIOUS

\* The commands of Core.
LEMMA CommandsOf ==
    ASSUME NEW ids \in SUBSET Msgs
    PROVE  /\ \A m \in Msgs : Cmd("user", m, {}) \in Commands
           /\ Cmd("interject", NoMsg, ids) \in Commands
           /\ Cmd("abort", NoMsg, {}) \in Commands
  BY DEF Cmd, Commands

\* A message's command on the pipe.
LEMMA UserAppended ==
    ASSUME Typed, NEW m \in Msgs
    PROVE  Append(stdin, Cmd("user", m, {})) \in Seq(Commands)
<1>1. Cmd("user", m, {}) \in Commands
  BY CommandsOf, {} \in SUBSET Msgs
<1> QED
  BY <1>1, Appended DEF Typed

\* What is in a command.
LEMMA CommandParts ==
    ASSUME NEW c \in Commands
    PROVE  /\ c.kind = "user" => c.msg \in Msgs
           /\ c.kind # "user" => c.ids \subseteq Msgs
           /\ c.kind \in {"user", "abort", "interject"}
  BY DEF Commands

-----------------------------------------------------------------------------
(* Types.                                                                  *)

\* Core's steps keep the types.
LEMMA TypedCore ==
    ASSUME Typed, Core
    PROVE  Typed'
<1>1. CASE \E m \in Msgs : CoreSend(m)
  <2>1. PICK m \in Msgs : CoreSend(m)
    BY <1>1
  <2>2. stdin' \in Seq(Commands)
    BY <2>1, UserAppended DEF Typed, CoreSend, Dispatch
  <2> QED
    BY <2>1, <2>2 DEF Typed, CoreSend, Dispatch, HandOver, flag, account, engine,
                      drains, past
<1>2. CASE \E ids \in handing : CoreInterject(ids)
  <2>1. PICK ids \in handing : CoreInterject(ids)
    BY <1>2
  <2>2. ids \in SUBSET Msgs
    BY DEF Typed
  <2>3. stdin' \in Seq(Commands)
    BY <2>1, <2>2, Appended, CommandsOf DEF Typed, CoreInterject
  <2> QED
    BY <2>1, <2>3 DEF Typed, CoreInterject, flag, account, engine, drains, past
<1>3. CASE CoreAbort
  <2>1. stdin' \in Seq(Commands)
    BY <1>3, Appended, CommandsOf DEF Typed, CoreAbort
  <2> QED
    BY <1>3, <2>1 DEF Typed, CoreAbort, flag, account, engine, drains, past
<1>4. CASE CoreReads
  <2>1. stdin' \in Seq(Commands)
    BY <1>4, UserAppended DEF Typed, CoreReads, Dispatch
  <2>2. waiting' \subseteq Msgs /\ handing' \subseteq SUBSET Msgs
    BY <1>4 DEF Typed, CoreReads, Dispatch, HandOver
  <2> QED
    BY <1>4, <2>1, <2>2 DEF Typed, CoreReads, flag, account, engine, drains, past
<1> QED
  BY <1>1, <1>2, <1>3, <1>4 DEF Core

\* What closing a run writes has its type.
LEMMA TypedComplete ==
    ASSUME Typed, inProgress, Going, NEW by \in Msgs, NEW reason \in Reasons,
           Complete(by, reason)
    PROVE  /\ unread' \subseteq Msgs /\ taken' \subseteq Msgs
           /\ intervene' \subseteq Msgs
           /\ ended' \in [Msgs -> Reasons] /\ closer' \in [Msgs -> SUBSET Msgs]
<1>1. current \in Msgs
  BY DEF Going
<1> QED
  BY <1>1 DEF Typed, Complete, TakeUnread

\* So do the command thread's steps,
LEMMA TypedCommand ==
    ASSUME Typed, Named, Going, CommandThread
    PROVE  Typed' /\ Named'
<1> USE DEF Typed, Named, CmdRest, core, flag, account, engine, drains, past
<1>0. ASSUME NEW kind, Reads(kind)
      PROVE  /\ stdin' \in Seq(Commands) /\ Head(stdin) \in Commands
             /\ Head(stdin).kind = kind /\ cmd.at = "idle"
  BY <1>0, TakenFirst DEF Reads
<1>1. CASE TakeMessage
  <2>1. Head(stdin).msg \in Msgs /\ stdin' \in Seq(Commands)
    BY <1>0, <1>1, CommandParts DEF TakeMessage
  <2>2. cmd' \in Command /\ (cmd'.at \in {"open", "put"} => cmd'.msg \in Msgs)
    BY <1>1, <2>1 DEF TakeMessage, CmdAt, Command
  <2> QED
    BY <1>1, <2>1, <2>2 DEF TakeMessage, TakeUnread
<1>2. CASE OpenRun
  <2>1. cmd.msg \in Msgs
    BY <1>2 DEF OpenRun
  <2>2. cmd' \in Command /\ cmd'.msg \in Msgs
    BY <1>2, <2>1 DEF OpenRun, CmdAt, Command
  <2> QED
    BY <1>2, <2>1, <2>2 DEF OpenRun
<1>3. CASE PutTask
  <2>1. cmd.msg \in Msgs
    BY <1>3 DEF PutTask
  <2>2. cmd' \in Command /\ cmd'.at = "idle"
    BY <1>3, <2>1 DEF PutTask, CmdAt, Command
  <2>3. taskQueue' \in Seq(Msgs)
    BY <1>3, <2>1, Appended DEF PutTask
  <2> QED
    BY <1>3, <2>1, <2>2, <2>3 DEF PutTask
<1>4. CASE AbortRetire
  <2>1. stdin' \in Seq(Commands)
    BY <1>0, <1>4 DEF AbortRetire
  <2>2. cmd' \in Command /\ cmd'.at = "abort"
    BY <1>4 DEF AbortRetire, CmdAt, Command
  <2> QED
    BY <1>4, <2>1, <2>2 DEF AbortRetire
<1>5. CASE AbortLook
  <2>1. cmd' \in Command /\ cmd'.at \in {"signal", "stopped"}
    BY <1>5 DEF AbortLook, CmdAt, Command
  <2> QED
    BY <1>5, <2>1 DEF AbortLook
<1>6. CASE AbortSignal
  <2>1. cmd' \in Command /\ cmd'.at = "stopped"
    BY <1>6 DEF AbortSignal, CmdAt, Command
  <2> QED
    BY <1>6, <2>1 DEF AbortSignal
<1>7. CASE AbortClose
  <2>1. cmd' \in Command /\ cmd'.at = "idle"
    BY <1>7 DEF AbortClose, CmdAt, Command
  <2>2. CASE inProgress /\ Complete(current, "ABORTED") /\ Clear
    <3>1. current \in Msgs /\ "ABORTED" \in Reasons
      BY <2>2 DEF Going, Reasons
    <3>2. /\ unread' \subseteq Msgs /\ taken' \subseteq Msgs
          /\ intervene' \subseteq Msgs
          /\ ended' \in [Msgs -> Reasons] /\ closer' \in [Msgs -> SUBSET Msgs]
      BY <2>2, <3>1, TypedComplete
    <3> QED
      BY <1>7, <2>1, <2>2, <3>2 DEF AbortClose, Clear
  <2>3. CASE ~inProgress /\ UNCHANGED <<account, intervene, out, ended, closer,
                                        inProgress, current>>
    BY <1>7, <2>1, <2>3 DEF AbortClose
  <2> QED
    BY <1>7, <2>2, <2>3 DEF AbortClose
<1>8. CASE TakeInterject
  <2>1. stdin' \in Seq(Commands) /\ Head(stdin).ids \subseteq Msgs
    <3>1. /\ stdin' \in Seq(Commands) /\ Head(stdin) \in Commands
          /\ Head(stdin).kind = "interject"
      BY <1>0, <1>8 DEF TakeInterject
    <3> QED
      BY ONLY <3>1, CommandParts
  <2>2. /\ unread' \subseteq Msgs /\ taken' \subseteq Msgs /\ intervene' \subseteq Msgs
    <3>1. CASE Add(Head(stdin).ids)
      BY <2>1, <3>1 DEF Add
    <3>2. CASE UNCHANGED <<account, intervene>>
      BY <3>2
    <3> QED
      BY <1>8, <3>1, <3>2 DEF TakeInterject
  <2> QED
    BY <1>8, <2>1, <2>2 DEF TakeInterject
<1> QED
  BY <1>1, <1>2, <1>3, <1>4, <1>5, <1>6, <1>7, <1>8 DEF CommandThread

\* the agent thread's,
LEMMA TypedAgent ==
    ASSUME Typed, Named, Going, AgentThread
    PROVE  Typed' /\ Named'
<1> USE DEF Typed, Named, AgentRest, Untouched, core, flag, account, engine, drains, past
<1>1. CASE StartTask
  <2>1. taskQueue' \in Seq(Msgs) /\ Head(taskQueue) \in Msgs
    BY <1>1, TakenFirst DEF StartTask
  <2>2. agent' \in Agent /\ agent'.task \in Msgs
    BY <1>1, <2>1 DEF StartTask, Agent
  <2> QED
    BY <1>1, <2>1, <2>2 DEF StartTask
<1>2. ASSUME NEW step \in {"start", "step", "end", "wipe", "account", "report",
                           "close", "clear", "done", "finally"},
             agent.at # "idle", AgentAt(step)
      PROVE  agent' \in Agent /\ agent'.task \in Msgs
  BY <1>2 DEF AgentAt, Agent
<1>3. CASE EnterLoop
  <2>1. agent' \in Agent /\ agent'.task \in Msgs
    BY <1>2, <1>3 DEF EnterLoop
  <2>2. drain' \in [Msgs -> {"none", "live", "done", "system", "clear", "over"}]
    BY <1>3 DEF EnterLoop
  <2> QED
    BY <1>3, <2>1, <2>2 DEF EnterLoop
<1>4. ASSUME NEW final \in BOOLEAN, TakeStep(final)
      PROVE  Typed' /\ Named'
  <2>1. CASE AgentAt("done")
    BY <1>2, <1>4, <2>1 DEF TakeStep
  <2>2. CASE agent' = [agent EXCEPT !.at = "end", !.final = final]
    <3>1. agent' \in Agent /\ agent'.task \in Msgs
      BY <1>4, <2>2 DEF TakeStep, Agent
    <3> QED
      BY <1>4, <3>1 DEF TakeStep
  <2> QED
    BY <1>4, <2>1, <2>2 DEF TakeStep
<1>5. CASE ReadIntervene
  <2>1. agent' \in Agent /\ agent'.task \in Msgs
    BY <1>5 DEF ReadIntervene, Agent
  <2> QED
    BY <1>5, <2>1 DEF ReadIntervene
<1>6. CASE WipeIntervene
  <2>1. agent' \in Agent /\ agent'.task \in Msgs
    BY <1>2, <1>6 DEF WipeIntervene
  <2> QED
    BY <1>6, <2>1 DEF WipeIntervene
<1>7. CASE AccountStep
  <2>1. ReadBy(agent) \subseteq Msgs
    BY DEF ReadBy, Agent
  <2>2. agent' \in Agent /\ agent'.task \in Msgs
    BY <1>7, <2>1 DEF AccountStep, Agent
  <2>3. unread' \subseteq Msgs /\ taken' \subseteq Msgs /\ intervene' \subseteq Msgs
    BY <1>7 DEF AccountStep, StepEnded
  <2> QED
    BY <1>7, <2>2, <2>3 DEF AccountStep
<1>8. CASE ReportStep
  <2>1. agent' \in Agent /\ agent'.task \in Msgs
    BY <1>2, <1>8 DEF ReportStep
  <2> QED
    BY <1>8, <2>1 DEF ReportStep
<1>9. CASE CloseRun
  <2>1. agent' \in Agent /\ agent'.task \in Msgs /\ agent.task \in Msgs
    BY <1>2, <1>9 DEF CloseRun
  <2>2. CASE inProgress
    <3>1. /\ unread' \subseteq Msgs /\ taken' \subseteq Msgs
          /\ intervene' \subseteq Msgs
          /\ ended' \in [Msgs -> Reasons] /\ closer' \in [Msgs -> SUBSET Msgs]
      BY <1>9, <2>1, <2>2, TypedComplete, "EXIT" \in Reasons DEF CloseRun, Reasons
    <3> QED
      BY <1>9, <2>1, <2>2, <3>1 DEF CloseRun
  <2>3. CASE ~inProgress
    BY <1>9, <2>1, <2>3 DEF CloseRun
  <2> QED
    BY <2>2, <2>3
<1>10. CASE ClearRun
  <2>1. agent' \in Agent /\ agent'.task \in Msgs
    BY <1>2, <1>10 DEF ClearRun
  <2> QED
    BY <1>10, <2>1 DEF ClearRun, Clear
<1>11. CASE PutDone
  <2>1. agent' \in Agent /\ agent'.task \in Msgs
    BY <1>2, <1>11 DEF PutDone
  <2>2. drain' \in [Msgs -> {"none", "live", "done", "system", "clear", "over"}]
    BY <1>11 DEF PutDone
  <2> QED
    BY <1>11, <2>1, <2>2 DEF PutDone
<1>12. CASE Finally
  <2>1. agent' \in Agent /\ agent'.at = "idle"
    BY <1>12 DEF Finally, Agent
  <2> QED
    BY <1>12, <2>1 DEF Finally
<1> QED
  BY <1>1, <1>3, <1>4, <1>5, <1>6, <1>7, <1>8, <1>9, <1>10, <1>11, <1>12
     DEF AgentThread

\* and the drains'.
LEMMA TypedDrain ==
    ASSUME Typed, Named, Going, NEW m \in Msgs, ProgressDrain(m)
    PROVE  Typed' /\ Named'
<1> USE DEF Typed, Named, DrainRest, core, flag, account, engine, drains, past
<1>1. CASE DrainDone(m)
  <2>1. drain' \in [Msgs -> {"none", "live", "done", "system", "clear", "over"}]
    BY <1>1 DEF DrainDone
  <2>2. CASE StillMine(m)
    <3>1. /\ unread' \subseteq Msgs /\ taken' \subseteq Msgs
          /\ intervene' \subseteq Msgs
          /\ ended' \in [Msgs -> Reasons] /\ closer' \in [Msgs -> SUBSET Msgs]
      BY <1>1, <2>2, TypedComplete,
         {"DONE_WITHOUT_EXIT", "SLASH_COMMAND_COMPLETED"} \subseteq Reasons
         DEF DrainDone, StillMine, Reasons
    <3> QED
      BY <1>1, <2>1, <2>2, <3>1 DEF DrainDone
  <2>3. CASE ~StillMine(m)
    BY <1>1, <2>1, <2>3 DEF DrainDone
  <2> QED
    BY <2>2, <2>3
<1>2. CASE DrainClear(m)
  BY <1>2 DEF DrainClear, Clear
<1> QED
  BY <1>1, <1>2 DEF ProgressDrain

\* Core has no name to give.
LEMMA NamedCore ==
    ASSUME Named, Core
    PROVE  Named'
  BY DEF Named, Core, CoreSend, CoreInterject, CoreAbort, CoreReads

-----------------------------------------------------------------------------
(* The lock between a run_complete and the clear.                          *)

\* Where the agent thread goes within a task.
LEMMA AgentGoes ==
    ASSUME Typed, NEW step, AgentAt(step)
    PROVE  agent'.at = step
  BY DEF Typed, Agent, AgentAt

\* No step of a task takes the lock.
LEMMA StepsOn ==
    ASSUME Typed,
           \/ \E final \in BOOLEAN : TakeStep(final)
           \/ ReadIntervene \/ WipeIntervene \/ AccountStep \/ ReportStep
    PROVE  agent'.at # "clear"
<1>1. ASSUME NEW final \in BOOLEAN, TakeStep(final)
      PROVE  agent'.at # "clear"
  <2>1. CASE AgentAt("done")
    BY <2>1, AgentGoes
  <2>2. CASE agent' = [agent EXCEPT !.at = "end", !.final = final]
    BY <2>2 DEF Typed, Agent
  <2> QED
    BY <1>1, <2>1, <2>2 DEF TakeStep
<1>2. CASE ReadIntervene
  BY <1>2 DEF ReadIntervene, Typed, Agent
<1>3. CASE WipeIntervene
  BY <1>3, AgentGoes DEF WipeIntervene
<1>4. CASE AccountStep
  BY <1>4 DEF AccountStep, Typed, Agent
<1>5. CASE ReportStep
  BY <1>5, AgentGoes DEF ReportStep
<1> QED
  BY <1>1, <1>2, <1>3, <1>4, <1>5

\* No step gives the lock to a second thread, or takes it from its holder.
LEMMA LockedStep ==
    ASSUME Typed, Named, Locked, Next
    PROVE  Locked'
<1> USE BridgeAssumption DEF Locked, LockFree
<1>1. CASE Core
  BY <1>1 DEF Core, CoreSend, CoreInterject, CoreAbort, CoreReads, drains
<1>2. CASE PutTask
  BY <1>2 DEF PutTask, Typed, drains
<1>3. CASE TakeMessage \/ OpenRun \/ TakeInterject \/ AbortRetire \/ AbortLook
             \/ AbortSignal \/ AbortClose
  BY <1>3 DEF TakeMessage, OpenRun, TakeInterject, AbortRetire, AbortLook,
              AbortSignal, AbortClose, CmdRest, drains
<1>4. ASSUME agent'.at # "clear", UNCHANGED <<closing, drain>>
      PROVE  Locked'
  BY <1>4
<1>5. CASE StartTask
  BY <1>4, <1>5 DEF StartTask, Untouched
<1>6. CASE EnterLoop
  BY <1>6 DEF EnterLoop, AgentAt, Typed, Agent
<1>7. CASE \/ \E final \in BOOLEAN : TakeStep(final)
           \/ ReadIntervene \/ WipeIntervene \/ AccountStep \/ ReportStep
  <2>1. UNCHANGED <<closing, drain>>
    BY <1>7 DEF TakeStep, ReadIntervene, WipeIntervene, AccountStep, ReportStep, Untouched
  <2>2. agent'.at # "clear"
    BY <1>7, StepsOn
  <2> QED
    BY <1>4, <2>1, <2>2
<1>8. CASE CloseRun
  BY <1>8 DEF CloseRun, AgentAt, Typed, Named, Agent
<1>9. CASE ClearRun
  BY <1>9 DEF ClearRun, AgentAt, Typed, Agent
<1>10. CASE PutDone \/ Finally
  BY <1>10 DEF PutDone, Finally, Untouched, AgentAt, Typed, Agent
<1>11. ASSUME NEW m \in Msgs, DrainDone(m)
       PROVE  Locked'
  BY <1>11 DEF DrainDone, DrainRest, Typed
<1>12. ASSUME NEW m \in Msgs, DrainClear(m)
       PROVE  Locked'
  BY <1>12 DEF DrainClear, DrainRest, Typed
<1> QED
  BY <1>1, <1>2, <1>3, <1>4, <1>5, <1>6, <1>7, <1>8, <1>9, <1>10, <1>11, <1>12
     DEF Next, CommandThread, AgentThread, ProgressDrain

-----------------------------------------------------------------------------
(* The account of interjections.                                           *)

\* Every path that tells a run complete takes what is unread, and nothing
\* is added after it.
LEMMA CleanStep ==
    ASSUME Typed, Named, Locked, Clean, Next
    PROVE  Clean'
<1> USE BridgeAssumption DEF Clean, LockFree
<1>1. CASE Core
  BY <1>1 DEF Core, CoreSend, CoreInterject, CoreAbort, CoreReads, flag, account
<1>2. CASE TakeMessage
  BY <1>2 DEF TakeMessage, TakeUnread, CmdRest, flag, account
<1>3. CASE OpenRun
  BY <1>3 DEF OpenRun
<1>4. CASE TakeInterject
  BY <1>4 DEF TakeInterject, CmdRest, flag, account
<1>5. CASE AbortClose
  BY <1>5 DEF AbortClose, Complete, TakeUnread, CmdRest, account
<1>6. CASE PutTask \/ AbortRetire \/ AbortLook \/ AbortSignal
  BY <1>6 DEF PutTask, AbortRetire, AbortLook, AbortSignal, CmdRest, flag, account
<1>7. CASE AccountStep
  BY <1>7 DEF AccountStep, StepEnded
<1>8. CASE CloseRun
  BY <1>8 DEF CloseRun, Complete, TakeUnread, account
<1>9. CASE ClearRun
  BY <1>9 DEF ClearRun, Locked, account
<1>10. CASE WipeIntervene
  BY <1>10 DEF WipeIntervene, Untouched, account
<1>11. CASE StartTask \/ (\E final \in BOOLEAN : TakeStep(final)) \/ ReadIntervene
              \/ Finally
  BY <1>11 DEF StartTask, TakeStep, ReadIntervene, Finally, Untouched, account
<1>12. CASE EnterLoop \/ ReportStep \/ PutDone
  BY <1>12 DEF EnterLoop, ReportStep, PutDone, account
<1>13. ASSUME NEW m \in Msgs, DrainDone(m)
       PROVE  Clean'
  BY <1>13 DEF DrainDone, Complete, TakeUnread, account
<1>14. ASSUME NEW m \in Msgs, DrainClear(m)
       PROVE  Clean'
  BY <1>14 DEF DrainClear, Locked, account
<1> QED
  BY <1>1, <1>2, <1>3, <1>4, <1>5, <1>6, <1>7, <1>8, <1>9, <1>10, <1>11, <1>12,
     <1>13, <1>14 DEF Next, CommandThread, AgentThread, ProgressDrain

\* Whoever writes the account writes the slot with it, but for the engine's
\* wipe, which the account answers before the loop goes on.
LEMMA MirrorStep ==
    ASSUME Typed, Named, Clean, Mirror, Next
    PROVE  Mirror'
<1> USE DEF Mirror, LastStep
<1>1. CASE Core
  BY <1>1 DEF Core, CoreSend, CoreInterject, CoreAbort, CoreReads, account
<1>2. CASE TakeMessage
  BY <1>2 DEF TakeMessage, TakeUnread, CmdRest, account
<1>3. CASE TakeInterject
  BY <1>3 DEF TakeInterject, Add, CmdRest, account
<1>4. CASE AbortClose
  BY <1>4 DEF AbortClose, Complete, TakeUnread, CmdRest, account
<1>5. CASE OpenRun \/ PutTask \/ AbortRetire \/ AbortLook \/ AbortSignal
  BY <1>5 DEF OpenRun, PutTask, AbortRetire, AbortLook, AbortSignal, CmdRest, account
<1>6. CASE StartTask
  BY <1>6 DEF StartTask, Untouched, account
<1>7. CASE EnterLoop \/ PutDone
  BY <1>7 DEF EnterLoop, PutDone, AgentAt, Typed, Agent, account
<1>8. CASE \E final \in BOOLEAN : TakeStep(final)
  BY <1>8 DEF TakeStep, Untouched, AgentAt, Typed, Agent, account
<1>9. CASE ReadIntervene
  BY <1>9 DEF ReadIntervene, Untouched, Typed, Agent, account
<1>10. CASE WipeIntervene
  BY <1>10 DEF WipeIntervene, AgentAt, Typed, Agent
<1>11. CASE AccountStep
  BY <1>11 DEF AccountStep, StepEnded, Typed, Agent
<1>12. CASE ReportStep
  BY <1>12 DEF ReportStep, AgentAt, Typed, Agent, account
<1>13. CASE CloseRun
  BY <1>13 DEF CloseRun, Complete, TakeUnread, AgentAt, Typed, Agent, Clean, account
<1>14. CASE ClearRun
  BY <1>14 DEF ClearRun, AgentAt, Typed, Agent, account
<1>15. CASE Finally
  BY <1>15 DEF Finally, Untouched, Typed, Agent, account
<1>16. ASSUME NEW m \in Msgs, ProgressDrain(m)
       PROVE  Mirror'
  BY <1>16 DEF ProgressDrain, DrainDone, DrainClear, DrainRest, Complete, TakeUnread,
               account
<1> QED
  BY <1>1, <1>2, <1>3, <1>4, <1>5, <1>6, <1>7, <1>8, <1>9, <1>10, <1>11, <1>12,
     <1>13, <1>14, <1>15, <1>16 DEF Next, CommandThread, AgentThread

-----------------------------------------------------------------------------
(* A message is in one place until its run opens.                          *)

\* A message sent from where it waits is on the pipe, and nowhere else.
LEMMA UnopenedSent ==
    ASSUME Typed, Unopened, NEW m \in fresh \cup waiting,
           stdin' = Append(stdin, Cmd("user", m, {})),
           fresh' \cap waiting' = {},
           fresh' \cup waiting' \subseteq (fresh \cup waiting) \ {m},
           UNCHANGED <<cmd, drainGen>>
    PROVE  Unopened'
<1>1. m \in Msgs /\ fresh \subseteq Msgs /\ waiting \subseteq Msgs
  BY DEF Typed
<1>2. PICK k \in Nat : k = Len(stdin)
  BY Appended, UserAppended, <1>1 DEF Typed
<1>3. /\ DOMAIN stdin' = 1 .. k + 1 /\ DOMAIN stdin = 1 .. k
      /\ stdin'[k + 1].kind = "user" /\ stdin'[k + 1].msg = m
      /\ \A i \in 1 .. k : stdin'[i] = stdin[i]
  <2>1. Cmd("user", m, {}) \in Commands
    BY <1>1, CommandsOf, {} \in SUBSET Msgs
  <2> QED
    BY <1>2, <2>1, Appended DEF Typed, Cmd
<1>4. \A n \in Msgs : Sent(n)' <=> Sent(n) \/ n = m
  BY <1>2, <1>3 DEF Sent
<1>5. ~Sent(m) /\ ~Opening(m) /\ drainGen[m] = 0
  BY DEF Unopened
<1>6. \A n : Opening(n)' <=> Opening(n)
  BY DEF Opening
<1>7. \A i, j \in DOMAIN stdin' :
        stdin'[i].kind = "user" /\ stdin'[j].kind = "user"
          /\ stdin'[i].msg = stdin'[j].msg => i = j
  <2>1. \A i \in 1 .. k : ~(stdin[i].kind = "user" /\ stdin[i].msg = m)
    BY <1>3, <1>5 DEF Sent
  <2> QED
    BY <1>2, <1>3, <2>1 DEF Unopened
<1> QED
  BY <1>1, <1>4, <1>5, <1>6, <1>7 DEF Unopened

\* Any other command on the pipe changes nothing of this.
LEMMA UnopenedOther ==
    ASSUME Typed, Unopened, NEW c \in Commands, c.kind # "user",
           stdin' = Append(stdin, c), UNCHANGED <<fresh, waiting, cmd, drainGen>>
    PROVE  Unopened'
<1>1. PICK k \in Nat : k = Len(stdin)
  BY Appended DEF Typed
<1>2. /\ DOMAIN stdin' = 1 .. k + 1 /\ DOMAIN stdin = 1 .. k
      /\ stdin'[k + 1].kind # "user"
      /\ \A i \in 1 .. k : stdin'[i] = stdin[i]
  BY <1>1, Appended DEF Typed
<1>3. \A n \in Msgs : Sent(n)' <=> Sent(n)
  BY <1>1, <1>2 DEF Sent
<1>4. \A n : Opening(n)' <=> Opening(n)
  BY DEF Opening
<1>5. \A i, j \in DOMAIN stdin' :
        stdin'[i].kind = "user" /\ stdin'[j].kind = "user"
          /\ stdin'[i].msg = stdin'[j].msg => i = j
  BY <1>1, <1>2 DEF Unopened
<1> QED
  BY <1>3, <1>4, <1>5 DEF Unopened, Typed

\* Core's steps.
LEMMA UnopenedCore ==
    ASSUME Typed, Unopened, Core
    PROVE  Unopened'
<1>0. ASSUME UNCHANGED <<stdin, cmd, drainGen>>, fresh' \cap waiting' = {},
             fresh' \cup waiting' \subseteq fresh \cup waiting
      PROVE  Unopened'
  BY <1>0 DEF Unopened, Sent, Opening
<1>1. ASSUME NEW m \in Msgs, CoreSend(m)
      PROVE  Unopened'
  <2>1. CASE ~coreOpen
    <3>1. /\ stdin' = Append(stdin, Cmd("user", m, {})) /\ m \in fresh
          /\ fresh' = fresh \ {m} /\ waiting' = waiting
          /\ UNCHANGED <<cmd, drainGen>>
      BY <1>1, <2>1 DEF CoreSend, Dispatch, drains
    <3>2. fresh \cap waiting = {}
      BY DEF Unopened
    <3> QED
      BY <3>1, <3>2, UnopenedSent
  <2>2. CASE coreOpen
    <3>1. /\ fresh' = fresh \ {m} /\ waiting' = waiting \cup {m} /\ m \in fresh
          /\ UNCHANGED <<stdin, cmd, drainGen>>
      BY <1>1, <2>2 DEF CoreSend, drains
    <3>2. fresh \cap waiting = {}
      BY DEF Unopened
    <3> QED
      BY <1>0, <3>1, <3>2
  <2> QED
    BY <2>1, <2>2
<1>2. ASSUME NEW ids \in handing, CoreInterject(ids)
      PROVE  Unopened'
  <2>1. Cmd("interject", NoMsg, ids) \in Commands
    BY CommandsOf DEF Typed
  <2>2. /\ stdin' = Append(stdin, Cmd("interject", NoMsg, ids))
        /\ UNCHANGED <<fresh, waiting, cmd, drainGen>>
    BY <1>2 DEF CoreInterject, drains
  <2>3. Cmd("interject", NoMsg, ids).kind # "user"
    BY DEF Cmd
  <2> QED
    BY <2>1, <2>2, <2>3, UnopenedOther
<1>3. CASE CoreAbort
  <2>1. Cmd("abort", NoMsg, {}) \in Commands
    BY CommandsOf, {} \in SUBSET Msgs
  <2>2. /\ stdin' = Append(stdin, Cmd("abort", NoMsg, {}))
        /\ UNCHANGED <<fresh, waiting, cmd, drainGen>>
    BY <1>3 DEF CoreAbort, drains
  <2>3. Cmd("abort", NoMsg, {}).kind # "user"
    BY DEF Cmd
  <2> QED
    BY <2>1, <2>2, <2>3, UnopenedOther
<1>4. CASE CoreReads
  <2>0. fresh \cap waiting = {} /\ UNCHANGED <<fresh, cmd, drainGen>>
    BY <1>4 DEF CoreReads, drains, Unopened
  <2>1. ASSUME NEW m \in waiting, Dispatch(m, waiting \ {m})
        PROVE  Unopened'
    BY <2>0, <2>1, UnopenedSent DEF Dispatch
  <2>2. CASE waiting' \subseteq waiting /\ UNCHANGED stdin
    BY <1>0, <2>0, <2>2
  <2> QED
    BY <1>4, <2>1, <2>2 DEF CoreReads
<1> QED
  BY <1>1, <1>2, <1>3, <1>4 DEF Core

\* A command taken from the pipe: a message it carried is on its way to a
\* run, or refused.
LEMMA UnopenedTaken ==
    ASSUME Typed, Unopened, stdin # <<>>, stdin' = Tail(stdin),
           \A m \in Msgs : Opening(m)' => /\ Head(stdin).kind = "user"
                                          /\ Head(stdin).msg = m,
           UNCHANGED <<fresh, waiting, drainGen>>
    PROVE  Unopened'
<1>1. PICK k \in Nat \ {0} : k = Len(stdin)
  BY TakenFirst DEF Typed
<1>2. /\ DOMAIN stdin' = 1 .. k - 1 /\ DOMAIN stdin = 1 .. k
      /\ Head(stdin) = stdin[1]
      /\ \A i \in 1 .. k - 1 : stdin'[i] = stdin[i + 1]
  BY <1>1, TakenFirst DEF Typed
<1>3. \A n \in Msgs : Sent(n)' => Sent(n)
  <2> SUFFICES ASSUME NEW n \in Msgs, NEW i \in 1 .. k - 1,
                      stdin[i + 1].kind = "user", stdin[i + 1].msg = n
               PROVE  Sent(n)
    BY <1>2 DEF Sent
  <2>1. i + 1 \in 1 .. k
    BY <1>1
  <2> QED
    BY <1>2, <2>1 DEF Sent
<1>4. \A n \in Msgs : Opening(n)' => Sent(n) /\ ~Sent(n)'
  <2> SUFFICES ASSUME NEW n \in Msgs, Opening(n)'
               PROVE  Sent(n) /\ ~Sent(n)'
    OBVIOUS
  <2>1. stdin[1].kind = "user" /\ stdin[1].msg = n /\ 1 \in 1 .. k
    BY <1>1, <1>2
  <2>2. ASSUME NEW i \in 1 .. k - 1, stdin[i + 1].kind = "user", stdin[i + 1].msg = n
        PROVE  FALSE
    <3>1. i + 1 \in 1 .. k /\ i + 1 # 1
      BY <1>1
    <3> QED
      BY <1>2, <2>1, <2>2, <3>1 DEF Unopened
  <2> QED
    BY <1>2, <2>1, <2>2 DEF Sent
<1>5. \A i, j \in DOMAIN stdin' :
        stdin'[i].kind = "user" /\ stdin'[j].kind = "user"
          /\ stdin'[i].msg = stdin'[j].msg => i = j
  <2> SUFFICES ASSUME NEW i \in 1 .. k - 1, NEW j \in 1 .. k - 1,
                      stdin[i + 1].kind = "user", stdin[j + 1].kind = "user",
                      stdin[i + 1].msg = stdin[j + 1].msg
               PROVE  i = j
    BY <1>2
  <2>1. i + 1 \in 1 .. k /\ j + 1 \in 1 .. k
    BY <1>1
  <2>2. i + 1 = j + 1
    BY <1>2, <2>1 DEF Unopened
  <2> QED
    BY <2>2, <1>1
<1> QED
  BY <1>3, <1>4, <1>5 DEF Unopened, Typed

\* The command thread's steps.
LEMMA UnopenedCommand ==
    ASSUME Typed, Named, Unopened, CommandThread
    PROVE  Unopened'
<1> USE DEF Typed, CmdRest, core, drains
<1>1. CASE TakeMessage
  <2>1. stdin # <<>> /\ stdin' = Tail(stdin) /\ UNCHANGED <<fresh, waiting, drainGen>>
    BY <1>1 DEF TakeMessage, Reads
  <2>2. ASSUME NEW m \in Msgs, Opening(m)'
        PROVE  Head(stdin).kind = "user" /\ Head(stdin).msg = m
    BY <1>1, <2>2 DEF TakeMessage, Reads, Opening, CmdAt
  <2> QED
    BY <2>1, <2>2, UnopenedTaken
<1>2. CASE TakeInterject \/ AbortRetire
  <2>1. stdin # <<>> /\ stdin' = Tail(stdin) /\ UNCHANGED <<fresh, waiting, drainGen>>
    BY <1>2 DEF TakeInterject, AbortRetire, Reads
  <2>2. ASSUME NEW m \in Msgs, Opening(m)'
        PROVE  FALSE
    BY <1>2, <2>2 DEF TakeInterject, AbortRetire, Reads, Opening, CmdAt
  <2> QED
    BY <2>1, <2>2, UnopenedTaken
<1>3. CASE OpenRun
  <2>1. /\ Opening(cmd.msg) /\ cmd.msg \in Msgs
        /\ UNCHANGED <<fresh, waiting, stdin>>
        /\ \A m \in Msgs : m # cmd.msg => drainGen'[m] = drainGen[m]
        /\ \A m \in Msgs : ~Opening(m)'
    BY <1>3 DEF OpenRun, Opening, CmdAt, Named
  <2>2. \A m \in Msgs : Sent(m)' <=> Sent(m)
    BY <2>1 DEF Sent
  <2> QED
    BY <2>1, <2>2 DEF Unopened
<1>4. CASE PutTask \/ AbortLook \/ AbortSignal \/ AbortClose
  <2>1. UNCHANGED <<fresh, waiting, stdin, drainGen>> /\ \A m \in Msgs : ~Opening(m)'
    BY <1>4 DEF PutTask, AbortLook, AbortSignal, AbortClose, Opening, CmdAt
  <2>2. \A m \in Msgs : Sent(m)' <=> Sent(m)
    BY <2>1 DEF Sent
  <2> QED
    BY <2>1, <2>2 DEF Unopened
<1> QED
  BY <1>1, <1>2, <1>3, <1>4 DEF CommandThread

\* The other threads neither send nor open.
LEMMA UnopenedOthers ==
    ASSUME Unopened, AgentThread \/ \E m \in Msgs : ProgressDrain(m)
    PROVE  Unopened'
<1>1. UNCHANGED <<fresh, waiting, stdin, cmd, drainGen>>
  BY DEF AgentThread, StartTask, EnterLoop, TakeStep, ReadIntervene, WipeIntervene,
         AccountStep, ReportStep, CloseRun, ClearRun, PutDone, Finally, Untouched,
         AgentRest, ProgressDrain, DrainDone, DrainClear, DrainRest, core
<1> QED
  BY <1>1 DEF Unopened, Sent, Opening

-----------------------------------------------------------------------------
(* How runs end.                                                           *)

\* What telling a run complete writes: the first end of the current run.
LEMMA Completing ==
    ASSUME Typed, Blank, Going, inProgress, LockFree, NEW by, NEW reason,
           Complete(by, reason)
    PROVE  /\ current \in Msgs /\ drainGen[current] # 0
           /\ ended'[current] = reason /\ closer'[current] = {by}
           /\ \A m \in Msgs : m # current =>
                ended'[m] = ended[m] /\ closer'[m] = closer[m]
<1>1. current \in Msgs /\ closer[current] = {}
  BY DEF Going, LockFree
<1> QED
  BY <1>1 DEF Typed, Blank, Complete

\* The steps that open, abort and end no run.
Quiet == UNCHANGED <<flag, closing, drainGen, ended, closer, aborted>>

\* A step that ends no run leaves how runs ended alone.
LEMMA QuietKeeps ==
    ASSUME Quiet, Blank, Going, Generations, LateDone
    PROVE  Blank' /\ Going' /\ Generations' /\ LateDone'
  BY DEF Quiet, flag, Blank, Going, Generations, LateDone

\* Which steps those are.
LEMMA QuietSteps ==
    ASSUME Next
    PROVE  \/ Quiet \/ OpenRun \/ AbortRetire \/ AbortClose \/ CloseRun \/ ClearRun
           \/ \E m \in Msgs : DrainDone(m) \/ DrainClear(m)
<1> USE DEF Quiet, flag, past, drains, CmdRest, AgentRest, Untouched
<1>1. CASE Core
  BY <1>1 DEF Core, CoreSend, CoreInterject, CoreAbort, CoreReads
<1>2. CASE CommandThread
  BY <1>2 DEF CommandThread, TakeMessage, PutTask, TakeInterject, AbortLook, AbortSignal
<1>3. CASE AgentThread
  BY <1>3 DEF AgentThread, StartTask, EnterLoop, TakeStep, ReadIntervene, WipeIntervene,
              AccountStep, ReportStep, PutDone, Finally
<1> QED
  BY <1>1, <1>2, <1>3 DEF Next, ProgressDrain

\* A run that opens has no past, and its generation is its own.
LEMMA EndsOpen ==
    ASSUME Typed, Named, Unopened, Blank, Generations, LateDone, OpenRun
    PROVE  Blank' /\ Going' /\ Generations' /\ LateDone'
<1>1. /\ cmd.msg \in Msgs /\ drainGen[cmd.msg] = 0
      /\ cmd.msg \notin aborted /\ ended[cmd.msg] = "no" /\ closer[cmd.msg] = {}
  BY DEF OpenRun, Named, Unopened, Opening, Blank
<1>2. /\ inProgress' /\ current' = cmd.msg /\ generation' = generation + 1
      /\ drainGen' = [drainGen EXCEPT ![cmd.msg] = generation + 1]
      /\ UNCHANGED <<ended, closer, aborted>>
  BY DEF OpenRun, past
<1>3. generation \in Nat /\ drainGen \in [Msgs -> Nat]
  BY DEF Typed
<1>4. Blank'
  BY <1>1, <1>2, <1>3 DEF Blank
<1>5. Going'
  BY <1>1, <1>2 DEF Going
<1>6. Generations'
  <2> SUFFICES ASSUME NEW m \in Msgs
               PROVE  /\ drainGen'[m] <= generation + 1
                      /\ drainGen'[m] = generation + 1 => m = cmd.msg
    BY <1>1, <1>2 DEF Generations
  <2>1. drainGen[m] <= generation /\ drainGen[m] \in Nat
    BY <1>3 DEF Generations
  <2> QED
    BY <1>1, <1>2, <1>3, <2>1
<1>7. LateDone'
  BY <1>2 DEF LateDone
<1> QED
  BY <1>4, <1>5, <1>6, <1>7

\* An abort retires the generation of the run it names, which has no end yet.
LEMMA EndsAbort ==
    ASSUME Typed, Blank, Going, Generations, LateDone, AbortRetire
    PROVE  Blank' /\ Going' /\ Generations' /\ LateDone'
<1>1. /\ generation' = generation + 1
      /\ aborted' = aborted \cup ({current} \ {NoMsg})
      /\ closing = NoMsg
      /\ UNCHANGED <<inProgress, current, closing, drainGen, ended, closer>>
  BY DEF AbortRetire, CmdRest, drains, LockFree
<1>2. Blank'
  BY <1>1 DEF Blank
<1>3. Going'
  BY <1>1 DEF Going
<1>4. Generations'
  BY <1>1 DEF Generations, Typed
<1>5. LateDone'
  BY <1>1 DEF LateDone, Going
<1> QED
  BY <1>2, <1>3, <1>4, <1>5

\* A stopped run ends as ABORTED, and is over at once.
LEMMA EndsStop ==
    ASSUME Typed, Blank, Going, Generations, LateDone, AbortClose
    PROVE  Blank' /\ Going' /\ Generations' /\ LateDone'
<1>1. UNCHANGED <<generation, closing, drainGen, aborted>> /\ LockFree
  BY DEF AbortClose, CmdRest, drains
<1>2. CASE inProgress /\ Complete(current, "ABORTED") /\ Clear
  <2>1. /\ current \in Msgs /\ drainGen[current] # 0
        /\ ended'[current] = "ABORTED"
        /\ \A m \in Msgs : m # current =>
             ended'[m] = ended[m] /\ closer'[m] = closer[m]
    BY <1>1, <1>2, Completing
  <2>2. ~inProgress' /\ current' = NoMsg
    BY <1>2 DEF Clear
  <2> QED
    BY <1>1, <2>1, <2>2, BridgeAssumption DEF Blank, Going, Generations, LateDone
<1>3. CASE ~inProgress /\ UNCHANGED <<account, intervene, out, ended, closer,
                                      inProgress, current>>
  BY <1>1, <1>3 DEF Blank, Going, Generations, LateDone
<1> QED
  BY <1>2, <1>3 DEF AbortClose

\* A task's exit ends the run that goes on.
LEMMA EndsExit ==
    ASSUME Typed, Named, Blank, Going, Generations, LateDone, CloseRun
    PROVE  Blank' /\ Going' /\ Generations' /\ LateDone'
<1>1. UNCHANGED <<flag, drainGen, aborted>> /\ LockFree /\ agent.task \in Msgs
  BY DEF CloseRun, AgentRest, Named, flag
<1>2. CASE inProgress
  <2>1. Complete(agent.task, "EXIT") /\ closing' = agent.task
    BY <1>2 DEF CloseRun
  <2>2. /\ current \in Msgs /\ drainGen[current] # 0
        /\ ended'[current] = "EXIT"
        /\ \A m \in Msgs : m # current =>
             ended'[m] = ended[m] /\ closer'[m] = closer[m]
    BY <1>1, <1>2, <2>1, Completing
  <2> QED
    BY <1>1, <1>2, <2>1, <2>2, BridgeAssumption DEF Blank, Going, Generations, LateDone, flag
<1>3. CASE ~inProgress
  BY <1>1, <1>3, QuietKeeps DEF CloseRun, Quiet
<1> QED
  BY <1>2, <1>3

\* A task's `done` ends a run only while the generation is the task's own:
\* then the run is its, and nobody stopped it.
LEMMA EndsDone ==
    ASSUME Typed, Blank, Going, Generations, LateDone, NEW m \in Msgs, DrainDone(m)
    PROVE  Blank' /\ Going' /\ Generations' /\ LateDone'
<1>1. UNCHANGED <<flag, drainGen, aborted>> /\ LockFree
  BY DEF DrainDone, DrainRest, flag
<1>2. CASE StillMine(m)
  <2>1. inProgress /\ current = m /\ m \notin aborted
    BY <1>2 DEF StillMine, Generations
  <2>2. PICK reason : Complete(m, reason) /\ closing' = m
    BY <1>2 DEF DrainDone
  <2>3. /\ drainGen[m] # 0
        /\ closer'[m] = {m}
        /\ \A n \in Msgs : n # m => ended'[n] = ended[n] /\ closer'[n] = closer[n]
    BY <1>1, <2>1, <2>2, Completing
  <2> QED
    BY <1>1, <2>1, <2>2, <2>3, BridgeAssumption DEF Blank, Going, Generations, LateDone, flag
<1>3. CASE ~StillMine(m)
  BY <1>1, <1>3, QuietKeeps DEF DrainDone, Quiet
<1> QED
  BY <1>2, <1>3

\* A run that is over is nobody's.
LEMMA EndsClear ==
    ASSUME Typed, Blank, Going, Generations, LateDone,
           ClearRun \/ \E m \in Msgs : DrainClear(m)
    PROVE  Blank' /\ Going' /\ Generations' /\ LateDone'
<1>1. Clear /\ UNCHANGED <<generation, drainGen, ended, closer, aborted>>
  BY DEF ClearRun, DrainClear, AgentRest, DrainRest, past
<1> QED
  BY <1>1, BridgeAssumption DEF Clear, Blank, Going, Generations, LateDone

-----------------------------------------------------------------------------
(* The invariant, and what follows from it.                                *)

\* Every part holds at the start ...
LEMMA InvInit ==
    ASSUME Init
    PROVE  IInv
<1> USE BridgeAssumption DEF Init
<1>1. Typed
  <2>1. cmd \in Command
    BY DEF Command
  <2>2. agent \in Agent
    BY DEF Agent
  <2>3. stdin \in Seq(Commands) /\ taskQueue \in Seq(Msgs)
    OBVIOUS
  <2>4. ended \in [Msgs -> Reasons] /\ closer \in [Msgs -> SUBSET Msgs]
    BY DEF Reasons
  <2> QED
    BY <2>1, <2>2, <2>3, <2>4 DEF Typed
<1>2. Named /\ Locked /\ Clean /\ Mirror /\ Going
  BY DEF Named, Locked, Clean, Mirror, Going
<1>3. Unopened
  BY DEF Unopened, Sent, Opening
<1>4. Blank /\ Generations /\ LateDone
  BY DEF Blank, Generations, LateDone
<1> QED
  BY <1>1, <1>2, <1>3, <1>4 DEF IInv

\* ... and is kept by every step.
LEMMA InvNext ==
    ASSUME IInv, [Next]_vars
    PROVE  IInv'
<1> USE DEF IInv
<1>1. CASE Next
  <2>1. Typed' /\ Named'
    BY <1>1, TypedCore, NamedCore, TypedCommand, TypedAgent, TypedDrain DEF Next
  <2>2. Locked' /\ Clean' /\ Mirror'
    BY <1>1, LockedStep, CleanStep, MirrorStep
  <2>3. Unopened'
    BY <1>1, UnopenedCore, UnopenedCommand, UnopenedOthers DEF Next
  <2>4. Blank' /\ Going' /\ Generations' /\ LateDone'
    BY <1>1, QuietSteps, QuietKeeps, EndsOpen, EndsAbort, EndsStop, EndsExit,
       EndsDone, EndsClear
  <2> QED
    BY <2>1, <2>2, <2>3, <2>4
<1>2. CASE UNCHANGED vars
  <2> USE <1>2 DEF vars, core, flag, account, engine, drains, past
  <2>1. Typed' /\ Named' /\ Locked' /\ Clean' /\ Mirror'
    BY DEF Typed, Named, Locked, Clean, Mirror, LastStep
  <2>2. Unopened'
    BY DEF Unopened, Sent, Opening
  <2>3. Blank' /\ Going' /\ Generations' /\ LateDone'
    BY DEF Blank, Going, Generations, LateDone
  <2> QED
    BY <2>1, <2>2, <2>3
<1> QED
  BY <1>1, <1>2

\* So it holds throughout.
THEOREM Invariance == Spec => []IInv
<1>1. Init => IInv
  BY InvInit
<1>2. IInv /\ [Next]_vars => IInv'
  BY InvNext
<1> QED
  BY <1>1, <1>2, PTL DEF Spec

\* A progress drain's `done` (workbench_bridge.py's safety net) closes only
\* the run of its own task, and never one the user stopped: however the abort,
\* the turn end, the drains and the next run's opening fall together, the
\* generation looked at under the lock tells them apart.
THEOREM LateDoneHolds == Spec => []LateDone
<1>1. IInv => LateDone
  BY DEF IInv
<1> QED
  BY <1>1, Invariance, PTL

\* While a run goes on, what the user said and no step has read is in the
\* engine's slot, but between the engine's wipe and the account's answer:
\* interject.py's step_ended puts back what the engine wiped unread.
THEOREM ArmedHolds == Spec => []Armed
<1>1. IInv => Armed
  BY DEF IInv, Typed, Agent, Clean, Mirror, LastStep, Armed
<1> QED
  BY <1>1, Invariance, PTL

\* Nothing said in one run is in the slot when no run goes on: each path that
\* tells a run complete takes the unread first, and no interjection is taken
\* up between that and the clear.
THEOREM CleanSlateHolds == Spec => []CleanSlate
<1>1. IInv => CleanSlate
  BY DEF IInv, Clean, CleanSlate
<1> QED
  BY <1>1, Invariance, PTL

-----------------------------------------------------------------------------
(* Counting on the pipes.                                                  *)

\* A pipe holds finitely many entries of a kind.
LEMMA Counted ==
    ASSUME NEW S, NEW s \in Seq(S), NEW kind
    PROVE  /\ IsFiniteSet({i \in DOMAIN s : s[i].kind = kind})
           /\ Count(s, kind) \in Nat
<1>1. DOMAIN s = 1 .. Len(s) /\ Len(s) \in Nat
  OBVIOUS
<1>2. IsFiniteSet(1 .. Len(s))
  BY <1>1, FS_Interval
<1>3. {i \in DOMAIN s : s[i].kind = kind} \in SUBSET (1 .. Len(s))
  BY <1>1
<1>4. IsFiniteSet({i \in DOMAIN s : s[i].kind = kind})
  BY <1>2, <1>3, FS_Subset
<1> QED
  BY <1>4, FS_CardinalityType DEF Count

\* One entry more.
LEMMA CountedMore ==
    ASSUME NEW S, NEW s \in Seq(S), NEW e \in S, NEW kind
    PROVE  Count(Append(s, e), kind)
             = IF e.kind = kind THEN Count(s, kind) + 1 ELSE Count(s, kind)
<1> DEFINE A == {i \in DOMAIN s : s[i].kind = kind}
           n == Len(s)
           B == {i \in DOMAIN Append(s, e) : Append(s, e)[i].kind = kind}
<1>1. /\ DOMAIN s = 1 .. n /\ n \in Nat
      /\ DOMAIN Append(s, e) = 1 .. n + 1
      /\ Append(s, e)[n + 1] = e
      /\ \A i \in 1 .. n : Append(s, e)[i] = s[i]
  BY Appended
<1>2. B = IF e.kind = kind THEN A \cup {n + 1} ELSE A
  <2>1. \A i : i \in 1 .. n + 1 <=> i \in 1 .. n \/ i = n + 1
    BY <1>1
  <2> QED
    BY <1>1, <2>1
<1>3. n + 1 \notin A
  BY <1>1
<1>4. IsFiniteSet(A)
  BY Counted
<1>5. Cardinality(A \cup {n + 1}) = Cardinality(A) + 1
  BY <1>3, <1>4, FS_AddElement
<1> QED
  BY <1>2, <1>5 DEF Count

\* The first entry taken: what is left is the rest, moved up by one.
LEMMA CountedLess ==
    ASSUME NEW S, NEW s \in Seq(S), s # <<>>, NEW kind
    PROVE  Count(s, kind) = IF Head(s).kind = kind THEN Count(Tail(s), kind) + 1
                            ELSE Count(Tail(s), kind)
<1> DEFINE A == {i \in DOMAIN s : s[i].kind = kind}
           n == Len(s)
           B == {i \in DOMAIN Tail(s) : Tail(s)[i].kind = kind}
           up == [i \in B |-> i + 1]
<1>1. /\ DOMAIN s = 1 .. n /\ n \in Nat \ {0}
      /\ DOMAIN Tail(s) = 1 .. n - 1
      /\ Head(s) = s[1]
      /\ \A i \in 1 .. n - 1 : Tail(s)[i] = s[i + 1]
  BY TakenFirst
<1>2. IsFiniteSet(B) /\ Cardinality(B) \in Nat
  <2>1. Tail(s) \in Seq(S)
    BY TakenFirst
  <2> QED
    BY <2>1, Counted, FS_CardinalityType
<1>3. up \in Bijection(B, A \ {1})
  <2>1. \A i \in B : i + 1 \in A \ {1}
    <3> SUFFICES ASSUME NEW i \in B
                 PROVE  i + 1 \in A \ {1}
      OBVIOUS
    <3>1. i \in 1 .. n - 1 /\ i + 1 \in 1 .. n /\ i + 1 # 1
      BY <1>1
    <3> QED
      BY <1>1, <3>1
  <2>2. \A j \in A \ {1} : j - 1 \in B /\ (j - 1) + 1 = j
    <3> SUFFICES ASSUME NEW j \in A \ {1}
                 PROVE  j - 1 \in B /\ (j - 1) + 1 = j
      OBVIOUS
    <3>1. j - 1 \in 1 .. n - 1 /\ (j - 1) + 1 = j
      BY <1>1
    <3> QED
      BY <1>1, <3>1
  <2>3. up \in [B -> A \ {1}]
    BY <2>1
  <2>4. \A a, b \in B : up[a] = up[b] => a = b
    <3>1. B \subseteq Int
      BY <1>1
    <3> QED
      BY <3>1
  <2>5. \A j \in A \ {1} : \E i \in B : up[i] = j
    BY <2>2
  <2> QED
    BY <2>3, <2>4, <2>5, Fun_IsBij
<1>4. Cardinality(A \ {1}) = Cardinality(B)
  BY <1>2, <1>3, FS_Bijection, Fun_ExistsBij
<1>5. A = IF Head(s).kind = kind THEN (A \ {1}) \cup {1} ELSE A \ {1}
  BY <1>1
<1>6. IsFiniteSet(A \ {1})
  BY <1>2, <1>3, FS_Bijection, Fun_ExistsBij
<1>7. Cardinality((A \ {1}) \cup {1}) = Cardinality(A \ {1}) + 1
  BY <1>6, FS_AddElement
<1> QED
  BY <1>4, <1>5, <1>7 DEF Count

-----------------------------------------------------------------------------
(* Every run completes once, if Core's answer waits for the clear.         *)

\* What Core and the bridge owe each other: between a run_complete and its
\* clear the run is the one that goes on, and Core has not answered yet.
Owed ==
    /\ out \in Seq(Events)
    /\ closing # NoMsg => inProgress /\ Count(out, "run_complete") = 1
    /\ OneComplete
    /\ NeverRejected

\* What Core looks at, and what it is told.
Sides == <<coreOpen, stdin, out, inProgress, closing, rejected>>
SameOpening == cmd'.at = "open" <=> cmd.at = "open"

\* A step that touches none of it.
LEMMA OwedQuiet ==
    ASSUME Owed, UNCHANGED Sides, SameOpening
    PROVE  Owed'
  BY DEF Owed, Sides, SameOpening, OneComplete, NeverRejected, Count

\* The counts are numbers.
LEMMA OwedCounts ==
    ASSUME Typed, Owed
    PROVE  Count(stdin, "user") \in Nat /\ Count(out, "run_complete") \in Nat
  BY Counted DEF Typed, Owed

\* A command that carries no message.
LEMMA OwedOther ==
    ASSUME Typed, Owed, NEW c \in Commands, c.kind # "user",
           stdin' = Append(stdin, c),
           UNCHANGED <<coreOpen, out, inProgress, closing, rejected, cmd>>
    PROVE  Owed'
<1>1. Count(stdin, "user")' = Count(stdin, "user")
  BY CountedMore DEF Typed
<1>2. Count(out, "run_complete")' = Count(out, "run_complete")
  BY DEF Count
<1> QED
  BY <1>1, <1>2 DEF Owed, OneComplete, NeverRejected

\* Core dispatches into a gate that was not open, or for a run_complete.
LEMMA OwedDispatch ==
    ASSUME Typed, Owed, NEW m \in Msgs, NEW rest, Dispatch(m, rest),
           closing = NoMsg, UNCHANGED <<inProgress, closing, rejected, cmd>>,
           out' \in Seq(Events),
           Count(out, "run_complete") = (IF coreOpen THEN 1 ELSE 0),
           Count(out, "run_complete")' = 0
    PROVE  Owed'
<1>1. Cmd("user", m, {}) \in Commands /\ Cmd("user", m, {}).kind = "user"
  BY CommandsOf, {} \in SUBSET Msgs DEF Cmd
<1>2. Count(stdin, "user")' = Count(stdin, "user") + 1
  BY <1>1, CountedMore DEF Typed, Dispatch
<1>3. coreOpen'
  BY DEF Dispatch
<1> QED
  BY <1>1, <1>2, <1>3, OwedCounts DEF Owed, OneComplete, NeverRejected

\* Core's steps.
LEMMA OwedCore ==
    ASSUME EarlyNext = FALSE, Typed, Owed, Core
    PROVE  Owed'
<1> USE DEF flag
<1>1. ASSUME NEW m \in Msgs, CoreSend(m)
      PROVE  Owed'
  <2>0. UNCHANGED <<out, cmd, inProgress, closing, rejected>>
    BY <1>1 DEF CoreSend, past
  <2>1. CASE coreOpen
    <3>1. UNCHANGED Sides /\ SameOpening
      BY <1>1, <2>0, <2>1 DEF CoreSend, Sides, SameOpening
    <3> QED
      BY <3>1, OwedQuiet
  <2>2. CASE ~coreOpen
    <3>1. Count(out, "run_complete") = 0 /\ closing = NoMsg
      BY <2>2, OwedCounts DEF Owed, OneComplete
    <3>2. Count(out, "run_complete")' = 0 /\ out' \in Seq(Events)
      BY <2>0, <3>1 DEF Count, Owed
    <3>3. Dispatch(m, waiting)
      BY <1>1, <2>2 DEF CoreSend
    <3> QED
      BY <2>0, <2>2, <3>1, <3>2, <3>3, OwedDispatch
  <2> QED
    BY <2>1, <2>2
<1>2. ASSUME NEW ids \in handing, CoreInterject(ids)
      PROVE  Owed'
  <2>1. /\ Cmd("interject", NoMsg, ids) \in Commands
        /\ Cmd("interject", NoMsg, ids).kind # "user"
    BY CommandsOf DEF Typed, Cmd
  <2>2. /\ stdin' = Append(stdin, Cmd("interject", NoMsg, ids))
        /\ UNCHANGED <<coreOpen, out, inProgress, closing, rejected, cmd>>
    BY <1>2 DEF CoreInterject, past
  <2> QED
    BY <2>1, <2>2, OwedOther
<1>3. CASE CoreAbort
  <2>1. Cmd("abort", NoMsg, {}) \in Commands /\ Cmd("abort", NoMsg, {}).kind # "user"
    BY CommandsOf, {} \in SUBSET Msgs DEF Cmd
  <2>2. /\ stdin' = Append(stdin, Cmd("abort", NoMsg, {}))
        /\ UNCHANGED <<coreOpen, out, inProgress, closing, rejected, cmd>>
    BY <1>3 DEF CoreAbort, past
  <2> QED
    BY <2>1, <2>2, OwedOther
<1>4. CASE CoreReads
  <2>1. /\ closing = NoMsg /\ out # <<>> /\ out' = Tail(out)
        /\ UNCHANGED <<inProgress, closing, rejected, cmd>>
    BY <1>4 DEF CoreReads, past
  <2>2. out' \in Seq(Events)
    BY <2>1, TakenFirst DEF Owed
  <2>3. Count(out, "run_complete")' \in Nat
    BY <2>2, Counted
  <2>4. CASE Head(out).kind = "interject_delivered"
    <3>1. Count(out, "run_complete")' = Count(out, "run_complete")
      BY <2>1, <2>4, CountedLess DEF Owed
    <3>2. UNCHANGED <<coreOpen, stdin>>
      BY <1>4, <2>4 DEF CoreReads
    <3>3. Count(stdin, "user")' = Count(stdin, "user")
      BY <3>2 DEF Count
    <3> QED
      BY <2>1, <2>2, <3>1, <3>2, <3>3 DEF Owed, OneComplete, NeverRejected
  <2>5. CASE Head(out).kind = "run_complete"
    <3>1. Count(out, "run_complete") = Count(out, "run_complete")' + 1
      BY <2>1, <2>5, CountedLess DEF Owed
    <3>2. coreOpen /\ Count(out, "run_complete") = 1 /\ Count(out, "run_complete")' = 0
      BY <2>3, <3>1, OwedCounts DEF Owed, OneComplete
    <3>3. ASSUME NEW m \in waiting, Dispatch(m, waiting \ {m})
          PROVE  Owed'
      <4>1. m \in Msgs
        BY DEF Typed
      <4> QED
        BY <2>1, <2>2, <3>2, <3>3, <4>1, OwedDispatch
    <3>4. CASE ~coreOpen' /\ UNCHANGED stdin
      <4>1. Count(stdin, "user")' = Count(stdin, "user")
        BY <3>4 DEF Count
      <4> QED
        BY <2>1, <2>2, <3>2, <3>4, <4>1, OwedCounts DEF Owed, OneComplete, NeverRejected
    <3> QED
      BY <1>4, <2>5, <3>3, <3>4 DEF CoreReads
  <2> QED
    BY <1>4, <2>4, <2>5 DEF CoreReads
<1> QED
  BY <1>1, <1>2, <1>3, <1>4 DEF Core

\* The run that goes on is told complete, and is over or about to be.
LEMMA OwedComplete ==
    ASSUME Typed, Owed, inProgress, LockFree,
           out' = Append(out, Event("run_complete", {})),
           UNCHANGED <<coreOpen, stdin, rejected>>, SameOpening,
           \/ ~inProgress' /\ closing' = NoMsg
           \/ inProgress' /\ closing' # NoMsg
    PROVE  Owed'
<1>1. Event("run_complete", {}) \in Events
  BY DEF Event, Events
<1>2. Event("run_complete", {}).kind = "run_complete"
  BY DEF Event
<1>3. out' \in Seq(Events)
  BY <1>1, Appended DEF Owed
<1>4. Count(out, "run_complete")' = Count(out, "run_complete") + 1
  BY <1>1, <1>2, CountedMore DEF Owed
<1>5. Count(stdin, "user")' = Count(stdin, "user")
  BY DEF Count
<1> QED
  BY <1>3, <1>4, <1>5, OwedCounts DEF Owed, OneComplete, NeverRejected, SameOpening, LockFree

\* A run that was told complete is over.
LEMMA OwedClear ==
    ASSUME Typed, Owed, closing # NoMsg, Clear, closing' = NoMsg,
           UNCHANGED <<coreOpen, stdin, out, cmd, rejected>>
    PROVE  Owed'
<1>1. /\ Count(stdin, "user")' = Count(stdin, "user")
      /\ Count(out, "run_complete")' = Count(out, "run_complete")
  BY DEF Count
<1> QED
  BY <1>1 DEF Owed, OneComplete, NeverRejected, Clear

\* The command thread's steps. A message finds no run in progress.
LEMMA OwedCommand ==
    ASSUME Typed, Owed, CommandThread
    PROVE  Owed'
<1> USE DEF CmdRest, core, flag, drains, past
<1>1. CASE TakeMessage
  <2>1. /\ stdin # <<>> /\ Head(stdin).kind = "user" /\ stdin' = Tail(stdin)
        /\ cmd.at = "idle"
        /\ UNCHANGED <<coreOpen, out, inProgress, closing>>
    BY <1>1 DEF TakeMessage, Reads
  <2>2. Count(stdin, "user") = Count(stdin, "user")' + 1
    BY <2>1, CountedLess DEF Typed
  <2>3. Count(stdin, "user")' \in Nat
    BY <2>1, TakenFirst, Counted DEF Typed
  <2>4. Count(out, "run_complete")' = Count(out, "run_complete")
    BY <2>1 DEF Count
  <2>5. Count(stdin, "user")' = 0 /\ Count(out, "run_complete") = 0 /\ coreOpen
        /\ ~(inProgress /\ closing = NoMsg)
    BY <2>1, <2>2, <2>3, OwedCounts DEF Owed, OneComplete
  <2>6. closing = NoMsg /\ ~inProgress
    BY <2>5 DEF Owed
  <2>7. cmd'.at = "open" /\ UNCHANGED rejected
    BY <1>1, <2>6 DEF TakeMessage, CmdAt
  <2> QED
    BY <2>1, <2>4, <2>5, <2>6, <2>7 DEF Owed, OneComplete, NeverRejected
<1>2. CASE OpenRun
  <2>1. /\ cmd.at = "open" /\ closing = NoMsg /\ inProgress' /\ cmd'.at = "put"
        /\ UNCHANGED <<coreOpen, stdin, out, closing, rejected>>
    BY <1>2 DEF OpenRun, LockFree, CmdAt
  <2>2. /\ Count(stdin, "user")' = Count(stdin, "user")
        /\ Count(out, "run_complete")' = Count(out, "run_complete")
    BY <2>1 DEF Count
  <2> QED
    BY <2>1, <2>2, OwedCounts DEF Owed, OneComplete, NeverRejected
<1>3. CASE TakeInterject \/ AbortRetire
  <2>1. /\ stdin # <<>> /\ Head(stdin).kind # "user" /\ stdin' = Tail(stdin)
        /\ cmd.at = "idle" /\ cmd'.at # "open"
        /\ UNCHANGED <<coreOpen, out, inProgress, closing, rejected>>
    BY <1>3 DEF TakeInterject, AbortRetire, Reads, CmdAt
  <2>2. Count(stdin, "user")' = Count(stdin, "user")
    BY <2>1, CountedLess DEF Typed
  <2>3. Count(out, "run_complete")' = Count(out, "run_complete")
    BY <2>1 DEF Count
  <2> QED
    BY <2>1, <2>2, <2>3 DEF Owed, OneComplete, NeverRejected
<1>4. CASE PutTask \/ AbortLook \/ AbortSignal
  <2>1. UNCHANGED Sides /\ SameOpening
    BY <1>4 DEF PutTask, AbortLook, AbortSignal, CmdAt, Sides, SameOpening
  <2> QED
    BY <2>1, OwedQuiet
<1>5. CASE AbortClose
  <2>1. UNCHANGED <<coreOpen, stdin, closing, rejected>> /\ SameOpening /\ LockFree
    BY <1>5 DEF AbortClose, CmdAt, SameOpening
  <2>2. CASE inProgress /\ Complete(current, "ABORTED") /\ Clear
    BY <2>1, <2>2, OwedComplete DEF Complete, Clear, LockFree
  <2>3. CASE ~inProgress
    <3>1. UNCHANGED Sides
      BY <1>5, <2>1, <2>3 DEF AbortClose, Sides
    <3> QED
      BY <2>1, <3>1, OwedQuiet
  <2> QED
    BY <1>5, <2>2, <2>3 DEF AbortClose
<1> QED
  BY <1>1, <1>2, <1>3, <1>4, <1>5 DEF CommandThread

\* The agent thread's.
LEMMA OwedAgent ==
    ASSUME Typed, Named, Locked, Owed, AgentThread
    PROVE  Owed'
<1> USE DEF AgentRest, Untouched, core, past
<1>1. CASE StartTask \/ (\E final \in BOOLEAN : TakeStep(final)) \/ EnterLoop
             \/ ReadIntervene \/ WipeIntervene \/ AccountStep \/ PutDone \/ Finally
  <2>1. UNCHANGED Sides /\ SameOpening
    BY <1>1 DEF StartTask, TakeStep, EnterLoop, ReadIntervene, WipeIntervene,
                AccountStep, PutDone, Finally, Sides, SameOpening
  <2> QED
    BY <2>1, OwedQuiet
<1>2. CASE ReportStep
  <2>1. UNCHANGED <<coreOpen, stdin, inProgress, closing, rejected, cmd>>
    BY <1>2 DEF ReportStep
  <2>2. /\ Event("interject_delivered", agent.took) \in Events
        /\ Event("interject_delivered", agent.took).kind # "run_complete"
    BY DEF Typed, Agent, Event, Events
  <2>3. out' \in Seq(Events) /\ Count(out, "run_complete")' = Count(out, "run_complete")
    <3>1. CASE out' = out
      BY <3>1 DEF Owed, Count
    <3>2. CASE out' = Append(out, Event("interject_delivered", agent.took))
      BY <2>2, <3>2, Appended, CountedMore DEF Owed
    <3> QED
      BY <1>2, <3>1, <3>2 DEF ReportStep
  <2>4. Count(stdin, "user")' = Count(stdin, "user")
    BY <2>1 DEF Count
  <2> QED
    BY <2>1, <2>3, <2>4 DEF Owed, OneComplete, NeverRejected
<1>3. CASE CloseRun
  <2>1. UNCHANGED <<coreOpen, stdin, inProgress, rejected>> /\ SameOpening /\ LockFree
    BY <1>3 DEF CloseRun, SameOpening
  <2>2. agent.task # NoMsg
    BY <1>3, BridgeAssumption DEF CloseRun, Named
  <2>3. CASE inProgress
    <3>1. out' = Append(out, Event("run_complete", {})) /\ closing' # NoMsg
      BY <1>3, <2>2, <2>3 DEF CloseRun, Complete
    <3> QED
      BY <2>1, <2>3, <3>1, OwedComplete
  <2>4. CASE ~inProgress
    <3>1. UNCHANGED Sides
      BY <1>3, <2>1, <2>4 DEF CloseRun, Sides
    <3> QED
      BY <2>1, <3>1, OwedQuiet
  <2> QED
    BY <2>3, <2>4
<1>4. CASE ClearRun
  <2>1. /\ closing # NoMsg /\ Clear /\ closing' = NoMsg
        /\ UNCHANGED <<coreOpen, stdin, out, cmd, rejected>>
    BY <1>4 DEF ClearRun, Locked
  <2> QED
    BY <2>1, OwedClear
<1> QED
  BY <1>1, <1>2, <1>3, <1>4 DEF AgentThread

\* A drain's.
LEMMA OwedDrain ==
    ASSUME Typed, Locked, Owed, NEW m \in Msgs, ProgressDrain(m)
    PROVE  Owed'
<1> USE DEF DrainRest, core
<1>1. CASE DrainDone(m)
  <2>1. UNCHANGED <<coreOpen, stdin, inProgress, rejected>> /\ SameOpening /\ LockFree
    BY <1>1 DEF DrainDone, SameOpening
  <2>2. CASE StillMine(m)
    <3>1. /\ out' = Append(out, Event("run_complete", {})) /\ closing' # NoMsg
          /\ inProgress
      BY <1>1, <2>2, BridgeAssumption DEF DrainDone, Complete, StillMine
    <3> QED
      BY <2>1, <3>1, OwedComplete
  <2>3. CASE ~StillMine(m)
    <3>1. UNCHANGED Sides
      BY <1>1, <2>1, <2>3 DEF DrainDone, Sides
    <3> QED
      BY <2>1, <3>1, OwedQuiet
  <2> QED
    BY <2>2, <2>3
<1>2. CASE DrainClear(m)
  <2>1. /\ closing # NoMsg /\ Clear /\ closing' = NoMsg
        /\ UNCHANGED <<coreOpen, stdin, out, cmd, rejected>>
    BY <1>2 DEF DrainClear, Locked
  <2> QED
    BY <2>1, OwedClear
<1> QED
  BY <1>1, <1>2 DEF ProgressDrain

\* So what is owed is kept.
LEMMA OwedHolds ==
    ASSUME EarlyNext = FALSE
    PROVE  Spec => []Owed
<1>1. Init => Owed
  <2> SUFFICES ASSUME Init
               PROVE  Owed
    OBVIOUS
  <2>1. out \in Seq(Events) /\ closing = NoMsg /\ NeverRejected
    BY DEF Init, NeverRejected
  <2>2. Count(stdin, "user") = 0 /\ Count(out, "run_complete") = 0
    <3>1. DOMAIN stdin = {} /\ DOMAIN out = {}
      BY DEF Init
    <3> QED
      BY <3>1, FS_EmptySet DEF Count
  <2> QED
    BY <2>1, <2>2 DEF Owed, OneComplete, Init
<1>2. IInv /\ Owed /\ [Next]_vars => Owed'
  <2> SUFFICES ASSUME IInv, Owed, [Next]_vars
               PROVE  Owed'
    OBVIOUS
  <2>1. CASE Next
    BY <2>1, OwedCore, OwedCommand, OwedAgent, OwedDrain DEF Next, IInv
  <2>2. CASE UNCHANGED vars
    <3>1. UNCHANGED Sides /\ SameOpening
      BY <2>2 DEF vars, core, flag, past, Sides, SameOpening
    <3> QED
      BY <3>1, OwedQuiet
  <2> QED
    BY <2>1, <2>2
<1> QED
  BY <1>1, <1>2, Invariance, PTL DEF Spec

\* While Core's gate is open there is one of a message on its way, a run going
\* and a run_complete on its way, and otherwise none: whichever of the turn end,
\* the abort and the drain closes a run, it is told complete once, provided that
\* Core's next message does not arrive before run_in_progress is cleared.
THEOREM OneCompleteHolds ==
    ASSUME EarlyNext = FALSE
    PROVE  Spec => []OneComplete
<1>1. Owed => OneComplete
  BY DEF Owed
<1> QED
  BY <1>1, OwedHolds, PTL

\* With the same proviso the bridge refuses no message of Core's.
THEOREM NeverRejectedHolds ==
    ASSUME EarlyNext = FALSE
    PROVE  Spec => []NeverRejected
<1>1. Owed => NeverRejected
  BY DEF Owed
<1> QED
  BY <1>1, OwedHolds, PTL


-----------------------------------------------------------------------------
(* Until the user stops one, a run has the bridge to itself.               *)

\* Where the agent thread has taken a task up and not brought it to its end.
Early == {"start"} \cup Stepping

\* The run that goes on is the one a thread is at work for, if any is: it is
\* being put, or waits in the engine's queue, or has been taken up. A task past
\* its end is not the run of a newer one.
Alone ==
    /\ agent.at \in Early => taskQueue = <<>> /\ cmd.at # "put" /\ current = agent.task
    /\ taskQueue # <<>> => taskQueue = <<current>> /\ cmd.at # "put"
    /\ cmd.at = "put" => current = cmd.msg
    /\ agent.at = "done" /\ (taskQueue # <<>> \/ cmd.at = "put") => agent.task # current

\* Until its task's end the run goes on, and its drain has nothing to close it for.
Underway ==
    /\ agent.at \in Early \/ taskQueue # <<>>
         => inProgress /\ closing = NoMsg /\ drain[current] = "live"
    /\ cmd.at = "put" => inProgress /\ closing = NoMsg /\ drain[current] = "none"
    /\ cmd.at \in {"open", "abort", "signal", "stopped"} => ~inProgress

\* A task and a drain are of a run that was opened.
Opened ==
    /\ \A m \in Msgs : drainGen[m] = 0 => drain[m] = "none"
    /\ agent.at # "idle" => drainGen[agent.task] # 0

Lone == aborted = {} => /\ Alone /\ Underway /\ Opened
                        /\ strayRead = {} /\ ClosedByOwnTask

\* The user stops nothing more by standing still.
LEMMA AbortedGrows ==
    ASSUME Next
    PROVE  aborted \subseteq aborted'
  BY DEF Next, Core, CoreSend, CoreInterject, CoreAbort, CoreReads, CommandThread,
         TakeMessage, OpenRun, PutTask, TakeInterject, AbortRetire, AbortLook,
         AbortSignal, AbortClose, AgentThread, StartTask, EnterLoop, TakeStep,
         ReadIntervene, WipeIntervene, AccountStep, ReportStep, CloseRun, ClearRun,
         PutDone, Finally, ProgressDrain, DrainDone, DrainClear, Complete, CmdRest,
         AgentRest, Untouched, DrainRest, past

\* The run that goes on was opened.
LEMMA CurrentOpened ==
    ASSUME IInv, inProgress
    PROVE  current \in Msgs /\ drainGen[current] # 0
  BY DEF IInv, Going, Blank

\* The command thread's steps: it opens a run when none goes on.
LEMMA LoneCommand ==
    ASSUME IInv, Lone, CommandThread, aborted' = {}, aborted = {}
    PROVE  Lone'
<1> USE DEF CmdRest, core, flag, engine, drains, past, CmdAt
<1>0. /\ Alone /\ Underway /\ Opened /\ strayRead = {} /\ ClosedByOwnTask
      /\ Typed /\ Named /\ NoMsg \notin Msgs
  BY BridgeAssumption DEF Lone, IInv
<1>1. CASE TakeMessage
  BY <1>0, <1>1 DEF TakeMessage, Reads, Lone, Alone, Underway, Opened, ClosedByOwnTask
<1>2. CASE OpenRun
  <2>1. cmd.at = "open" /\ cmd.msg \in Msgs /\ ~inProgress /\ closing = NoMsg
    BY <1>0, <1>2 DEF OpenRun, LockFree, Underway, Named
  <2>2. drainGen[cmd.msg] = 0 /\ drain[cmd.msg] = "none"
    BY <1>0, <2>1 DEF IInv, Unopened, Opening, Opened
  <2>3. taskQueue = <<>> /\ agent.at \notin Early
    BY <1>0, <2>1 DEF Underway
  <2>4. drainGen \in [Msgs -> Nat] /\ generation \in Nat
    BY <1>0 DEF Typed
  <2>5. agent.at # "idle" => agent.task \in Msgs /\ drainGen[agent.task] # 0
    BY <1>0 DEF Named, Opened
  <2>6. Opened'
    BY <1>0, <1>2, <2>1, <2>4, <2>5 DEF OpenRun, Opened
  <2>7. Alone' /\ Underway'
    BY <1>2, <2>1, <2>2, <2>3, <2>5 DEF OpenRun, Alone, Underway
  <2> QED
    BY <1>0, <1>2, <2>6, <2>7 DEF OpenRun, Lone, ClosedByOwnTask
<1>3. CASE PutTask
  <2>1. /\ cmd.at = "put" /\ current = cmd.msg /\ cmd.msg \in Msgs
        /\ taskQueue = <<>> /\ agent.at \notin Early
        /\ inProgress /\ closing = NoMsg
    BY <1>0, <1>3 DEF PutTask, Named, Alone, Underway
  <2>2. drainGen[current] # 0
    BY <2>1, CurrentOpened
  <2>3. taskQueue' = <<current>>
    BY <1>3, <2>1 DEF PutTask
  <2>4. drain' = [drain EXCEPT ![current] = "live"] /\ drain'[current] = "live"
    BY <1>0, <1>3, <2>1 DEF PutTask, Typed
  <2>5. Opened'
    BY <1>0, <1>3, <2>1, <2>2, <2>4 DEF PutTask, Opened, Typed
  <2>6. cmd'.at = "idle" /\ UNCHANGED <<agent, current, inProgress, closing>>
    BY <1>3 DEF PutTask
  <2>7. Alone' /\ Underway'
    BY <1>0, <2>1, <2>3, <2>4, <2>6 DEF Alone, Underway
  <2> QED
    BY <1>0, <1>3, <2>5, <2>7 DEF PutTask, Lone, ClosedByOwnTask
<1>4. CASE TakeInterject
  BY <1>0, <1>4 DEF TakeInterject, Reads, Lone, Alone, Underway, Opened, ClosedByOwnTask
<1>5. CASE AbortRetire
  <2>1. ~inProgress
    BY <1>5, <1>0 DEF AbortRetire, IInv, Going
  <2> QED
    BY <1>0, <1>5, <2>1 DEF AbortRetire, Reads, Lone, Alone, Underway, Opened,
                            ClosedByOwnTask
<1>6. CASE AbortLook
  BY <1>0, <1>6 DEF AbortLook, Lone, Alone, Underway, Opened, ClosedByOwnTask
<1>7. CASE AbortSignal
  BY <1>0, <1>7 DEF AbortSignal, Lone, Alone, Underway, Opened, ClosedByOwnTask
<1>8. CASE AbortClose
  <2>1. ~inProgress
    BY <1>0, <1>8 DEF AbortClose, Underway
  <2> QED
    BY <1>0, <1>8, <2>1 DEF AbortClose, Lone, Alone, Underway, Opened, ClosedByOwnTask
<1> QED
  BY <1>1, <1>2, <1>3, <1>4, <1>5, <1>6, <1>7, <1>8 DEF CommandThread

\* The agent thread goes on within the run of its task.
LEMMA LoneOn ==
    ASSUME Lone, aborted' = {}, aborted = {}, agent.at \in Early,
           agent'.at \in Early \cup {"done", "finally"}, agent'.task = agent.task,
           UNCHANGED <<cmd, inProgress, current, closing, taskQueue, drain, drainGen,
                       closer>>,
           strayRead' = {}
    PROVE  Lone'
  BY DEF Lone, Alone, Underway, Opened, ClosedByOwnTask, Early, Stepping

\* The agent thread's steps: a task's steps and its exit fall inside its run.
LEMMA LoneAgent ==
    ASSUME IInv, Lone, AgentThread, aborted' = {}, aborted = {}
    PROVE  Lone'
<1> USE DEF AgentRest, Untouched, core, engine, past
<1>0. /\ Alone /\ Underway /\ Opened /\ strayRead = {} /\ ClosedByOwnTask
      /\ Typed /\ Named /\ NoMsg \notin Msgs
  BY BridgeAssumption DEF Lone, IInv
<1>1. CASE StartTask
  <2>1. taskQueue = <<current>> /\ cmd.at # "put" /\ agent.at = "idle"
    BY <1>0, <1>1 DEF StartTask, Alone
  <2>2. inProgress /\ closing = NoMsg /\ drain[current] = "live"
    BY <1>0, <2>1 DEF Underway
  <2>3. drainGen[current] # 0
    BY <2>2, CurrentOpened
  <2>4. agent'.at = "start" /\ agent'.task = current /\ taskQueue' = <<>>
    BY <1>1, <2>1 DEF StartTask
  <2>5. UNCHANGED <<cmd, inProgress, current, closing, drain, drainGen, closer, strayRead>>
    BY <1>1 DEF StartTask
  <2> QED
    BY <1>0, <2>1, <2>2, <2>3, <2>4, <2>5 DEF Lone, Alone, Underway, Opened,
                                               ClosedByOwnTask
<1>2. ASSUME NEW step, AgentAt(step)
      PROVE  agent'.at = step /\ agent'.task = agent.task
  BY <1>0, <1>2 DEF AgentAt, Typed, Agent
<1>3. CASE EnterLoop
  <2>1. agent.at = "start" /\ agent.task = current /\ current \in Msgs
        /\ drainGen[current] # 0
    BY <1>0, <1>3, CurrentOpened DEF EnterLoop, Alone, Underway, Early
  <2>2. UNCHANGED <<cmd, inProgress, current, closing, taskQueue, drainGen, closer,
                    strayRead>>
    BY <1>3 DEF EnterLoop
  <2>3. CASE agent.task \notin Slash
    <3>1. agent'.at = "step" /\ agent'.task = agent.task /\ UNCHANGED drain
      BY <1>2, <1>3, <2>3 DEF EnterLoop
    <3> QED
      BY <1>0, <2>1, <2>2, <3>1, LoneOn DEF Early, Stepping
  <2>4. CASE agent.task \in Slash
    <3>1. agent'.at = "finally" /\ agent'.task = agent.task
          /\ drain' = [drain EXCEPT ![current] = "system"]
      BY <1>2, <1>3, <2>1, <2>4 DEF EnterLoop
    <3>2. Opened'
      BY <1>0, <2>1, <2>2, <3>1 DEF Opened, Typed
    <3>3. taskQueue = <<>> /\ cmd.at # "put"
      BY <1>0, <2>1 DEF Alone, Early
    <3>4. Alone' /\ Underway'
      BY <1>0, <2>2, <3>1, <3>3 DEF Alone, Underway, Early, Stepping
    <3> QED
      BY <1>0, <2>2, <3>2, <3>4 DEF Lone, ClosedByOwnTask
  <2> QED
    BY <2>3, <2>4
<1>4. ASSUME NEW final \in BOOLEAN, TakeStep(final)
      PROVE  Lone'
  <2>1. /\ agent.at = "step" /\ strayRead' = {}
        /\ UNCHANGED <<cmd, inProgress, current, closing, taskQueue, drain, drainGen,
                       closer>>
    BY <1>0, <1>4 DEF TakeStep
  <2>2. agent'.at \in {"done", "end"} /\ agent'.task = agent.task
    <3>1. CASE AgentAt("done")
      BY <1>2, <3>1
    <3>2. CASE agent' = [agent EXCEPT !.at = "end", !.final = final]
      BY <1>0, <3>2 DEF Typed, Agent
    <3> QED
      BY <1>4, <3>1, <3>2 DEF TakeStep
  <2> QED
    BY <2>1, <2>2, LoneOn DEF Early, Stepping
<1>5. CASE ReadIntervene
  <2>1. agent'.at = "wipe" /\ agent'.task = agent.task
    BY <1>0, <1>5 DEF ReadIntervene, Typed, Agent
  <2> QED
    BY <1>0, <1>5, <2>1, LoneOn DEF ReadIntervene, Early, Stepping
<1>6. CASE WipeIntervene
  <2>1. agent'.at = "account" /\ agent'.task = agent.task
    BY <1>2, <1>6 DEF WipeIntervene
  <2> QED
    BY <1>0, <1>6, <2>1, LoneOn DEF WipeIntervene, Early, Stepping
<1>7. CASE AccountStep
  <2>1. agent.at = "account" /\ agent.task = current
    BY <1>0, <1>7 DEF AccountStep, Alone, Early, Stepping
  <2>2. strayRead' = {}
    BY <1>0, <1>7, <2>1 DEF AccountStep
  <2>3. agent'.at = "report" /\ agent'.task = agent.task
    BY <1>0, <1>7 DEF AccountStep, Typed, Agent
  <2>4. UNCHANGED <<cmd, inProgress, current, closing, taskQueue, drain, drainGen,
                    closer>>
    BY <1>7 DEF AccountStep
  <2> QED
    BY <2>1, <2>2, <2>3, <2>4, LoneOn DEF Early, Stepping
<1>8. CASE ReportStep
  <2>1. agent'.at \in {"close", "step"} /\ agent'.task = agent.task
    BY <1>2, <1>8 DEF ReportStep
  <2> QED
    BY <1>0, <1>8, <2>1, LoneOn DEF ReportStep, Early, Stepping
<1>9. CASE CloseRun
  <2>1. /\ agent.at = "close" /\ agent.task = current /\ inProgress
        /\ taskQueue = <<>> /\ cmd.at # "put"
    BY <1>0, <1>9 DEF CloseRun, Alone, Underway, Early, Stepping
  <2>2. agent'.at = "clear" /\ agent'.task = agent.task
    BY <1>2, <1>9, <2>1 DEF CloseRun
  <2>3. /\ UNCHANGED <<cmd, inProgress, current, taskQueue, drain, drainGen, strayRead>>
        /\ closer' = [closer EXCEPT ![current] = @ \cup {current}]
    BY <1>9, <2>1 DEF CloseRun, Complete
  <2>4. ClosedByOwnTask'
    BY <1>0, <2>3 DEF ClosedByOwnTask, Typed
  <2>5. Alone' /\ Underway' /\ Opened'
    BY <1>0, <2>1, <2>2, <2>3 DEF Alone, Underway, Opened, Early, Stepping
  <2> QED
    BY <1>0, <2>3, <2>4, <2>5 DEF Lone
<1>10. CASE ClearRun
  <2>1. /\ agent.at = "clear" /\ closing # NoMsg
        /\ taskQueue = <<>> /\ cmd.at # "put"
    BY <1>0, <1>10 DEF ClearRun, IInv, Locked, Underway
  <2>2. agent'.at = "done" /\ agent'.task = agent.task
    BY <1>2, <1>10 DEF ClearRun
  <2>3. ~inProgress' /\ UNCHANGED <<cmd, taskQueue, drain, drainGen, closer, strayRead>>
    BY <1>10 DEF ClearRun, Clear
  <2> QED
    BY <1>0, <2>1, <2>2, <2>3 DEF Lone, Alone, Underway, Opened, ClosedByOwnTask,
                                  Early, Stepping
<1>11. CASE PutDone
  <2>1. agent.at = "done" /\ agent.task \in Msgs /\ drainGen[agent.task] # 0
    BY <1>0, <1>11 DEF PutDone, Named, Opened
  <2>2. agent'.at = "finally" /\ agent'.task = agent.task
        /\ drain' = [drain EXCEPT ![agent.task] = "done"]
    BY <1>2, <1>11 DEF PutDone
  <2>3. UNCHANGED <<cmd, inProgress, current, closing, taskQueue, drainGen, closer,
                    strayRead>>
    BY <1>11 DEF PutDone
  <2>4. Opened'
    BY <1>0, <2>1, <2>2, <2>3 DEF Opened, Typed
  <2>5. taskQueue # <<>> \/ cmd.at = "put" => drain'[current] = drain[current]
    <3>1. taskQueue # <<>> \/ cmd.at = "put" => agent.task # current /\ current \in Msgs
      BY <1>0, <2>1, CurrentOpened DEF Alone, Underway
    <3> QED
      BY <1>0, <2>2, <3>1 DEF Typed
  <2>6. Alone' /\ Underway'
    BY <1>0, <2>2, <2>3, <2>5 DEF Alone, Underway, Early, Stepping
  <2> QED
    BY <1>0, <2>3, <2>4, <2>6 DEF Lone, ClosedByOwnTask
<1>12. CASE Finally
  <2>1. agent'.at = "idle"
    BY <1>12 DEF Finally
  <2> QED
    BY <1>0, <1>12, <2>1 DEF Finally, Lone, Alone, Underway, Opened, ClosedByOwnTask,
                             Early, Stepping
<1> QED
  BY <1>1, <1>3, <1>4, <1>5, <1>6, <1>7, <1>8, <1>9, <1>10, <1>11, <1>12 DEF AgentThread

\* A drain's: its generation says that the run is its own, and its state that
\* the run's task has come to its end.
LEMMA LoneDrain ==
    ASSUME IInv, Lone, NEW m \in Msgs, ProgressDrain(m), aborted' = {}, aborted = {}
    PROVE  Lone'
<1> USE DEF DrainRest, core, engine
<1>0. /\ Alone /\ Underway /\ Opened /\ strayRead = {} /\ ClosedByOwnTask
      /\ Typed /\ Named /\ NoMsg \notin Msgs
  BY BridgeAssumption DEF Lone, IInv
<1>1. ASSUME NEW after, drain[m] \notin {"none", "live"},
             drain' = [drain EXCEPT ![m] = after],
             UNCHANGED <<agent, cmd, taskQueue, drainGen>>
      PROVE  /\ Opened'
             /\ inProgress /\ drain[current] \in {"none", "live"}
                  => drain'[current] = drain[current]
  <2>1. Opened'
    BY <1>0, <1>1 DEF Opened, Typed
  <2>2. inProgress => current \in Msgs
    BY DEF IInv, Going
  <2> QED
    BY <1>0, <1>1, <2>1, <2>2 DEF Typed
<1>2. CASE DrainDone(m)
  <2>1. /\ drain[m] \in {"done", "system"}
        /\ UNCHANGED <<agent, cmd, taskQueue, drainGen, inProgress, current, strayRead>>
    BY <1>2 DEF DrainDone
  <2>2. CASE StillMine(m)
    <3>1. current = m
      BY <2>2 DEF StillMine, IInv, Generations
    <3>2. agent.at \notin Early /\ taskQueue = <<>> /\ cmd.at # "put"
      BY <1>0, <2>1, <3>1 DEF Underway
    <3>3. /\ closer' = [closer EXCEPT ![m] = @ \cup {m}]
          /\ drain' = [drain EXCEPT ![m] = "clear"]
      BY <1>2, <2>2, <3>1 DEF DrainDone, Complete
    <3>4. ClosedByOwnTask'
      BY <1>0, <3>3 DEF ClosedByOwnTask, Typed
    <3>5. Opened'
      BY <1>1, <2>1, <3>3
    <3>6. Alone' /\ Underway'
      BY <1>0, <2>1, <3>2 DEF Alone, Underway, Early
    <3> QED
      BY <1>0, <2>1, <3>4, <3>5, <3>6 DEF Lone
  <2>3. CASE ~StillMine(m)
    <3>1. drain' = [drain EXCEPT ![m] = "over"] /\ UNCHANGED <<closer, closing>>
      BY <1>2, <2>3 DEF DrainDone
    <3>2. Opened' /\ (inProgress /\ drain[current] \in {"none", "live"}
                        => drain'[current] = drain[current])
      BY <1>1, <2>1, <3>1
    <3>3. Alone' /\ Underway'
      BY <1>0, <2>1, <3>1, <3>2 DEF Alone, Underway, Early
    <3> QED
      BY <1>0, <2>1, <3>1, <3>2, <3>3 DEF Lone, ClosedByOwnTask
  <2> QED
    BY <2>2, <2>3
<1>3. CASE DrainClear(m)
  <2>1. /\ drain[m] = "clear" /\ drain' = [drain EXCEPT ![m] = "over"] /\ ~inProgress'
        /\ UNCHANGED <<agent, cmd, taskQueue, drainGen, closer, strayRead>>
    BY <1>3 DEF DrainClear, Clear
  <2>2. closing # NoMsg
    BY <2>1 DEF IInv, Locked
  <2>3. agent.at \notin Early /\ taskQueue = <<>> /\ cmd.at # "put"
    BY <1>0, <2>2 DEF Underway
  <2>4. Opened'
    BY <1>1, <2>1
  <2> QED
    BY <1>0, <2>1, <2>3, <2>4 DEF Lone, Alone, Underway, Early, ClosedByOwnTask
<1> QED
  BY <1>2, <1>3 DEF ProgressDrain

\* Every step leaves the run to itself.
LEMMA LoneStep ==
    ASSUME IInv, Lone, [Next]_vars
    PROVE  Lone'
<1> SUFFICES ASSUME aborted' = {}
             PROVE  Lone'
  BY DEF Lone
<1>1. CASE UNCHANGED vars
  BY <1>1 DEF Lone, Alone, Underway, Opened, ClosedByOwnTask, vars, flag, engine,
              drains, past
<1>2. CASE Next
  <2>0. aborted = {}
    BY <1>2, AbortedGrows
  <2>1. CASE Core
    BY <2>0, <2>1 DEF Core, CoreSend, CoreInterject, CoreAbort, CoreReads, Lone, Alone,
              Underway, Opened, ClosedByOwnTask, flag, engine, drains, past
  <2> QED
    BY <1>2, <2>0, <2>1, LoneCommand, LoneAgent, LoneDrain DEF Next
<1> QED
  BY <1>1, <1>2

\* Until the user stops a run, the steps of a task fall inside the run it was put
\* for, read only what was handed to that run, and nothing else closes it: the
\* turn ends of one run, its drain and the interjects on their way to it never
\* meet another.
THEOREM OwnRunHolds == Spec => []OwnRun
<1>1. Init => Lone
  BY DEF Init, Lone, Alone, Underway, Opened, ClosedByOwnTask, Early, Stepping
<1>2. Lone => OwnRun
  BY DEF Lone, Alone, Underway, Early, OwnRun
<1> QED
  BY <1>1, <1>2, LoneStep, Invariance, PTL DEF Spec

-----------------------------------------------------------------------------
(* Every variable has its type.                                            *)

\* What Typed leaves out, but for the bounds.
TypedRest ==
    /\ coreOpen \in BOOLEAN /\ out \in Seq(Events)
    /\ written \subseteq SUBSET Msgs
    /\ isRunning \in BOOLEAN /\ stopSig \in BOOLEAN
    /\ rejected \subseteq Msgs /\ strayRead \subseteq Msgs

\* A run's end on its way to Core.
LEMMA OutComplete ==
    ASSUME TypedRest, NEW by, NEW reason, Complete(by, reason)
    PROVE  out' \in Seq(Events) /\ written' = {}
<1>1. Event("run_complete", {}) \in Events
  BY DEF Event, Events
<1> QED
  BY <1>1, Appended DEF TypedRest, Complete, TakeUnread

\* Every step keeps these types.
LEMMA TypedRestStep ==
    ASSUME IInv, TypedRest, Next
    PROVE  TypedRest'
<1> USE DEF TypedRest, flag, account, engine, past
<1>0. Typed
  BY DEF IInv
<1>1. CASE Core
  <2>1. CASE CoreReads
    BY <2>1, TakenFirst DEF CoreReads, Dispatch
  <2> QED
    BY <1>1, <2>1 DEF Core, CoreSend, CoreInterject, CoreAbort, Dispatch
<1>2. CASE TakeMessage
  <2>1. Head(stdin).msg \in Msgs
    <3>1. Head(stdin) \in Commands /\ Head(stdin).kind = "user"
      BY <1>0, <1>2, TakenFirst DEF TakeMessage, Reads, Typed
    <3> QED
      BY <3>1, CommandParts
  <2> QED
    BY <1>2, <2>1 DEF TakeMessage, CmdRest, TakeUnread, core
<1>3. CASE TakeInterject
  <2>1. Head(stdin).ids \subseteq Msgs
    <3>1. Head(stdin) \in Commands /\ Head(stdin).kind = "interject"
      BY <1>0, <1>3, TakenFirst DEF TakeInterject, Reads, Typed
    <3> QED
      BY <3>1, CommandParts
  <2>2. written' \subseteq SUBSET Msgs
    <3>1. CASE Add(Head(stdin).ids)
      <4>1. unread \cup (Head(stdin).ids \ taken) \in SUBSET Msgs
        BY <1>0, <2>1 DEF Typed
      <4> QED
        BY <3>1, <4>1 DEF Add
    <3>2. CASE UNCHANGED account
      BY <3>2
    <3> QED
      BY <1>3, <3>1, <3>2 DEF TakeInterject
  <2> QED
    BY <1>3, <2>2 DEF TakeInterject, CmdRest, core
<1>4. CASE AbortClose
  BY <1>4, OutComplete DEF AbortClose, CmdRest, core
<1>5. CASE OpenRun \/ PutTask \/ AbortRetire \/ AbortLook \/ AbortSignal
  BY <1>5 DEF OpenRun, PutTask, AbortRetire, AbortLook, AbortSignal, CmdRest, core
<1>6. CASE AccountStep
  <2>1. ReadBy(agent) \subseteq Msgs /\ unread' \subseteq Msgs
    BY <1>0, <1>6 DEF AccountStep, StepEnded, ReadBy, Typed, Agent
  <2>2. written' \subseteq SUBSET Msgs
    BY <1>6, <2>1 DEF AccountStep, StepEnded
  <2> QED
    BY <1>6, <2>1, <2>2 DEF AccountStep, AgentRest, core
<1>7. CASE ReportStep
  <2>1. Event("interject_delivered", agent.took) \in Events
    BY <1>0 DEF Typed, Agent, Event, Events
  <2>2. out' \in Seq(Events)
    BY <1>7, <2>1, Appended DEF ReportStep
  <2> QED
    BY <1>7, <2>2 DEF ReportStep, AgentRest, core
<1>8. CASE CloseRun
  BY <1>8, OutComplete DEF CloseRun, AgentRest, core
<1>9. CASE StartTask \/ (\E final \in BOOLEAN : TakeStep(final)) \/ EnterLoop
             \/ ReadIntervene \/ WipeIntervene \/ ClearRun \/ PutDone \/ Finally
  BY <1>9 DEF StartTask, TakeStep, EnterLoop, ReadIntervene, WipeIntervene, ClearRun,
              PutDone, Finally, AgentRest, Untouched, core
<1>10. ASSUME NEW m \in Msgs, ProgressDrain(m)
       PROVE  TypedRest'
  BY <1>10, OutComplete DEF ProgressDrain, DrainDone, DrainClear, DrainRest, core
<1> QED
  BY <1>1, <1>2, <1>3, <1>4, <1>5, <1>6, <1>7, <1>8, <1>9, <1>10
     DEF Next, CommandThread, AgentThread

-----------------------------------------------------------------------------
(* The generation counts the runs opened and the aborts taken.             *)

Begun == {m \in Msgs : drainGen[m] # 0}

Bounded ==
    /\ aborts \in 0 .. Aborts
    /\ generation + Count(stdin, "abort") <= Cardinality(Begun) + aborts

\* The counts are numbers.
LEMMA BoundedCounts ==
    ASSUME IsFiniteSet(Msgs), Typed
    PROVE  /\ Count(stdin, "abort") \in Nat /\ generation \in Nat
           /\ IsFiniteSet(Begun) /\ Cardinality(Begun) \in Nat
           /\ Cardinality(Begun) <= Cardinality(Msgs)
<1>1. Begun \subseteq Msgs
  BY DEF Begun
<1>2. IsFiniteSet(Begun) /\ Cardinality(Begun) <= Cardinality(Msgs)
  BY <1>1, FS_Subset
<1> QED
  BY <1>2, Counted, FS_CardinalityType DEF Typed

\* A step that neither opens a run nor takes or sends an abort.
LEMMA BoundedQuiet ==
    ASSUME Bounded, Count(stdin, "abort")' = Count(stdin, "abort"),
           UNCHANGED <<aborts, generation, drainGen>>
    PROVE  Bounded'
  BY DEF Bounded, Begun

\* Core's steps: an abort that is sent is on the pipe.
LEMMA BoundedCore ==
    ASSUME IsFiniteSet(Msgs), Typed, Bounded, Core
    PROVE  Bounded'
<1> USE DEF flag, drains
<1>1. ASSUME NEW m \in Msgs, stdin' = Append(stdin, Cmd("user", m, {}))
      PROVE  Count(stdin, "abort")' = Count(stdin, "abort")
  <2>1. Cmd("user", m, {}) \in Commands /\ Cmd("user", m, {}).kind # "abort"
    BY CommandsOf, {} \in SUBSET Msgs DEF Cmd
  <2> QED
    BY <1>1, <2>1, CountedMore DEF Typed
<1>2. ASSUME UNCHANGED stdin
      PROVE  Count(stdin, "abort")' = Count(stdin, "abort")
  BY <1>2 DEF Count
<1>3. ASSUME NEW m \in Msgs, CoreSend(m)
      PROVE  Bounded'
  <2>1. UNCHANGED <<aborts, generation, drainGen>>
    BY <1>3 DEF CoreSend
  <2>2. stdin' = Append(stdin, Cmd("user", m, {})) \/ UNCHANGED stdin
    BY <1>3 DEF CoreSend, Dispatch
  <2> QED
    BY <1>1, <1>2, <2>1, <2>2, BoundedQuiet
<1>4. ASSUME NEW ids \in handing, CoreInterject(ids)
      PROVE  Bounded'
  <2>1. /\ Cmd("interject", NoMsg, ids) \in Commands
        /\ Cmd("interject", NoMsg, ids).kind # "abort"
    BY CommandsOf DEF Typed, Cmd
  <2>2. /\ stdin' = Append(stdin, Cmd("interject", NoMsg, ids))
        /\ UNCHANGED <<aborts, generation, drainGen>>
    BY <1>4 DEF CoreInterject
  <2>3. Count(stdin, "abort")' = Count(stdin, "abort")
    BY <2>1, <2>2, CountedMore DEF Typed
  <2> QED
    BY <2>2, <2>3, BoundedQuiet
<1>5. CASE CoreAbort
  <2>1. Cmd("abort", NoMsg, {}) \in Commands /\ Cmd("abort", NoMsg, {}).kind = "abort"
    BY CommandsOf, {} \in SUBSET Msgs DEF Cmd
  <2>2. /\ stdin' = Append(stdin, Cmd("abort", NoMsg, {}))
        /\ aborts' = aborts + 1 /\ aborts < Aborts
        /\ UNCHANGED <<generation, drainGen>>
    BY <1>5 DEF CoreAbort
  <2>3. Count(stdin, "abort")' = Count(stdin, "abort") + 1
    BY <2>1, <2>2, CountedMore DEF Typed
  <2>4. Begun' = Begun
    BY <2>2 DEF Begun
  <2> QED
    BY <2>2, <2>3, <2>4, BoundedCounts, BridgeAssumption DEF Bounded
<1>6. CASE CoreReads
  <2>1. UNCHANGED <<aborts, generation, drainGen>>
    BY <1>6 DEF CoreReads
  <2>2. \/ UNCHANGED stdin
        \/ \E m \in Msgs : stdin' = Append(stdin, Cmd("user", m, {}))
    BY <1>6 DEF CoreReads, Dispatch, Typed
  <2> QED
    BY <1>1, <1>2, <2>1, <2>2, BoundedQuiet
<1> QED
  BY <1>3, <1>4, <1>5, <1>6 DEF Core

\* The command thread's: an abort that is taken retires a generation, and a
\* run that opens takes the next one.
LEMMA BoundedCommand ==
    ASSUME IsFiniteSet(Msgs), IInv, Bounded, CommandThread
    PROVE  Bounded'
<1> USE DEF CmdRest, core, flag, drains
<1>0. Typed
  BY DEF IInv
<1>1. CASE TakeMessage \/ TakeInterject
  <2>1. /\ stdin # <<>> /\ stdin' = Tail(stdin) /\ Head(stdin).kind # "abort"
        /\ UNCHANGED <<aborts, generation, drainGen>>
    BY <1>1 DEF TakeMessage, TakeInterject, Reads
  <2>2. Count(stdin, "abort")' = Count(stdin, "abort")
    BY <1>0, <2>1, CountedLess DEF Typed
  <2> QED
    BY <2>1, <2>2, BoundedQuiet
<1>2. CASE OpenRun
  <2>1. /\ cmd.msg \in Msgs /\ drainGen[cmd.msg] = 0
    BY <1>2 DEF OpenRun, IInv, Named, Unopened, Opening
  <2>2. /\ generation' = generation + 1
        /\ drainGen' = [drainGen EXCEPT ![cmd.msg] = generation + 1]
        /\ UNCHANGED <<stdin, aborts>>
    BY <1>2 DEF OpenRun
  <2>3. Begun' = Begun \cup {cmd.msg} /\ cmd.msg \notin Begun
    BY <1>0, <2>1, <2>2 DEF Begun, Typed
  <2>4. Cardinality(Begun') = Cardinality(Begun) + 1
    BY <1>0, <2>3, BoundedCounts, FS_AddElement
  <2>5. Count(stdin, "abort")' = Count(stdin, "abort")
    BY <2>2 DEF Count
  <2> QED
    BY <1>0, <2>2, <2>4, <2>5, BoundedCounts, BridgeAssumption DEF Bounded
<1>3. CASE AbortRetire
  <2>1. /\ stdin # <<>> /\ stdin' = Tail(stdin) /\ Head(stdin).kind = "abort"
        /\ generation' = generation + 1
        /\ UNCHANGED <<aborts, drainGen>>
    BY <1>3 DEF AbortRetire, Reads
  <2>2. Count(stdin, "abort") = Count(stdin, "abort")' + 1
    BY <1>0, <2>1, CountedLess DEF Typed
  <2>3. Count(stdin, "abort")' \in Nat
    BY <1>0, <2>1, TakenFirst, Counted DEF Typed
  <2>4. Begun' = Begun
    BY <2>1 DEF Begun
  <2> QED
    BY <1>0, <2>1, <2>2, <2>3, <2>4, BoundedCounts, BridgeAssumption DEF Bounded
<1>4. CASE PutTask \/ AbortLook \/ AbortSignal \/ AbortClose
  <2>1. UNCHANGED <<stdin, aborts, generation, drainGen>>
    BY <1>4 DEF PutTask, AbortLook, AbortSignal, AbortClose
  <2>2. Count(stdin, "abort")' = Count(stdin, "abort")
    BY <2>1 DEF Count
  <2> QED
    BY <2>1, <2>2, BoundedQuiet
<1> QED
  BY <1>1, <1>2, <1>3, <1>4 DEF CommandThread

\* Every step keeps the bound.
LEMMA BoundedStep ==
    ASSUME IsFiniteSet(Msgs), IInv, Bounded, [Next]_vars
    PROVE  Bounded'
<1>1. CASE \/ AgentThread \/ \E m \in Msgs : ProgressDrain(m)
           \/ UNCHANGED vars
  <2>1. UNCHANGED <<stdin, aborts, generation, drainGen>>
    BY <1>1 DEF AgentThread, StartTask, TakeStep, EnterLoop, ReadIntervene,
                WipeIntervene, AccountStep, ReportStep, CloseRun, ClearRun, PutDone,
                Finally, AgentRest, Untouched, ProgressDrain, DrainDone, DrainClear,
                DrainRest, core, vars, flag, drains
  <2>2. Count(stdin, "abort")' = Count(stdin, "abort")
    BY <2>1 DEF Count
  <2> QED
    BY <2>1, <2>2, BoundedQuiet
<1> QED
  BY <1>1, BoundedCore, BoundedCommand DEF Next, IInv

\* Every variable has its type, and the generation counts no more than the runs
\* that were opened and the aborts Core sent.
THEOREM TypeOKHolds ==
    ASSUME IsFiniteSet(Msgs)
    PROVE  Spec => []TypeOK
<1>1. Init => TypedRest
  <2> SUFFICES ASSUME Init
               PROVE  TypedRest
    OBVIOUS
  <2>1. out \in Seq(Events)
    BY DEF Init
  <2> QED
    BY <2>1 DEF Init, TypedRest
<1>2. IInv /\ TypedRest /\ [Next]_vars => TypedRest'
  <2>1. TypedRest /\ UNCHANGED vars => TypedRest'
    BY DEF TypedRest, vars, core, account, engine, past
  <2> QED
    BY <2>1, TypedRestStep
<1>3. Init => Bounded
  <2> SUFFICES ASSUME Init
               PROVE  Bounded
    OBVIOUS
  <2>1. Count(stdin, "abort") = 0
    <3>1. DOMAIN stdin = {}
      BY DEF Init
    <3> QED
      BY <3>1, FS_EmptySet DEF Count
  <2>2. Begun = {}
    BY DEF Init, Begun
  <2> QED
    BY <2>1, <2>2, FS_EmptySet, BridgeAssumption DEF Init, Bounded
<1>4. IInv /\ Bounded /\ [Next]_vars => Bounded'
  BY BoundedStep
<1>5. IInv /\ TypedRest /\ Bounded => TypeOK
  <2> SUFFICES ASSUME IInv, TypedRest, Bounded
               PROVE  TypeOK
    OBVIOUS
  <2>0. Typed
    BY DEF IInv
  <2>1. generation \in Gens
    BY <2>0, BoundedCounts, FS_CardinalityType, BridgeAssumption DEF Bounded, Gens
  <2>2. drainGen \in [Msgs -> Gens]
    <3>1. \A m \in Msgs : drainGen[m] \in Nat /\ drainGen[m] <= generation
      BY <2>0 DEF Typed, IInv, Generations
    <3>2. \A m \in Msgs : drainGen[m] \in Gens
      BY <2>1, <3>1, FS_CardinalityType, BridgeAssumption DEF Gens
    <3> QED
      BY <2>0, <3>2 DEF Typed
  <2> QED
    BY <2>0, <2>1, <2>2 DEF Typed, TypedRest, Bounded, TypeOK
<1> QED
  BY <1>1, <1>2, <1>3, <1>4, <1>5, Invariance, PTL DEF Spec
=============================================================================
