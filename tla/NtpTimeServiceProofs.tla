------------------------ MODULE NtpTimeServiceProofs ------------------------
(***************************************************************************)
(* Proofs about NtpTimeService, for any threads, runners, configurations   *)
(* and bounds.                                                             *)
(***************************************************************************)
EXTENDS NtpTimeService, TLAPS

(* The inductive invariant. A transition is a lock that is held across     *)
(* unlocked code: InTransition(th) says who holds it, so the invariant     *)
(* says what the holder has on its stack at each of its steps, and what    *)
(* m_state and m_runner look like while there is a holder and while there  *)
(* is none. A runner that was stopped outlives the transition on the stack *)
(* of a thread, so the invariant also says that every object has one owner *)
(* (nobody destroys the runner of another) and that the runners on such a  *)
(* stack do not run.                                                       *)

Exclusive == \A t1, t2 \in Threads : InTransition(t1) /\ InTransition(t2) => t1 = t2

\* The thread has the runner in one of its unique_ptrs.
Has(th, r) == r = call[th].local \/ r = call[th].old

\* The objects that exist are those that somebody owns, and each has one owner.
OneOwner ==
    \A r \in Runners :
        /\ runner[r].exists <=> r = m_runner \/ \E th \in Threads : Has(th, r)
        /\ \A th \in Threads : Has(th, r) => r # m_runner
        /\ \A t1, t2 \in Threads : Has(t1, r) /\ Has(t2, r) => t1 = t2
        /\ \A th \in Threads : r = call[th].local => r # call[th].old

\* What the owner of a transition holds at each of its steps.
Holds(c) ==
    /\ c.pc = "stop_old" => c.old # Nil
    /\ c.pc # "stop_old" /\ c.old # Nil => ~runner[c.old].active
    /\ c.pc \in {"stop_old", "start", "measure", "decide", "stop"} => c.local # Nil
    /\ c.pc \in {"stop_old", "start"} => ~runner[c.local].active
    /\ c.pc = "measure" => runner[c.local].active
    /\ c.pc = "decide" /\ c.ok => runner[c.local].active
    /\ c.pc = "publish" /\ c.local # Nil => runner[c.local].active
    /\ c.pc \in {"stop_old", "start", "measure"} => ~c.ok
    /\ c.pc = "settle" /\ c.local # Nil => ~runner[c.local].active

\* The exit handler has found nothing to stop.
Settled(th) ==
    /\ m_state = "stopped" /\ call[th].op = "exit" /\ call[th].pc = "settle"
    /\ call[th].local = Nil /\ call[th].old = Nil

HolderOwns ==
    \A th \in Threads : InTransition(th) =>
        /\ Holds(call[th])
        /\ m_runner = Nil
        /\ \A r \in Runners : runner[r].active => Has(th, r)
        /\ is_transitioning_locked \/ Settled(th)

AtRest ==
    (\A th \in Threads : ~InTransition(th)) =>
        /\ \/ m_state = "running" /\ m_runner # Nil /\ runner[m_runner].active
           \/ m_state = "stopped" /\ m_runner = Nil
        /\ \A r \in Runners : runner[r].active => r = m_runner

\* Outside of a transition a thread holds no runner but the one it has stopped,
\* until it returns.
IdleHands ==
    \A th \in Threads : ~InTransition(th) =>
        /\ call[th].pc \notin {"notify", "leave"} => call[th].local = Nil /\ call[th].old = Nil
        /\ \A r \in Runners : Has(th, r) => ~runner[r].active
        /\ call[th].pc \in {"enter", "wait"} => ~call[th].ok

ActiveExists == \A r \in Runners : runner[r].active => runner[r].exists

ExitOrder ==
    /\ \A th \in Threads : call[th].op = "exit" => th = Exiter /\ is_process_shutting_down /\ ~call[th].for_offset
    /\ ~is_process_shutting_down => call[Exiter].pc = "idle"
    /\ is_process_shutting_down =>
         call[Exiter].pc = "idle" \/ (call[Exiter].op = "exit" /\ call[Exiter].pc \in {"enter", "wait", "stop", "settle", "notify", "leave"})
    /\ is_process_shutting_down /\ call[Exiter].pc \in {"notify", "leave", "idle"} =>
         m_state = "stopped" /\ \A th \in Threads : ~InTransition(th)

InForce(r) == runner[r].config = m_config /\ runner[r].interval = m_interval

ConfigKept ==
    /\ m_state = "running" => InForce(m_runner)
    /\ \A th \in Threads : InTransition(th) /\ call[th].pc \notin {"stop", "settle"} /\ call[th].local # Nil
         => InForce(call[th].local)

IInv ==
    /\ TypeOK /\ Exclusive /\ OneOwner /\ HolderOwns /\ AtRest /\ IdleHands
    /\ ActiveExists /\ ExitOrder /\ ConfigKept

----------------------------------------------------------------------------
(* Calls keep their type.                                                  *)

\* A function that is left leaves the record of a call behind.
LEMMA LeftIsCall == ASSUME NEW c \in Call, NEW ok \in BOOLEAN PROVE Left(c, ok) \in Call
  BY ConstantsAssumption DEF Left, Call, NoCall, Outside

\* The records that EnsureStarted and InitCall make are calls.
LEMMA InitRecordIsCall ==
  ASSUME NEW interval \in Intervals, NEW for_offset \in BOOLEAN
  PROVE  /\ [NoCall EXCEPT !.op = "init", !.pc = "enter", !.interval = interval] \in Call
         /\ [NoCall EXCEPT !.op = "init", !.pc = "enter", !.for_offset = for_offset, !.interval = interval] \in Call
         /\ NoCall \in Call
  BY ConstantsAssumption DEF Call, NoCall, Outside

\* Waking the others.
LEMMA NotifyType ==
  ASSUME TypeOK, NEW th \in Threads, Notify(th)
  PROVE  call' \in [Threads -> Call]
<1>1. \A x \in Threads : NotifyAll(call)[x] \in Call
  BY DEF TypeOK, NotifyAll, Call, Outside
<1>2. NotifyAll(call) \in [Threads -> Call]
  BY <1>1 DEF NotifyAll
<1>3. \A c \in Call : [c EXCEPT !.pc = "leave"] \in Call
  BY DEF Call, Outside
<1> QED BY <1>2, <1>3 DEF Notify

\* Returning.
LEMMA LeaveType ==
  ASSUME TypeOK, NEW th \in Threads, Leave(th)
  PROVE  call' \in [Threads -> Call]
<1>1. call[th] \in Call /\ call[th].ok \in BOOLEAN
  BY DEF TypeOK, Call
<1>2. Left(call[th], call[th].ok) \in Call
  BY <1>1, LeftIsCall
<1> QED BY <1>2 DEF TypeOK, Leave, Return

\* ensure_started().
LEMMA EnsureStartedType ==
  ASSUME TypeOK, NEW th \in Threads, EnsureStarted(th)
  PROVE  call' \in [Threads -> Call]
<1>1. [call[th] EXCEPT !.pc = "read"] \in Call
  BY DEF TypeOK, Call, Outside
<1>2. [NoCall EXCEPT !.op = "init", !.pc = "enter", !.for_offset = TRUE, !.interval = m_interval] \in Call
  BY InitRecordIsCall DEF TypeOK
<1> QED BY <1>1, <1>2 DEF TypeOK, EnsureStarted

\* init().
LEMMA InitCallType ==
  ASSUME TypeOK, NEW th \in Callers, NEW i \in Intervals \cup {m_interval}, InitCall(th, i)
  PROVE  call' \in [Threads -> Call]
<1>1. i \in Intervals /\ th \in Threads
  BY DEF TypeOK, Threads
<1>2. [NoCall EXCEPT !.op = "init", !.pc = "enter", !.interval = i] \in Call /\ NoCall \in Call
  BY <1>1, InitRecordIsCall
<1> QED BY <1>1, <1>2 DEF TypeOK, InitCall

\* start() of a runner.
LEMMA StartType ==
  ASSUME TypeOK, NEW r \in Runners
  PROVE  [runner EXCEPT ![r].active = TRUE] \in [Runners -> RunnerObject]
<1>1. [runner[r] EXCEPT !.active = TRUE] \in RunnerObject
  BY DEF TypeOK, RunnerObject
<1> QED BY <1>1 DEF TypeOK

\* stop() of a runner.
LEMMA StopType ==
  ASSUME TypeOK, NEW r \in Runners
  PROVE  [runner EXCEPT ![r].active = FALSE] \in [Runners -> RunnerObject]
<1>1. [runner[r] EXCEPT !.active = FALSE] \in RunnerObject
  BY DEF TypeOK, RunnerObject
<1> QED BY <1>1 DEF TypeOK

\* measure_now() of a runner.
LEMMA OffsetType ==
  ASSUME TypeOK, NEW r \in Runners, NEW o \in Offsets
  PROVE  [runner EXCEPT ![r].offset = o] \in [Runners -> RunnerObject]
<1>1. [runner[r] EXCEPT !.offset = o] \in RunnerObject
  BY DEF TypeOK, RunnerObject
<1> QED BY <1>1 DEF TypeOK

\* A call goes on to its next step, as it was or with a success.
LEMMA GotoType ==
  ASSUME TypeOK, NEW th \in Threads, NEW pc \in Outside \cup Transition
  PROVE  /\ [call EXCEPT ![th].pc = pc] \in [Threads -> Call]
         /\ [call EXCEPT ![th].pc = pc, ![th].ok = TRUE] \in [Threads -> Call]
<1>1. /\ [call[th] EXCEPT !.pc = pc] \in Call
      /\ [call[th] EXCEPT !.pc = pc, !.ok = TRUE] \in Call
  BY DEF TypeOK, Call
<1> QED BY <1>1 DEF TypeOK

\* offset_us() answers.
LEMMA AnswerType ==
  ASSUME TypeOK, NEW th \in Threads, NEW g \in Offsets \cup {0}
  PROVE  [call EXCEPT ![th] = [NoCall EXCEPT !.got = g]] \in [Threads -> Call]
<1>1. [NoCall EXCEPT !.got = g] \in Call
  BY ConstantsAssumption DEF Call, NoCall, Outside
<1> QED BY <1>1 DEF TypeOK

\* A step that sends nobody to sleep and keeps every potential waker.
Watches(pc) == pc \in Transition \cup {"notify"}
Quiet ==
    \A x \in Threads :
        /\ call'[x].pc = "wait" => call[x].pc = "wait"
        /\ Watches(call[x].pc) => Watches(call'[x].pc)

\* Every step but Wait and Notify is quiet.
LEMMA OthersAreQuiet ==
  ASSUME TypeOK, ExitOrder, [Next]_vars, \A th \in Threads : ~Wait(th) /\ ~Notify(th)
  PROVE  Quiet
<1> USE DEF Quiet, Watches, Transition, At, Goto, Enters, NoCall, Call
<1>0. call \in [Threads -> Call] /\ Callers \subseteq Threads /\ Exiter \in Threads
  BY DEF TypeOK, Threads
<1>1. ASSUME NEW th \in Threads, call[th].pc \in {"enter", "leave"},
             Return(th, TRUE) \/ Return(th, FALSE) \/ Return(th, call[th].ok)
      PROVE  Quiet
  <2>1. /\ call'[th] \in {Left(call[th], TRUE), Left(call[th], FALSE), Left(call[th], call[th].ok)}
        /\ \A x \in Threads \ {th} : call'[x] = call[x]
    BY <1>0, <1>1 DEF Return
  <2>2. \A ok : Left(call[th], ok).pc \in {"idle", "read"}
    BY DEF Left
  <2>3. call'[th].pc \in {"idle", "read"}
    BY <2>1, <2>2
  <2> QED BY <1>1, <2>1, <2>3
<1>2. ASSUME NEW th \in Threads, InitReturns(th) PROVE Quiet
  <2>1. call[th].pc \in {"enter", "leave"} /\ (Return(th, FALSE) \/ Return(th, TRUE))
    BY <1>2 DEF InitReturns
  <2> HIDE DEF Quiet
  <2> QED BY <2>1, <1>1, Zenon
<1>3. ASSUME NEW th \in Threads, InitBegins(th) PROVE Quiet
  BY <1>0, <1>3 DEF InitBegins
<1>4. ASSUME NEW th \in Threads, ApplyReturns(th) PROVE Quiet
  <2>1. call[th].pc \in {"enter", "leave"} /\ (Return(th, FALSE) \/ Return(th, TRUE))
    BY <1>4 DEF ApplyReturns
  <2> HIDE DEF Quiet
  <2> QED BY <2>1, <1>1, Zenon
<1>5. ASSUME NEW th \in Threads, ApplyBegins(th) PROVE Quiet
  <2>1. call[th].pc = "enter"
    BY <1>5 DEF ApplyBegins
  <2>2. call'[th].pc \in {"start", "stop_old", "notify"} /\ \A x \in Threads \ {th} : call'[x] = call[x]
    <3>1. ASSUME NEW r \in Runners, NEW pc,
                 call' = [call EXCEPT ![th].pc = pc, ![th].interval = m_interval,
                                      ![th].local = r, ![th].old = m_runner]
          PROVE  call'[th].pc = pc /\ \A x \in Threads \ {th} : call'[x] = call[x]
      BY <1>0, <3>1
    <3>2. CASE Goto(th, "notify")
      BY <1>0, <3>2
    <3>3. AfterTakeover(m_runner) \in {"start", "stop_old"}
      BY DEF AfterTakeover
    <3>4. CASE \E r \in Runners :
                 call' = [call EXCEPT ![th].pc = AfterTakeover(m_runner), ![th].interval = m_interval,
                                      ![th].local = r, ![th].old = m_runner]
      <4> HIDE DEF Call, NoCall
      <4> QED BY <3>1, <3>3, <3>4
    <3>5. CASE Goto(th, "notify")
      BY <3>2, <3>5
    <3> HIDE DEF Goto, Enters, At, Quiet
    <3> QED BY <1>5, <3>4, <3>5, Zenon DEF ApplyBegins
  <2> QED BY <2>1, <2>2
<1>6. ASSUME NEW th \in Threads, StopOld(th) \/ StartRunner(th) \/ MeasureNow(th) PROVE Quiet
  <2>1. CASE StopOld(th)
    BY <1>0, <2>1 DEF StopOld
  <2>2. CASE StartRunner(th)
    BY <1>0, <2>2 DEF StartRunner
  <2>3. CASE MeasureNow(th)
    <3>1. call[th].pc = "measure" /\ call'[th].pc = "decide" /\ \A x \in Threads \ {th} : call'[x] = call[x]
      <4>1. CASE call' = [call EXCEPT ![th].pc = "decide", ![th].ok = TRUE]
        BY <1>0, <2>3, <4>1 DEF MeasureNow
      <4>2. CASE Goto(th, "decide")
        BY <1>0, <2>3, <4>2 DEF MeasureNow
      <4> QED BY <2>3, <4>1, <4>2 DEF MeasureNow
    <3> QED BY <3>1
  <2> QED BY <1>6, <2>1, <2>2, <2>3
<1>7. ASSUME NEW th \in Threads, Decide(th) \/ Discard(th) \/ Publish(th) PROVE Quiet
  BY <1>0, <1>7 DEF Decide, Discard, Publish
<1>8. ASSUME NEW th \in Threads, ShutdownBegins(th) PROVE Quiet
  <2>1. CASE Takeover(th)
    BY <1>0, <1>8, <2>1 DEF ShutdownBegins, Takeover
  <2>2. call[th].pc \in {"enter", "leave"} /\ (Return(th, FALSE) \/ Takeover(th))
    BY <1>8 DEF ShutdownBegins
  <2> HIDE DEF Quiet
  <2> QED BY <2>1, <2>2, <1>1, Zenon
<1>9. ASSUME NEW th \in Threads, ExitBegins(th) PROVE Quiet
  BY <1>0, <1>9 DEF ExitBegins, Takeover
<1>10. ASSUME NEW th \in Threads, StopRunner(th) \/ Settle(th) PROVE Quiet
  BY <1>0, <1>10 DEF StopRunner, Settle
<1>11. ASSUME NEW th \in Threads, EnsureStarted(th) PROVE Quiet
  BY <1>0, <1>11 DEF EnsureStarted
<1>12. ASSUME NEW th \in Threads, ReadOffset(th) PROVE Quiet
  BY <1>0, <1>12 DEF ReadOffset
<1>13. ASSUME NEW th \in Threads, Leave(th) PROVE Quiet
  <2>1. call[th].pc \in {"enter", "leave"} /\ (Return(th, FALSE) \/ Return(th, TRUE) \/ Return(th, call[th].ok))
    BY <1>13 DEF Leave
  <2> HIDE DEF Quiet
  <2> QED BY <2>1, <1>1, Zenon
<1>14. ASSUME NEW th \in Callers, Calls(th) PROVE Quiet
  <2>1. th \in Threads
    BY <1>0
  <2>2. ASSUME NEW i \in Intervals \cup {m_interval}, InitCall(th, i) PROVE Quiet
    BY <1>0, <2>1, <2>2 DEF InitCall
  <2>3. CASE ApplyCall(th) \/ ShutdownCall(th) \/ OffsetCall(th)
    <3>1. CASE ApplyCall(th)
      BY <1>0, <2>1, <3>1 DEF ApplyCall
    <3>2. CASE ShutdownCall(th)
      BY <1>0, <2>1, <3>2 DEF ShutdownCall
    <3>3. CASE OffsetCall(th)
      BY <1>0, <2>1, <3>3 DEF OffsetCall
    <3> QED BY <2>3, <3>1, <3>2, <3>3
  <2>4. ASSUME NEW k \in Configs, SetConfig(th, k) PROVE Quiet
    BY <2>4 DEF SetConfig
  <2> QED BY <1>14, <2>2, <2>3, <2>4 DEF Calls
<1>15. CASE ExitCall(Exiter)
  <2>1. call[Exiter].pc = "idle"
    BY <1>15 DEF ExitCall, ExitOrder
  <2> QED BY <1>0, <1>15, <2>1 DEF ExitCall
<1>16. CASE UNCHANGED vars \/ \E r \in Runners : RunnerMeasures(r)
  BY <1>16 DEF vars, RunnerMeasures
<1> QED BY <1>2, <1>3, <1>4, <1>5, <1>6, <1>7, <1>8, <1>9, <1>10, <1>11, <1>12, <1>13, <1>14, <1>15, <1>16 DEF Next, Steps

----------------------------------------------------------------------------
(* One lemma per action. The vocabulary is expanded from here on.          *)

USE ConstantsAssumption
USE DEF Threads, States, RunnerObject, NoRunner, Outside, Transition, Call, NoCall,
        is_process_shutting_down, is_transitioning_locked, is_running_locked, is_reconfigurable_locked,
        At, Goto, Destroyed, Left, Return, Enters, InTransition, Holds, Settled, InForce, Has,
        IInv, TypeOK, Exclusive, OneOwner, HolderOwns, AtRest, IdleHands, ActiveExists, ExitOrder, ConfigKept

\* Nothing is owned and nothing happens before the first call.
LEMMA IInvInit == Init => IInv
  BY DEF Init

\* A thread that waits keeps what it holds.
LEMMA WaitKeeps == ASSUME IInv, NEW th \in Threads, Wait(th) PROVE IInv'
<1> USE DEF Wait
<1>1. TypeOK'
  OBVIOUS
<1>2. Exclusive'
  OBVIOUS
<1>3. HolderOwns'
  OBVIOUS
<1>4. AtRest'
  OBVIOUS
<1>5. IdleHands'
  OBVIOUS
<1>6. ActiveExists'
  OBVIOUS
<1>7. ExitOrder'
  OBVIOUS
<1>9. OneOwner'
  OBVIOUS
<1>8. ConfigKept'
  OBVIOUS
<1> HIDE DEF TypeOK, Exclusive, OneOwner, HolderOwns, AtRest, IdleHands, ActiveExists, ExitOrder, ConfigKept
<1> QED BY <1>1, <1>2, <1>3, <1>4, <1>5, <1>6, <1>7, <1>8, <1>9

\* Waking the others leaves everything as it is.
LEMMA NotifyKeeps == ASSUME IInv, NEW th \in Threads, Notify(th) PROVE IInv'
<1> USE DEF Notify, NotifyAll
<1>1. TypeOK'
  <2>1. call' \in [Threads -> Call]
    <3> HIDE DEF Call, Notify, NotifyAll, TypeOK, Exclusive, OneOwner, HolderOwns, AtRest, IdleHands, ActiveExists, ExitOrder, ConfigKept
    <3> QED BY NotifyType
  <2> HIDE DEF Call, RunnerObject, Exclusive, OneOwner, HolderOwns, AtRest, IdleHands, ActiveExists, ExitOrder, ConfigKept
  <2> QED BY <2>1
<1>0. /\ UNCHANGED <<m_state, m_process_state, m_runner, m_interval, m_config, runner>>
      /\ \A x \in Threads : /\ call'[x].op = call[x].op /\ call'[x].for_offset = call[x].for_offset
                            /\ call'[x].local = call[x].local /\ call'[x].old = call[x].old
                            /\ InTransition(x)' <=> InTransition(x)
                            /\ InTransition(x) => call'[x] = call[x]
  OBVIOUS
<1>2. Exclusive'
  OBVIOUS
<1>3. HolderOwns'
  <2> HIDE DEF Notify, NotifyAll, Exclusive, OneOwner, AtRest, IdleHands, ActiveExists, ExitOrder, ConfigKept, Call, RunnerObject, Holds
  <2>1. \A x \in Threads : InTransition(x) => (Holds(call[x])' <=> Holds(call[x]))
    BY <1>0 DEF Holds
  <2> QED BY <1>0, <2>1
<1>4. AtRest'
  OBVIOUS
<1>5. IdleHands'
  OBVIOUS
<1>6. ActiveExists'
  OBVIOUS
<1>7. ExitOrder'
  OBVIOUS
<1>8. ConfigKept'
  <2> HIDE DEF Notify, NotifyAll, TypeOK, Exclusive, OneOwner, HolderOwns, AtRest, IdleHands, ActiveExists, ExitOrder
  <2> QED BY <1>0
<1>9. OneOwner'
  <2> HIDE DEF Notify, NotifyAll, TypeOK, Exclusive, HolderOwns, AtRest, IdleHands, ActiveExists, ExitOrder, ConfigKept
  <2> QED BY <1>0
<1> HIDE DEF TypeOK, Exclusive, OneOwner, HolderOwns, AtRest, IdleHands, ActiveExists, ExitOrder, ConfigKept
<1> QED BY <1>1, <1>2, <1>3, <1>4, <1>5, <1>6, <1>7, <1>8, <1>9

\* Returning destroys what the thread holds, and nobody else holds it.
LEMMA LeaveKeeps == ASSUME IInv, NEW th \in Threads, Leave(th) PROVE IInv'
<1> USE DEF Leave
<1>1. TypeOK'
  <2>1. call' \in [Threads -> Call]
    <3> HIDE DEF Call, Leave, TypeOK, Exclusive, OneOwner, HolderOwns, AtRest, IdleHands, ActiveExists, ExitOrder, ConfigKept
    <3> QED BY LeaveType
  <2>2. NoRunner \in RunnerObject
    OBVIOUS
  <2>3. runner' \in [Runners -> RunnerObject]
    <3> HIDE DEF Call, NoRunner, RunnerObject, Exclusive, OneOwner, HolderOwns, AtRest, IdleHands, ActiveExists, ExitOrder, ConfigKept
    <3> QED BY <2>2
  <2> HIDE DEF Call, RunnerObject, NoRunner, Destroyed, Exclusive, OneOwner, HolderOwns, AtRest, IdleHands, ActiveExists, ExitOrder, ConfigKept
  <2> QED BY <2>1, <2>3
<1>2. Exclusive'
  OBVIOUS
<1>3. HolderOwns'
  OBVIOUS
<1>4. AtRest'
  OBVIOUS
<1>5. IdleHands'
  OBVIOUS
<1>6. ActiveExists'
  OBVIOUS
<1>7. ExitOrder'
  OBVIOUS
<1>8. ConfigKept'
  OBVIOUS
<1>9. OneOwner'
  OBVIOUS
<1> HIDE DEF TypeOK, Exclusive, OneOwner, HolderOwns, AtRest, IdleHands, ActiveExists, ExitOrder, ConfigKept
<1> QED BY <1>1, <1>2, <1>3, <1>4, <1>5, <1>6, <1>7, <1>8, <1>9

\* init() that has nothing to start.
LEMMA InitReturnsKeeps == ASSUME IInv, NEW th \in Threads, InitReturns(th) PROVE IInv'
<1> USE DEF InitReturns
<1>1. CASE is_process_shutting_down /\ Return(th, FALSE)
  <2> USE <1>1
  <2>1. TypeOK'
    OBVIOUS
  <2>2. Exclusive'
    OBVIOUS
  <2>3. HolderOwns'
    OBVIOUS
  <2>4. AtRest'
    OBVIOUS
  <2>5. IdleHands'
    OBVIOUS
  <2>6. ActiveExists'
    OBVIOUS
  <2>7. ExitOrder'
    OBVIOUS
  <2>9. OneOwner'
    OBVIOUS
  <2>8. ConfigKept'
    OBVIOUS
  <2> HIDE DEF TypeOK, Exclusive, OneOwner, HolderOwns, AtRest, IdleHands, ActiveExists, ExitOrder, ConfigKept
  <2> QED BY <2>1, <2>2, <2>3, <2>4, <2>5, <2>6, <2>7, <2>8, <2>9
<1>2. CASE ~is_process_shutting_down /\ Return(th, TRUE)
  <2> USE <1>2
  <2>1. TypeOK'
    OBVIOUS
  <2>2. Exclusive'
    OBVIOUS
  <2>3. HolderOwns'
    OBVIOUS
  <2>4. AtRest'
    OBVIOUS
  <2>5. IdleHands'
    OBVIOUS
  <2>6. ActiveExists'
    OBVIOUS
  <2>7. ExitOrder'
    OBVIOUS
  <2>9. OneOwner'
    OBVIOUS
  <2>8. ConfigKept'
    OBVIOUS
  <2> HIDE DEF TypeOK, Exclusive, OneOwner, HolderOwns, AtRest, IdleHands, ActiveExists, ExitOrder, ConfigKept
  <2> QED BY <2>1, <2>2, <2>3, <2>4, <2>5, <2>6, <2>7, <2>8, <2>9
<1> QED BY <1>1, <1>2

\* init() becomes the owner of a transition, or finds no memory.
LEMMA InitBeginsKeeps == ASSUME IInv, NEW th \in Threads, InitBegins(th) PROVE IInv'
<1> USE DEF InitBegins, Build
<1>1. TypeOK'
  OBVIOUS
<1>2. Exclusive'
  OBVIOUS
<1>3. HolderOwns'
  OBVIOUS
<1>4. AtRest'
  OBVIOUS
<1>5. IdleHands'
  OBVIOUS
<1>6. ActiveExists'
  OBVIOUS
<1>7. ExitOrder'
  OBVIOUS
<1>9. OneOwner'
  OBVIOUS
<1>8. ConfigKept'
  OBVIOUS
<1> HIDE DEF TypeOK, Exclusive, OneOwner, HolderOwns, AtRest, IdleHands, ActiveExists, ExitOrder, ConfigKept
<1> QED BY <1>1, <1>2, <1>3, <1>4, <1>5, <1>6, <1>7, <1>8, <1>9

\* apply_config_now() of a process that exits.
LEMMA ApplyReturnsKeeps == ASSUME IInv, NEW th \in Threads, ApplyReturns(th) PROVE IInv'
<1> USE DEF ApplyReturns
<1>1. TypeOK'
  OBVIOUS
<1>2. Exclusive'
  OBVIOUS
<1>3. HolderOwns'
  OBVIOUS
<1>4. AtRest'
  OBVIOUS
<1>5. IdleHands'
  OBVIOUS
<1>6. ActiveExists'
  OBVIOUS
<1>7. ExitOrder'
  BY SMTT(30)
<1>9. OneOwner'
  OBVIOUS
<1>8. ConfigKept'
  BY SMTT(30)
<1> HIDE DEF TypeOK, Exclusive, OneOwner, HolderOwns, AtRest, IdleHands, ActiveExists, ExitOrder, ConfigKept
<1> QED BY <1>1, <1>2, <1>3, <1>4, <1>5, <1>6, <1>7, <1>8, <1>9

\* apply_config_now() takes the runner over and builds its successor.
LEMMA ApplyBeginsKeeps == ASSUME IInv, NEW th \in Threads, ApplyBegins(th) PROVE IInv'
<1>1. /\ Enters(th, "apply") /\ ~is_process_shutting_down
      /\ UNCHANGED <<m_process_state, m_last_offset, m_interval, m_config, sets>>
  BY DEF ApplyBegins
<1>2. ASSUME NEW r \in Runners, ~runner[r].exists, m_state' = "starting", m_runner' = Nil,
             runner' = [runner EXCEPT ![r] = Build(r, m_interval)],
             call' = [call EXCEPT ![th].pc = AfterTakeover(m_runner), ![th].interval = m_interval,
                                  ![th].local = r, ![th].old = m_runner]
      PROVE  IInv'
  <2>a. CASE m_runner = Nil
    <3>0. call' = [call EXCEPT ![th].pc = "start", ![th].interval = m_interval,
                               ![th].local = r, ![th].old = Nil]
      BY <1>2, <2>a DEF AfterTakeover
    <3> USE <1>1, <1>2, <2>a, <3>0 DEF Build
    <3>1. TypeOK'
      BY SMTT(30)
    <3>2. Exclusive'
      OBVIOUS
    <3>3. HolderOwns'
      <4> SUFFICES ASSUME NEW o \in Threads, InTransition(o)'
                   PROVE  /\ Holds(call[o])'
                          /\ m_runner' = Nil
                          /\ \A x \in Runners : runner'[x].active => Has(o, x)'
                          /\ is_transitioning_locked' \/ Settled(o)'
        OBVIOUS
      <4>1. o = th
        OBVIOUS
      <4> HIDE DEF Exclusive, ActiveExists, ExitOrder, ConfigKept
      <4> QED BY <4>1
    <3>4. AtRest'
      OBVIOUS
    <3>5. IdleHands'
      OBVIOUS
    <3>6. ActiveExists'
      OBVIOUS
    <3>7. ExitOrder'
      BY SMTT(30)
    <3>9. OneOwner'
      <4> HIDE DEF Exclusive, HolderOwns, AtRest, IdleHands, ActiveExists, ExitOrder, ConfigKept
      <4> QED
        OBVIOUS
    <3>8. ConfigKept'
      <4> HIDE DEF Exclusive, OneOwner, HolderOwns, AtRest, IdleHands, ActiveExists, ExitOrder
      <4> QED
        OBVIOUS
    <3> HIDE DEF TypeOK, Exclusive, OneOwner, HolderOwns, AtRest, IdleHands, ActiveExists, ExitOrder, ConfigKept
    <3> QED BY <3>1, <3>2, <3>3, <3>4, <3>5, <3>6, <3>7, <3>8, <3>9
  <2>b. CASE m_runner # Nil
    <3>0. call' = [call EXCEPT ![th].pc = "stop_old", ![th].interval = m_interval,
                               ![th].local = r, ![th].old = m_runner]
      BY <1>2, <2>b DEF AfterTakeover
    <3> USE <1>1, <1>2, <2>b, <3>0 DEF Build
    <3>1. TypeOK'
      OBVIOUS
    <3>2. Exclusive'
      OBVIOUS
    <3>3. HolderOwns'
      <4> SUFFICES ASSUME NEW o \in Threads, InTransition(o)'
                   PROVE  /\ Holds(call[o])'
                          /\ m_runner' = Nil
                          /\ \A x \in Runners : runner'[x].active => Has(o, x)'
                          /\ is_transitioning_locked' \/ Settled(o)'
        OBVIOUS
      <4>1. o = th
        OBVIOUS
      <4> HIDE DEF Exclusive, ActiveExists, ExitOrder, ConfigKept
      <4> QED BY <4>1
    <3>4. AtRest'
      OBVIOUS
    <3>5. IdleHands'
      OBVIOUS
    <3>6. ActiveExists'
      OBVIOUS
    <3>7. ExitOrder'
      BY SMTT(30)
    <3>9. OneOwner'
      <4> HIDE DEF Exclusive, HolderOwns, AtRest, IdleHands, ActiveExists, ExitOrder, ConfigKept
      <4> QED
        OBVIOUS
    <3>8. ConfigKept'
      <4> HIDE DEF Exclusive, OneOwner, HolderOwns, AtRest, IdleHands, ActiveExists, ExitOrder
      <4> QED
        OBVIOUS
    <3> HIDE DEF TypeOK, Exclusive, OneOwner, HolderOwns, AtRest, IdleHands, ActiveExists, ExitOrder, ConfigKept
    <3> QED BY <3>1, <3>2, <3>3, <3>4, <3>5, <3>6, <3>7, <3>8, <3>9
  <2> QED BY <2>a, <2>b
<1>3. CASE /\ m_state' = IF m_state = "running" /\ is_running_locked THEN "running" ELSE "stopped"
           /\ Goto(th, "notify") /\ UNCHANGED <<runner, m_runner>>
  <2> USE <1>1, <1>3
  <2>1. TypeOK'
    OBVIOUS
  <2>2. Exclusive'
    OBVIOUS
  <2>3. HolderOwns'
    OBVIOUS
  <2>4. AtRest'
    OBVIOUS
  <2>5. IdleHands'
    OBVIOUS
  <2>6. ActiveExists'
    OBVIOUS
  <2>7. ExitOrder'
    OBVIOUS
  <2>9. OneOwner'
    OBVIOUS
  <2>8. ConfigKept'
    OBVIOUS
  <2> HIDE DEF TypeOK, Exclusive, OneOwner, HolderOwns, AtRest, IdleHands, ActiveExists, ExitOrder, ConfigKept
  <2> QED BY <2>1, <2>2, <2>3, <2>4, <2>5, <2>6, <2>7, <2>8, <2>9
<1> QED BY <1>2, <1>3 DEF ApplyBegins

\* The old runner is joined before the new one starts.
LEMMA StopOldKeeps == ASSUME IInv, NEW th \in Threads, StopOld(th) PROVE IInv'
<1> USE DEF StopOld
<1>0. call[th].old \in Runners
  OBVIOUS
<1>1. TypeOK'
  <2>1. runner' \in [Runners -> RunnerObject]
    BY <1>0, StopType
  <2>2. call' \in [Threads -> Call]
    BY GotoType
  <2> HIDE DEF Call, RunnerObject, Exclusive, OneOwner, HolderOwns, AtRest, IdleHands, ActiveExists, ExitOrder, ConfigKept
  <2> QED BY <2>1, <2>2
<1>2. Exclusive'
  BY SMTT(30)
<1>3. HolderOwns'
  <2> HIDE DEF Exclusive, AtRest, IdleHands, ActiveExists, ExitOrder, ConfigKept
  <2> QED
    OBVIOUS
<1>4. AtRest'
  OBVIOUS
<1>5. IdleHands'
  OBVIOUS
<1>6. ActiveExists'
  OBVIOUS
<1>7. ExitOrder'
  OBVIOUS
<1>9. OneOwner'
  OBVIOUS
<1>8. ConfigKept'
  BY SMTT(30)
<1> HIDE DEF TypeOK, Exclusive, OneOwner, HolderOwns, AtRest, IdleHands, ActiveExists, ExitOrder, ConfigKept
<1> QED BY <1>1, <1>2, <1>3, <1>4, <1>5, <1>6, <1>7, <1>8, <1>9

\* The new runner starts, or no thread can be made.
LEMMA StartRunnerKeeps == ASSUME IInv, NEW th \in Threads, StartRunner(th) PROVE IInv'
<1> USE DEF StartRunner
<1>1. CASE runner' = [runner EXCEPT ![call[th].local].active = TRUE] /\ Goto(th, "measure")
  <2> USE <1>1
  <2>0. call[th].local \in Runners /\ runner[call[th].local].exists
    OBVIOUS
  <2> USE <2>0
  <2>1. TypeOK'
    <3>1. runner' \in [Runners -> RunnerObject]
      BY StartType
    <3>2. call' \in [Threads -> Call]
      BY GotoType
    <3> HIDE DEF Call, RunnerObject, Exclusive, OneOwner, HolderOwns, AtRest, IdleHands, ActiveExists, ExitOrder, ConfigKept
    <3> QED BY <3>1, <3>2
  <2>2. Exclusive'
    BY SMTT(30)
  <2>3. HolderOwns'
    OBVIOUS
  <2>4. AtRest'
    OBVIOUS
  <2>5. IdleHands'
    OBVIOUS
  <2>6. ActiveExists'
    OBVIOUS
  <2>7. ExitOrder'
    OBVIOUS
  <2>9. OneOwner'
    OBVIOUS
  <2>8. ConfigKept'
    OBVIOUS
  <2> HIDE DEF TypeOK, Exclusive, OneOwner, HolderOwns, AtRest, IdleHands, ActiveExists, ExitOrder, ConfigKept
  <2> QED BY <2>1, <2>2, <2>3, <2>4, <2>5, <2>6, <2>7, <2>8, <2>9
<1>2. CASE Goto(th, "decide") /\ UNCHANGED runner
  <2> USE <1>2
  <2>1. TypeOK'
    OBVIOUS
  <2>2. Exclusive'
    OBVIOUS
  <2>3. HolderOwns'
    OBVIOUS
  <2>4. AtRest'
    OBVIOUS
  <2>5. IdleHands'
    OBVIOUS
  <2>6. ActiveExists'
    OBVIOUS
  <2>7. ExitOrder'
    OBVIOUS
  <2>9. OneOwner'
    OBVIOUS
  <2>8. ConfigKept'
    BY SMTT(30)
  <2> HIDE DEF TypeOK, Exclusive, OneOwner, HolderOwns, AtRest, IdleHands, ActiveExists, ExitOrder, ConfigKept
  <2> QED BY <2>1, <2>2, <2>3, <2>4, <2>5, <2>6, <2>7, <2>8, <2>9
<1> QED BY <1>1, <1>2

\* The first measurement succeeds or fails.
LEMMA MeasureNowKeeps == ASSUME IInv, NEW th \in Threads, MeasureNow(th) PROVE IInv'
<1> USE DEF MeasureNow
<1>1. CASE Goto(th, "decide") /\ UNCHANGED runner
  <2> USE <1>1
  <2>1. TypeOK'
    OBVIOUS
  <2>2. Exclusive'
    OBVIOUS
  <2>3. HolderOwns'
    OBVIOUS
  <2>4. AtRest'
    OBVIOUS
  <2>5. IdleHands'
    OBVIOUS
  <2>6. ActiveExists'
    OBVIOUS
  <2>7. ExitOrder'
    OBVIOUS
  <2>9. OneOwner'
    OBVIOUS
  <2>8. ConfigKept'
    OBVIOUS
  <2> HIDE DEF TypeOK, Exclusive, OneOwner, HolderOwns, AtRest, IdleHands, ActiveExists, ExitOrder, ConfigKept
  <2> QED BY <2>1, <2>2, <2>3, <2>4, <2>5, <2>6, <2>7, <2>8, <2>9
<1>2. ASSUME NEW o \in Offsets,
              runner' = [runner EXCEPT ![call[th].local].offset = o],
              call' = [call EXCEPT ![th].pc = "decide", ![th].ok = TRUE]
       PROVE  IInv'
  <2> USE <1>2
  <2>0. call[th].local \in Runners
    OBVIOUS
  <2>1. TypeOK'
    <3>1. runner' \in [Runners -> RunnerObject]
      BY <2>0, OffsetType
    <3>2. call' \in [Threads -> Call]
      BY GotoType
    <3> HIDE DEF Call, RunnerObject, Exclusive, OneOwner, HolderOwns, AtRest, IdleHands, ActiveExists, ExitOrder, ConfigKept
    <3> QED BY <3>1, <3>2
  <2>2. Exclusive'
    <3> HIDE DEF HolderOwns, AtRest, IdleHands, OneOwner, ActiveExists, ExitOrder, ConfigKept
    <3> QED
      OBVIOUS
  <2>3. HolderOwns'
    <3> SUFFICES ASSUME NEW t \in Threads, InTransition(t)'
                 PROVE  /\ Holds(call[t])'
                        /\ m_runner' = Nil
                        /\ \A r \in Runners : runner'[r].active => Has(t, r)'
                        /\ is_transitioning_locked' \/ Settled(t)'
      OBVIOUS
    <3> HIDE DEF OneOwner, AtRest, IdleHands, ActiveExists, ExitOrder, ConfigKept
    <3>1. t = th
      <4> HIDE DEF HolderOwns
      <4> QED
        OBVIOUS
    <3> HIDE DEF Exclusive
    <3> QED BY <3>1
  <2>4. AtRest'
    <3> HIDE DEF Exclusive, HolderOwns, IdleHands, ActiveExists, ExitOrder, ConfigKept
    <3> QED
      OBVIOUS
  <2>5. IdleHands'
    <3> HIDE DEF Exclusive, HolderOwns, AtRest, ActiveExists, ExitOrder, ConfigKept
    <3> QED
      OBVIOUS
  <2>6. ActiveExists'
    <3> HIDE DEF Exclusive, HolderOwns, AtRest, IdleHands, ExitOrder, ConfigKept
    <3> QED
      OBVIOUS
  <2>7. ExitOrder'
    <3> HIDE DEF Exclusive, HolderOwns, AtRest, IdleHands, ActiveExists, ConfigKept
    <3> QED
      OBVIOUS
  <2>9. OneOwner'
    <3> HIDE DEF Exclusive, HolderOwns, AtRest, IdleHands, ActiveExists, ExitOrder, ConfigKept
    <3> QED
      OBVIOUS
  <2>8. ConfigKept'
    <3> HIDE DEF Exclusive, OneOwner, HolderOwns, AtRest, IdleHands, ActiveExists, ExitOrder
    <3> QED
      OBVIOUS
  <2> HIDE DEF TypeOK, Exclusive, OneOwner, HolderOwns, AtRest, IdleHands, ActiveExists, ExitOrder, ConfigKept
  <2> QED BY <2>1, <2>2, <2>3, <2>4, <2>5, <2>6, <2>7, <2>8, <2>9, SMTT(30)
<1> QED BY <1>1, <1>2

\* Only a measured runner is kept.
LEMMA DecideKeeps == ASSUME IInv, NEW th \in Threads, Decide(th) PROVE IInv'
<1> USE DEF Decide
<1>1. TypeOK'
  BY SMTT(30)
<1>2. Exclusive'
  OBVIOUS
<1>3. HolderOwns'
  OBVIOUS
<1>4. AtRest'
  OBVIOUS
<1>5. IdleHands'
  OBVIOUS
<1>6. ActiveExists'
  OBVIOUS
<1>7. ExitOrder'
  OBVIOUS
<1>9. OneOwner'
  OBVIOUS
<1>8. ConfigKept'
  OBVIOUS
<1> HIDE DEF TypeOK, Exclusive, OneOwner, HolderOwns, AtRest, IdleHands, ActiveExists, ExitOrder, ConfigKept
<1> QED BY <1>1, <1>2, <1>3, <1>4, <1>5, <1>6, <1>7, <1>8, <1>9

\* What is not kept is stopped and destroyed.
LEMMA DiscardKeeps == ASSUME IInv, NEW th \in Threads, Discard(th) PROVE IInv'
<1> USE DEF Discard
<1>1. TypeOK'
  OBVIOUS
<1>2. Exclusive'
  OBVIOUS
<1>3. HolderOwns'
  <2> SUFFICES ASSUME NEW o \in Threads, InTransition(o)'
               PROVE  /\ Holds(call[o])'
                      /\ m_runner' = Nil
                      /\ \A x \in Runners : runner'[x].active => Has(o, x)'
                      /\ is_transitioning_locked' \/ Settled(o)'
    OBVIOUS
  <2>1. o = th
    <3> HIDE DEF HolderOwns, OneOwner, AtRest, IdleHands, ActiveExists, ExitOrder, ConfigKept
    <3> QED
      OBVIOUS
  <2>2. /\ InTransition(th) /\ call[th].pc = "discard"
        /\ call'[th].pc = "publish" /\ call'[th].local = Nil
        /\ call[th].old \in Runners \cup {Nil}
        /\ call'[th].old = call[th].old /\ call'[th].op = call[th].op
        /\ UNCHANGED <<m_state, m_runner>>
        /\ \A x \in Runners : runner'[x].active => runner[x].active /\ x # call[th].local
    <3> HIDE DEF Exclusive, HolderOwns, OneOwner, AtRest, IdleHands, ActiveExists, ExitOrder, ConfigKept
    <3> QED
      OBVIOUS
  <2> HIDE DEF TypeOK, Exclusive, OneOwner, AtRest, IdleHands, ActiveExists, ExitOrder, ConfigKept, Discard, Call, RunnerObject
  <2> QED BY <2>1, <2>2
<1>4. AtRest'
  OBVIOUS
<1>5. IdleHands'
  OBVIOUS
<1>6. ActiveExists'
  OBVIOUS
<1>7. ExitOrder'
  OBVIOUS
<1>9. OneOwner'
  OBVIOUS
<1>8. ConfigKept'
  OBVIOUS
<1> HIDE DEF TypeOK, Exclusive, OneOwner, HolderOwns, AtRest, IdleHands, ActiveExists, ExitOrder, ConfigKept
<1> QED BY <1>1, <1>2, <1>3, <1>4, <1>5, <1>6, <1>7, <1>8, <1>9

\* Publishing ends the transition.
LEMMA PublishKeeps == ASSUME IInv, NEW th \in Threads, Publish(th) PROVE IInv'
<1> USE DEF Publish, StateAfterStart
<1>1. TypeOK'
  OBVIOUS
<1>2. Exclusive'
  OBVIOUS
<1>3. HolderOwns'
  OBVIOUS
<1>4. AtRest'
  OBVIOUS
<1>5. IdleHands'
  OBVIOUS
<1>6. ActiveExists'
  OBVIOUS
<1>7. ExitOrder'
  OBVIOUS
<1>9. OneOwner'
  OBVIOUS
<1>8. ConfigKept'
  BY SMTT(30)
<1> HIDE DEF TypeOK, Exclusive, OneOwner, HolderOwns, AtRest, IdleHands, ActiveExists, ExitOrder, ConfigKept
<1> QED BY <1>1, <1>2, <1>3, <1>4, <1>5, <1>6, <1>7, <1>8, <1>9

\* shutdown() takes the runner over, or finds none.
LEMMA ShutdownBeginsKeeps == ASSUME IInv, NEW th \in Threads, ShutdownBegins(th) PROVE IInv'
<1> USE DEF ShutdownBegins, Takeover
<1>1. CASE (m_state = "stopped" \/ m_runner = Nil) /\ Return(th, FALSE) /\ UNCHANGED <<m_state, m_runner>>
  <2> USE <1>1
  <2>1. TypeOK'
    OBVIOUS
  <2>2. Exclusive'
    OBVIOUS
  <2>3. HolderOwns'
    OBVIOUS
  <2>4. AtRest'
    OBVIOUS
  <2>5. IdleHands'
    OBVIOUS
  <2>6. ActiveExists'
    OBVIOUS
  <2>7. ExitOrder'
    OBVIOUS
  <2>9. OneOwner'
    OBVIOUS
  <2>8. ConfigKept'
    OBVIOUS
  <2> HIDE DEF TypeOK, Exclusive, OneOwner, HolderOwns, AtRest, IdleHands, ActiveExists, ExitOrder, ConfigKept
  <2> QED BY <2>1, <2>2, <2>3, <2>4, <2>5, <2>6, <2>7, <2>8, <2>9
<1>2. CASE m_runner # Nil /\ Takeover(th)
  <2> USE <1>2
  <2>1. TypeOK'
    OBVIOUS
  <2>2. Exclusive'
    OBVIOUS
  <2>3. HolderOwns'
    OBVIOUS
  <2>4. AtRest'
    OBVIOUS
  <2>5. IdleHands'
    OBVIOUS
  <2>6. ActiveExists'
    OBVIOUS
  <2>7. ExitOrder'
    OBVIOUS
  <2>9. OneOwner'
    OBVIOUS
  <2>8. ConfigKept'
    OBVIOUS
  <2> HIDE DEF TypeOK, Exclusive, OneOwner, HolderOwns, AtRest, IdleHands, ActiveExists, ExitOrder, ConfigKept
  <2> QED BY <2>1, <2>2, <2>3, <2>4, <2>5, <2>6, <2>7, <2>8, <2>9
<1> QED BY <1>1, <1>2

\* The exit handler takes the runner over, or finds none.
LEMMA ExitBeginsKeeps == ASSUME IInv, NEW th \in Threads, ExitBegins(th) PROVE IInv'
<1> USE DEF ExitBegins, Takeover
<1>1. TypeOK'
  OBVIOUS
<1>2. Exclusive'
  OBVIOUS
<1>3. HolderOwns'
  OBVIOUS
<1>4. AtRest'
  OBVIOUS
<1>5. IdleHands'
  OBVIOUS
<1>6. ActiveExists'
  OBVIOUS
<1>7. ExitOrder'
  OBVIOUS
<1>9. OneOwner'
  OBVIOUS
<1>8. ConfigKept'
  OBVIOUS
<1> HIDE DEF TypeOK, Exclusive, OneOwner, HolderOwns, AtRest, IdleHands, ActiveExists, ExitOrder, ConfigKept
<1> QED BY <1>1, <1>2, <1>3, <1>4, <1>5, <1>6, <1>7, <1>8, <1>9

\* The runner is joined.
LEMMA StopRunnerKeeps == ASSUME IInv, NEW th \in Threads, StopRunner(th) PROVE IInv'
<1> USE DEF StopRunner
<1>0. call[th].local \in Runners
  OBVIOUS
<1>1. TypeOK'
  <2>1. runner' \in [Runners -> RunnerObject]
    BY <1>0, StopType
  <2>2. call' \in [Threads -> Call]
    BY GotoType
  <2> HIDE DEF Call, RunnerObject, Exclusive, OneOwner, HolderOwns, AtRest, IdleHands, ActiveExists, ExitOrder, ConfigKept
  <2> QED BY <2>1, <2>2
<1>2. Exclusive'
  OBVIOUS
<1>3. HolderOwns'
  <2> HIDE DEF Exclusive, AtRest, IdleHands, ActiveExists, ExitOrder, ConfigKept
  <2> QED
    OBVIOUS
<1>4. AtRest'
  OBVIOUS
<1>5. IdleHands'
  OBVIOUS
<1>6. ActiveExists'
  OBVIOUS
<1>7. ExitOrder'
  OBVIOUS
<1>9. OneOwner'
  OBVIOUS
<1>8. ConfigKept'
  <2> HIDE DEF Exclusive, HolderOwns, AtRest, IdleHands, OneOwner, ActiveExists, ExitOrder
  <2> QED
    OBVIOUS
<1> HIDE DEF TypeOK, Exclusive, OneOwner, HolderOwns, AtRest, IdleHands, ActiveExists, ExitOrder, ConfigKept
<1> QED BY <1>1, <1>2, <1>3, <1>4, <1>5, <1>6, <1>7, <1>8, <1>9

\* The end of a stop.
LEMMA SettleKeeps == ASSUME IInv, NEW th \in Threads, Settle(th) PROVE IInv'
<1> USE DEF Settle
<1>1. TypeOK'
  OBVIOUS
<1>2. Exclusive'
  OBVIOUS
<1>3. HolderOwns'
  OBVIOUS
<1>4. AtRest'
  OBVIOUS
<1>5. IdleHands'
  OBVIOUS
<1>6. ActiveExists'
  OBVIOUS
<1>7. ExitOrder'
  OBVIOUS
<1>9. OneOwner'
  OBVIOUS
<1>8. ConfigKept'
  OBVIOUS
<1> HIDE DEF TypeOK, Exclusive, OneOwner, HolderOwns, AtRest, IdleHands, ActiveExists, ExitOrder, ConfigKept
<1> QED BY <1>1, <1>2, <1>3, <1>4, <1>5, <1>6, <1>7, <1>8, <1>9

\* offset_us() reads and caches.
LEMMA ReadOffsetKeeps == ASSUME IInv, NEW th \in Threads, ReadOffset(th) PROVE IInv'
<1> USE DEF ReadOffset
<1>1. TypeOK'
  <2> DEFINE g == IF m_runner = Nil THEN 0 ELSE runner[m_runner].offset
  <2>1. g \in Offsets \cup {0}
    OBVIOUS
  <2>2. call' = [call EXCEPT ![th] = [NoCall EXCEPT !.got = g]] /\ m_last_offset' \in {m_last_offset, g}
    BY Zenon
  <2> HIDE DEF g
  <2>3. call' \in [Threads -> Call]
    <3> HIDE DEF Call, NoCall, ReadOffset, TypeOK, Exclusive, OneOwner, HolderOwns, AtRest, IdleHands, ActiveExists, ExitOrder, ConfigKept
    <3> QED BY <2>1, <2>2, AnswerType
  <2> HIDE DEF Call, NoCall, RunnerObject, Exclusive, OneOwner, HolderOwns, AtRest, IdleHands, ActiveExists, ExitOrder, ConfigKept
  <2> QED BY <2>1, <2>2, <2>3
<1>2. Exclusive'
  OBVIOUS
<1>3. HolderOwns'
  OBVIOUS
<1>4. AtRest'
  OBVIOUS
<1>5. IdleHands'
  OBVIOUS
<1>6. ActiveExists'
  OBVIOUS
<1>7. ExitOrder'
  OBVIOUS
<1>9. OneOwner'
  OBVIOUS
<1>8. ConfigKept'
  OBVIOUS
<1> HIDE DEF TypeOK, Exclusive, OneOwner, HolderOwns, AtRest, IdleHands, ActiveExists, ExitOrder, ConfigKept
<1> QED BY <1>1, <1>2, <1>3, <1>4, <1>5, <1>6, <1>7, <1>8, <1>9

\* offset_us() starts the service if it must.
LEMMA EnsureStartedKeeps == ASSUME IInv, NEW th \in Threads, EnsureStarted(th) PROVE IInv'
<1> USE DEF EnsureStarted
<1>1. TypeOK'
  <2>1. call' \in [Threads -> Call]
    <3> HIDE DEF Call, EnsureStarted, TypeOK, Exclusive, OneOwner, HolderOwns, AtRest, IdleHands, ActiveExists, ExitOrder, ConfigKept
    <3> QED BY EnsureStartedType
  <2> HIDE DEF Call, RunnerObject, Exclusive, OneOwner, HolderOwns, AtRest, IdleHands, ActiveExists, ExitOrder, ConfigKept
  <2> QED BY <2>1
<1>2. Exclusive'
  OBVIOUS
<1>3. HolderOwns'
  <2> HIDE DEF Exclusive, AtRest, IdleHands, OneOwner, ActiveExists, ExitOrder, ConfigKept
  <2> QED
    OBVIOUS
<1>4. AtRest'
  OBVIOUS
<1>5. IdleHands'
  OBVIOUS
<1>6. ActiveExists'
  OBVIOUS
<1>7. ExitOrder'
  OBVIOUS
<1>9. OneOwner'
  OBVIOUS
<1>8. ConfigKept'
  OBVIOUS
<1> HIDE DEF TypeOK, Exclusive, OneOwner, HolderOwns, AtRest, IdleHands, ActiveExists, ExitOrder, ConfigKept
<1> QED BY <1>1, <1>2, <1>3, <1>4, <1>5, <1>6, <1>7, <1>8, <1>9

\* A call of init().
LEMMA InitCallKeeps == ASSUME IInv, NEW th \in Callers, NEW i \in Intervals \cup {m_interval}, InitCall(th, i) PROVE IInv'
<1> USE DEF InitCall
<1>1. TypeOK'
  <2>1. call' \in [Threads -> Call]
    <3> HIDE DEF Call, InitCall, TypeOK, Exclusive, OneOwner, HolderOwns, AtRest, IdleHands, ActiveExists, ExitOrder, ConfigKept
    <3> QED BY InitCallType
  <2> HIDE DEF Call, RunnerObject, Exclusive, OneOwner, HolderOwns, AtRest, IdleHands, ActiveExists, ExitOrder, ConfigKept
  <2> QED BY <2>1
<1>2. Exclusive'
  OBVIOUS
<1>3. HolderOwns'
  OBVIOUS
<1>4. AtRest'
  OBVIOUS
<1>5. IdleHands'
  OBVIOUS
<1>6. ActiveExists'
  OBVIOUS
<1>7. ExitOrder'
  OBVIOUS
<1>9. OneOwner'
  OBVIOUS
<1>8. ConfigKept'
  OBVIOUS
<1> HIDE DEF TypeOK, Exclusive, OneOwner, HolderOwns, AtRest, IdleHands, ActiveExists, ExitOrder, ConfigKept
<1> QED BY <1>1, <1>2, <1>3, <1>4, <1>5, <1>6, <1>7, <1>8, <1>9

\* A call of apply_config_now().
LEMMA ApplyCallKeeps == ASSUME IInv, NEW th \in Callers, ApplyCall(th) PROVE IInv'
<1> USE DEF ApplyCall
<1>1. TypeOK'
  OBVIOUS
<1>2. Exclusive'
  OBVIOUS
<1>3. HolderOwns'
  OBVIOUS
<1>4. AtRest'
  OBVIOUS
<1>5. IdleHands'
  OBVIOUS
<1>6. ActiveExists'
  OBVIOUS
<1>7. ExitOrder'
  OBVIOUS
<1>9. OneOwner'
  OBVIOUS
<1>8. ConfigKept'
  OBVIOUS
<1> HIDE DEF TypeOK, Exclusive, OneOwner, HolderOwns, AtRest, IdleHands, ActiveExists, ExitOrder, ConfigKept
<1> QED BY <1>1, <1>2, <1>3, <1>4, <1>5, <1>6, <1>7, <1>8, <1>9

\* A call of shutdown().
LEMMA ShutdownCallKeeps == ASSUME IInv, NEW th \in Callers, ShutdownCall(th) PROVE IInv'
<1> USE DEF ShutdownCall
<1>1. TypeOK'
  OBVIOUS
<1>2. Exclusive'
  OBVIOUS
<1>3. HolderOwns'
  OBVIOUS
<1>4. AtRest'
  OBVIOUS
<1>5. IdleHands'
  OBVIOUS
<1>6. ActiveExists'
  OBVIOUS
<1>7. ExitOrder'
  OBVIOUS
<1>9. OneOwner'
  OBVIOUS
<1>8. ConfigKept'
  OBVIOUS
<1> HIDE DEF TypeOK, Exclusive, OneOwner, HolderOwns, AtRest, IdleHands, ActiveExists, ExitOrder, ConfigKept
<1> QED BY <1>1, <1>2, <1>3, <1>4, <1>5, <1>6, <1>7, <1>8, <1>9

\* A call of offset_us().
LEMMA OffsetCallKeeps == ASSUME IInv, NEW th \in Callers, OffsetCall(th) PROVE IInv'
<1> USE DEF OffsetCall
<1>1. TypeOK'
  OBVIOUS
<1>2. Exclusive'
  OBVIOUS
<1>3. HolderOwns'
  OBVIOUS
<1>4. AtRest'
  OBVIOUS
<1>5. IdleHands'
  OBVIOUS
<1>6. ActiveExists'
  OBVIOUS
<1>7. ExitOrder'
  OBVIOUS
<1>9. OneOwner'
  OBVIOUS
<1>8. ConfigKept'
  OBVIOUS
<1> HIDE DEF TypeOK, Exclusive, OneOwner, HolderOwns, AtRest, IdleHands, ActiveExists, ExitOrder, ConfigKept
<1> QED BY <1>1, <1>2, <1>3, <1>4, <1>5, <1>6, <1>7, <1>8, <1>9

\* Setters work on a stopped service only.
LEMMA SetConfigKeeps == ASSUME IInv, NEW th \in Callers, NEW k \in Configs, SetConfig(th, k) PROVE IInv'
<1> USE DEF SetConfig, CanReconfigure
<1>1. TypeOK'
  OBVIOUS
<1>2. Exclusive'
  OBVIOUS
<1>3. HolderOwns'
  OBVIOUS
<1>4. AtRest'
  OBVIOUS
<1>5. IdleHands'
  OBVIOUS
<1>6. ActiveExists'
  OBVIOUS
<1>7. ExitOrder'
  OBVIOUS
<1>9. OneOwner'
  OBVIOUS
<1>8. ConfigKept'
  OBVIOUS
<1> HIDE DEF TypeOK, Exclusive, OneOwner, HolderOwns, AtRest, IdleHands, ActiveExists, ExitOrder, ConfigKept
<1> QED BY <1>1, <1>2, <1>3, <1>4, <1>5, <1>6, <1>7, <1>8, <1>9

\* The exit of the process begins.
LEMMA ExitCallKeeps == ASSUME IInv, ExitCall(Exiter) PROVE IInv'
<1> USE DEF ExitCall
<1>1. TypeOK'
  OBVIOUS
<1>2. Exclusive'
  OBVIOUS
<1>3. HolderOwns'
  OBVIOUS
<1>4. AtRest'
  OBVIOUS
<1>5. IdleHands'
  OBVIOUS
<1>6. ActiveExists'
  OBVIOUS
<1>7. ExitOrder'
  OBVIOUS
<1>9. OneOwner'
  OBVIOUS
<1>8. ConfigKept'
  OBVIOUS
<1> HIDE DEF TypeOK, Exclusive, OneOwner, HolderOwns, AtRest, IdleHands, ActiveExists, ExitOrder, ConfigKept
<1> QED BY <1>1, <1>2, <1>3, <1>4, <1>5, <1>6, <1>7, <1>8, <1>9

\* A runner measures.
LEMMA RunnerMeasuresKeeps == ASSUME IInv, NEW r \in Runners, RunnerMeasures(r) PROVE IInv'
<1> USE DEF RunnerMeasures
<1>1. TypeOK'
  OBVIOUS
<1>2. Exclusive'
  OBVIOUS
<1>3. HolderOwns'
  OBVIOUS
<1>4. AtRest'
  OBVIOUS
<1>5. IdleHands'
  OBVIOUS
<1>6. ActiveExists'
  OBVIOUS
<1>7. ExitOrder'
  OBVIOUS
<1>9. OneOwner'
  OBVIOUS
<1>8. ConfigKept'
  OBVIOUS
<1> HIDE DEF TypeOK, Exclusive, OneOwner, HolderOwns, AtRest, IdleHands, ActiveExists, ExitOrder, ConfigKept
<1> QED BY <1>1, <1>2, <1>3, <1>4, <1>5, <1>6, <1>7, <1>8, <1>9

----------------------------------------------------------------------------
(* The invariant and what follows from it                                  *)

\* Every step keeps the invariant.
LEMMA IInvNext == IInv /\ [Next]_vars => IInv'
<1> HIDE DEF IInv, TypeOK, Exclusive, OneOwner, HolderOwns, AtRest, IdleHands, ActiveExists, ExitOrder, ConfigKept
<1> SUFFICES ASSUME IInv, [Next]_vars PROVE IInv'
  OBVIOUS
<1>1. ASSUME NEW th \in Threads, Steps(th) PROVE IInv'
  BY <1>1, WaitKeeps, NotifyKeeps, LeaveKeeps, InitReturnsKeeps, InitBeginsKeeps, ApplyReturnsKeeps, ApplyBeginsKeeps,
     StopOldKeeps, StartRunnerKeeps, MeasureNowKeeps, DecideKeeps, DiscardKeeps, PublishKeeps,
     ShutdownBeginsKeeps, ExitBeginsKeeps, StopRunnerKeeps, SettleKeeps, EnsureStartedKeeps, ReadOffsetKeeps
     DEF Steps
<1>2. ASSUME NEW th \in Callers, Calls(th) PROVE IInv'
  BY <1>2, InitCallKeeps, ApplyCallKeeps, ShutdownCallKeeps, OffsetCallKeeps, SetConfigKeeps DEF Calls
<1>3. CASE UNCHANGED vars
  BY <1>3 DEF vars, IInv, TypeOK, Exclusive, OneOwner, HolderOwns, AtRest, IdleHands, ActiveExists, ExitOrder, ConfigKept
<1> QED BY <1>1, <1>2, <1>3, ExitCallKeeps, RunnerMeasuresKeeps DEF Next

\* The inductive invariant holds in every reachable state.
THEOREM Invariance == Spec => []IInv
<1>1. IInv /\ [Next]_vars => IInv'
  BY IInvNext
<1> QED BY IInvInit, <1>1, PTL DEF Spec

\* Every variable keeps its type.
THEOREM TypeCorrect == Spec => []TypeOK
<1>1. IInv => TypeOK
  BY DEF IInv
<1> QED BY Invariance, <1>1, PTL

\* m_state is a lock: starting and stopping have exactly one owner.
THEOREM TransitionsAreExclusive == Spec => []TransitionIsExclusive
<1>1. ASSUME IInv PROVE TransitionIsExclusive
  <2>1. \A t1, t2 \in Threads : InTransition(t1) /\ InTransition(t2) => t1 = t2
    BY <1>1
  <2>2. ASSUME is_transitioning_locked
        PROVE  \E th \in Threads : InTransition(th) /\ ~(call[th].op = "exit" /\ m_state = "stopped")
    BY <1>1, <2>2
  <2>3. ASSUME NEW th \in Threads, InTransition(th), ~(call[th].op = "exit" /\ m_state = "stopped")
        PROVE  is_transitioning_locked
    BY <1>1, <2>3
  <2> QED BY <2>1, <2>2, <2>3 DEF TransitionIsExclusive
<1> QED BY Invariance, <1>1, PTL

\* At most one runner is active: with a transition under way only the runners
\* on its owner's stack exist, and of those one at most was started.
THEOREM RunnersAreExclusive == Spec => []OneActiveRunner
<1>1. ASSUME IInv PROVE OneActiveRunner
  <2> SUFFICES ASSUME NEW r1 \in Runners, NEW r2 \in Runners, runner[r1].active, runner[r2].active
               PROVE  r1 = r2
    BY DEF OneActiveRunner
  <2>1. runner[r1].exists /\ runner[r2].exists
    BY <1>1
  <2>2. CASE \E th \in Threads : InTransition(th)
    <3>1. PICK th \in Threads : InTransition(th)
      BY <2>2
    <3>2. {r1, r2} \subseteq {call[th].local, call[th].old}
      BY <1>1, <2>1, <3>1
    <3> QED BY <1>1, <3>1, <3>2
  <2>3. CASE \A th \in Threads : ~InTransition(th)
    BY <1>1, <2>1, <2>3
  <2> QED BY <2>2, <2>3
<1> QED BY Invariance, <1>1, PTL

\* Outside of transitions m_state tells what runs, and what else is allocated
\* is stopped and goes with a call that is about to return.
THEOREM StateIsHonest == Spec => []StateTellsRunner
<1>1. ASSUME IInv PROVE StateTellsRunner
  <2> SUFFICES ASSUME ~is_transitioning_locked PROVE StateTellsRunner
    BY DEF StateTellsRunner
  <2>1. m_state = "running" <=> is_running_locked
    <3>1. CASE \E th \in Threads : InTransition(th)
      BY <1>1, <3>1
    <3>2. CASE \A th \in Threads : ~InTransition(th)
      BY <1>1, <3>2
    <3> QED BY <3>1, <3>2
  <2>2. ASSUME NEW r \in Runners \ {m_runner}, runner[r].exists
        PROVE  /\ ~runner[r].active
               /\ \E th \in Threads : call[th].pc \in {"notify", "leave"} /\ Has(th, r)
    <3>1. PICK th \in Threads : Has(th, r)
      BY <1>1, <2>2
    <3>2. ~InTransition(th)
      BY <1>1, <3>1
    <3> QED BY <1>1, <2>2, <3>1, <3>2
  <2> QED BY <2>1, <2>2 DEF StateTellsRunner
<1> QED BY Invariance, <1>1, PTL

\* After the exit handler nothing runs.
THEOREM ExitIsTheEnd == Spec => []ExitIsFinal
<1>1. ASSUME IInv PROVE ExitIsFinal
  BY <1>1 DEF ExitIsFinal
<1> QED BY Invariance, <1>1, PTL

\* A running service measures with the stored configuration and interval.
THEOREM ConfigsAreInForce == Spec => []ConfigIsInForce
<1>1. ASSUME IInv PROVE ConfigIsInForce
  BY <1>1 DEF ConfigIsInForce
<1> QED BY Invariance, <1>1, PTL

\* A thread in m_cv.wait always has a thread that will wake it: it waits only
\* while a transition has an owner, and the owner stays one until it notifies.
THEOREM NobodySleepsUnwatched == Spec => []SleepersHaveWaker
<1>1. Init => SleepersHaveWaker
  BY DEF Init, SleepersHaveWaker
<1>2. ASSUME IInv, SleepersHaveWaker, [Next]_vars PROVE SleepersHaveWaker'
  <2>1. ASSUME NEW th \in Threads, Wait(th) PROVE SleepersHaveWaker'
    <3>1. PICK owner \in Threads : InTransition(owner) /\ owner # th
      BY <1>2, <2>1 DEF Wait
    <3> QED BY <1>2, <2>1, <3>1 DEF Wait, SleepersHaveWaker
  <2>2. ASSUME NEW th \in Threads, Notify(th) PROVE SleepersHaveWaker'
    <3>1. \A x \in Threads : call'[x].pc # "wait"
      BY <1>2, <2>2 DEF Notify, NotifyAll
    <3> QED BY <3>1 DEF SleepersHaveWaker
  <2>3. CASE Quiet
    BY <1>2, <2>3 DEF SleepersHaveWaker, Quiet, Watches
  <2> QED BY <1>2, <2>1, <2>2, <2>3, OthersAreQuiet
<1> QED BY Invariance, <1>1, <1>2, PTL DEF Spec

=============================================================================
