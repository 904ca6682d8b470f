----------------------- MODULE TimerSchedulerProofs -----------------------
(***************************************************************************)
(* Proofs about TimerScheduler for every set of timers, threads, intervals *)
(* and every bound.                                                        *)
(*                                                                         *)
(* First types, the worker's sleep, entries and generations, and two       *)
(* invariants the rest is built on: where each thread is and what it       *)
(* calls, and that a helper is started once.                               *)
(*                                                                         *)
(* Then the life of a timer's state: the registry's weak pointers never    *)
(* expire, with one stopper stop() joins the worker, with one executor     *)
(* stop_and_wait() returns after the last callback, and with one           *)
(* application thread no helper is left that only refers to itself.        *)
(*                                                                         *)
(* At last, TimerScheduler implements TimerContract as long as no Timer is *)
(* made single-shot: the invariant of that proof says where the times come *)
(* from, that a helper is started once and that there is one entry per     *)
(* firing.                                                                 *)
(***************************************************************************)
EXTENDS TimerSchedulerContract, TLAPS

\* Calls that are about one state, and the places where a due entry is held.
StateOps  == {"own", "push", "wait", "drain", "disown", "clear", "erase", "arm"}
Executing == {"callback", "clear", "erase", "final"}

\* A call that names a state names a real one.
CallOK == \A th \in Threads : call[th].op \in StateOps => call[th].state \in States

\* A thread that executes an entry still holds it; a thread that does not
\* execute timers holds none.
ExecOK ==
    \A th \in Threads :
        /\ pc[th] \in Executing => cur[th] \in batch[th]
        /\ pc[th] \notin Executing \cup {"exec"} => batch[th] = {}

TypeInv == TypeOK /\ CallOK /\ ExecOK

\* The record that stands for "inside no call" is a call.
LEMMA NoCallType == NoCall \in Call
  BY DEF NoCall, Call, CallOps

\* Initially every variable has its type and no thread holds an entry.
LEMMA TypeInvInit == Init => TypeInv
<1> SUFFICES ASSUME Init PROVE TypeInv
  OBVIOUS
<1>1. CallOK /\ ExecOK
  BY DEF Init, CallOK, ExecOK, NoCall, StateOps, Executing
<1>2. call \in [Threads -> Call]
  BY NoCallType DEF Init
<1>3. TypeOK
  <2>1. pc \in [Threads -> {"idle", "unborn"}]
    BY DEF Init
  <2> QED
    BY <1>2, <2>1 DEF Init, TypeOK
<1> QED
  BY <1>1, <1>3 DEF TypeInv


\* The records that calls are tracked with.
LEMMA OnType ==
    ASSUME NEW op \in CallOps, NEW s \in States
    PROVE  On(op, s) \in Call /\ On(op, s).op = op /\ On(op, s).state = s
  BY NoCallType DEF On, NoCall, Call

LEMMA AtType ==
    ASSUME NEW op \in CallOps, NEW s \in States, NEW time \in Nat
    PROVE  /\ At(op, s, time) \in Call
           /\ At(op, s, time).op = op
           /\ At(op, s, time).state = s
  BY NoCallType DEF At, On, NoCall, Call

\* Entering or leaving a call keeps CallOK.
LEMMA SetCallType ==
    ASSUME TypeOK, CallOK, NEW th \in Threads, NEW c \in Call,
           c.op \in StateOps => c.state \in States, SetCall(th, c)
    PROVE  call' \in [Threads -> Call] /\ CallOK'
  BY DEF TypeOK, CallOK, SetCall

LEMMA OrphansType ==
    ASSUME NEW c \in Call, NEW s
    PROVE  /\ [c EXCEPT !.op = "orphans", !.worker = Nil] \in Call
           /\ [c EXCEPT !.op = "orphans", !.worker = Nil].op = "orphans"
           /\ [c EXCEPT !.orphans = @ \ {s}] \in Call
           /\ [c EXCEPT !.orphans = @ \ {s}].op = c.op
  BY DEF Call, CallOps

LEMMA StopReturnsType ==
    ASSUME TypeInv, NEW th \in Threads, StopReturns(th)
    PROVE  call' \in [Threads -> Call] /\ CallOK'
<1> DEFINE c == IF closed = "begun" THEN [NoCall EXCEPT !.op = "teardown"] ELSE NoCall
<1>1. c \in Call /\ c.op \notin StateOps
  BY NoCallType DEF NoCall, Call, CallOps, StateOps
<1> QED
  BY <1>1, SetCallType DEF StopReturns, TypeInv

\* Registering a state hands it to the call that made it.
LEMMA StatesType == Timers \subseteq States /\ Shots \subseteq States
  BY DEF States

\* collect_due_timers_locked moves entries from the queue to one thread.
LEMMA CollectType ==
    ASSUME TypeInv, NEW th \in Threads, NEW rest \in {"idle", "top"},
           CollectDueTimers(th, rest), cur' = cur, call' = call
    PROVE  /\ m_queue' \subseteq Entry
           /\ m_is_running' \in [States -> BOOLEAN]
           /\ batch' \in [Threads -> SUBSET Entry]
           /\ pc' \in [Threads -> {"idle", "unborn", "top", "waitEmpty", "waitUntil", "gone",
                                   "exec", "callback", "clear", "erase", "final"}]
           /\ ExecOK' /\ CallOK'
<1>1. {e \in DueEntries : IsLive(e)} \subseteq Entry
  BY DEF DueEntries, TypeInv, TypeOK
<1> QED
  BY <1>1 DEF CollectDueTimers, MarkRunning, TypeInv, TypeOK, ExecOK, CallOK, Executing

LEMMA WorkerLoopType ==
    ASSUME TypeInv, NEW w \in Workers, pc[w] \in {"top", "waitEmpty", "waitUntil"},
           WorkerLoop(w), cur' = cur, call' = call
    PROVE  /\ m_queue' \subseteq Entry
           /\ m_is_running' \in [States -> BOOLEAN]
           /\ batch' \in [Threads -> SUBSET Entry]
           /\ pc' \in [Threads -> {"idle", "unborn", "top", "waitEmpty", "waitUntil", "gone",
                                   "exec", "callback", "clear", "erase", "final"}]
           /\ ExecOK' /\ CallOK'
           /\ wakeAt' \in [Workers -> Nat]
<1> w \in Threads
  BY DEF Threads
<1>1. CASE CollectDueTimers(w, "top") /\ UNCHANGED wakeAt
  BY <1>1, CollectType DEF TypeInv, TypeOK
<1>2. CASE UNCHANGED <<m_queue, m_is_running, batch, wakeAt>>
  BY <1>2 DEF WorkerLoop, TypeInv, TypeOK, ExecOK, CallOK, Executing, CollectDueTimers
<1>3. CASE /\ UNCHANGED <<m_queue, m_is_running, batch>>
           /\ pc' = [pc EXCEPT ![w] = "waitUntil"]
           /\ \E e \in m_queue : wakeAt' = [wakeAt EXCEPT ![w] = e.fire]
  <2>1. wakeAt' \in [Workers -> Nat]
    BY <1>3 DEF TypeInv, TypeOK, Entry
  <2> QED
    BY <1>3, <2>1 DEF TypeInv, TypeOK, ExecOK, CallOK, Executing
<1> QED
  BY <1>1, <1>2, <1>3 DEF WorkerLoop

LEMMA TypeInvNext == TypeInv /\ [Next]_vars => TypeInv'
<1> SUFFICES ASSUME TypeInv, [Next]_vars PROVE TypeInv'
  OBVIOUS
<1> USE SchedulerAssumption, StatesType
<1>1. ASSUME NEW th \in Threads, NEW t \in Timers, Construct(th, t) PROVE TypeInv'
  <2>1. call' \in [Threads -> Call] /\ CallOK'
    BY <1>1, OnType, SetCallType DEF Construct, TypeInv, CallOps, StateOps
  <2> QED
    BY <1>1, <2>1 DEF Construct, TypeInv, TypeOK, ExecOK, Executing, CreateTimerState,
       workerVars, schedVars, stateVars, flagVars, confVars, execVars, threadVars, waitVars
<1>2. ASSUME NEW th \in Threads, Own(th) PROVE TypeInv'
  BY <1>2, NoCallType, SetCallType DEF Own, TypeInv, TypeOK, ExecOK, Executing, Return, NoCall, StateOps,
     workerVars, schedVars, stateVars, flagVars, confVars, execVars, threadVars, waitVars
<1>3. ASSUME NEW t \in Timers, NEW i \in Intervals, SetInterval(t, i) PROVE TypeInv'
  BY <1>3 DEF SetInterval, TypeInv, TypeOK, ExecOK, Executing, CallOK,
     workerVars, schedVars, stateVars, flagVars, confVars, execVars, threadVars, waitVars
<1>4. ASSUME NEW t \in Timers, NEW b \in Modes, SetSingleShot(t, b) PROVE TypeInv'
  BY <1>4 DEF SetSingleShot, TypeInv, TypeOK, ExecOK, Executing, CallOK,
     workerVars, schedVars, stateVars, flagVars, confVars, execVars, threadVars, waitVars
<1>5. ASSUME NEW t \in Timers, SetCallback(t) PROVE TypeInv'
  BY <1>5 DEF SetCallback, TypeInv, TypeOK, ExecOK, Executing, CallOK,
     workerVars, schedVars, stateVars, flagVars, confVars, execVars, threadVars, waitVars
<1>6. ASSUME NEW th \in Threads, NEW t \in Timers, Start(th, t) PROVE TypeInv'
  <2>1. t \in States /\ now + m_interval_ms[t] \in Nat
    BY DEF TypeInv, TypeOK
  <2>2. call' \in [Threads -> Call] /\ CallOK'
    BY <1>6, <2>1, AtType, SetCallType DEF Start, TypeInv, CallOps, StateOps
  <2> QED
    BY <1>6, <2>2 DEF Start, TypeInv, TypeOK, ExecOK, Executing, workerVars, schedVars, stateVars, flagVars, confVars, execVars, threadVars, waitVars
<1>7. ASSUME NEW th \in Threads, StartTimer(th) PROVE TypeInv'
  <2> DEFINE s == call[th].state
  <2>1. s \in States /\ call[th].time \in Nat
    BY <1>7 DEF StartTimer, TypeInv, TypeOK, CallOK, StateOps, Call
  <2>2. call' \in [Threads -> Call] /\ CallOK'
    BY <1>7, NoCallType, SetCallType DEF StartTimer, Return, NoCall, TypeInv, StateOps
  <2>3. m_queue' \subseteq Entry
    BY <1>7, <2>1 DEF StartTimer, TypeInv, TypeOK, Entry
  <2> QED
    BY <1>7, <2>1, <2>2, <2>3 DEF StartTimer, NotifyAll, TypeInv, TypeOK, ExecOK, workerVars, schedVars, stateVars, flagVars, confVars, execVars, threadVars, waitVars
<1>8. ASSUME NEW t \in Timers, Stop(t) PROVE TypeInv'
  BY <1>8 DEF Stop, TypeInv, TypeOK, ExecOK, Executing, StopTimer, Deactivate, NotifyAll, CallOK,
     workerVars, schedVars, stateVars, flagVars, confVars, execVars, threadVars, waitVars
<1>9. ASSUME NEW th \in Threads, NEW t \in Timers, StopAndWait(th, t) PROVE TypeInv'
  <2>1. call' \in [Threads -> Call] /\ CallOK'
    BY <1>9, OnType, SetCallType DEF StopAndWait, TypeInv, CallOps, StateOps
  <2> QED
    BY <1>9, <2>1 DEF StopAndWait, TypeInv, TypeOK, ExecOK, Executing, StopTimer, Deactivate, NotifyAll,
       workerVars, schedVars, stateVars, flagVars, confVars, execVars, threadVars, waitVars
<1>10. ASSUME NEW th \in Threads, WaitReturns(th) PROVE TypeInv'
  BY <1>10, NoCallType, SetCallType DEF WaitReturns, TypeInv, TypeOK, ExecOK, Executing, Return, NoCall, StateOps,
     workerVars, schedVars, stateVars, flagVars, confVars, execVars, threadVars, waitVars
<1>11. ASSUME NEW th \in Threads, NEW t \in Timers, Destroy(th, t) PROVE TypeInv'
  <2>1. call' \in [Threads -> Call] /\ CallOK'
    BY <1>11, OnType, SetCallType DEF Destroy, TypeInv, CallOps, StateOps
  <2> QED
    BY <1>11, <2>1 DEF Destroy, TypeInv, TypeOK, ExecOK, Executing, StopTimer, Deactivate, NotifyAll,
       workerVars, schedVars, stateVars, flagVars, confVars, execVars, threadVars, waitVars
<1>12. ASSUME NEW th \in Threads, Drained(th) PROVE TypeInv'
  <2>1. call[th].state \in States
    BY <1>12 DEF Drained, TypeInv, CallOK, StateOps
  <2>2. call' \in [Threads -> Call] /\ CallOK'
    BY <1>12, <2>1, OnType, SetCallType DEF Drained, TypeInv, CallOps, StateOps
  <2> QED
    BY <1>12, <2>1, <2>2 DEF Drained, TypeInv, TypeOK, ExecOK, Executing,
       workerVars, schedVars, stateVars, flagVars, confVars, execVars, threadVars, waitVars
<1>13. ASSUME NEW th \in Threads, Disown(th) PROVE TypeInv'
  <2>1. call[th].state \in States
    BY <1>13 DEF Disown, TypeInv, CallOK, StateOps
  <2>2. call' \in [Threads -> Call] /\ CallOK'
    BY <1>13, <2>1, OnType, SetCallType DEF Disown, TypeInv, CallOps, StateOps
  <2> QED
    BY <1>13, <2>1, <2>2 DEF Disown, TypeInv, TypeOK, ExecOK, Executing,
       workerVars, schedVars, stateVars, flagVars, confVars, execVars, threadVars, waitVars
<1>14. ASSUME NEW th \in Threads, ClearCallback(th) PROVE TypeInv'
  <2>1. call[th].state \in States
    BY <1>14 DEF ClearCallback, TypeInv, CallOK, StateOps
  <2>2. call' \in [Threads -> Call] /\ CallOK'
    BY <1>14, <2>1, OnType, SetCallType DEF ClearCallback, TypeInv, CallOps, StateOps
  <2> QED
    BY <1>14, <2>1, <2>2 DEF ClearCallback, TypeInv, TypeOK, ExecOK, Executing,
       workerVars, schedVars, stateVars, flagVars, confVars, execVars, threadVars, waitVars
<1>15. ASSUME NEW th \in Threads, Erase(th) PROVE TypeInv'
  <2>1. call[th].state \in States
    BY <1>15 DEF Erase, TypeInv, CallOK, StateOps
  <2>2. call' \in [Threads -> Call] /\ CallOK'
    BY <1>15, NoCallType, SetCallType DEF Erase, Return, NoCall, TypeInv, StateOps
  <2> QED
    BY <1>15, <2>1, <2>2 DEF Erase, Deactivate, Unregister, TypeInv, TypeOK, ExecOK, Executing,
       workerVars, schedVars, stateVars, flagVars, confVars, execVars, threadVars, waitVars
<1>16. ASSUME NEW th \in Threads, NEW s \in Shots, NEW i \in Intervals, SingleShot(th, s, i) PROVE TypeInv'
  <2>1. call' \in [Threads -> Call] /\ CallOK'
    BY <1>16, AtType, SetCallType DEF SingleShot, TypeInv, CallOps, StateOps
  <2> QED
    BY <1>16, <2>1 DEF SingleShot, TypeInv, TypeOK, ExecOK, Executing, CreateTimerState,
       workerVars, schedVars, stateVars, flagVars, confVars, execVars, threadVars, waitVars
<1>17. ASSUME NEW th \in Threads, ArmShot(th) PROVE TypeInv'
  <2>1. /\ call[th].state \in States /\ call[th].time \in Nat
        /\ now + call[th].time \in Nat
    BY <1>17 DEF ArmShot, TypeInv, TypeOK, CallOK, StateOps, Call
  <2>2. call' \in [Threads -> Call] /\ CallOK'
    BY <1>17, <2>1, AtType, SetCallType DEF ArmShot, TypeInv, CallOps, StateOps
  <2> QED
    BY <1>17, <2>1, <2>2 DEF ArmShot, TypeInv, TypeOK, ExecOK, workerVars, schedVars, stateVars, flagVars, confVars, execVars, threadVars, waitVars
<1>18. ASSUME NEW th \in Threads, Run(th) PROVE TypeInv'
  BY <1>18 DEF Run, TypeInv, TypeOK, ExecOK, Executing, CallOK, Threads,
     workerVars, schedVars, stateVars, flagVars, confVars, execVars, threadVars, waitVars
<1>19. ASSUME NEW th \in Threads, RequestStop(th), closed' \in {"no", "begun", "done"} PROVE TypeInv'
  <2> DEFINE c == [NoCall EXCEPT !.op = "join", !.orphans = Orphans,
                      !.worker = IF m_is_worker_running THEN m_thread ELSE Nil]
  <2>1. c \in Call /\ c.op = "join"
    BY NoCallType DEF Call, CallOps, Orphans, TypeInv, TypeOK
  <2>2. call' \in [Threads -> Call] /\ CallOK'
    BY <1>19, <2>1, SetCallType DEF RequestStop, TypeInv, StateOps
  <2> QED
    BY <1>19, <2>2, ZenonT(60) DEF RequestStop, NotifyAll, TypeInv, TypeOK, ExecOK, workerVars, schedVars, stateVars, flagVars, confVars, execVars, threadVars, waitVars
<1>20. ASSUME NEW th \in Threads, StopScheduler(th) PROVE TypeInv'
  BY <1>20, <1>19 DEF StopScheduler, TypeInv, TypeOK
<1>21. ASSUME NEW th \in Threads, DestroyScheduler(th) PROVE TypeInv'
  BY <1>21, <1>19 DEF DestroyScheduler, TypeInv, TypeOK
<1>22. ASSUME NEW th \in Threads, StopJoined(th) PROVE TypeInv'
  <2>1. call' \in [Threads -> Call] /\ CallOK'
    <3>1. /\ [call[th] EXCEPT !.op = "orphans", !.worker = Nil] \in Call
          /\ [call[th] EXCEPT !.op = "orphans", !.worker = Nil].op = "orphans"
      BY OrphansType DEF TypeInv, TypeOK
    <3>2. CASE call[th].orphans = {}
      BY <1>22, <3>2, StopReturnsType DEF StopJoined
    <3>3. CASE call[th].orphans # {}
      BY <1>22, <3>1, <3>3, SetCallType DEF StopJoined, TypeInv, StateOps
    <3> QED
      BY <3>2, <3>3
  <2> QED
    BY <1>22, <2>1 DEF StopJoined, TypeInv, TypeOK, ExecOK, workerVars, schedVars, stateVars, flagVars, confVars, execVars, threadVars, waitVars
<1>23. ASSUME NEW th \in Threads, ClearOrphan(th) PROVE TypeInv'
  <2> PICK s \in call[th].orphans :
         /\ m_callback' = [m_callback EXCEPT ![s] = FALSE]
         /\ m_is_active' = [m_is_active EXCEPT ![s] = FALSE]
         /\ IF call[th].orphans = {s}
            THEN StopReturns(th)
            ELSE SetCall(th, [call[th] EXCEPT !.orphans = @ \ {s}])
    BY <1>23 DEF ClearOrphan
  <2>1. call' \in [Threads -> Call] /\ CallOK'
    <3>1. /\ [call[th] EXCEPT !.orphans = @ \ {s}] \in Call
          /\ [call[th] EXCEPT !.orphans = @ \ {s}].op = "orphans"
      BY <1>23, OrphansType DEF ClearOrphan, TypeInv, TypeOK
    <3>2. CASE call[th].orphans = {s}
      BY <3>2, StopReturnsType
    <3>3. CASE call[th].orphans # {s}
      BY <3>1, <3>3, SetCallType DEF TypeInv, StateOps
    <3> QED
      BY <3>2, <3>3
  <2> QED
    BY <1>23, <2>1 DEF ClearOrphan, TypeInv, TypeOK, ExecOK, workerVars, schedVars, stateVars, flagVars, confVars, execVars, threadVars, waitVars
<1>24. ASSUME NEW th \in Threads, Teardown(th) PROVE TypeInv'
  BY <1>24, NoCallType, SetCallType DEF Teardown, TypeInv, TypeOK, ExecOK, Executing, Return, NoCall, StateOps,
     workerVars, schedVars, stateVars, flagVars, confVars, execVars, threadVars, waitVars
<1>25. ASSUME NEW th \in Threads, Process(th) PROVE TypeInv'
  BY <1>25, CollectType DEF Process, TypeInv, TypeOK, workerVars, schedVars, stateVars, flagVars, confVars, execVars, threadVars, waitVars
<1>26. ASSUME NEW w \in Workers, WorkerTop(w) PROVE TypeInv'
  BY <1>26, WorkerLoopType DEF WorkerTop, TypeInv, TypeOK, workerVars, schedVars, stateVars, flagVars, confVars, execVars, threadVars, waitVars
<1>27. ASSUME NEW w \in Workers, WakeEmpty(w) PROVE TypeInv'
  <2>1. CASE WorkerLoop(w)
    BY <1>27, <2>1, WorkerLoopType DEF WakeEmpty, TypeInv, TypeOK, workerVars, schedVars, stateVars, flagVars, confVars, execVars, threadVars, waitVars
  <2>2. CASE UNCHANGED <<m_queue, m_is_running, pc, batch, wakeAt>>
    BY <1>27, <2>2 DEF WakeEmpty, TypeInv, TypeOK, ExecOK, CallOK, workerVars, schedVars, stateVars, flagVars, confVars, execVars, threadVars, waitVars
  <2> QED
    BY <1>27, <2>1, <2>2 DEF WakeEmpty
<1>28. ASSUME NEW w \in Workers, WakeUntil(w) PROVE TypeInv'
  <2>1. CASE WorkerLoop(w)
    BY <1>28, <2>1, WorkerLoopType DEF WakeUntil, TypeInv, TypeOK, workerVars, schedVars, stateVars, flagVars, confVars, execVars, threadVars, waitVars
  <2>2. CASE UNCHANGED <<m_queue, m_is_running, pc, batch, wakeAt>>
    BY <1>28, <2>2 DEF WakeUntil, TypeInv, TypeOK, ExecOK, CallOK, workerVars, schedVars, stateVars, flagVars, confVars, execVars, threadVars, waitVars
  <2> QED
    BY <1>28, <2>1, <2>2 DEF WakeUntil
<1>29. ASSUME NEW th \in Threads, FetchCallback(th) PROVE TypeInv'
  BY <1>29 DEF FetchCallback, TypeInv, TypeOK, ExecOK, Executing, CallOK,
     workerVars, schedVars, stateVars, flagVars, confVars, execVars, threadVars, waitVars
<1>30. ASSUME NEW th \in Threads, CallbackReturns(th) PROVE TypeInv'
  BY <1>30 DEF CallbackReturns, TypeInv, TypeOK, ExecOK, Executing, CallOK,
     workerVars, schedVars, stateVars, flagVars, confVars, execVars, threadVars, waitVars
<1>31. ASSUME NEW th \in Threads, CallbackThrows(th) PROVE TypeInv'
  BY <1>31 DEF CallbackThrows, TypeInv, TypeOK, ExecOK, Executing, CallOK,
     workerVars, schedVars, stateVars, flagVars, confVars, execVars, threadVars, waitVars
<1>32. ASSUME NEW th \in Threads, ShotClears(th) PROVE TypeInv'
  BY <1>32 DEF ShotClears, TypeInv, TypeOK, ExecOK, Executing, CallOK, Entry,
     workerVars, schedVars, stateVars, flagVars, confVars, execVars, threadVars, waitVars
<1>33. ASSUME NEW th \in Threads, ShotErases(th) PROVE TypeInv'
  BY <1>33 DEF ShotErases, TypeInv, TypeOK, ExecOK, Executing, CallOK, Entry, Deactivate, Unregister,
     workerVars, schedVars, stateVars, flagVars, confVars, execVars, threadVars, waitVars
<1>34. ASSUME NEW th \in Threads, FinalizeTimer(th) PROVE TypeInv'
  <2>1. cur[th] \in Entry /\ cur[th].state \in States
    BY <1>34 DEF FinalizeTimer, TypeInv, TypeOK, ExecOK, Executing, Entry
  <2>2. /\ m_queue' \subseteq Entry
        /\ m_is_active' \in [States -> BOOLEAN]
        /\ m_generation' \in [States -> Nat]
        /\ signalled' \subseteq Workers
    <3>1. NextEntry(cur[th]) \in Entry
      BY <2>1 DEF NextEntry, TypeInv, TypeOK, Entry
    <3>2. \/ UNCHANGED <<flagVars, m_queue, signalled>>
          \/ Deactivate(cur[th].state) /\ UNCHANGED <<m_queue, signalled>>
          \/ /\ m_generation' = [m_generation EXCEPT ![cur[th].state] = @ + 1]
             /\ m_queue' = m_queue \cup {NextEntry(cur[th])}
             /\ NotifyAll /\ UNCHANGED m_is_active
      BY <1>34 DEF FinalizeTimer, Reschedule
    <3>3. CASE UNCHANGED <<flagVars, m_queue, signalled>>
      BY <3>3 DEF TypeInv, TypeOK, flagVars
    <3>4. CASE Deactivate(cur[th].state) /\ UNCHANGED <<m_queue, signalled>>
      BY <2>1, <3>4 DEF Deactivate, TypeInv, TypeOK
    <3>5. CASE /\ m_generation' = [m_generation EXCEPT ![cur[th].state] = @ + 1]
               /\ m_queue' = m_queue \cup {NextEntry(cur[th])}
               /\ NotifyAll /\ UNCHANGED m_is_active
      BY <2>1, <3>1, <3>5 DEF NotifyAll, TypeInv, TypeOK
    <3> QED
      BY <3>2, <3>3, <3>4, <3>5
  <2> QED
    BY <1>34, <2>1, <2>2 DEF FinalizeTimer, TypeInv, TypeOK, ExecOK, CallOK, Executing, workerVars, schedVars, stateVars, flagVars, confVars, execVars, threadVars, waitVars
<1>35. ASSUME Tick PROVE TypeInv'
  BY <1>35 DEF Tick, TypeInv, TypeOK, ExecOK, Executing, CallOK,
     workerVars, schedVars, stateVars, flagVars, confVars, execVars, threadVars, waitVars
<1>36. CASE UNCHANGED vars
  BY <1>36 DEF vars, TypeInv, TypeOK, ExecOK, CallOK, workerVars, schedVars, stateVars, flagVars, confVars, execVars, threadVars, waitVars
<1> QED
  BY <1>1, <1>2, <1>3, <1>4, <1>5, <1>6, <1>7, <1>8, <1>9, <1>10, <1>11, <1>12, <1>13, <1>14, <1>15, <1>16, <1>17, <1>18, <1>19, <1>20, <1>21, <1>22, <1>23, <1>24, <1>25, <1>26, <1>27, <1>28, <1>29, <1>30, <1>31, <1>32, <1>33, <1>34, <1>35, <1>36
     DEF Next, Progress, ApiCall, WorkerStep, Configure

\* Every variable keeps its type: in particular a queued entry always names a
\* state and fires at a time of the clock, whatever the intervals are.
THEOREM TypeCorrect == Spec => []TypeOK
<1>1. TypeInv => TypeOK
  BY DEF TypeInv
<1> QED
  BY <1>1, TypeInvInit, TypeInvNext, PTL DEF Spec

---------------------------------------------------------------------------
(* No lost wakeup                                                          *)

Waiting(w) == pc[w] \in {"waitEmpty", "waitUntil"}

\* A step after which a sleeping worker still sleeps for the same reason.
SleepsOn ==
    /\ \A w \in Workers : Waiting(w)' => pc'[w] = pc[w] /\ wakeAt'[w] = wakeAt[w]
    /\ signalled \subseteq signalled'
    /\ m_queue' \subseteq m_queue
    /\ m_stop_requested' => m_stop_requested

\* A step that notifies everyone who sleeps.
WakesAll ==
    /\ \A w \in Workers : Waiting(w)' => pc'[w] = pc[w]
    /\ NotifyAll

LEMMA SleepsOnKeeps == SleepIsJustified /\ SleepsOn => SleepIsJustified'
  BY DEF SleepIsJustified, SleepsOn, Waiting

LEMMA WakesAllKeeps == SleepIsJustified /\ WakesAll => SleepIsJustified'
  BY DEF SleepIsJustified, WakesAll, NotifyAll, Waiting

\* The worker that goes to sleep has looked at the queue in the same critical
\* section.
LEMMA WorkerLoopKeeps ==
    ASSUME TypeInv, SleepIsJustified, NEW w \in Workers, WorkerLoop(w),
           m_stop_requested' = m_stop_requested, signalled \ {w} \subseteq signalled'
    PROVE  SleepIsJustified'
<1> w \in Threads
  BY DEF Threads
<1> SUFFICES ASSUME NEW v \in Workers \ signalled'
             PROVE  /\ pc'[v] = "waitEmpty" => ~m_stop_requested' /\ m_queue' = {}
                    /\ pc'[v] = "waitUntil" =>
                         ~m_stop_requested' /\ \A e \in m_queue' : e.fire >= wakeAt'[v]
  BY DEF SleepIsJustified
<1> v \in Threads
  BY DEF Threads
<1>1. CASE v # w
  <2>1. m_queue' \subseteq m_queue /\ pc'[v] = pc[v] /\ wakeAt'[v] = wakeAt[v]
    BY <1>1 DEF WorkerLoop, CollectDueTimers, TypeInv, TypeOK
  <2> QED
    BY <1>1, <2>1 DEF SleepIsJustified
<1>2. CASE v = w
  BY <1>2 DEF WorkerLoop, CollectDueTimers, TypeInv, TypeOK, Entry
<1> QED
  BY <1>1, <1>2

LEMMA SleepInit == Init => SleepIsJustified
  BY DEF Init, SleepIsJustified, Threads

LEMMA SleepNext == TypeInv /\ SleepIsJustified /\ [Next]_vars => SleepIsJustified'
<1> SUFFICES ASSUME TypeInv, SleepIsJustified, [Next]_vars PROVE SleepIsJustified'
  OBVIOUS
<1> USE SchedulerAssumption
<1>1. ASSUME NEW th \in Threads,
             \/ Own(th) \/ WaitReturns(th) \/ Drained(th) \/ Disown(th) \/ ClearCallback(th)
             \/ Erase(th) \/ ArmShot(th) \/ StopJoined(th) \/ ClearOrphan(th) \/ Teardown(th)
      PROVE  SleepsOn
  BY <1>1 DEF Own, WaitReturns, Drained, Disown, ClearCallback, Erase, ArmShot, StopJoined,
     ClearOrphan, Teardown, SleepsOn, Waiting, schedVars, workerVars, waitVars, execVars
<1>2. ASSUME NEW th \in Threads,
             \/ FetchCallback(th) \/ CallbackReturns(th) \/ CallbackThrows(th)
             \/ ShotClears(th) \/ ShotErases(th)
      PROVE  SleepsOn
  BY <1>2 DEF FetchCallback, CallbackReturns, CallbackThrows, ShotClears, ShotErases,
     SleepsOn, Waiting, schedVars, workerVars, waitVars, TypeInv, TypeOK, Threads
<1>3. ASSUME NEW th \in Threads, StartTimer(th) PROVE WakesAll
  BY <1>3 DEF StartTimer, WakesAll, Waiting, execVars
<1>4. ASSUME NEW th \in Threads, FinalizeTimer(th) PROVE SleepsOn \/ WakesAll
  <2>1. \A w \in Workers : Waiting(w)' => pc'[w] = pc[w]
    BY <1>4 DEF FinalizeTimer, Waiting, TypeInv, TypeOK, Threads
  <2> QED
    BY <1>4, <2>1 DEF FinalizeTimer, Reschedule, SleepsOn, WakesAll, Deactivate, workerVars
<1>5. ASSUME NEW th \in Threads, NEW t \in Timers, Construct(th, t) \/ Start(th, t)
      PROVE  SleepsOn
  BY <1>5 DEF Construct, Start, SleepsOn, Waiting, schedVars, workerVars, waitVars, execVars
<1>6. ASSUME NEW th \in Threads, NEW t \in Timers, StopAndWait(th, t) \/ Destroy(th, t)
      PROVE  WakesAll
  BY <1>6 DEF StopAndWait, Destroy, StopTimer, WakesAll, Waiting, execVars
<1>7. ASSUME NEW th \in Threads, NEW s \in Shots, NEW i \in Intervals, SingleShot(th, s, i)
      PROVE  SleepsOn
  BY <1>7 DEF SingleShot, SleepsOn, Waiting, schedVars, workerVars, waitVars, execVars
<1>8. ASSUME NEW th \in Threads, Run(th) PROVE SleepsOn
  BY <1>8 DEF Run, SleepsOn, Waiting, schedVars, waitVars, TypeInv, TypeOK, Threads
<1>9. ASSUME NEW th \in Threads, RequestStop(th) PROVE SleepsOn \/ WakesAll
  BY <1>9 DEF RequestStop, SleepsOn, WakesAll, Waiting, execVars
<1>10. ASSUME NEW th \in Threads, Process(th) PROVE SleepsOn
  BY <1>10 DEF Process, CollectDueTimers, SleepsOn, Waiting, workerVars, waitVars,
     TypeInv, TypeOK, Threads
<1>11. ASSUME NEW t \in Timers, NEW i \in Intervals, SetInterval(t, i) PROVE SleepsOn
  BY <1>11 DEF SetInterval, SleepsOn, Waiting, schedVars, workerVars, threadVars, waitVars, execVars
<1>12. ASSUME NEW t \in Timers, NEW b \in Modes, SetSingleShot(t, b) PROVE SleepsOn
  BY <1>12 DEF SetSingleShot, SleepsOn, Waiting, schedVars, workerVars, threadVars, waitVars, execVars
<1>13. ASSUME NEW t \in Timers, SetCallback(t) PROVE SleepsOn
  BY <1>13 DEF SetCallback, SleepsOn, Waiting, schedVars, workerVars, threadVars, waitVars, execVars
<1>14. CASE Tick \/ UNCHANGED vars
  <2>1. SleepsOn
    BY <1>14 DEF Tick, vars, SleepsOn, Waiting, schedVars, workerVars, threadVars, waitVars, execVars
  <2> QED
    BY <2>1, SleepsOnKeeps
<1>15. ASSUME NEW w \in Workers, WorkerTop(w) PROVE SleepIsJustified'
  BY <1>15, WorkerLoopKeeps DEF WorkerTop, workerVars
<1>16. ASSUME NEW w \in Workers, WakeEmpty(w) PROVE SleepIsJustified'
  <2>1. CASE m_stop_requested \/ m_queue # {}
    BY <1>16, <2>1, WorkerLoopKeeps DEF WakeEmpty, workerVars
  <2>2. CASE ~(m_stop_requested \/ m_queue # {})
    BY <1>16, <2>2 DEF WakeEmpty, workerVars, SleepIsJustified
  <2> QED
    BY <2>1, <2>2
<1>17. ASSUME NEW w \in Workers, WakeUntil(w) PROVE SleepIsJustified'
  <2> DEFINE leaves == \/ m_stop_requested \/ m_queue = {} \/ now >= wakeAt[w]
                       \/ \E e \in m_queue : e.fire < wakeAt[w]
  <2>1. CASE leaves
    BY <1>17, <2>1, WorkerLoopKeeps DEF WakeUntil, workerVars
  <2>2. CASE ~leaves
    BY <1>17, <2>2 DEF WakeUntil, workerVars, SleepIsJustified, TypeInv, TypeOK, Entry
  <2> QED
    BY <2>1, <2>2
<1>18. SleepsOn \/ WakesAll => SleepIsJustified'
  BY SleepsOnKeeps, WakesAllKeeps
<1>19. ASSUME NEW th \in Threads, Progress(th) PROVE SleepIsJustified'
  BY <1>1, <1>2, <1>3, <1>4, <1>18, <1>19 DEF Progress
<1>20. ASSUME NEW th \in Threads, ApiCall(th) PROVE SleepIsJustified'
  BY <1>5, <1>6, <1>7, <1>8, <1>9, <1>10, <1>18, <1>20
     DEF ApiCall, StopScheduler, DestroyScheduler
<1>21. ASSUME NEW t \in Timers, Configure(t) PROVE SleepIsJustified'
  <2>1. CASE Stop(t)
    BY <2>1, <1>18 DEF Stop, StopTimer, WakesAll, Waiting, execVars
  <2> QED
    BY <2>1, <1>11, <1>12, <1>13, <1>18, <1>21 DEF Configure
<1> QED
  BY <1>14, <1>15, <1>16, <1>17, <1>19, <1>20, <1>21 DEF Next, WorkerStep

\* start(), the reschedule after a callback, stop() and stop_timer() never
\* leave a worker asleep past the moment it is needed, with any number of
\* workers, pollers and callers.
THEOREM NoLostWakeup == Spec => []SleepIsJustified
  BY TypeInvInit, TypeInvNext, SleepInit, SleepNext, PTL DEF Spec

---------------------------------------------------------------------------
(* Every firing once, and no active timer without one                      *)

\* Generations only grow: an entry never carries a later one than its timer.
GenBound ==
    /\ \A e \in m_queue : e.gen <= m_generation[e.state]
    /\ \A th \in Threads : \A e \in batch[th] : e.gen <= m_generation[e.state]

\* EachFiringOnce, thread by thread.
Once ==
    /\ \A e, f \in m_queue : e.state = f.state /\ e.gen = f.gen => e = f
    /\ \A th \in Threads : \A e \in m_queue, f \in batch[th] :
         e.state = f.state => e.gen # f.gen
    /\ \A th, other \in Threads : \A e \in batch[th], f \in batch[other] :
         e.state = f.state /\ e.gen = f.gen => e = f /\ th = other
    /\ \A th \in Threads : \A e, f \in batch[th] : e.state = f.state => e = f

\* ActiveHasTicket, with the place where the ticket is.
Pending(e) == e \in m_queue \/ \E th \in Threads : e \in batch[th]
TicketHeld ==
    \A s \in m_timers : m_is_active[s] =>
        \E e \in Entry : Pending(e) /\ e.state = s /\ e.gen = m_generation[s]

\* A state is registered before it is started for the first time.
FreshInactive == \A s \in States : life[s] = "fresh" => ~m_is_active[s]

TicketInv == TypeInv /\ GenBound /\ Once /\ TicketHeld /\ FreshInactive

LEMMA TicketInvImplies == TicketInv => EachFiringOnce /\ ActiveHasTicket
<1> SUFFICES ASSUME TicketInv PROVE EachFiringOnce /\ ActiveHasTicket
  OBVIOUS
<1>1. \A e : e \in InFlight <=> \E th \in Threads : e \in batch[th]
  BY DEF InFlight
<1>2. EachFiringOnce
  BY <1>1 DEF TicketInv, Once, EachFiringOnce
<1>3. ActiveHasTicket
  BY <1>1 DEF TicketInv, TicketHeld, Pending, ActiveHasTicket, Tickets
<1> QED
  BY <1>2, <1>3

LEMMA TicketInit == Init => TicketInv
  BY TypeInvInit DEF Init, TicketInv, GenBound, Once, TicketHeld, FreshInactive

\* A step that touches no entry, and after which a timer is active and
\* registered only if it was before, under the same generation.
Calm ==
    /\ UNCHANGED <<m_queue, batch>>
    /\ \A s \in States :
         /\ m_generation'[s] >= m_generation[s]
         /\ life'[s] = "fresh" => life[s] = "fresh"
         /\ m_is_active'[s] => m_is_active[s]
         /\ s \in m_timers' /\ m_is_active'[s] =>
              s \in m_timers /\ m_generation'[s] = m_generation[s]

LEMMA CalmKeeps == TicketInv /\ TypeInv' /\ Calm => TicketInv'
<1> SUFFICES ASSUME TicketInv, TypeInv', Calm PROVE TicketInv'
  OBVIOUS
<1>1. /\ \A e \in m_queue : e.state \in States /\ e.gen \in Nat
      /\ \A th \in Threads : \A e \in batch[th] : e.state \in States /\ e.gen \in Nat
      /\ \A s \in States : m_generation[s] \in Nat /\ m_generation'[s] \in Nat
      /\ m_timers \subseteq States /\ m_timers' \subseteq States
  BY DEF TicketInv, TypeInv, TypeOK, Entry
<1>2. GenBound'
  BY <1>1 DEF Calm, TicketInv, GenBound
<1>3. Once'
  BY DEF Calm, TicketInv, Once
<1>4. TicketHeld'
  BY <1>1 DEF Calm, TicketInv, TicketHeld, Pending
<1>5. FreshInactive'
  BY DEF Calm, TicketInv, FreshInactive
<1> QED
  BY <1>2, <1>3, <1>4, <1>5 DEF TicketInv

\* A new entry, queued under the next generation of its timer.
Requeue(s, fire) ==
    /\ m_generation' = [m_generation EXCEPT ![s] = @ + 1]
    /\ m_queue' = m_queue \cup {[fire |-> fire, state |-> s, gen |-> m_generation[s] + 1]}

\* Queueing under a new generation, while no thread takes an entry and only s
\* may become active.
LEMMA RequeueKeeps ==
    ASSUME TicketInv, TypeInv', NEW s \in States, NEW fire \in Nat, Requeue(s, fire),
           \A th \in Threads : batch'[th] \subseteq batch[th],
           \A th \in Threads : \A e \in batch[th] \ batch'[th] : e.state = s,
           m_timers' = m_timers,
           \A o \in States : /\ m_is_active'[o] /\ o # s => m_is_active[o]
                             /\ life'[o] = "fresh" => life[o] = "fresh" /\ o # s
    PROVE  TicketInv'
<1> DEFINE new == [fire |-> fire, state |-> s, gen |-> m_generation[s] + 1]
<1>1. /\ \A e \in m_queue : e.state \in States /\ e.gen \in Nat
      /\ \A th \in Threads : \A e \in batch[th] : e.state \in States /\ e.gen \in Nat
      /\ \A o \in States : m_generation[o] \in Nat
      /\ m_timers \subseteq States
      /\ new \in Entry /\ new.state = s /\ new.gen = m_generation[s] + 1
      /\ m_queue' = m_queue \cup {new}
  BY DEF TicketInv, TypeInv, TypeOK, Entry, Requeue
<1>2. \A o \in States : m_generation'[o] = IF o = s THEN m_generation[o] + 1 ELSE m_generation[o]
  BY DEF Requeue, TicketInv, TypeInv, TypeOK
<1> HIDE DEF new
<1>3. GenBound'
  BY <1>1, <1>2 DEF TicketInv, GenBound
<1>4. /\ \A e \in m_queue : e.state = s => e.gen # new.gen
      /\ \A th \in Threads : \A e \in batch[th] : e.state = s => e.gen # new.gen
  BY <1>1 DEF TicketInv, GenBound
<1>5. Once'
  BY <1>1, <1>4 DEF TicketInv, Once
<1>6. TicketHeld'
  <2> SUFFICES ASSUME NEW o \in m_timers, m_is_active'[o]
               PROVE  \E e \in Entry : Pending(e)' /\ e.state = o /\ e.gen = m_generation'[o]
    BY DEF TicketHeld
  <2>1. CASE o = s
    BY <1>1, <1>2, <2>1 DEF Pending
  <2>2. CASE o # s
    <3> PICK e \in Entry : Pending(e) /\ e.state = o /\ e.gen = m_generation[o]
      BY <1>1, <2>2 DEF TicketInv, TicketHeld
    <3> QED
      BY <1>1, <1>2, <2>2 DEF Pending
  <2> QED
    BY <2>1, <2>2
<1>7. FreshInactive'
  BY DEF TicketInv, FreshInactive
<1> QED
  BY <1>3, <1>5, <1>6, <1>7 DEF TicketInv

\* collect_due_timers_locked drops stale entries only, and moves each live
\* one to the collecting thread.
LEMMA CollectKeeps ==
    ASSUME TicketInv, TypeInv', NEW th \in Threads, NEW rest, batch[th] = {},
           CollectDueTimers(th, rest),
           UNCHANGED <<m_timers, m_is_active, m_generation, life>>
    PROVE  TicketInv'
<1> DEFINE due == {e \in DueEntries : IsLive(e)}
<1>1. /\ due \subseteq m_queue /\ due \cap m_queue' = {}
      /\ m_queue' \subseteq m_queue
      /\ \A e \in m_queue \ m_queue' : e \in due \/ ~IsLive(e)
      /\ \A e \in due : e.gen = m_generation[e.state]
  BY DEF CollectDueTimers, DueEntries, IsLive
<1>2. \A o \in Threads : batch'[o] = IF o = th THEN due ELSE batch[o]
  BY DEF CollectDueTimers, TicketInv, TypeInv, TypeOK
<1> HIDE DEF due
<1>3. GenBound'
  BY <1>1, <1>2 DEF TicketInv, GenBound
<1>4. Once'
  BY <1>1, <1>2 DEF TicketInv, Once
<1>5. TicketHeld'
  <2> SUFFICES ASSUME NEW s \in m_timers, m_is_active[s]
               PROVE  \E e \in Entry : Pending(e)' /\ e.state = s /\ e.gen = m_generation[s]
    BY DEF TicketHeld
  <2> PICK e \in Entry : Pending(e) /\ e.state = s /\ e.gen = m_generation[s]
    BY DEF TicketInv, TicketHeld
  <2>1. IsLive(e)
    BY DEF IsLive
  <2>2. Pending(e)'
    BY <1>1, <1>2, <2>1 DEF Pending
  <2> QED
    BY <2>2
<1>6. FreshInactive'
  BY DEF TicketInv, FreshInactive
<1> QED
  BY <1>3, <1>4, <1>5, <1>6 DEF TicketInv

\* A thread that lets go of an entry leaves its timer inactive, or superseded.
LEMMA DropKeeps ==
    ASSUME TicketInv, TypeInv', NEW th \in Threads, NEW due \in batch[th],
           batch' = [batch EXCEPT ![th] = @ \ {due}],
           m_queue' = m_queue, m_timers' = m_timers, life' = life,
           \/ UNCHANGED flagVars /\ (m_is_active[due.state] => Superseded(due))
           \/ Deactivate(due.state)
    PROVE  TicketInv'
<1>1. \A o \in Threads : batch'[o] = IF o = th THEN batch[o] \ {due} ELSE batch[o]
  BY DEF TicketInv, TypeInv, TypeOK
<1>2. /\ \A e \in m_queue : e.state \in States /\ e.gen \in Nat
      /\ \A o \in Threads : \A e \in batch[o] : e.state \in States /\ e.gen \in Nat
      /\ m_timers \subseteq States
  BY DEF TicketInv, TypeInv, TypeOK, Entry
<1>3. \A s \in States :
        /\ m_generation[s] \in Nat /\ m_generation'[s] \in Nat
        /\ m_generation'[s] >= m_generation[s]
        /\ m_is_active'[s] => /\ m_is_active[s] /\ m_generation'[s] = m_generation[s]
                              /\ s = due.state => m_generation[s] # due.gen
  BY <1>2 DEF TicketInv, TypeInv, TypeOK, flagVars, Deactivate, Superseded
<1>4. GenBound'
  BY <1>1, <1>2, <1>3 DEF TicketInv, GenBound
<1>5. Once'
  BY <1>1, <1>2 DEF TicketInv, Once
<1>6. TicketHeld'
  BY <1>1, <1>2, <1>3 DEF TicketInv, TicketHeld, Pending
<1>7. FreshInactive'
  BY <1>3 DEF TicketInv, FreshInactive
<1> QED
  BY <1>4, <1>5, <1>6, <1>7 DEF TicketInv

\* A thread that holds no entry collects what is due.
Collecting ==
    /\ \E th \in Threads, rest \in {"idle", "top"} : batch[th] = {} /\ CollectDueTimers(th, rest)
    /\ UNCHANGED <<m_timers, m_is_active, m_generation, life>>

\* Only four kinds of steps touch entries.
LEMMA EntrySteps ==
    ASSUME TicketInv, TypeInv', [Next]_vars
    PROVE  \/ Calm \/ Collecting
           \/ \E th \in Threads : StartTimer(th) \/ Teardown(th) \/ FinalizeTimer(th)
<1> USE SchedulerAssumption, StatesType
<1>1. TypeInv /\ TypeInv'
  BY DEF TicketInv
<1>2. ASSUME NEW th \in Threads,
             \/ Own(th) \/ WaitReturns(th) \/ Drained(th) \/ Disown(th) \/ ClearCallback(th)
             \/ Erase(th) \/ ArmShot(th) \/ StopJoined(th) \/ ClearOrphan(th)
      PROVE  Calm
  <2>1. CASE Own(th) \/ WaitReturns(th) \/ Drained(th)
    BY <1>1, <2>1 DEF Own, WaitReturns, Drained, Calm, TypeInv, TypeOK, schedVars, stateVars,
       flagVars, execVars
  <2>2. CASE Disown(th) \/ ClearCallback(th) \/ ArmShot(th) \/ StopJoined(th)
    BY <1>1, <2>2 DEF Disown, ClearCallback, ArmShot, StopJoined, Calm, TypeInv, TypeOK,
       schedVars, stateVars, flagVars, execVars
  <2>3. CASE Erase(th)
    BY <1>1, <2>3 DEF Erase, Deactivate, Unregister, Calm, TypeInv, TypeOK, execVars
  <2>4. CASE ClearOrphan(th)
    BY <1>1, <2>4 DEF ClearOrphan, Calm, TypeInv, TypeOK, schedVars, execVars
  <2> QED
    BY <1>2, <2>1, <2>2, <2>3, <2>4
<1>3. ASSUME NEW th \in Threads,
             \/ FetchCallback(th) \/ CallbackReturns(th) \/ CallbackThrows(th)
             \/ ShotClears(th) \/ ShotErases(th)
      PROVE  Calm
  BY <1>1, <1>3 DEF FetchCallback, CallbackReturns, CallbackThrows, ShotClears, ShotErases,
     Calm, Deactivate, Unregister, TypeInv, TypeOK, schedVars, stateVars, flagVars
<1>4. ASSUME NEW th \in Threads, NEW t \in Timers, Construct(th, t) PROVE Calm
  <2>1. life[t] = "fresh" /\ ~m_is_active[t]
    BY <1>4 DEF Construct, CreateTimerState, TicketInv, FreshInactive
  <2> QED
    BY <1>1, <1>4, <2>1 DEF Construct, CreateTimerState, Calm, TypeInv, TypeOK, flagVars, execVars
<1>5. ASSUME NEW th \in Threads, NEW s \in Shots, NEW i \in Intervals, SingleShot(th, s, i)
      PROVE  Calm
  <2>1. life[s] = "fresh" /\ ~m_is_active[s]
    BY <1>5 DEF SingleShot, CreateTimerState, TicketInv, FreshInactive
  <2> QED
    BY <1>1, <1>5, <2>1 DEF SingleShot, CreateTimerState, Calm, TypeInv, TypeOK, flagVars, execVars
<1>6. ASSUME NEW th \in Threads, NEW t \in Timers,
             Start(th, t) \/ StopAndWait(th, t) \/ Destroy(th, t)
      PROVE  Calm
  BY <1>1, <1>6 DEF Start, StopAndWait, Destroy, StopTimer, Deactivate, Calm, TypeInv, TypeOK,
     schedVars, stateVars, flagVars, execVars
<1>7. ASSUME NEW th \in Threads, Run(th) \/ RequestStop(th) PROVE Calm
  BY <1>1, <1>7 DEF Run, RequestStop, Calm, TypeInv, TypeOK, schedVars, stateVars, flagVars, execVars
<1>8. ASSUME NEW t \in Timers, Configure(t) PROVE Calm
  BY <1>1, <1>8 DEF Configure, SetInterval, SetSingleShot, SetCallback, Stop, StopTimer,
     Deactivate, Calm, TypeInv, TypeOK, schedVars, stateVars, flagVars, execVars, threadVars
<1>9. CASE Tick \/ UNCHANGED vars
  BY <1>1, <1>9 DEF Tick, vars, Calm, TypeInv, TypeOK, schedVars, stateVars, flagVars,
     execVars, threadVars
<1>10. ASSUME NEW th \in Threads, Process(th) PROVE Collecting
  BY <1>1, <1>10 DEF Process, Collecting, TypeInv, ExecOK, Executing, flagVars
<1>11. ASSUME NEW w \in Workers, WorkerStep(w) PROVE Calm \/ Collecting
  <2>1. UNCHANGED <<m_timers, flagVars, life>> /\ pc[w] \in {"top", "waitEmpty", "waitUntil"}
    BY <1>11 DEF WorkerStep, WorkerTop, WakeEmpty, WakeUntil
  <2>2. w \in Threads /\ batch[w] = {}
    BY <1>1, <2>1 DEF TypeInv, ExecOK, Executing, Threads
  <2>3. CASE CollectDueTimers(w, "top")
    BY <2>1, <2>2, <2>3 DEF Collecting, flagVars
  <2>4. CASE UNCHANGED <<m_queue, batch>>
    BY <1>1, <2>1, <2>4 DEF Calm, flagVars, TypeInv, TypeOK
  <2> QED
    BY <1>11, <2>3, <2>4 DEF WorkerStep, WorkerTop, WakeEmpty, WakeUntil, WorkerLoop
<1> QED
  BY <1>2, <1>3, <1>4, <1>5, <1>6, <1>7, <1>8, <1>9, <1>10, <1>11
     DEF Next, Progress, ApiCall, StopScheduler, DestroyScheduler

LEMMA TicketNext == TicketInv /\ [Next]_vars => TicketInv'
<1> SUFFICES ASSUME TicketInv, [Next]_vars PROVE TicketInv'
  OBVIOUS
<1> USE SchedulerAssumption, StatesType
<1>1. TypeInv /\ TypeInv'
  BY TypeInvNext DEF TicketInv
<1>2. Calm => TicketInv'
  BY <1>1, CalmKeeps
<1>3. Collecting => TicketInv'
  BY <1>1, CollectKeeps DEF Collecting
<1>4. ASSUME NEW th \in Threads, StartTimer(th) PROVE TicketInv'
  <2>1. call[th].state \in States /\ call[th].time \in Nat
    BY <1>1, <1>4 DEF StartTimer, TypeInv, TypeOK, CallOK, StateOps, Call
  <2>2. Requeue(call[th].state, call[th].time)
    BY <1>4 DEF StartTimer, Requeue
  <2>3. \A o \in States : /\ m_is_active'[o] /\ o # call[th].state => m_is_active[o]
                          /\ life'[o] = "fresh" => life[o] = "fresh" /\ o # call[th].state
    BY <1>1, <1>4 DEF StartTimer, TypeInv, TypeOK
  <2>4. m_timers' = m_timers /\ batch' = batch
    BY <1>4 DEF StartTimer, execVars
  <2> QED
    BY <1>1, <2>1, <2>2, <2>3, <2>4, RequeueKeeps
<1>5. ASSUME NEW th \in Threads, Teardown(th) PROVE TicketInv'
  <2>1. GenBound'
    BY <1>5 DEF Teardown, TicketInv, GenBound, flagVars, execVars
  <2>2. Once'
    BY <1>5 DEF Teardown, TicketInv, Once, execVars
  <2>3. TicketHeld' /\ FreshInactive'
    BY <1>5 DEF Teardown, TicketInv, TicketHeld, FreshInactive, flagVars
  <2> QED
    BY <1>1, <2>1, <2>2, <2>3 DEF TicketInv
<1>6. ASSUME NEW th \in Threads, FinalizeTimer(th) PROVE TicketInv'
  <2> DEFINE due == cur[th]
  <2>1. /\ due \in batch[th] /\ due \in Entry
        /\ batch' = [batch EXCEPT ![th] = @ \ {due}]
        /\ m_timers' = m_timers /\ life' = life
    BY <1>1, <1>6 DEF FinalizeTimer, TypeInv, TypeOK, ExecOK, Executing
  <2>2. \/ /\ m_queue' = m_queue
           /\ \/ UNCHANGED flagVars /\ (m_is_active[due.state] => Superseded(due))
              \/ Deactivate(due.state)
        \/ /\ m_is_active[due.state] /\ UNCHANGED m_is_active
           /\ Requeue(due.state, due.fire + m_interval_ms[due.state])
    BY <1>6 DEF FinalizeTimer, Reschedule, Requeue, NextEntry
  <2>3. CASE /\ m_queue' = m_queue
             /\ \/ UNCHANGED flagVars /\ (m_is_active[due.state] => Superseded(due))
                \/ Deactivate(due.state)
    BY <1>1, <2>1, <2>3, DropKeeps
  <2>4. CASE /\ m_is_active[due.state] /\ UNCHANGED m_is_active
             /\ Requeue(due.state, due.fire + m_interval_ms[due.state])
    <3>1. due.state \in States /\ due.fire + m_interval_ms[due.state] \in Nat
      BY <1>1, <2>1 DEF TypeInv, TypeOK, Entry
    <3>2. \A o \in Threads : /\ batch'[o] \subseteq batch[o]
                             /\ \A e \in batch[o] \ batch'[o] : e.state = due.state
      BY <1>1, <2>1 DEF TypeInv, TypeOK
    <3>3. \A o \in States : /\ m_is_active'[o] /\ o # due.state => m_is_active[o]
                            /\ life'[o] = "fresh" => life[o] = "fresh" /\ o # due.state
      BY <2>1, <2>4 DEF TicketInv, FreshInactive
    <3> QED
      BY <1>1, <2>1, <2>4, <3>1, <3>2, <3>3, RequeueKeeps
  <2> QED
    BY <2>2, <2>3, <2>4
<1> QED
  BY <1>1, <1>2, <1>3, <1>4, <1>5, <1>6, EntrySteps

\* Whatever calls, workers and pollers interleave, a start() or a reschedule
\* gives exactly one entry, which is in one place and leads to one execution.
THEOREM FiringsAreUnique == Spec => []EachFiringOnce
<1>1. TicketInv => TypeInv /\ EachFiringOnce
  BY TicketInvImplies DEF TicketInv
<1> QED
  BY <1>1, TicketInit, TicketNext, PTL DEF Spec

\* A registered timer that says it is active has an entry that will fire it:
\* lazy cancellation, stale entries and restarts during a callback never lose
\* the current one.
THEOREM ActiveTimersHaveTickets == Spec => []ActiveHasTicket
<1>1. TicketInv => ActiveHasTicket
  BY TicketInvImplies
<1> QED
  BY <1>1, TicketInit, TicketNext, PTL DEF Spec

---------------------------------------------------------------------------
(* Where a thread is and what it calls                                   *)

\* Calls that only a Timer makes.
TimerOps == {"own", "wait", "drain", "disown", "clear", "erase"}

\* What a call in progress is about.
CallShape(c) ==
    /\ c.op \in TimerOps => c.state \in Timers
    /\ c.op = "arm" => c.state \in Shots /\ c.time \in Intervals
    /\ c.orphans # {} => c.op \in {"join", "orphans"}

\* Where a thread executes and calls: only a callback or an idle thread is
\* inside a call, only a helper's lambda clears and erases, and a thread has a
\* current entry as long as it executes it.
ShapeInv ==
    \A th \in Threads :
        /\ CallShape(call[th])
        /\ pc[th] \notin {"callback", "idle"} => call[th].op = "none"
        /\ pc[th] \notin Executing => cur[th] = Nil
        /\ pc[th] \in {"clear", "erase"} => cur[th].state \in Shots

\* The fields of the records that calls are tracked with.
LEMMA CallFields ==
    /\ NoCall.op = "none" /\ NoCall.orphans = {} /\ NoCall.state = Nil /\ NoCall.worker = Nil
    /\ \A op, s : On(op, s).op = op /\ On(op, s).state = s /\ On(op, s).orphans = {}
    /\ \A op, s, time : /\ At(op, s, time).op = op /\ At(op, s, time).state = s
                        /\ At(op, s, time).time = time /\ At(op, s, time).orphans = {}
  BY DEF NoCall, On, At

\* Initially nobody calls or executes anything.
LEMMA ShapeInit == Init => ShapeInv
  BY CallFields DEF Init, ShapeInv, CallShape, TimerOps, Executing

\* A step that takes a thread from one call to another.
LEMMA ShapeOfCalls ==
    ASSUME TypeInv, ShapeInv, NEW th \in Threads, NEW c, SetCall(th, c), UNCHANGED <<pc, cur>>,
           CallShape(c), pc[th] \in {"callback", "idle"}
    PROVE  ShapeInv'
<1>1. \A o \in Threads : call'[o] = IF o = th THEN c ELSE call[o]
  BY DEF SetCall, TypeInv, TypeOK
<1>2. \A o \in Threads : CallShape(call'[o])
  BY <1>1 DEF ShapeInv
<1>3. \A o \in Threads : CallShape(call[o])'
  BY <1>2 DEF CallShape
<1> QED
  BY <1>1, <1>3 DEF ShapeInv

\* A step that ends a call.
LEMMA ShapeOfReturns ==
    ASSUME TypeInv, ShapeInv, NEW th \in Threads, Return(th), UNCHANGED <<pc, cur>>
    PROVE  ShapeInv'
<1>1. \A o \in Threads : call'[o] = IF o = th THEN NoCall ELSE call[o]
  BY DEF Return, SetCall, TypeInv, TypeOK
<1>2. CallShape(NoCall)
  BY CallFields DEF CallShape, TimerOps
<1>3. \A o \in Threads : CallShape(call'[o])
  BY <1>1, <1>2 DEF ShapeInv
<1>4. \A o \in Threads : CallShape(call[o])'
  BY <1>3 DEF CallShape
<1> QED
  BY <1>1, <1>4, CallFields DEF ShapeInv

\* A step of a thread inside no call that changes where it executes.
LEMMA ShapeOfPc ==
    ASSUME TypeInv, ShapeInv, NEW th \in Threads, UNCHANGED call, call[th].op = "none",
           \A o \in Threads \ {th} : pc'[o] = pc[o] /\ cur'[o] = cur[o],
           pc'[th] \notin Executing => cur'[th] = Nil,
           pc'[th] \in {"clear", "erase"} => cur'[th].state \in Shots
    PROVE  ShapeInv'
  BY DEF ShapeInv, CallShape

LEMMA ShapeNext == TypeInv /\ ShapeInv /\ [Next]_vars => ShapeInv'
<1> SUFFICES ASSUME TypeInv, ShapeInv, [Next]_vars PROVE ShapeInv'
  OBVIOUS
<1> USE SchedulerAssumption, StatesType
<1>1. ASSUME NEW th \in Threads, call[th].op # "none"
      PROVE  pc[th] \in {"callback", "idle"}
  BY <1>1 DEF ShapeInv
<1>2. ASSUME NEW th \in Threads, CanCall(th)
      PROVE  pc[th] \in {"callback", "idle"} /\ call[th].op = "none"
  BY <1>2 DEF CanCall
<1>3. ASSUME NEW th \in Threads, Own(th) \/ WaitReturns(th) \/ Erase(th) \/ StartTimer(th) \/ Teardown(th)
      PROVE  ShapeInv'
  BY <1>3, ShapeOfReturns DEF Own, WaitReturns, Erase, StartTimer, Teardown, stateVars, execVars
<1>4. ASSUME NEW th \in Threads, Drained(th) \/ Disown(th) \/ ClearCallback(th) PROVE ShapeInv'
  <2> DEFINE c == On(IF Drained(th) THEN "disown" ELSE IF Disown(th) THEN "clear" ELSE "erase", call[th].state)
  <2>1. SetCall(th, c) /\ UNCHANGED <<pc, cur>> /\ call[th].op \in TimerOps
    BY <1>4 DEF Drained, Disown, ClearCallback, execVars, TimerOps
  <2>2. CallShape(c)
    BY <2>1, CallFields DEF CallShape, ShapeInv
  <2>3. call[th].op # "none"
    BY <2>1 DEF TimerOps
  <2> QED
    BY <1>1, <2>1, <2>2, <2>3, ShapeOfCalls
<1>5. ASSUME NEW th \in Threads, ArmShot(th) PROVE ShapeInv'
  <2>1. PICK c : SetCall(th, c) /\ c = At("push", call[th].state, now + call[th].time)
    BY <1>5 DEF ArmShot
  <2>2. CallShape(c)
    BY <2>1, CallFields DEF CallShape, TimerOps
  <2> QED
    BY <1>1, <1>5, <2>1, <2>2, ShapeOfCalls DEF ArmShot, execVars
<1>6. ASSUME NEW th \in Threads, StopJoined(th) \/ ClearOrphan(th) PROVE ShapeInv'
  <2>1. UNCHANGED <<pc, cur>> /\ call[th].op \in {"join", "orphans"}
    BY <1>6 DEF StopJoined, ClearOrphan, execVars
  <2>2. CASE StopReturns(th)
    <3> DEFINE c == IF closed = "begun" THEN [NoCall EXCEPT !.op = "teardown"] ELSE NoCall
    <3>1. CallShape(c)
      BY DEF CallShape, NoCall, TimerOps
    <3> QED
      BY <1>1, <2>1, <2>2, <3>1, ShapeOfCalls DEF StopReturns
  <2>3. CASE SetCall(th, [call[th] EXCEPT !.op = "orphans", !.worker = Nil])
    <3>1. CallShape([call[th] EXCEPT !.op = "orphans", !.worker = Nil])
      BY DEF CallShape, TimerOps, TypeInv, TypeOK, Call
    <3> QED
      BY <1>1, <2>1, <2>3, <3>1, ShapeOfCalls
  <2>4. ASSUME NEW s, SetCall(th, [call[th] EXCEPT !.orphans = @ \ {s}])  PROVE ShapeInv'
    <3>1. CallShape([call[th] EXCEPT !.orphans = @ \ {s}])
      BY <2>1 DEF CallShape, TimerOps, TypeInv, TypeOK, Call
    <3> QED
      BY <1>1, <2>1, <2>4, <3>1, ShapeOfCalls
  <2> QED
    BY <1>6, <2>2, <2>3, <2>4 DEF StopJoined, ClearOrphan
<1>7. ASSUME NEW th \in Threads, FetchCallback(th) \/ CallbackReturns(th) \/ CallbackThrows(th)
      PROVE  ShapeInv'
  <2>1. CASE FetchCallback(th)
    BY <2>1, ShapeOfPc DEF FetchCallback, TypeInv, TypeOK, ShapeInv, Executing
  <2>2. CASE CallbackReturns(th) \/ CallbackThrows(th)
    BY <2>2, ShapeOfPc DEF CallbackReturns, CallbackThrows, TypeInv, TypeOK, ShapeInv, Executing
  <2> QED
    BY <1>7, <2>1, <2>2
<1>8. ASSUME NEW th \in Threads, ShotClears(th) \/ ShotErases(th) \/ FinalizeTimer(th) PROVE ShapeInv'
  <2>1. CASE ShotClears(th) \/ ShotErases(th)
    BY <2>1, ShapeOfPc DEF ShotClears, ShotErases, TypeInv, TypeOK, ShapeInv, Executing
  <2>2. CASE FinalizeTimer(th)
    BY <2>2, ShapeOfPc DEF FinalizeTimer, TypeInv, TypeOK, ShapeInv, Executing
  <2> QED
    BY <1>8, <2>1, <2>2
<1>9. ASSUME NEW th \in Threads, NEW t \in Timers,
             Construct(th, t) \/ Start(th, t) \/ StopAndWait(th, t) \/ Destroy(th, t)
      PROVE  ShapeInv'
  <2>1. CASE Construct(th, t)
    <3>1. CallShape(On("own", t))
      BY CallFields DEF CallShape
    <3> QED
      BY <1>2, <2>1, <3>1, ShapeOfCalls DEF Construct, execVars
  <2>2. CASE Start(th, t)
    <3>1. CallShape(At("push", t, now + m_interval_ms[t]))
      BY CallFields DEF CallShape, TimerOps
    <3> QED
      BY <1>2, <2>2, <3>1, ShapeOfCalls DEF Start, execVars
  <2>3. CASE StopAndWait(th, t)
    <3>1. CallShape(On("wait", t))
      BY CallFields DEF CallShape
    <3> QED
      BY <1>2, <2>3, <3>1, ShapeOfCalls DEF StopAndWait, execVars
  <2>4. CASE Destroy(th, t)
    <3>1. CallShape(On("disown", t)) /\ CallShape(On("drain", t))
      BY CallFields DEF CallShape
    <3> QED
      BY <1>2, <2>4, <3>1, ShapeOfCalls DEF Destroy, execVars
  <2> QED
    BY <1>9, <2>1, <2>2, <2>3, <2>4
<1>10. ASSUME NEW th \in Threads, NEW s \in Shots, NEW i \in Intervals, SingleShot(th, s, i)
       PROVE  ShapeInv'
  <2>1. CallShape(At("arm", s, i))
    BY CallFields DEF CallShape, TimerOps
  <2> QED
    BY <1>2, <1>10, <2>1, ShapeOfCalls DEF SingleShot, execVars
<1>11. ASSUME NEW th \in Threads, RequestStop(th) PROVE ShapeInv'
  <2> DEFINE c == [NoCall EXCEPT !.op = "join", !.orphans = Orphans,
                      !.worker = IF m_is_worker_running THEN m_thread ELSE Nil]
  <2>1. CallShape(c)
    BY DEF CallShape, NoCall, TimerOps
  <2> QED
    BY <1>2, <1>11, <2>1, ShapeOfCalls DEF RequestStop, execVars
<1>12. ASSUME NEW th \in Threads, Process(th) PROVE ShapeInv'
  <2>1. pc'[th] \in {"idle", "exec"} /\ \A o \in Threads \ {th} : pc'[o] = pc[o]
    BY <1>12 DEF Process, CollectDueTimers, TypeInv, TypeOK
  <2> QED
    BY <1>2, <1>12, <2>1, ShapeOfPc DEF Process, ShapeInv, Executing
<1>13. ASSUME NEW th \in Threads, Run(th) PROVE ShapeInv'
  <2>1. PICK w \in Workers : pc[w] = "unborn" /\ pc' = [pc EXCEPT ![w] = "top"]
    BY <1>13 DEF Run
  <2>2. w \in Threads /\ call[w].op = "none" /\ cur[w] = Nil
    BY <2>1 DEF ShapeInv, Threads, Executing
  <2> QED
    BY <1>13, <2>1, <2>2, ShapeOfPc DEF Run, TypeInv, TypeOK, Executing
<1>14. ASSUME NEW w \in Workers, WorkerStep(w) PROVE ShapeInv'
  <2>1. w \in Threads /\ pc[w] \in {"top", "waitEmpty", "waitUntil"} /\ UNCHANGED <<call, cur>>
    BY <1>14 DEF WorkerStep, WorkerTop, WakeEmpty, WakeUntil, Threads
  <2>2. call[w].op = "none" /\ cur[w] = Nil
    BY <2>1 DEF ShapeInv, Executing
  <2>3. /\ pc'[w] \in {"gone", "waitEmpty", "waitUntil", "top", "exec"}
        /\ \A o \in Threads \ {w} : pc'[o] = pc[o]
    BY <1>14, <2>1 DEF WorkerStep, WorkerTop, WakeEmpty, WakeUntil, WorkerLoop, CollectDueTimers,
       TypeInv, TypeOK
  <2> QED
    BY <2>1, <2>2, <2>3, ShapeOfPc DEF Executing
<1>15. ASSUME UNCHANGED <<pc, cur, call>> PROVE ShapeInv'
  BY <1>15 DEF ShapeInv, CallShape
<1>16. ASSUME NEW t \in Timers, Configure(t) PROVE ShapeInv'
  BY <1>15, <1>16 DEF Configure, SetInterval, SetSingleShot, SetCallback, Stop, threadVars, execVars
<1>17. CASE Tick \/ UNCHANGED vars
  BY <1>15, <1>17 DEF Tick, vars, threadVars, execVars
<1> QED
  BY <1>3, <1>4, <1>5, <1>6, <1>7, <1>8, <1>9, <1>10, <1>11, <1>12, <1>13, <1>14, <1>16, <1>17
     DEF Next, Progress, ApiCall, StopScheduler, DestroyScheduler

---------------------------------------------------------------------------
(* A helper is started once                                                *)

\* The state of a helper that single_shot() is still making.
Making(th) == call[th].op \in {"arm", "push"}

\* No entry has generation 0, which is the one of a state never started.
EntriesArePositive ==
    /\ \A e \in m_queue : e.gen >= 1
    /\ \A th \in Threads : \A e \in batch[th] : e.gen >= 1

\* A helper that is being made has not been started and is made by one thread;
\* one that has been started is single-shot and never starts again.
ShotInv ==
    /\ \A s \in Shots :
         /\ m_generation[s] = 0 \/ (m_is_single_shot[s] /\ life[s] \in {"alive", "dead"})
         /\ m_is_active[s] => m_generation[s] <= 1
    /\ \A th \in Threads : Making(th) /\ call[th].state \in Shots =>
         /\ life[call[th].state] = "building"
         /\ call[th].op = "push" => m_is_single_shot[call[th].state]
         /\ \A o \in Threads : Making(o) /\ call[o].state = call[th].state => o = th

ShotsInv == TicketInv /\ ShapeInv /\ EntriesArePositive /\ ShotInv

\* Of a helper that is being made there is no entry anywhere.
LEMMA MakingHasNoEntry ==
    ASSUME ShotsInv, NEW th \in Threads, Making(th), call[th].state \in Shots,
           NEW e, e.state = call[th].state
    PROVE  e \notin m_queue /\ \A o \in Threads : e \notin batch[o]
<1>1. m_generation[e.state] = 0
  BY DEF ShotsInv, ShotInv
<1>2. /\ e \in m_queue => e.gen \in Nat
      /\ \A o \in Threads : e \in batch[o] => e.gen \in Nat
  BY DEF ShotsInv, TicketInv, TypeInv, TypeOK, Entry
<1> QED
  BY <1>1, <1>2 DEF ShotsInv, EntriesArePositive, TicketInv, GenBound

LEMMA ShotsInit == Init => ShotsInv
  BY TicketInit, ShapeInit, CallFields, StatesType
     DEF Init, ShotsInv, EntriesArePositive, ShotInv, Making

LEMMA PositiveNext == TypeInv /\ EntriesArePositive /\ [Next]_vars => EntriesArePositive'
<1> SUFFICES ASSUME TypeInv, EntriesArePositive, [Next]_vars PROVE EntriesArePositive'
  OBVIOUS
<1>1. ASSUME m_queue' \subseteq m_queue, \A th \in Threads : batch'[th] \subseteq batch[th]
      PROVE  EntriesArePositive'
  BY <1>1 DEF EntriesArePositive
<1>2. ASSUME NEW th \in Threads, NEW rest, CollectDueTimers(th, rest) PROVE EntriesArePositive'
  BY <1>2 DEF CollectDueTimers, DueEntries, EntriesArePositive, TypeInv, TypeOK
<1>3. ASSUME NEW s \in States, NEW fire,
             m_queue' = m_queue \cup {[fire |-> fire, state |-> s, gen |-> m_generation[s] + 1]},
             \A th \in Threads : batch'[th] \subseteq batch[th]
      PROVE  EntriesArePositive'
  BY <1>3 DEF EntriesArePositive, TypeInv, TypeOK
<1>4. ASSUME NEW th \in Threads, StartTimer(th) PROVE EntriesArePositive'
  BY <1>3, <1>4 DEF StartTimer, execVars, TypeInv, CallOK, StateOps
<1>5. ASSUME NEW th \in Threads, FinalizeTimer(th) PROVE EntriesArePositive'
  <2>1. cur[th].state \in States /\ \A o \in Threads : batch'[o] \subseteq batch[o]
    BY <1>5 DEF FinalizeTimer, TypeInv, TypeOK, ExecOK, Executing, Entry
  <2> QED
    BY <1>1, <1>3, <1>5, <2>1 DEF FinalizeTimer, Reschedule, NextEntry
<1>6. ASSUME NEW th \in Threads, Progress(th) PROVE EntriesArePositive'
  BY <1>1, <1>4, <1>5, <1>6 DEF Progress, Own, WaitReturns, Drained, Disown, ClearCallback, Erase,
     ArmShot, StopJoined, ClearOrphan, Teardown, FetchCallback, CallbackReturns, CallbackThrows,
     ShotClears, ShotErases, schedVars, execVars
<1>7. ASSUME NEW th \in Threads, ApiCall(th) PROVE EntriesArePositive'
  BY <1>1, <1>2, <1>7 DEF ApiCall, Construct, Start, StopAndWait, Destroy, SingleShot, Run,
     StopScheduler, DestroyScheduler, RequestStop, Process, schedVars, execVars
<1>8. ASSUME NEW w \in Workers, WorkerStep(w) PROVE EntriesArePositive'
  <2>1. w \in Threads
    BY DEF Threads
  <2> QED
    BY <1>1, <1>2, <1>8, <2>1 DEF WorkerStep, WorkerTop, WakeEmpty, WakeUntil, WorkerLoop
<1>9. ASSUME NEW t \in Timers, Configure(t) PROVE EntriesArePositive'
  BY <1>1, <1>9 DEF Configure, SetInterval, SetSingleShot, SetCallback, Stop, schedVars, threadVars, execVars
<1>10. CASE Tick \/ UNCHANGED vars
  BY <1>1, <1>10 DEF Tick, vars, schedVars, threadVars, execVars
<1> QED
  BY <1>6, <1>7, <1>8, <1>9, <1>10 DEF Next

\* A step that lets nobody make a helper who did not, and no helper run that
\* was not running.
ShotsCalm ==
    /\ \A th \in Threads : Making(th)' /\ call'[th].state \in Shots =>
         call'[th] = call[th]
    /\ \A s \in Shots :
         /\ m_is_single_shot[s] => m_is_single_shot'[s]
         /\ life[s] \in {"alive", "dead"} => life'[s] \in {"alive", "dead"}
         /\ life'[s] = life[s] \/ \A th \in Threads : Making(th)' => call'[th].state # s
         /\ m_generation'[s] = m_generation[s]
              \/ (m_is_single_shot[s] /\ life[s] \in {"alive", "dead"} /\ ~m_is_active'[s])
         /\ m_is_active'[s] => m_is_active[s]

LEMMA ShotsCalmKeeps == ShotInv /\ ShotsCalm => ShotInv'
<1> SUFFICES ASSUME ShotInv, ShotsCalm PROVE ShotInv'
  OBVIOUS
<1>1. \A th \in Threads : Making(th)' /\ call'[th].state \in Shots =>
        Making(th) /\ call[th] = call'[th]
  BY DEF ShotsCalm, Making
<1> QED
  BY <1>1 DEF ShotInv, ShotsCalm

LEMMA ShotNext == ShotsInv /\ TypeInv' /\ [Next]_vars => ShotInv'
<1> SUFFICES ASSUME ShotsInv, TypeInv', [Next]_vars PROVE ShotInv'
  OBVIOUS
<1> USE SchedulerAssumption, StatesType
<1>1. TypeInv /\ ShapeInv /\ ShotInv
  BY DEF ShotsInv, TicketInv
<1>2. ShotsCalm => ShotInv'
  BY <1>1, ShotsCalmKeeps
<1>3. ASSUME NEW th \in Threads, NEW c, SetCall(th, c)
      PROVE  \A o \in Threads : call'[o] = IF o = th THEN c ELSE call[o]
  BY <1>1, <1>3 DEF SetCall, TypeInv, TypeOK
<1>4. ASSUME NEW th \in Threads, NEW c, SetCall(th, c), c.op \notin {"arm", "push"},
             UNCHANGED <<flagVars, m_is_single_shot, life>>
      PROVE  ShotsCalm
  BY <1>3, <1>4 DEF ShotsCalm, Making, flagVars
<1>5. ASSUME UNCHANGED call,
             \A s \in Shots : /\ m_is_single_shot'[s] = m_is_single_shot[s] /\ life'[s] = life[s]
                              /\ m_generation'[s] = m_generation[s]
                              /\ m_is_active'[s] => m_is_active[s]
      PROVE  ShotsCalm
  BY <1>5 DEF ShotsCalm, Making
<1>6. ASSUME NEW th \in Threads, WaitReturns(th) \/ Drained(th) \/ Disown(th) \/ ClearCallback(th)
      PROVE  ShotsCalm
  BY <1>4, <1>6, CallFields DEF WaitReturns, Drained, Disown, ClearCallback, Return, stateVars, confVars
<1>7. ASSUME NEW th \in Threads, Own(th) \/ Erase(th) PROVE ShotsCalm
  <2>1. call[th].state \in Timers
    BY <1>1, <1>7 DEF Own, Erase, ShapeInv, CallShape, TimerOps
  <2>2. SetCall(th, NoCall) /\ UNCHANGED m_is_single_shot
    BY <1>7 DEF Own, Erase, Return, confVars
  <2>3. \A s \in Shots : /\ life'[s] = life[s] /\ m_generation'[s] = m_generation[s]
                         /\ m_is_active'[s] = m_is_active[s]
    BY <1>1, <1>7, <2>1 DEF Own, Erase, Deactivate, flagVars, TypeInv, TypeOK
  <2> QED
    BY <1>3, <2>2, <2>3, CallFields DEF ShotsCalm, Making
<1>8. ASSUME NEW th \in Threads, StopJoined(th) \/ ClearOrphan(th) \/ Teardown(th) PROVE ShotsCalm
  <2>1. \A o \in Threads : call'[o] = call[o] \/ call'[o].op \notin {"arm", "push"}
    <3>1. \A o \in Threads \ {th} : call'[o] = call[o]
      BY <1>1, <1>8 DEF StopJoined, ClearOrphan, Teardown, StopReturns, SetCall, Return, TypeInv, TypeOK
    <3>2. ASSUME StopReturns(th) PROVE call'[th].op \notin {"arm", "push"}
      BY <1>1, <3>2, CallFields DEF StopReturns, SetCall, TypeInv, TypeOK, NoCall
    <3>3. ASSUME NEW c, SetCall(th, c), c.op = "orphans" PROVE call'[th].op \notin {"arm", "push"}
      BY <1>1, <3>3 DEF SetCall, TypeInv, TypeOK
    <3>7. call[th] \in Call
      BY <1>1 DEF TypeInv, TypeOK
    <3>4. ASSUME StopJoined(th) PROVE call'[th].op \notin {"arm", "push"}
      <4>1. CASE StopReturns(th)
        BY <3>2, <4>1
      <4>2. CASE SetCall(th, [call[th] EXCEPT !.op = "orphans", !.worker = Nil])
        BY <3>3, <3>7, <4>2, OrphansType
      <4> QED
        BY <3>4, <4>1, <4>2 DEF StopJoined
    <3>6. ASSUME ClearOrphan(th) PROVE call'[th].op \notin {"arm", "push"}
      <4>1. CASE StopReturns(th)
        BY <3>2, <4>1
      <4>2. ASSUME NEW s, SetCall(th, [call[th] EXCEPT !.orphans = @ \ {s}])
            PROVE  call'[th].op \notin {"arm", "push"}
        <5>1. [call[th] EXCEPT !.orphans = @ \ {s}].op = "orphans"
          BY <3>6, <3>7, OrphansType DEF ClearOrphan
        <5> QED
          BY <3>3, <4>2, <5>1
      <4> QED
        BY <3>6, <4>1, <4>2 DEF ClearOrphan
    <3>5. CASE Teardown(th)
      BY <1>1, <3>5, CallFields DEF Teardown, Return, SetCall, TypeInv, TypeOK
    <3> QED
      BY <1>8, <3>1, <3>4, <3>5, <3>6
  <2>2. \A s \in Shots : /\ m_is_single_shot'[s] = m_is_single_shot[s] /\ life'[s] = life[s]
                         /\ m_generation'[s] = m_generation[s] /\ (m_is_active'[s] => m_is_active[s])
    BY <1>1, <1>8 DEF StopJoined, ClearOrphan, Teardown, stateVars, flagVars, confVars, TypeInv, TypeOK
  <2> QED
    BY <2>1, <2>2 DEF ShotsCalm, Making
<1>9. ASSUME NEW th \in Threads, StartTimer(th) PROVE ShotInv'
  <2> DEFINE s == call[th].state
  <2>1. s \in States /\ Making(th)
    BY <1>1, <1>9 DEF StartTimer, TypeInv, CallOK, StateOps, Making
  <2>2. \A o \in Threads : call'[o] = IF o = th THEN NoCall ELSE call[o]
    BY <1>3, <1>9 DEF StartTimer, Return
  <2>3. /\ \A o \in States \ {s} : life'[o] = life[o] /\ m_generation'[o] = m_generation[o]
                                   /\ m_is_active'[o] = m_is_active[o]
        /\ life'[s] = "alive" /\ m_generation'[s] = m_generation[s] + 1
        /\ UNCHANGED m_is_single_shot
    BY <1>1, <1>9, <2>1 DEF StartTimer, TypeInv, TypeOK, confVars
  <2>4. CASE s \in Timers
    BY <1>2, <2>2, <2>3, <2>4, CallFields DEF ShotsCalm, Making
  <2>5. CASE s \in Shots
    <3>1. m_is_single_shot[s] /\ m_generation[s] = 0
      BY <1>1, <1>9, <2>1, <2>5 DEF StartTimer, ShotInv
    <3>2. \A o \in Threads : Making(o)' => o # th /\ Making(o) /\ call'[o] = call[o] /\ call[o].state # s
      BY <1>1, <2>1, <2>2, <2>5, CallFields DEF Making, ShotInv
    <3> QED
      BY <1>1, <2>3, <2>5, <3>1, <3>2 DEF ShotInv
  <2> QED
    BY <2>1, <2>4, <2>5 DEF States
<1>10. ASSUME NEW th \in Threads, ArmShot(th) PROVE ShotInv'
  <2> DEFINE s == call[th].state
  <2>1. s \in Shots /\ Making(th)
    BY <1>1, <1>10 DEF ArmShot, ShapeInv, CallShape, Making
  <2>2. \A o \in Threads : call'[o] = IF o = th THEN At("push", s, now + call[th].time) ELSE call[o]
    BY <1>3, <1>10 DEF ArmShot
  <2>3. /\ \A o \in States : m_is_single_shot[o] => m_is_single_shot'[o]
        /\ m_is_single_shot'[s]
        /\ life' = life /\ m_is_active' = m_is_active /\ m_generation' = m_generation
    BY <1>1, <1>10, <2>1 DEF ArmShot, TypeInv, TypeOK, flagVars
  <2>4. \A o \in Threads : /\ Making(o)' => Making(o) /\ call'[o].state = call[o].state
                           /\ o # th => call'[o] = call[o]
    BY <2>1, <2>2, CallFields DEF Making
  <2>5. \A o \in Threads : Making(o)' => /\ Making(o) /\ call'[o].state = call[o].state
                                         /\ call'[o].op = "push" => o = th \/ call[o].op = "push"
    BY <2>4
  <2>6. \A o \in Shots : m_generation[o] = 0 \/ (m_is_single_shot'[o] /\ life[o] \in {"alive", "dead"})
    BY <1>1, <2>3, StatesType DEF ShotInv
  <2>7. ASSUME NEW o \in Threads, Making(o)', call'[o].state \in Shots
        PROVE  /\ life'[call'[o].state] = "building"
               /\ call'[o].op = "push" => m_is_single_shot'[call'[o].state]
               /\ \A p \in Threads : Making(p)' /\ call'[p].state = call'[o].state => p = o
    <3>1. Making(o) /\ call[o].state \in Shots /\ call'[o].state = call[o].state
      BY <2>5, <2>7 DEF Making
    <3>2. /\ life[call[o].state] = "building"
          /\ call[o].op = "push" => m_is_single_shot[call[o].state]
          /\ \A p \in Threads : Making(p) /\ call[p].state = call[o].state => p = o
      BY <1>1, <3>1 DEF ShotInv
    <3>3. call'[o].op = "push" => m_is_single_shot'[call'[o].state]
      BY <2>3, <2>5, <2>7, <3>1, <3>2, StatesType
    <3> QED
      BY <2>3, <2>5, <3>1, <3>2, <3>3 DEF Making
  <2>8. \A o \in Shots : m_is_active'[o] => m_generation'[o] <= 1
    BY <1>1, <2>3 DEF ShotInv
  <2> QED
    BY <2>3, <2>6, <2>7, <2>8 DEF ShotInv, Making
<1>11. ASSUME NEW th \in Threads, NEW s \in Shots, NEW i \in Intervals, SingleShot(th, s, i)
       PROVE  ShotInv'
  <2>1. /\ \A o \in Threads : call'[o] = IF o = th THEN At("arm", s, i) ELSE call[o]
        /\ \A o \in States : life'[o] = IF o = s THEN "building" ELSE life[o]
        /\ UNCHANGED <<flagVars, m_is_single_shot>> /\ life[s] = "fresh"
    BY <1>1, <1>3, <1>11 DEF SingleShot, CreateTimerState, TypeInv, TypeOK, confVars
  <2>2. m_generation[s] = 0 /\ \A o \in Threads : Making(o) => call[o].state # s
    BY <1>1, <2>1 DEF ShotInv
  <2>3. \A o \in Threads : Making(o)' /\ o # th => Making(o) /\ call'[o] = call[o]
    BY <2>1 DEF Making
  <2>4. call'[th].op = "arm" /\ call'[th].state = s
    BY <2>1, CallFields
  <2> QED
    BY <1>1, <2>1, <2>2, <2>3, <2>4 DEF ShotInv, flagVars
<1>12. ASSUME NEW th \in Threads, NEW t \in Timers,
              Construct(th, t) \/ Start(th, t) \/ StopAndWait(th, t) \/ Destroy(th, t)
       PROVE  ShotsCalm
  <2>1. \A o \in Threads : call'[o] = call[o] \/ call'[o].op \notin {"arm", "push"} \/ call'[o].state = t
    BY <1>3, <1>12, CallFields DEF Construct, Start, StopAndWait, Destroy
  <2>2. \A s \in Shots : /\ life'[s] = life[s] /\ m_generation'[s] = m_generation[s]
                         /\ m_is_active'[s] = m_is_active[s]
                         /\ m_is_single_shot'[s] = m_is_single_shot[s]
    BY <1>1, <1>12 DEF Construct, CreateTimerState, Start, StopAndWait, Destroy, StopTimer, Deactivate,
       stateVars, flagVars, confVars, TypeInv, TypeOK
  <2> QED
    BY <2>1, <2>2 DEF ShotsCalm, Making
<1>13. ASSUME NEW th \in Threads, RequestStop(th) PROVE ShotsCalm
  <2> DEFINE c == [NoCall EXCEPT !.op = "join", !.orphans = Orphans,
                      !.worker = IF m_is_worker_running THEN m_thread ELSE Nil]
  <2>1. c.op = "join"
    BY DEF NoCall
  <2>2. SetCall(th, c) /\ UNCHANGED <<flagVars, m_is_single_shot, life>>
    BY <1>13 DEF RequestStop, stateVars, confVars
  <2> HIDE DEF c
  <2> QED
    BY <1>4, <2>1, <2>2
<1>14. ASSUME NEW th \in Threads, Run(th) \/ Process(th) PROVE ShotsCalm
  BY <1>5, <1>14 DEF Run, Process, stateVars, flagVars, confVars
<1>15. ASSUME NEW w \in Workers, WorkerStep(w) PROVE ShotsCalm
  BY <1>5, <1>15 DEF WorkerStep, WorkerTop, WakeEmpty, WakeUntil, flagVars, confVars
<1>16. ASSUME NEW t \in Timers, Configure(t) PROVE ShotsCalm
  <2>1. /\ UNCHANGED <<call, life>>
        /\ \A s \in Shots : /\ m_is_single_shot'[s] = m_is_single_shot[s]
                            /\ m_generation'[s] = m_generation[s] /\ m_is_active'[s] = m_is_active[s]
    BY <1>1, <1>16 DEF Configure, SetInterval, SetSingleShot, SetCallback, Stop, StopTimer, Deactivate,
       flagVars, confVars, threadVars, TypeInv, TypeOK
  <2> QED
    BY <1>5, <2>1
<1>17. CASE Tick \/ UNCHANGED vars
  BY <1>2, <1>5, <1>17 DEF Tick, vars, stateVars, flagVars, confVars, threadVars
<1>18. ASSUME NEW th \in Threads, FetchCallback(th) \/ CallbackReturns(th) \/ CallbackThrows(th) \/ ShotClears(th)
       PROVE  ShotsCalm
  BY <1>5, <1>18 DEF FetchCallback, CallbackReturns, CallbackThrows, ShotClears, stateVars, flagVars, confVars
<1>19. ASSUME NEW th \in Threads, pc[th] \in {"erase", "final"}, cur[th].state \in Shots
       PROVE  /\ m_is_single_shot[cur[th].state] /\ life[cur[th].state] \in {"alive", "dead"}
              /\ \A o \in Threads : Making(o) => call[o].state # cur[th].state
  <2>1. cur[th] \in batch[th] /\ cur[th].gen \in Nat
    BY <1>1, <1>19 DEF TypeInv, TypeOK, ExecOK, Executing, Entry
  <2>2. m_generation[cur[th].state] # 0
    BY <1>1, <1>19, <2>1 DEF ShotsInv, EntriesArePositive, TicketInv, GenBound, TypeInv, TypeOK
  <2> QED
    BY <1>1, <1>19, <2>2 DEF ShotInv
<1>20. ASSUME NEW th \in Threads, ShotErases(th) PROVE ShotsCalm
  <2>1. cur[th].state \in Shots /\ UNCHANGED <<call, m_is_single_shot>>
    BY <1>1, <1>20 DEF ShotErases, ShapeInv, confVars
  <2>2. \A s \in Shots :
          /\ s # cur[th].state => /\ life'[s] = life[s] /\ m_generation'[s] = m_generation[s]
                                  /\ m_is_active'[s] = m_is_active[s]
          /\ s = cur[th].state => life'[s] = "dead" /\ ~m_is_active'[s]
    BY <1>1, <1>20 DEF ShotErases, Deactivate, TypeInv, TypeOK
  <2> QED
    BY <1>19, <1>20, <2>1, <2>2 DEF ShotErases, ShotsCalm, Making
<1>21. ASSUME NEW th \in Threads, FinalizeTimer(th) PROVE ShotsCalm
  <2> DEFINE s == cur[th].state
  <2>1. UNCHANGED <<call, m_is_single_shot, life>>
    BY <1>21 DEF FinalizeTimer, confVars
  <2>2. \A o \in Shots : o # s => m_generation'[o] = m_generation[o] /\ m_is_active'[o] = m_is_active[o]
    BY <1>1, <1>21 DEF FinalizeTimer, Reschedule, Deactivate, flagVars, TypeInv, TypeOK
  <2>3. s \in Shots => \/ m_generation'[s] = m_generation[s] /\ m_is_active'[s] = m_is_active[s]
                       \/ ~m_is_active'[s]
    BY <1>1, <1>19, <1>21 DEF FinalizeTimer, Reschedule, Deactivate, flagVars, TypeInv, TypeOK
  <2> QED
    BY <1>19, <1>21, <2>1, <2>2, <2>3 DEF FinalizeTimer, ShotsCalm, Making
<1> QED
  BY <1>2, <1>6, <1>7, <1>8, <1>9, <1>10, <1>11, <1>12, <1>13, <1>14, <1>15, <1>16, <1>17, <1>18, <1>20, <1>21
     DEF Next, Progress, ApiCall, StopScheduler, DestroyScheduler

LEMMA ShotsNext == ShotsInv /\ [Next]_vars => ShotsInv'
  BY TicketNext, ShapeNext, PositiveNext, ShotNext, TypeInvNext DEF ShotsInv, TicketInv

---------------------------------------------------------------------------
(* The registry never expires                                              *)

\* What holds a registered state: its Timer, or, for a helper, its callback,
\* the call that is making it or the lambda that is about to unregister it.
\* What stop() has taken over is registered no more, and never will be.
RegInv ==
    /\ \A s \in m_timers :
         /\ life[s] # "fresh"
         /\ s \in Timers => life[s] # "dead"
         /\ s \in Shots => \/ m_callback[s]
                           \/ \E th \in Threads : call[th].op = "arm" /\ call[th].state = s
                           \/ \E th \in Threads : pc[th] = "erase" /\ cur[th].state = s
    /\ \A th \in Threads : \A s \in call[th].orphans : s \notin m_timers /\ life[s] # "fresh"

RegistryInv == TypeInv /\ ShapeInv /\ RegInv

\* A step that registers nothing and lets go of nothing that stays registered.
RegCalm ==
    /\ m_timers' \subseteq m_timers
    /\ \A s \in States : /\ life'[s] = "fresh" => life[s] = "fresh"
                         /\ s \in m_timers' /\ s \in Timers /\ life'[s] = "dead" => life[s] = "dead"
    /\ \A s \in m_timers' \cap Shots : m_callback[s] => m_callback'[s]
    /\ \A th \in Threads : call[th].op = "arm" => call'[th] = call[th] \/ m_callback'[call[th].state]
    /\ \A th \in Threads : pc[th] = "erase" =>
         (pc'[th] = "erase" /\ cur'[th] = cur[th]) \/ cur[th].state \notin m_timers'
    /\ \A th \in Threads : \A s \in call'[th].orphans :
         s \in call[th].orphans \/ (s \in Orphans /\ s \notin m_timers')

LEMMA RegCalmKeeps == TypeInv /\ TypeInv' /\ RegInv /\ RegCalm => RegInv'
<1> SUFFICES ASSUME TypeInv, TypeInv', RegInv, RegCalm PROVE RegInv'
  OBVIOUS
<1>1. ASSUME NEW s \in m_timers'
      PROVE  /\ life'[s] # "fresh"
             /\ s \in Timers => life'[s] # "dead"
             /\ s \in Shots => \/ m_callback'[s]
                               \/ \E th \in Threads : call'[th].op = "arm" /\ call'[th].state = s
                               \/ \E th \in Threads : pc'[th] = "erase" /\ cur'[th].state = s
  <2>1. s \in m_timers /\ s \in States
    BY <1>1 DEF RegCalm, TypeInv, TypeOK
  <2> QED
    BY <1>1, <2>1 DEF RegInv, RegCalm
<1>2. ASSUME NEW th \in Threads, NEW s \in call'[th].orphans
      PROVE  s \notin m_timers' /\ life'[s] # "fresh"
  <2>1. s \in States
    BY <1>2 DEF TypeInv, TypeOK, Call
  <2>2. (s \in call[th].orphans /\ s \notin m_timers) \/ (s \in m_timers /\ s \notin m_timers')
    BY <1>2 DEF RegInv, RegCalm, Orphans
  <2> QED
    BY <1>2, <2>1, <2>2 DEF RegInv, RegCalm
<1> QED
  BY <1>1, <1>2 DEF RegInv

\* What becomes of the orphans that stop() has taken over: it drops them one by
\* one.
LEMMA SetOrphans ==
    ASSUME TypeOK, NEW th \in Threads, NEW s,
           \/ SetCall(th, [call[th] EXCEPT !.op = "orphans", !.worker = Nil])
           \/ SetCall(th, [call[th] EXCEPT !.orphans = @ \ {s}])
    PROVE  /\ \A o \in Threads \ {th} : call'[o] = call[o]
           /\ call'[th].orphans \subseteq call[th].orphans
<1> DEFINE c == [call[th] EXCEPT !.op = "orphans", !.worker = Nil]
           d == [call[th] EXCEPT !.orphans = @ \ {s}]
<1>1. call[th] \in Call
  BY DEF TypeOK
<1>2. c.orphans \subseteq call[th].orphans /\ d.orphans \subseteq call[th].orphans
  BY <1>1 DEF Call
<1> HIDE DEF c, d
<1>3. call'[th] \in {c, d} /\ \A o \in Threads \ {th} : call'[o] = call[o]
  BY DEF SetCall, TypeOK, c, d
<1> QED
  BY <1>2, <1>3

LEMMA StopSetsNoOrphans ==
    ASSUME TypeOK, NEW th \in Threads, StopReturns(th)
    PROVE  /\ \A o \in Threads \ {th} : call'[o] = call[o]
           /\ call'[th].orphans \subseteq call[th].orphans
<1> DEFINE c == IF closed = "begun" THEN [NoCall EXCEPT !.op = "teardown"] ELSE NoCall
<1>1. c.orphans = {}
  BY DEF NoCall
<1> HIDE DEF c
<1> QED
  BY <1>1 DEF StopReturns, SetCall, TypeOK, c

LEMMA RegistryInit == Init => RegistryInv
  BY TypeInvInit, ShapeInit, CallFields DEF Init, RegistryInv, RegInv

LEMMA RegNext == RegistryInv /\ TypeInv' /\ [Next]_vars => RegInv'
<1> SUFFICES ASSUME RegistryInv, TypeInv', [Next]_vars PROVE RegInv'
  OBVIOUS
<1> USE SchedulerAssumption, StatesType
<1>1. TypeInv /\ ShapeInv /\ RegInv
  BY DEF RegistryInv
<1>2. RegCalm => RegInv'
  BY <1>1, RegCalmKeeps
<1>3. ASSUME NEW th \in Threads, NEW c, SetCall(th, c)
      PROVE  \A o \in Threads : call'[o] = IF o = th THEN c ELSE call[o]
  BY <1>1, <1>3 DEF SetCall, TypeInv, TypeOK
<1>4. ASSUME NEW th \in Threads, NEW c, SetCall(th, c), c.orphans = {}, call[th].op # "arm",
             UNCHANGED <<m_timers, life, m_callback, pc, cur>>
      PROVE  RegCalm
  BY <1>3, <1>4 DEF RegCalm
<1>5. ASSUME UNCHANGED <<m_timers, life, m_callback, call>>,
             \A th \in Threads : pc[th] = "erase" => pc'[th] = "erase" /\ cur'[th] = cur[th]
      PROVE  RegCalm
  BY <1>5 DEF RegCalm
<1>6. ASSUME NEW th \in Threads, WaitReturns(th) \/ Drained(th) \/ Disown(th) PROVE RegCalm
  BY <1>4, <1>6, CallFields DEF WaitReturns, Drained, Disown, Return, stateVars, schedVars, execVars
<1>7. ASSUME NEW th \in Threads, Own(th) \/ StartTimer(th) PROVE RegCalm
  <2>1. SetCall(th, NoCall) /\ UNCHANGED <<m_timers, m_callback, pc, cur>> /\ call[th].op # "arm"
    BY <1>7 DEF Own, StartTimer, Return, schedVars, execVars
  <2>2. \A s \in States : life'[s] = life[s] \/ life'[s] = "alive"
    BY <1>1, <1>7 DEF Own, StartTimer, TypeInv, TypeOK
  <2> QED
    BY <1>3, <2>1, <2>2, CallFields DEF RegCalm
<1>8. ASSUME NEW th \in Threads, ClearCallback(th) PROVE RegCalm
  <2>1. SetCall(th, On("erase", call[th].state)) /\ UNCHANGED <<m_timers, life, pc, cur>> /\ call[th].op = "clear"
    BY <1>8 DEF ClearCallback, schedVars, execVars
  <2>2. call[th].state \in Timers
    BY <1>1, <2>1 DEF ShapeInv, CallShape, TimerOps
  <2>6. m_callback' = [m_callback EXCEPT ![call[th].state] = FALSE] /\ m_callback \in [States -> BOOLEAN]
    BY <1>1, <1>8 DEF ClearCallback, TypeInv, TypeOK
  <2>3. ASSUME NEW s \in Shots PROVE m_callback'[s] = m_callback[s]
    <3>1. s \in States /\ s # call[th].state
      BY <2>2
    <3> QED
      BY <2>6, <3>1
  <2>4. \A o \in Threads : call[o].op = "arm" => call'[o] = call[o]
    BY <1>3, <2>1
  <2>5. \A o \in Threads : call'[o].orphans \subseteq call[o].orphans
    BY <1>3, <2>1, CallFields
  <2> QED
    BY <2>1, <2>3, <2>4, <2>5 DEF RegCalm
<1>9. ASSUME NEW th \in Threads, Erase(th) PROVE RegCalm
  <2>1. /\ SetCall(th, NoCall) /\ UNCHANGED <<m_callback, pc, cur>> /\ call[th].op # "arm"
        /\ m_timers' = m_timers \ {call[th].state}
    BY <1>9 DEF Erase, Return, Unregister, execVars
  <2>2. \A s \in States : life'[s] = IF s = call[th].state THEN "dead" ELSE life[s]
    BY <1>1, <1>9 DEF Erase, TypeInv, TypeOK
  <2>3. \A o \in Threads : /\ call'[o].orphans \subseteq call[o].orphans
                           /\ call[o].op = "arm" => call'[o] = call[o]
    BY <1>3, <2>1, CallFields
  <2>4. call[th].state \in Timers
    BY <1>1, <1>9 DEF Erase, ShapeInv, CallShape, TimerOps
  <2> QED
    BY <2>1, <2>2, <2>3, <2>4 DEF RegCalm
<1>10. ASSUME NEW th \in Threads, ArmShot(th) PROVE RegCalm
  <2> DEFINE c == At("push", call[th].state, now + call[th].time)
  <2>1. /\ SetCall(th, c) /\ UNCHANGED <<m_timers, life, pc, cur>>
        /\ call[th].state \in States
    BY <1>1, <1>10 DEF ArmShot, schedVars, execVars, TypeInv, CallOK, StateOps
  <2>2. \A s \in States : m_callback'[s] = IF s = call[th].state THEN TRUE ELSE m_callback[s]
    BY <1>1, <1>10, <2>1 DEF ArmShot, TypeInv, TypeOK
  <2>3. \A o \in Threads : /\ call'[o].orphans \subseteq call[o].orphans
                           /\ o = th \/ call'[o] = call[o]
    BY <1>3, <2>1, CallFields
  <2> QED
    BY <2>1, <2>2, <2>3 DEF RegCalm
<1>11. ASSUME NEW th \in Threads, StopJoined(th) PROVE RegCalm
  <2>1. UNCHANGED <<m_timers, life, m_callback, pc, cur>> /\ call[th].op = "join"
    BY <1>11 DEF StopJoined, schedVars, stateVars, execVars
  <2>2. /\ \A o \in Threads \ {th} : call'[o] = call[o]
        /\ call'[th].orphans \subseteq call[th].orphans
    BY <1>1, <1>11, SetOrphans, StopSetsNoOrphans DEF StopJoined, TypeInv, TypeOK
  <2> QED
    BY <2>1, <2>2 DEF RegCalm
<1>12. ASSUME NEW th \in Threads, ClearOrphan(th) PROVE RegCalm
  <2>1. UNCHANGED <<m_timers, life, pc, cur>> /\ call[th].op = "orphans"
    BY <1>12 DEF ClearOrphan, schedVars, execVars
  <2>2. PICK s \in call[th].orphans :
          /\ m_callback' = [m_callback EXCEPT ![s] = FALSE]
          /\ IF call[th].orphans = {s} THEN StopReturns(th)
             ELSE SetCall(th, [call[th] EXCEPT !.orphans = @ \ {s}])
    BY <1>12 DEF ClearOrphan
  <2>3. /\ \A o \in Threads \ {th} : call'[o] = call[o]
        /\ call'[th].orphans \subseteq call[th].orphans
    BY <1>1, <2>2, SetOrphans, StopSetsNoOrphans DEF TypeInv, TypeOK
  <2>4. s \notin m_timers
    BY <1>1 DEF RegInv
  <2>5. \A o \in States \ {s} : m_callback'[o] = m_callback[o]
    BY <1>1, <2>2 DEF TypeInv, TypeOK
  <2> QED
    BY <2>1, <2>3, <2>4, <2>5 DEF RegCalm
<1>13. ASSUME NEW th \in Threads, Teardown(th) PROVE RegCalm
  <2>1. m_timers' = {} /\ UNCHANGED <<life, pc, cur>> /\ SetCall(th, NoCall) /\ call[th].op = "teardown"
    BY <1>13 DEF Teardown, Return, execVars
  <2> QED
    BY <1>3, <2>1, CallFields DEF RegCalm
<1>14. ASSUME NEW th \in Threads, FetchCallback(th) \/ CallbackReturns(th) \/ CallbackThrows(th) \/ FinalizeTimer(th)
       PROVE  RegCalm
  <2>1. UNCHANGED <<m_timers, life, m_callback, call>>
    BY <1>14 DEF FetchCallback, CallbackReturns, CallbackThrows, FinalizeTimer, stateVars, schedVars
  <2>2. pc[th] # "erase" /\ \A o \in Threads \ {th} : pc'[o] = pc[o] /\ cur'[o] = cur[o]
    BY <1>1, <1>14 DEF FetchCallback, CallbackReturns, CallbackThrows, FinalizeTimer, TypeInv, TypeOK
  <2> QED
    BY <1>5, <2>1, <2>2
<1>15. ASSUME NEW th \in Threads, ShotClears(th) PROVE RegInv'
  <2> DEFINE s == cur[th].state
  <2>1. /\ UNCHANGED <<m_timers, life, call, cur>>
        /\ \A o \in Threads : pc'[o] = IF o = th THEN "erase" ELSE pc[o]
    BY <1>1, <1>15 DEF ShotClears, schedVars, TypeInv, TypeOK
  <2>2. \A o \in States \ {s} : m_callback'[o] = m_callback[o]
    BY <1>1, <1>15 DEF ShotClears, TypeInv, TypeOK
  <2>3. m_timers \subseteq States
    BY <1>1 DEF TypeInv, TypeOK
  <2> QED
    BY <1>1, <2>1, <2>2, <2>3 DEF RegInv
<1>16. ASSUME NEW th \in Threads, ShotErases(th) PROVE RegCalm
  <2>1. /\ UNCHANGED <<call, cur, m_callback>> /\ m_timers' = m_timers \ {cur[th].state}
        /\ \A o \in Threads \ {th} : pc'[o] = pc[o]
    BY <1>1, <1>16 DEF ShotErases, Unregister, TypeInv, TypeOK
  <2>2. \A s \in States : life'[s] = IF s = cur[th].state THEN "dead" ELSE life[s]
    BY <1>1, <1>16 DEF ShotErases, TypeInv, TypeOK
  <2> QED
    BY <2>1, <2>2 DEF RegCalm
<1>17. ASSUME NEW th \in Threads, NEW s \in States, NEW c, SetCall(th, c), CreateTimerState(s), c.orphans = {},
              c.state = s, s \in Shots => c.op = "arm", call[th].op = "none", UNCHANGED <<m_callback, pc, cur>>
       PROVE  RegInv'
  <2>1. /\ m_timers' = m_timers \cup {s} /\ life[s] = "fresh"
        /\ \A o \in States : life'[o] = IF o = s THEN "building" ELSE life[o]
    BY <1>1, <1>17 DEF CreateTimerState, TypeInv, TypeOK
  <2>2. \A o \in Threads : call'[o] = IF o = th THEN c ELSE call[o]
    BY <1>3, <1>17
  <2>3. m_timers \subseteq States /\ \A o \in Threads : call[o].orphans \subseteq States
    BY <1>1 DEF TypeInv, TypeOK, Call
  <2>4. ASSUME NEW o \in Threads, NEW r \in call'[o].orphans PROVE r \notin m_timers' /\ life'[r] # "fresh"
    BY <1>1, <1>17, <2>1, <2>2, <2>3, <2>4 DEF RegInv
  <2>5. ASSUME NEW r \in m_timers, r \in Shots
        PROVE  \/ m_callback'[r]
               \/ \E o \in Threads : call'[o].op = "arm" /\ call'[o].state = r
               \/ \E o \in Threads : pc'[o] = "erase" /\ cur'[o].state = r
    <3>1. \A o \in Threads : call[o].op = "arm" => call'[o] = call[o]
      BY <1>17, <2>2
    <3> QED
      BY <1>1, <1>17, <2>5, <3>1 DEF RegInv
  <2>6. s \in Shots => \E o \in Threads : call'[o].op = "arm" /\ call'[o].state = s
    BY <1>17, <2>2
  <2> QED
    BY <1>1, <2>1, <2>3, <2>4, <2>5, <2>6 DEF RegInv
<1>18. ASSUME NEW th \in Threads, NEW t \in Timers, Construct(th, t) PROVE RegInv'
  <2>1. t \in States /\ t \notin Shots
    OBVIOUS
  <2> QED
    BY <1>17, <1>18, <2>1, CallFields DEF Construct, CanCall, execVars
<1>19. ASSUME NEW th \in Threads, NEW s \in Shots, NEW i \in Intervals, SingleShot(th, s, i) PROVE RegInv'
  BY <1>17, <1>19, CallFields DEF SingleShot, CanCall, execVars
<1>20. ASSUME NEW th \in Threads, NEW t \in Timers, Start(th, t) \/ StopAndWait(th, t) PROVE RegCalm
  BY <1>4, <1>20, CallFields DEF Start, StopAndWait, CanCall, stateVars, schedVars, execVars
<1>21. ASSUME NEW th \in Threads, NEW t \in Timers, Destroy(th, t) PROVE RegCalm
  <2> DEFINE c == On(IF CurrentTimerState(th) = t THEN "disown" ELSE "drain", t)
  <2>1. SetCall(th, c) /\ c.orphans = {} /\ call[th].op = "none" /\ UNCHANGED <<m_timers, m_callback, pc, cur>>
    BY <1>21, CallFields DEF Destroy, CanCall, schedVars, execVars
  <2>2. \A s \in States : life'[s] = IF s = t THEN "closing" ELSE life[s]
    BY <1>1, <1>21 DEF Destroy, TypeInv, TypeOK
  <2>3. \A o \in Threads : /\ call'[o].orphans \subseteq call[o].orphans
                           /\ call[o].op = "arm" => call'[o] = call[o]
    BY <1>3, <2>1
  <2> QED
    BY <2>1, <2>2, <2>3 DEF RegCalm
<1>22. ASSUME NEW th \in Threads, RequestStop(th) PROVE RegCalm
  <2> DEFINE c == [NoCall EXCEPT !.op = "join", !.orphans = Orphans,
                      !.worker = IF m_is_worker_running THEN m_thread ELSE Nil]
  <2>1. /\ SetCall(th, c) /\ m_timers' = m_timers \ Orphans /\ call[th].op = "none"
        /\ UNCHANGED <<life, m_callback, pc, cur>>
    BY <1>22 DEF RequestStop, CanCall, stateVars, execVars
  <2>2. c.orphans = Orphans
    BY DEF NoCall
  <2>3. \A o \in Threads : call'[o] = IF o = th THEN c ELSE call[o]
    BY <1>3, <2>1
  <2> HIDE DEF c
  <2> QED
    BY <2>1, <2>2, <2>3 DEF RegCalm
<1>23. ASSUME NEW th \in Threads, Run(th) \/ Process(th) PROVE RegCalm
  <2>1. UNCHANGED <<m_timers, life, m_callback, call, cur>>
    BY <1>23 DEF Run, Process, stateVars, schedVars
  <2>2. \A o \in Threads : pc[o] = "erase" => pc'[o] = "erase"
    BY <1>1, <1>23 DEF Run, Process, CollectDueTimers, TypeInv, TypeOK
  <2> QED
    BY <1>5, <2>1, <2>2
<1>24. ASSUME NEW w \in Workers, WorkerStep(w) PROVE RegCalm
  <2>1. UNCHANGED <<m_timers, life, m_callback, call, cur>> /\ pc[w] # "erase"
    BY <1>24 DEF WorkerStep, WorkerTop, WakeEmpty, WakeUntil
  <2>2. \A o \in Threads \ {w} : pc'[o] = pc[o]
    BY <1>1, <1>24 DEF WorkerStep, WorkerTop, WakeEmpty, WakeUntil, WorkerLoop, CollectDueTimers, TypeInv, TypeOK
  <2> QED
    BY <1>5, <2>1, <2>2
<1>25. ASSUME NEW t \in Timers, Configure(t) PROVE RegCalm
  <2>1. UNCHANGED <<m_timers, life, call, pc, cur>>
    BY <1>25 DEF Configure, SetInterval, SetSingleShot, SetCallback, Stop, schedVars, threadVars, execVars
  <2>2. \A s \in Shots : m_callback'[s] = m_callback[s]
    BY <1>1, <1>25 DEF Configure, SetInterval, SetSingleShot, SetCallback, Stop, TypeInv, TypeOK
  <2> QED
    BY <2>1, <2>2 DEF RegCalm
<1>26. CASE Tick \/ UNCHANGED vars
  BY <1>2, <1>5, <1>26 DEF Tick, vars, stateVars, schedVars, threadVars, execVars
<1> QED
  BY <1>2, <1>6, <1>7, <1>8, <1>9, <1>10, <1>11, <1>12, <1>13, <1>14, <1>15, <1>16, <1>18, <1>19,
     <1>20, <1>21, <1>22, <1>23, <1>24, <1>25, <1>26
     DEF Next, Progress, ApiCall, StopScheduler, DestroyScheduler

LEMMA RegistryNext == RegistryInv /\ [Next]_vars => RegistryInv'
  BY TypeInvNext, ShapeNext, RegNext DEF RegistryInv

\* The weak pointers of m_timers never expire: whatever is registered is held
\* by its Timer, or by the callback, the maker or the executor of a helper
\* (create_timer_state, single_shot, destroy_timer_state, stop()).
THEOREM RegistryIsHeld == Spec => []RegistryNeverExpires
<1>1. RegistryInv => RegistryNeverExpires
  <2> SUFFICES ASSUME RegistryInv, NEW s \in m_timers PROVE Referenced(s)
    BY DEF RegistryNeverExpires
  <2>1. s \in States /\ life[s] \in {"fresh", "building", "alive", "closing", "dead"}
    BY DEF RegistryInv, TypeInv, TypeOK
  <2>2. CASE s \in Timers
    BY <2>1, <2>2 DEF RegistryInv, RegInv, Referenced
  <2>3. ASSUME s \in Shots, NEW th \in Threads, pc[th] = "erase", cur[th].state = s PROVE Referenced(s)
    <3>1. cur[th] \in InFlight
      BY <2>3 DEF RegistryInv, TypeInv, ExecOK, Executing, InFlight
    <3> QED
      BY <2>3, <3>1 DEF Referenced
  <2>4. CASE s \in Shots
    BY <2>3, <2>4 DEF RegistryInv, RegInv, Referenced
  <2> QED
    BY <2>1, <2>2, <2>4 DEF States
<1> QED
  BY <1>1, RegistryInit, RegistryNext, PTL DEF Spec

---------------------------------------------------------------------------
(* stop() joins the worker                                                 *)

\* At most one thread starts, stops and destroys the scheduler.  The header says
\* nothing of several; two_stops.cfg shows what two of them can do.
OneStopper == \A a, b \in Stoppers \cup Closers : a = b

StopOps == {"join", "orphans", "teardown"}

Live(w) == pc[w] \notin {"unborn", "gone"}

\* A thread inside stop() is the one stopper, has taken m_thread, and once it
\* is past the join there is no worker.
JoinInv ==
    /\ \A w \in Workers : Live(w) =>
         \/ m_thread = w /\ m_is_worker_running
         \/ \E th \in Apps : call[th].op = "join" /\ call[th].worker = w
    /\ ~m_is_worker_running => m_thread = Nil
    /\ \A th \in Threads : call[th].op \in StopOps =>
         /\ th \in Stoppers \cup Closers /\ m_thread = Nil
         /\ call[th].op # "join" => \A w \in Workers : ~Live(w)

JoiningInv == TypeInv /\ ShapeInv /\ JoinInv

LEMMA JoiningInit == Init => JoiningInv
  BY TypeInvInit, ShapeInit, CallFields
     DEF Init, JoiningInv, JoinInv, Live, StopOps, Threads

\* A step that neither starts a worker nor has to do with stop().
JoinCalm ==
    /\ UNCHANGED <<m_thread, m_is_worker_running>>
    /\ \A w \in Workers : Live(w)' => Live(w)
    /\ \A th \in Threads : call'[th] # call[th] =>
         call[th].op \notin StopOps /\ call'[th].op \notin StopOps

\* When a call of stop() gets past the join no worker is left.
JoinStep ==
    \A th \in Threads : call[th].op = "join" /\ call'[th].op # "join"
        => \A w \in Workers : ~Live(w)

LEMMA JoinCalmKeeps == JoinInv /\ JoinCalm => JoinInv' /\ JoinStep
<1> SUFFICES ASSUME JoinInv, JoinCalm PROVE JoinInv' /\ JoinStep
  OBVIOUS
<1> USE SchedulerAssumption
<1>1. \A th \in Threads : call[th].op \in StopOps => call'[th] = call[th]
  BY DEF JoinCalm
<1>2. \A th \in Threads : call'[th].op \in StopOps => call'[th] = call[th]
  BY DEF JoinCalm
<1>3. JoinStep
  BY <1>1 DEF JoinStep, StopOps
<1>4. ASSUME NEW w \in Workers, Live(w)'
      PROVE  \/ m_thread' = w /\ m_is_worker_running'
             \/ \E th \in Apps : call'[th].op = "join" /\ call'[th].worker = w
  <2>1. Live(w) /\ Apps \subseteq Threads
    BY <1>4 DEF JoinCalm, Threads
  <2> QED
    BY <1>1, <2>1 DEF JoinInv, JoinCalm, StopOps
<1>5. ASSUME NEW th \in Threads, call'[th].op \in StopOps
      PROVE  /\ th \in Stoppers \cup Closers /\ m_thread' = Nil
             /\ call'[th].op # "join" => \A w \in Workers : ~Live(w)'
  <2>1. call[th] = call'[th] /\ m_thread' = m_thread
    BY <1>2, <1>5 DEF JoinCalm
  <2>2. \A w \in Workers : ~Live(w) => ~Live(w)'
    BY DEF JoinCalm, Live
  <2> QED
    BY <1>5, <2>1, <2>2 DEF JoinInv, Live
<1> QED
  BY <1>3, <1>4, <1>5 DEF JoinInv, JoinCalm, Live

LEMMA JoinNext ==
    ASSUME OneStopper, JoiningInv, TypeInv', [Next]_vars
    PROVE  JoinInv' /\ JoinStep
<1> USE SchedulerAssumption, StatesType
<1>1. /\ TypeInv /\ ShapeInv /\ JoinInv
      /\ Workers \subseteq Threads /\ Apps \subseteq Threads /\ Stoppers \cup Closers \subseteq Apps
  BY DEF JoiningInv, Threads
<1>2. JoinCalm => JoinInv' /\ JoinStep
  BY <1>1, JoinCalmKeeps
<1>3. ASSUME NEW th \in Threads, NEW c, SetCall(th, c)
      PROVE  \A o \in Threads : call'[o] = IF o = th THEN c ELSE call[o]
  BY <1>1, <1>3 DEF SetCall, TypeInv, TypeOK
<1>4. ASSUME NEW th \in Threads, NEW c, SetCall(th, c), c.op \notin StopOps, call[th].op \notin StopOps,
             UNCHANGED <<m_thread, m_is_worker_running, pc>>
      PROVE  JoinCalm
  BY <1>3, <1>4 DEF JoinCalm, Live
<1>5. ASSUME UNCHANGED <<m_thread, m_is_worker_running, call>>,
             \A w \in Workers : pc'[w] \notin {"unborn", "gone"} => pc[w] \notin {"unborn", "gone"}
      PROVE  JoinCalm
  BY <1>5 DEF JoinCalm, Live
<1>6. ASSUME NEW th \in Threads, Own(th) \/ StartTimer(th) \/ WaitReturns(th) \/ Erase(th) PROVE JoinCalm
  BY <1>4, <1>6, CallFields DEF Own, StartTimer, WaitReturns, Erase, Return, workerVars, execVars, StopOps
<1>7. ASSUME NEW th \in Threads, Drained(th) \/ Disown(th) \/ ClearCallback(th) \/ ArmShot(th) PROVE JoinCalm
  BY <1>4, <1>7, CallFields DEF Drained, Disown, ClearCallback, ArmShot, workerVars, execVars, StopOps
<1>8. ASSUME NEW th \in Threads, StopJoined(th) PROVE JoinInv' /\ JoinStep
  <2>1. call[th].op = "join" /\ call[th].op \in StopOps /\ m_thread = Nil /\ m_thread' = m_thread /\ pc' = pc
    BY <1>1, <1>8 DEF StopJoined, StopOps, JoinInv, execVars
  <2>2. ASSUME NEW w \in Workers PROVE ~Live(w)
    <3>1. SUFFICES ASSUME Live(w) PROVE FALSE
      OBVIOUS
    <3>2. PICK o \in Apps : call[o].op = "join" /\ call[o].worker = w
      BY <1>1, <2>1, <3>1 DEF JoinInv
    <3>3. o = th
      BY <1>1, <2>1, <3>2 DEF JoinInv, StopOps, OneStopper
    <3> QED
      BY <1>8, <3>1, <3>2, <3>3 DEF StopJoined, Joined, Live
  <2>3. \A o \in Threads : call'[o].op \in StopOps => o \in Stoppers \cup Closers
    BY <1>1, <1>8, <2>1 DEF StopJoined, StopReturns, SetCall, TypeInv, TypeOK, JoinInv
  <2>4. m_is_worker_running' = FALSE /\ \A w \in Workers : ~Live(w)'
    BY <1>8, <2>1, <2>2 DEF StopJoined, Live
  <2> QED
    BY <2>1, <2>2, <2>3, <2>4 DEF JoinInv, JoinStep
<1>9. ASSUME NEW th \in Threads, ClearOrphan(th) \/ Teardown(th) PROVE JoinInv' /\ JoinStep
  <2>1. /\ call[th].op \in StopOps /\ call[th].op # "join" 
        /\ UNCHANGED <<m_thread, m_is_worker_running, pc>>
    BY <1>9 DEF ClearOrphan, Teardown, StopOps, workerVars, execVars
  <2>2. /\ \A w \in Workers : ~Live(w)
        /\ m_thread = Nil /\ th \in Stoppers \cup Closers
    BY <1>1, <2>1 DEF JoinInv
  <2>3. \A o \in Threads : call'[o].op \in StopOps => o \in Stoppers \cup Closers
    BY <1>1, <1>9, <2>2 DEF ClearOrphan, Teardown, StopReturns, Return, SetCall, TypeInv, TypeOK, JoinInv
  <2>4. \A w \in Workers : ~Live(w)'
    BY <2>1, <2>2 DEF Live
  <2> QED
    BY <2>1, <2>2, <2>3, <2>4 DEF JoinInv, JoinStep
<1>10. ASSUME NEW th \in Stoppers, Run(th) PROVE JoinInv' /\ JoinStep
  <2>1. th \in Threads /\ call[th].op = "none" /\ UNCHANGED call
    BY <1>1, <1>10 DEF Run, CanCall
  <2>2. \A o \in Threads : call[o].op \notin StopOps
    BY <1>1, <2>1 DEF JoinInv, OneStopper, StopOps
  <2>3. \A w \in Workers : ~Live(w)
    BY <1>1, <1>10, <2>2 DEF Run, JoinInv, StopOps
  <2>4. PICK v \in Workers : pc' = [pc EXCEPT ![v] = "top"] /\ m_thread' = v
    BY <1>10 DEF Run
  <2>5. \A w \in Workers : Live(w)' => w = v
    BY <1>1, <2>3, <2>4 DEF Live, TypeInv, TypeOK
  <2>6. m_is_worker_running' = TRUE
    BY <1>10 DEF Run
  <2> QED
    BY <2>1, <2>2, <2>4, <2>5, <2>6 DEF JoinInv, JoinStep, StopOps
<1>11. ASSUME NEW th \in Stoppers \cup Closers, RequestStop(th) PROVE JoinInv' /\ JoinStep
  <2> DEFINE c == [NoCall EXCEPT !.op = "join", !.orphans = Orphans,
                      !.worker = IF m_is_worker_running THEN m_thread ELSE Nil]
  <2>1. /\ th \in Apps /\ th \in Threads /\ call[th].op = "none" /\ SetCall(th, c) /\ pc' = pc
        /\ m_is_worker_running' = m_is_worker_running
        /\ m_thread' = IF m_is_worker_running THEN Nil ELSE m_thread
    BY <1>1, <1>11 DEF RequestStop, CanCall, execVars
  <2>2. c.op = "join" /\ c.worker = IF m_is_worker_running THEN m_thread ELSE Nil
    BY DEF NoCall
  <2>3. \A o \in Threads : call'[o] = IF o = th THEN c ELSE call[o]
    BY <1>3, <2>1
  <2> HIDE DEF c
  <2>4. \A o \in Threads : call[o].op \notin StopOps
    BY <1>1, <2>1 DEF JoinInv, OneStopper, StopOps
  <2>5. m_thread' = Nil
    BY <1>1, <2>1 DEF JoinInv
  <2>6. ASSUME NEW w \in Workers, Live(w)' PROVE call'[th].op = "join" /\ call'[th].worker = w
    <3>1. m_thread = w /\ m_is_worker_running
      BY <1>1, <2>1, <2>4, <2>6 DEF JoinInv, Live, StopOps
    <3> QED
      BY <2>1, <2>2, <2>3, <3>1
  <2>7. ASSUME NEW o \in Threads, call'[o].op \in StopOps PROVE o = th /\ call'[o].op = "join"
    BY <2>2, <2>3, <2>4, <2>7
  <2>8. JoinStep
    BY <2>4 DEF JoinStep, StopOps
  <2> QED
    BY <2>1, <2>5, <2>6, <2>7, <2>8 DEF JoinInv
<1>12. ASSUME NEW th \in Threads, NEW t \in Timers,
              Construct(th, t) \/ Start(th, t) \/ StopAndWait(th, t) \/ Destroy(th, t)
       PROVE  JoinCalm
  BY <1>4, <1>12, CallFields DEF Construct, Start, StopAndWait, Destroy, CanCall, workerVars, execVars, StopOps
<1>13. ASSUME NEW th \in Threads, NEW s \in Shots, NEW i \in Intervals, SingleShot(th, s, i) PROVE JoinCalm
  BY <1>4, <1>13, CallFields DEF SingleShot, CanCall, workerVars, execVars, StopOps
<1>14. ASSUME NEW th \in Threads, Process(th) PROVE JoinCalm
  BY <1>1, <1>5, <1>14 DEF Process, CollectDueTimers, workerVars, TypeInv, TypeOK
<1>15. ASSUME NEW w \in Workers, WorkerStep(w) PROVE JoinCalm
  <2>1. UNCHANGED <<m_thread, m_is_worker_running, call>> /\ pc[w] \in {"top", "waitEmpty", "waitUntil"}
    BY <1>15 DEF WorkerStep, WorkerTop, WakeEmpty, WakeUntil, workerVars
  <2>2. \A o \in Threads \ {w} : pc'[o] = pc[o]
    BY <1>1, <1>15 DEF WorkerStep, WorkerTop, WakeEmpty, WakeUntil, WorkerLoop, CollectDueTimers, TypeInv, TypeOK
  <2> QED
    BY <1>1, <1>5, <2>1, <2>2
<1>16. ASSUME NEW th \in Threads,
              \/ FetchCallback(th) \/ CallbackReturns(th) \/ CallbackThrows(th)
              \/ ShotClears(th) \/ ShotErases(th) \/ FinalizeTimer(th)
       PROVE  JoinCalm
  <2>1. UNCHANGED <<m_thread, m_is_worker_running, call>> /\ pc[th] \in Executing \cup {"exec"}
    BY <1>16 DEF FetchCallback, CallbackReturns, CallbackThrows, ShotClears, ShotErases, FinalizeTimer,
       workerVars, Executing
  <2>2. \A o \in Threads \ {th} : pc'[o] = pc[o]
    BY <1>1, <1>16 DEF FetchCallback, CallbackReturns, CallbackThrows, ShotClears, ShotErases, FinalizeTimer,
       TypeInv, TypeOK
  <2> QED
    BY <1>1, <1>5, <2>1, <2>2 DEF Executing
<1>17. ASSUME NEW t \in Timers, Configure(t) PROVE JoinCalm
  BY <1>5, <1>17 DEF Configure, SetInterval, SetSingleShot, SetCallback, Stop, workerVars, threadVars, execVars
<1>18. CASE Tick \/ UNCHANGED vars
  BY <1>2, <1>5, <1>18 DEF Tick, vars, workerVars, threadVars, execVars
<1> QED
  BY <1>2, <1>6, <1>7, <1>8, <1>9, <1>10, <1>11, <1>12, <1>13, <1>14, <1>15, <1>16, <1>17, <1>18
     DEF Next, Progress, ApiCall, StopScheduler, DestroyScheduler

LEMMA JoiningNext ==
    ASSUME OneStopper
    PROVE  JoiningInv /\ [Next]_vars => JoiningInv' /\ JoinStep
  BY TypeInvNext, ShapeNext, JoinNext DEF JoiningInv

\* With one thread that starts and stops the scheduler a worker that has not
\* exited is held by m_thread or by the stop() that will join it: run() never
\* assigns to a joinable std::thread.
THEOREM WorkersAreJoined == OneStopper => (Spec => []WorkerHasJoiner)
<1> SUFFICES ASSUME OneStopper PROVE Spec => []WorkerHasJoiner
  OBVIOUS
<1>1. JoiningInv => WorkerHasJoiner
  BY DEF JoiningInv, JoinInv, WorkerHasJoiner, Live
<1>2. JoiningInv /\ [Next]_vars => JoiningInv'
  BY JoiningNext
<1> QED
  BY <1>1, <1>2, JoiningInit, PTL DEF Spec

\* With one such thread stop() gets past its join only when no worker is left.
THEOREM StopJoinsTheWorker == OneStopper => (Spec => StopJoinsWorker)
<1> SUFFICES ASSUME OneStopper PROVE Spec => StopJoinsWorker
  OBVIOUS
<1>1. JoiningInv /\ [Next]_vars => JoiningInv'
  BY JoiningNext
<1>2. JoiningInv /\ [Next]_vars =>
        [\A th \in Threads : call[th].op = "join" /\ call'[th].op # "join"
           => \A w \in Workers : pc[w] \in {"unborn", "gone"}]_vars
  BY JoiningNext DEF JoinStep, Live
<1> QED
  BY <1>1, <1>2, JoiningInit, PTL DEF Spec, StopJoinsWorker

---------------------------------------------------------------------------
(* stop_and_wait() drains                                                  *)

\* One thread at a time executes timers: the worker, when nobody calls
\* process(), or else the one thread that calls it.  With several of them
\* finalize_timer clears m_is_running under a callback that still runs.
OneExecutor ==
    /\ OneStopper
    /\ Pollers = {} \/ (Stoppers = {} /\ \A a, b \in Pollers : a = b)

Busy(th) == pc[th] \in Executing \cup {"exec"}

\* Application threads execute only by process(), workers exist only by run(),
\* and m_is_running tells of every entry a thread has collected.
DrainInv ==
    /\ \A th \in Apps \ Pollers : pc[th] = "idle"
    /\ Stoppers = {} => ~m_is_worker_running /\ \A w \in Workers : pc[w] = "unborn"
    /\ \A th \in Threads : \A e \in batch[th] : m_is_running[e.state]

DrainingInv == TicketInv /\ JoiningInv /\ DrainInv

LEMMA DrainingInit == Init => DrainingInv
  BY SchedulerAssumption, TicketInit, JoiningInit DEF Init, DrainingInv, DrainInv, Threads

\* There is one live worker at most.
LEMMA OneLiveWorker ==
    ASSUME OneStopper, JoiningInv, NEW v \in Workers, NEW w \in Workers, Live(v), Live(w)
    PROVE  v = w
<1>1. /\ Apps \subseteq Threads /\ Nil \notin Workers
      /\ JoinInv
  BY SchedulerAssumption DEF JoiningInv, Threads
<1>2. CASE m_thread = v
  BY <1>1, <1>2 DEF JoinInv, StopOps
<1>3. CASE \E th \in Apps : call[th].op = "join" /\ call[th].worker = v
  BY <1>1, <1>3 DEF JoinInv, StopOps, OneStopper
<1> QED
  BY <1>1, <1>2, <1>3 DEF JoinInv

\* Hence one thread at most that has collected entries or is about to.
LEMMA OneBusyThread ==
    ASSUME OneExecutor, DrainingInv, NEW a \in Threads, NEW b \in Threads, Busy(b),
           Busy(a) \/ (a \in Workers /\ Live(a)) \/ (a \in Pollers /\ ~m_is_worker_running)
    PROVE  a = b
<1> USE SchedulerAssumption
<1>1. /\ Busy(b) => b \in Pollers \/ (b \in Workers /\ Live(b))
      /\ Busy(a) => a \in Pollers \/ (a \in Workers /\ Live(a))
  BY DEF DrainingInv, DrainInv, Busy, Executing, Threads, Live
<1>2. OneStopper /\ JoiningInv
  BY DEF OneExecutor, DrainingInv
<1>3. CASE Pollers = {}
  BY <1>1, <1>2, <1>3, OneLiveWorker
<1>4. CASE Stoppers = {} /\ \A c, d \in Pollers : c = d
  <2>1. \A w \in Workers : ~Live(w)
    BY <1>4 DEF DrainingInv, DrainInv, Live
  <2> QED
    BY <1>1, <1>4, <2>1
<1> QED
  BY <1>3, <1>4 DEF OneExecutor

\* A step that collects nothing, clears no m_is_running and starts nobody.
DrainCalm ==
    /\ \A th \in Threads : batch'[th] \subseteq batch[th] /\ (pc[th] = "idle" => pc'[th] = "idle")
    /\ \A w \in Workers : pc[w] = "unborn" => pc'[w] = "unborn"
    /\ m_is_worker_running' => m_is_worker_running
    /\ UNCHANGED m_is_running

LEMMA DrainCalmKeeps == DrainInv /\ DrainCalm => DrainInv'
  BY DEF DrainInv, DrainCalm, Threads

LEMMA CollectDrains ==
    ASSUME OneExecutor, DrainingInv, NEW th \in Threads, NEW rest, CollectDueTimers(th, rest)
    PROVE  /\ \A o \in Threads : \A e \in batch'[o] : m_is_running'[e.state]
           /\ \A o \in Threads \ {th} : pc'[o] = pc[o]
<1>1. TypeOK /\ DrainInv
  BY DEF DrainingInv, TicketInv, TypeInv
<1> DEFINE due == {e \in DueEntries : IsLive(e)}
<1>2. /\ \A o \in Threads : batch'[o] = IF o = th THEN due ELSE batch[o]
      /\ \A o \in Threads \ {th} : pc'[o] = pc[o]
  BY <1>1 DEF CollectDueTimers, TypeOK
<1>3. MarkRunning(due)
  BY DEF CollectDueTimers
<1>4. due \subseteq Entry /\ \A o \in Threads : batch[o] \subseteq Entry
  BY <1>1 DEF TypeOK, DueEntries
<1>5. \A e \in due : m_is_running'[e.state]
  BY <1>3, <1>4 DEF MarkRunning, Entry
<1>6. \A s \in States : m_is_running[s] => m_is_running'[s]
  BY <1>3 DEF MarkRunning
<1>7. \A o \in Threads : \A e \in batch[o] : m_is_running'[e.state]
  BY <1>1, <1>4, <1>6 DEF DrainInv, Entry
<1> QED
  BY <1>2, <1>5, <1>7

LEMMA DrainNext ==
    ASSUME OneExecutor, DrainingInv, TypeInv', [Next]_vars
    PROVE  DrainInv'
<1> USE SchedulerAssumption, StatesType
<1>1. /\ TypeInv /\ ShapeInv /\ DrainInv /\ Once
      /\ Workers \subseteq Threads /\ Apps \subseteq Threads /\ Pollers \subseteq Apps
  BY DEF DrainingInv, TicketInv, JoiningInv, Threads
<1>2. DrainCalm => DrainInv'
  BY <1>1, DrainCalmKeeps
<1>3. ASSUME UNCHANGED <<batch, pc, m_is_running, m_is_worker_running>> PROVE DrainCalm
  BY <1>3 DEF DrainCalm
<1>4. ASSUME NEW th \in Threads,
             \/ Own(th) \/ StartTimer(th) \/ WaitReturns(th) \/ Drained(th) \/ Disown(th)
             \/ ClearCallback(th) \/ Erase(th) \/ ArmShot(th) \/ ClearOrphan(th) \/ Teardown(th)
      PROVE  DrainCalm
  BY <1>3, <1>4 DEF Own, StartTimer, WaitReturns, Drained, Disown, ClearCallback, Erase, ArmShot,
     ClearOrphan, Teardown, workerVars, stateVars, execVars
<1>5. ASSUME NEW th \in Threads, StopJoined(th) PROVE DrainCalm
  BY <1>5 DEF StopJoined, DrainCalm, stateVars, execVars
<1>6. ASSUME NEW th \in Threads,
             FetchCallback(th) \/ CallbackReturns(th) \/ CallbackThrows(th) \/ ShotClears(th) \/ ShotErases(th)
      PROVE  DrainCalm
  <2>1. UNCHANGED <<batch, m_is_running, m_is_worker_running>> /\ pc[th] \notin {"idle", "unborn"}
    BY <1>6 DEF FetchCallback, CallbackReturns, CallbackThrows, ShotClears, ShotErases, workerVars, stateVars
  <2>2. \A o \in Threads \ {th} : pc'[o] = pc[o]
    BY <1>1, <1>6 DEF FetchCallback, CallbackReturns, CallbackThrows, ShotClears, ShotErases, TypeInv, TypeOK
  <2> QED
    BY <1>1, <2>1, <2>2 DEF DrainCalm
<1>7. ASSUME NEW th \in Threads, FinalizeTimer(th) PROVE DrainInv'
  <2>1. Busy(th) /\ cur[th] \in batch[th] /\ m_is_worker_running' = m_is_worker_running
    BY <1>1, <1>7 DEF FinalizeTimer, Busy, Executing, TypeInv, ExecOK, workerVars
  <2>2. /\ \A o \in Threads : batch'[o] = IF o = th THEN batch[o] \ {cur[th]} ELSE batch[o]
        /\ \A o \in Threads \ {th} : pc'[o] = pc[o]
        /\ pc'[th] = "idle" \/ pc[th] # "idle"
        /\ \A s \in States : s # cur[th].state => m_is_running'[s] = m_is_running[s]
    BY <1>1, <1>7 DEF FinalizeTimer, TypeInv, TypeOK
  <2>3. ASSUME NEW o \in Threads, NEW e \in batch'[o] PROVE m_is_running'[e.state]
    <3>1. e \in batch[o] /\ e.state \in States
      BY <1>1, <2>2, <2>3 DEF TypeInv, TypeOK, Entry
    <3>2. Busy(o)
      BY <1>1, <3>1 DEF TypeInv, ExecOK, Busy
    <3>3. o = th
      BY <2>1, <3>2, OneBusyThread
    <3>4. e # cur[th] /\ e.state # cur[th].state
      BY <1>1, <2>1, <2>2, <2>3, <3>1, <3>3, ZenonT(90) DEF Once
    <3> QED
      BY <1>1, <2>2, <3>1, <3>4 DEF DrainInv
  <2>4. th \notin Apps \ Pollers /\ (Stoppers = {} => th \notin Workers)
    BY <1>1, <1>7 DEF FinalizeTimer, DrainInv
  <2>5. \A o \in Apps \ Pollers : pc'[o] = "idle"
    BY <1>1, <2>2, <2>4 DEF DrainInv
  <2>6. Stoppers = {} => ~m_is_worker_running' /\ \A w \in Workers : pc'[w] = "unborn"
    BY <1>1, <2>1, <2>2, <2>4 DEF DrainInv
  <2> QED
    BY <2>3, <2>5, <2>6 DEF DrainInv
<1>8. ASSUME NEW th \in Pollers, Process(th) PROVE DrainInv'
  <2>1. th \in Threads /\ th \in Apps /\ CollectDueTimers(th, "idle") /\ m_is_worker_running' = m_is_worker_running
    BY <1>1, <1>8 DEF Process, workerVars
  <2>2. /\ \A o \in Threads : \A e \in batch'[o] : m_is_running'[e.state]
        /\ \A o \in Threads \ {th} : pc'[o] = pc[o]
    BY <2>1, CollectDrains
  <2> QED
    BY <1>1, <2>1, <2>2 DEF DrainInv
<1>9. ASSUME NEW w \in Workers, WorkerStep(w) PROVE DrainInv'
  <2>1. m_is_worker_running' = m_is_worker_running /\ pc[w] # "unborn" /\ w \notin Apps
    BY <1>9 DEF WorkerStep, WorkerTop, WakeEmpty, WakeUntil, workerVars
  <2>2. \A o \in Threads \ {w} : pc'[o] = pc[o]
    BY <1>1, <1>9 DEF WorkerStep, WorkerTop, WakeEmpty, WakeUntil, WorkerLoop, CollectDueTimers, TypeInv, TypeOK
  <2>3. CollectDueTimers(w, "top") \/ UNCHANGED <<batch, m_is_running>>
    BY <1>9 DEF WorkerStep, WorkerTop, WakeEmpty, WakeUntil, WorkerLoop
  <2>4. \A o \in Threads : \A e \in batch'[o] : m_is_running'[e.state]
    BY <1>1, <2>3, CollectDrains DEF DrainInv
  <2> QED
    BY <1>1, <2>1, <2>2, <2>4 DEF DrainInv
<1>10. ASSUME NEW th \in Stoppers, Run(th) PROVE DrainInv'
  <2>1. \A o \in Apps : pc'[o] = pc[o]
    BY <1>1, <1>10 DEF Run, TypeInv, TypeOK
  <2>2. UNCHANGED <<batch, m_is_running>>
    BY <1>10 DEF Run, stateVars
  <2> QED
    BY <1>1, <2>1, <2>2 DEF DrainInv
<1>11. ASSUME NEW th \in Threads, NEW t \in Timers,
              Construct(th, t) \/ Start(th, t) \/ StopAndWait(th, t) \/ Destroy(th, t)
       PROVE  DrainCalm
  BY <1>3, <1>11 DEF Construct, Start, StopAndWait, Destroy, workerVars, stateVars, execVars
<1>12. ASSUME NEW th \in Threads, NEW s \in Shots, NEW i \in Intervals, SingleShot(th, s, i) PROVE DrainCalm
  BY <1>3, <1>12 DEF SingleShot, workerVars, execVars
<1>13. ASSUME NEW th \in Threads, RequestStop(th) PROVE DrainCalm
  BY <1>3, <1>13 DEF RequestStop, stateVars, execVars
<1>14. ASSUME NEW t \in Timers, Configure(t) PROVE DrainCalm
  BY <1>3, <1>14 DEF Configure, SetInterval, SetSingleShot, SetCallback, Stop, workerVars, threadVars, execVars
<1>15. CASE Tick \/ UNCHANGED vars
  BY <1>2, <1>3, <1>15 DEF Tick, vars, workerVars, stateVars, threadVars, execVars
<1> QED
  BY <1>2, <1>4, <1>5, <1>6, <1>7, <1>8, <1>9, <1>10, <1>11, <1>12, <1>13, <1>14, <1>15
     DEF Next, Progress, ApiCall, StopScheduler, DestroyScheduler

LEMMA DrainingNext ==
    ASSUME OneExecutor
    PROVE  DrainingInv /\ [Next]_vars => DrainingInv'
  BY TicketNext, TypeInvNext, JoiningNext, DrainNext DEF DrainingInv, JoiningInv, OneExecutor

\* A call that waits for a timer ends when m_is_running is false.
LEMMA WaitEnds ==
    ASSUME TypeInv, [Next]_vars, NEW th \in Threads,
           call[th].op \in {"wait", "drain"}, call'[th].op # call[th].op
    PROVE  ~m_is_running[call[th].state]
<1>1. ASSUME NEW o \in Threads, NEW c, SetCall(o, c) PROVE o = th
  BY <1>1 DEF SetCall, TypeInv, TypeOK
<1>2. UNCHANGED call => FALSE
  OBVIOUS
<1>3. ASSUME NEW o \in Threads, Progress(o) PROVE ~m_is_running[call[th].state]
  <2>1. CASE WaitReturns(o) \/ Drained(o)
    BY <1>1, <2>1 DEF WaitReturns, Drained, Return, HasFinished
  <2>2. CASE \/ Own(o) \/ StartTimer(o) \/ Disown(o) \/ ClearCallback(o) \/ Erase(o)
             \/ ArmShot(o) \/ Teardown(o)
    BY <1>1, <2>2 DEF Own, StartTimer, Disown, ClearCallback, Erase, ArmShot, Teardown, Return
  <2>3. CASE StopJoined(o) \/ ClearOrphan(o)
    BY <1>1, <2>3 DEF StopJoined, ClearOrphan, StopReturns
  <2>4. CASE \/ FetchCallback(o) \/ CallbackReturns(o) \/ CallbackThrows(o)
             \/ ShotClears(o) \/ ShotErases(o) \/ FinalizeTimer(o)
    BY <1>2, <2>4 DEF FetchCallback, CallbackReturns, CallbackThrows, ShotClears, ShotErases, FinalizeTimer
  <2> QED
    BY <1>3, <2>1, <2>2, <2>3, <2>4 DEF Progress
<1>4. ASSUME NEW o \in Threads, ApiCall(o) PROVE FALSE
  <2>1. CASE \E t \in Timers : Construct(o, t) \/ Start(o, t) \/ StopAndWait(o, t) \/ Destroy(o, t)
    BY <1>1, <2>1 DEF Construct, Start, StopAndWait, Destroy, CanCall
  <2>2. CASE \E s \in Shots, i \in Intervals : SingleShot(o, s, i)
    BY <1>1, <2>2 DEF SingleShot, CanCall
  <2>3. CASE RequestStop(o)
    BY <1>1, <2>3 DEF RequestStop, CanCall
  <2>4. CASE Run(o) \/ Process(o)
    BY <1>2, <2>4 DEF Run, Process
  <2> QED
    BY <1>4, <2>1, <2>2, <2>3, <2>4 DEF ApiCall, StopScheduler, DestroyScheduler
<1>5. ASSUME NEW w \in Workers, WorkerStep(w) PROVE FALSE
  BY <1>2, <1>5 DEF WorkerStep, WorkerTop, WakeEmpty, WakeUntil
<1>6. ASSUME NEW t \in Timers, Configure(t) PROVE FALSE
  BY <1>2, <1>6 DEF Configure, SetInterval, SetSingleShot, SetCallback, Stop, threadVars
<1>7. CASE Tick \/ UNCHANGED vars
  BY <1>2, <1>7 DEF Tick, vars, threadVars
<1> QED
  BY <1>3, <1>4, <1>5, <1>6, <1>7 DEF Next

\* While one thread at a time executes timers, stop_and_wait() and the wait in
\* ~Timer end only when no thread holds an entry of that timer any more: its
\* callback neither runs nor is about to.
THEOREM StopAndWaitDrainsTheTimer == OneExecutor => (Spec => StopAndWaitDrains)
<1> SUFFICES ASSUME OneExecutor PROVE Spec => StopAndWaitDrains
  OBVIOUS
<1>1. DrainingInv /\ [Next]_vars => DrainingInv'
  BY DrainingNext
<1>2. DrainingInv /\ [Next]_vars =>
        [\A th \in Threads :
           call[th].op \in {"wait", "drain"} /\ call'[th].op # call[th].op
             => \A e \in InFlight : e.state # call[th].state]_vars
  <2> SUFFICES ASSUME DrainingInv, [Next]_vars, NEW th \in Threads,
                      call[th].op \in {"wait", "drain"}, call'[th].op # call[th].op,
                      NEW e \in InFlight
               PROVE  e.state # call[th].state
    OBVIOUS
  <2>1. ~m_is_running[call[th].state]
    BY WaitEnds DEF DrainingInv, JoiningInv
  <2>2. m_is_running[e.state]
    BY DEF DrainingInv, DrainInv, InFlight
  <2> QED
    BY <2>1, <2>2
<1> QED
  BY <1>1, <1>2, DrainingInit, PTL DEF Spec, StopAndWaitDrains

---------------------------------------------------------------------------
(* No helper is left behind                                                *)

\* One thread besides the worker.  With two, one may be between
\* create_timer_state and the assignment of the callback in single_shot while
\* the other stops the scheduler: the state is then an orphan without a
\* callback, and gets one after it was dropped.
OneApp == \A a, b \in Apps : a = b

\* A helper that refers to itself, or is about to.
Armed(s) == m_callback[s] \/ \E th \in Threads : call[th].op = "arm" /\ call[th].state = s

LeakInv ==
    /\ \A s \in Shots \ m_timers : Armed(s) => \E th \in Threads : s \in call[th].orphans
    /\ \A th \in Threads : pc[th] = "erase" => ~m_callback[cur[th].state]

LeakingInv == ShotsInv /\ JoiningInv /\ RegistryInv /\ LeakInv

LEMMA LeakingInit == Init => LeakingInv
  BY ShotsInit, JoiningInit, RegistryInit, StatesType, CallFields DEF Init, LeakingInv, LeakInv, Armed

\* A step that unregisters no helper, arms none that is not being made, and
\* drops no orphan.
LeakCalm ==
    /\ \A s \in Shots : s \notin m_timers' => (Armed(s)' => Armed(s)) /\ s \notin m_timers
    /\ \A th \in Threads : call[th].orphans \subseteq call'[th].orphans
    /\ \A th \in Threads : pc'[th] = "erase" =>
         /\ pc[th] = "erase" /\ cur'[th] = cur[th]
         /\ m_callback'[cur[th].state] => m_callback[cur[th].state]

LEMMA LeakCalmKeeps == LeakInv /\ LeakCalm => LeakInv'
<1> SUFFICES ASSUME LeakInv, LeakCalm PROVE LeakInv'
  OBVIOUS
<1>1. ASSUME NEW s \in Shots, s \notin m_timers', Armed(s)' PROVE \E th \in Threads : s \in call'[th].orphans
  <2>1. Armed(s) /\ s \notin m_timers
    BY <1>1 DEF LeakCalm
  <2> QED
    BY <2>1 DEF LeakInv, LeakCalm
<1>2. \A th \in Threads : pc'[th] = "erase" => ~m_callback'[cur'[th].state]
  BY DEF LeakInv, LeakCalm
<1> QED
  BY <1>1, <1>2 DEF LeakInv, Armed

\* Nobody makes a helper while a thread is past the join of stop().
LEMMA NobodyArms ==
    ASSUME OneApp, LeakingInv, NEW th \in Threads, call[th].op \in {"orphans", "teardown"},
           NEW o \in Threads
    PROVE  call[o].op # "arm" /\ (o # th => call[o].orphans = {})
<1>1. /\ JoinInv /\ ShapeInv /\ Stoppers \cup Closers \subseteq Apps
      /\ th \in Apps
  BY SchedulerAssumption DEF LeakingInv, JoiningInv, JoinInv, StopOps
<1>2. CASE o \in Workers
  <2>1. ~Live(o)
    BY <1>1, <1>2 DEF JoinInv, StopOps
  <2>2. call[o].op = "none"
    BY <1>1, <2>1 DEF ShapeInv, Live
  <2> QED
    BY <1>1, <2>2 DEF ShapeInv, CallShape
<1>3. CASE o \in Apps
  BY <1>1, <1>3 DEF OneApp
<1> QED
  BY <1>2, <1>3 DEF Threads

LEMMA LeakNext ==
    ASSUME OneApp, LeakingInv, TypeInv', [Next]_vars
    PROVE  LeakInv'
<1> USE SchedulerAssumption, StatesType
<1>1. TypeInv /\ ShapeInv /\ ShotsInv /\ RegInv /\ LeakInv
  BY DEF LeakingInv, RegistryInv
<1>2. LeakCalm => LeakInv'
  BY <1>1, LeakCalmKeeps
<1>3. ASSUME NEW th \in Threads, NEW c, SetCall(th, c)
      PROVE  \A o \in Threads : call'[o] = IF o = th THEN c ELSE call[o]
  BY <1>1, <1>3 DEF SetCall, TypeInv, TypeOK
<1>4. ASSUME UNCHANGED call, m_timers \subseteq m_timers',
             \A s \in Shots : m_callback'[s] => m_callback[s],
             \A th \in Threads : pc'[th] = "erase" => pc[th] = "erase" /\ cur'[th] = cur[th]
      PROVE  LeakCalm
  BY <1>1, <1>4 DEF LeakCalm, Armed, ShapeInv
<1>5. ASSUME NEW th \in Threads, NEW c, SetCall(th, c), c.op # "arm", call[th].orphans = {},
             m_timers \subseteq m_timers', UNCHANGED <<m_callback, pc, cur>>
      PROVE  LeakCalm
  BY <1>3, <1>5 DEF LeakCalm, Armed
<1>6. ASSUME NEW th \in Threads, call[th].op \notin {"join", "orphans"} PROVE call[th].orphans = {}
  BY <1>1, <1>6 DEF ShapeInv, CallShape
<1>7. ASSUME NEW th \in Threads, Own(th) \/ StartTimer(th) \/ WaitReturns(th) \/ Drained(th) \/ Disown(th)
      PROVE  LeakCalm
  BY <1>5, <1>6, <1>7, CallFields DEF Own, StartTimer, WaitReturns, Drained, Disown, Return, schedVars, stateVars, execVars
<1>8. ASSUME NEW th \in Threads, ClearCallback(th) PROVE LeakCalm
  <2>1. /\ SetCall(th, On("erase", call[th].state)) /\ UNCHANGED <<m_timers, pc, cur>>
        /\ call[th].orphans = {}
    BY <1>6, <1>8 DEF ClearCallback, schedVars, execVars
  <2>2. \A s \in States : m_callback'[s] => m_callback[s]
    BY <1>1, <1>8 DEF ClearCallback, TypeInv, TypeOK
  <2>3. \A o \in Threads : /\ call'[o].op = "arm" => call'[o] = call[o]
                           /\ call[o].orphans \subseteq call'[o].orphans
    BY <1>3, <2>1, CallFields
  <2>4. \A o \in Threads : pc[o] = "erase" => cur[o].state \in States
    BY <1>1 DEF ShapeInv
  <2> QED
    BY <2>1, <2>2, <2>3, <2>4 DEF LeakCalm, Armed
<1>9. ASSUME NEW th \in Threads, Erase(th) PROVE LeakCalm
  <2>1. /\ SetCall(th, NoCall) /\ m_timers' = m_timers \ {call[th].state} /\ UNCHANGED <<m_callback, pc, cur>>
        /\ call[th].orphans = {} /\ call[th].state \in Timers
    BY <1>1, <1>6, <1>9 DEF Erase, Return, Unregister, execVars, ShapeInv, CallShape, TimerOps
  <2> QED
    BY <1>3, <2>1, CallFields DEF LeakCalm, Armed
<1>10. ASSUME NEW th \in Threads, ArmShot(th) PROVE LeakInv'
  <2> DEFINE s == call[th].state
  <2>1. /\ SetCall(th, At("push", s, now + call[th].time)) /\ UNCHANGED <<m_timers, pc, cur, batch>>
        /\ call[th].orphans = {} /\ s \in Shots /\ Making(th)
    BY <1>1, <1>6, <1>10 DEF ArmShot, schedVars, execVars, ShapeInv, CallShape, Making
  <2>2. \A o \in States : m_callback'[o] => m_callback[o] \/ o = s
    BY <1>1, <1>10 DEF ArmShot, TypeInv, TypeOK
  <2>3. ASSUME NEW o \in Threads, pc[o] = "erase" PROVE cur[o].state # s /\ cur[o].state \in States
    <3>1. cur[o] \in batch[o]
      BY <1>1, <2>3 DEF TypeInv, ExecOK, Executing
    <3> QED
      BY <1>1, <2>1, <2>3, <3>1, MakingHasNoEntry DEF ShapeInv
  <2>4. \A o \in Threads : /\ call'[o].op = "arm" => call'[o] = call[o]
                           /\ call[o].orphans \subseteq call'[o].orphans
    BY <1>3, <2>1, CallFields
  <2>5. Armed(s)
    BY <1>10 DEF ArmShot, Armed
  <2> QED
    BY <1>2, <2>1, <2>2, <2>3, <2>4, <2>5 DEF LeakCalm, Armed
<1>11. ASSUME NEW th \in Threads, StopJoined(th) PROVE LeakCalm
  <2>1. UNCHANGED <<m_timers, m_callback, pc, cur>> /\ call[th] \in Call
    BY <1>1, <1>11 DEF StopJoined, schedVars, stateVars, execVars, TypeInv, TypeOK
  <2>2. CASE call[th].orphans = {}
    <3> DEFINE c == IF closed = "begun" THEN [NoCall EXCEPT !.op = "teardown"] ELSE NoCall
    <3>1. c.op # "arm"
      BY DEF NoCall
    <3> QED
      BY <1>5, <1>11, <2>1, <2>2, <3>1 DEF StopJoined, StopReturns
  <2>3. CASE call[th].orphans # {}
    <3> DEFINE c == [call[th] EXCEPT !.op = "orphans", !.worker = Nil]
    <3>1. SetCall(th, c)
      BY <1>11, <2>3 DEF StopJoined
    <3>2. c.op = "orphans" /\ c.orphans = call[th].orphans
      BY <2>1 DEF Call
    <3>3. \A o \in Threads : call'[o] = IF o = th THEN c ELSE call[o]
      BY <1>3, <3>1
    <3> HIDE DEF c
    <3> QED
      BY <2>1, <3>2, <3>3 DEF LeakCalm, Armed
  <2> QED
    BY <2>2, <2>3
<1>12. ASSUME NEW th \in Threads, ClearOrphan(th) PROVE LeakInv'
  <2>1. UNCHANGED <<m_timers, pc, cur>> /\ call[th].op = "orphans" /\ call[th] \in Call
    BY <1>1, <1>12 DEF ClearOrphan, schedVars, execVars, TypeInv, TypeOK
  <2>2. PICK s \in call[th].orphans :
          /\ m_callback' = [m_callback EXCEPT ![s] = FALSE]
          /\ IF call[th].orphans = {s} THEN StopReturns(th)
             ELSE SetCall(th, [call[th] EXCEPT !.orphans = @ \ {s}])
    BY <1>12 DEF ClearOrphan
  <2>3. \A o \in Threads : call[o].op # "arm" /\ (o # th => call[o].orphans = {})
    BY <2>1, NobodyArms
  <2>4. \A o \in States : m_callback'[o] => m_callback[o] /\ o # s
    BY <1>1, <2>2 DEF TypeInv, TypeOK
  <2>5. /\ \A o \in Threads \ {th} : call'[o] = call[o]
        /\ call'[th].op # "arm" /\ call[th].orphans \ {s} \subseteq call'[th].orphans
    <3>1. CASE call[th].orphans = {s}
      <4> DEFINE c == IF closed = "begun" THEN [NoCall EXCEPT !.op = "teardown"] ELSE NoCall
      <4>1. c.op # "arm" /\ SetCall(th, c)
        BY <2>2, <3>1 DEF NoCall, StopReturns
      <4> HIDE DEF c
      <4> QED
        BY <1>3, <3>1, <4>1
    <3>2. CASE call[th].orphans # {s}
      <4> DEFINE c == [call[th] EXCEPT !.orphans = @ \ {s}]
      <4>1. c.op = "orphans" /\ c.orphans = call[th].orphans \ {s} /\ SetCall(th, c)
        BY <2>1, <2>2, <3>2 DEF Call
      <4> HIDE DEF c
      <4> QED
        BY <1>3, <4>1
    <3> QED
      BY <3>1, <3>2
  <2>6. ASSUME NEW r \in Shots, r \notin m_timers', Armed(r)' PROVE r \in call'[th].orphans
    <3>1. m_callback'[r] /\ r \in States
      BY <2>3, <2>5, <2>6 DEF Armed
    <3>2. r # s /\ \E o \in Threads : r \in call[o].orphans
      BY <1>1, <2>1, <2>4, <2>6, <3>1 DEF LeakInv, Armed
    <3> QED
      BY <2>3, <2>5, <3>2
  <2>7. \A o \in Threads : pc'[o] = "erase" => ~m_callback'[cur'[o].state]
    BY <1>1, <2>1, <2>4 DEF LeakInv, ShapeInv
  <2> QED
    BY <2>6, <2>7 DEF LeakInv, Armed
<1>13. ASSUME NEW th \in Threads, Teardown(th) PROVE LeakInv'
  <2>1. /\ SetCall(th, NoCall) /\ UNCHANGED <<pc, cur>> /\ call[th].op = "teardown"
        /\ \A s \in States : m_callback'[s] => m_callback[s] /\ s \notin m_timers
    BY <1>13 DEF Teardown, Return, execVars
  <2>2. \A o \in Threads : call[o].op # "arm" /\ call[o].orphans = {}
    BY <1>6, <2>1, NobodyArms
  <2>3. \A s \in Shots : ~m_callback'[s]
    BY <1>1, <2>1, <2>2 DEF LeakInv, Armed
  <2>4. \A o \in Threads : call'[o].op # "arm"
    BY <1>3, <2>1, <2>2, CallFields
  <2> QED
    BY <1>1, <2>1, <2>3, <2>4 DEF LeakInv, Armed, ShapeInv
<1>14. ASSUME NEW th \in Threads, FetchCallback(th) \/ CallbackReturns(th) \/ CallbackThrows(th) \/ FinalizeTimer(th)
       PROVE  LeakCalm
  <2>1. UNCHANGED <<m_timers, m_callback, call>>
    BY <1>14 DEF FetchCallback, CallbackReturns, CallbackThrows, FinalizeTimer, stateVars, schedVars
  <2>2. pc'[th] # "erase" /\ \A o \in Threads \ {th} : pc'[o] = pc[o] /\ cur'[o] = cur[o]
    BY <1>1, <1>14 DEF FetchCallback, CallbackReturns, CallbackThrows, FinalizeTimer, TypeInv, TypeOK
  <2> QED
    BY <1>4, <2>1, <2>2
<1>15. ASSUME NEW th \in Threads, ShotClears(th) PROVE LeakInv'
  <2>1. /\ UNCHANGED <<m_timers, call, cur>> /\ cur[th].state \in States
        /\ \A o \in Threads : pc'[o] = IF o = th THEN "erase" ELSE pc[o]
    BY <1>1, <1>15 DEF ShotClears, schedVars, TypeInv, TypeOK, ShapeInv
  <2>2. \A s \in States : m_callback'[s] => m_callback[s] /\ s # cur[th].state
    BY <1>1, <1>15 DEF ShotClears, TypeInv, TypeOK
  <2> QED
    BY <1>1, <2>1, <2>2 DEF LeakInv, Armed, ShapeInv
<1>16. ASSUME NEW th \in Threads, ShotErases(th) PROVE LeakInv'
  <2> DEFINE s == cur[th].state
  <2>1. /\ UNCHANGED <<call, cur, m_callback>> /\ m_timers' = m_timers \ {s}
        /\ \A o \in Threads : pc'[o] = "erase" => pc[o] = "erase"
        /\ cur[th] \in batch[th]
    BY <1>1, <1>16 DEF ShotErases, Unregister, TypeInv, TypeOK, ExecOK, Executing
  <2>2. ASSUME NEW o \in Threads, call[o].op = "arm", call[o].state = s PROVE FALSE
    <3>1. Making(o) /\ s \in Shots
      BY <1>1, <2>2 DEF Making, ShapeInv, CallShape
    <3> QED
      BY <1>1, <2>1, <2>2, <3>1, MakingHasNoEntry
  <2>3. ~m_callback[s]
    BY <1>1, <1>16 DEF ShotErases, LeakInv
  <2> QED
    BY <1>1, <2>1, <2>2, <2>3 DEF LeakInv, Armed
<1>17. ASSUME NEW th \in Threads, NEW t \in Timers,
              Construct(th, t) \/ Start(th, t) \/ StopAndWait(th, t) \/ Destroy(th, t)
       PROVE  LeakCalm
  <2>1. /\ m_timers \subseteq m_timers' /\ UNCHANGED <<m_callback, pc, cur>>
        /\ call[th].orphans = {}
    BY <1>6, <1>17 DEF Construct, CreateTimerState, Start, StopAndWait, Destroy, CanCall, schedVars, stateVars, execVars
  <2>2. PICK c : SetCall(th, c) /\ c \in {On("own", t), At("push", t, now + m_interval_ms[t]), On("wait", t),
                                          On("disown", t), On("drain", t)}
    BY <1>17 DEF Construct, Start, StopAndWait, Destroy
  <2>3. c.op # "arm"
    BY <2>2, CallFields
  <2> QED
    BY <1>5, <2>1, <2>2, <2>3
<1>18. ASSUME NEW th \in Threads, NEW s \in Shots, NEW i \in Intervals, SingleShot(th, s, i) PROVE LeakCalm
  <2>1. /\ m_timers' = m_timers \cup {s} /\ UNCHANGED <<m_callback, pc, cur>>
        /\ call[th].orphans = {} /\ SetCall(th, At("arm", s, i))
    BY <1>6, <1>18 DEF SingleShot, CreateTimerState, CanCall, execVars
  <2>2. \A o \in Threads : call'[o].op = "arm" => call'[o] = call[o] \/ call'[o].state = s
    BY <1>3, <2>1, CallFields
  <2>3. \A o \in Threads : call[o].orphans \subseteq call'[o].orphans
    BY <1>3, <2>1
  <2> QED
    BY <2>1, <2>2, <2>3 DEF LeakCalm, Armed
<1>19. ASSUME NEW th \in Threads, RequestStop(th) PROVE LeakInv'
  <2> DEFINE c == [NoCall EXCEPT !.op = "join", !.orphans = Orphans,
                      !.worker = IF m_is_worker_running THEN m_thread ELSE Nil]
  <2>1. /\ SetCall(th, c) /\ m_timers' = m_timers \ Orphans /\ call[th].orphans = {}
        /\ UNCHANGED <<m_callback, pc, cur>>
    BY <1>6, <1>19 DEF RequestStop, CanCall, stateVars, execVars
  <2>2. c.op = "join" /\ c.orphans = Orphans
    BY DEF NoCall
  <2>3. \A o \in Threads : call'[o] = IF o = th THEN c ELSE call[o]
    BY <1>3, <2>1
  <2> HIDE DEF c
  <2>4. \A o \in Threads : /\ call'[o].op = "arm" => call'[o] = call[o]
                           /\ call[o].orphans \subseteq call'[o].orphans
    BY <2>1, <2>2, <2>3
  <2>5. ASSUME NEW s \in Shots, s \notin m_timers', Armed(s)' PROVE \E o \in Threads : s \in call'[o].orphans
    <3>1. CASE s \in m_timers
      BY <2>1, <2>2, <2>3, <2>5, <3>1
    <3>2. CASE s \notin m_timers
      <4>1. Armed(s)
        BY <2>1, <2>4, <2>5 DEF Armed
      <4> QED
        BY <1>1, <2>4, <3>2, <4>1 DEF LeakInv
    <3> QED
      BY <3>1, <3>2
  <2> QED
    BY <1>1, <2>1, <2>5 DEF LeakInv, Armed
<1>20. ASSUME NEW th \in Threads, Run(th) \/ Process(th) PROVE LeakCalm
  <2>1. UNCHANGED <<m_timers, m_callback, call, cur>>
    BY <1>20 DEF Run, Process, stateVars, schedVars
  <2>2. \A o \in Threads : pc'[o] = "erase" => pc[o] = "erase"
    BY <1>1, <1>20 DEF Run, Process, CollectDueTimers, TypeInv, TypeOK
  <2> QED
    BY <1>4, <2>1, <2>2
<1>21. ASSUME NEW w \in Workers, WorkerStep(w) PROVE LeakCalm
  <2>1. UNCHANGED <<m_timers, m_callback, call, cur>>
    BY <1>21 DEF WorkerStep, WorkerTop, WakeEmpty, WakeUntil
  <2>2. \A o \in Threads : pc'[o] = "erase" => pc[o] = "erase"
    BY <1>1, <1>21 DEF WorkerStep, WorkerTop, WakeEmpty, WakeUntil, WorkerLoop, CollectDueTimers, TypeInv, TypeOK
  <2> QED
    BY <1>4, <2>1, <2>2
<1>22. ASSUME NEW t \in Timers, Configure(t) PROVE LeakCalm
  <2>1. UNCHANGED <<m_timers, call, pc, cur>>
    BY <1>22 DEF Configure, SetInterval, SetSingleShot, SetCallback, Stop, schedVars, threadVars, execVars
  <2>2. \A s \in Shots : m_callback'[s] = m_callback[s]
    BY <1>1, <1>22 DEF Configure, SetInterval, SetSingleShot, SetCallback, Stop, TypeInv, TypeOK
  <2> QED
    BY <1>4, <2>1, <2>2
<1>23. CASE Tick \/ UNCHANGED vars
  BY <1>2, <1>4, <1>23 DEF Tick, vars, schedVars, stateVars, threadVars, execVars
<1> QED
  BY <1>2, <1>7, <1>8, <1>9, <1>10, <1>11, <1>12, <1>13, <1>14, <1>15, <1>16, <1>17, <1>18, <1>19,
     <1>20, <1>21, <1>22, <1>23
     DEF Next, Progress, ApiCall, StopScheduler, DestroyScheduler

\* With one application thread every registered state is referred to, and no
\* helper that left the registry refers only to itself: the cycle between its
\* state and its callback is always about to be broken.
THEOREM NothingIsLost == OneApp => (Spec => []StatesAreHeld)
<1> SUFFICES ASSUME OneApp PROVE Spec => []StatesAreHeld
  OBVIOUS
<1>1. OneStopper
  BY SchedulerAssumption DEF OneApp, OneStopper
<1>2. LeakingInv /\ [Next]_vars => LeakingInv'
  BY <1>1, ShotsNext, JoiningNext, RegistryNext, LeakNext DEF LeakingInv, RegistryInv
<1>3. LeakingInv => NothingLeaks
  BY DEF LeakingInv, LeakInv, Armed, NothingLeaks
<1>4. Spec => []NothingLeaks
  BY <1>2, <1>3, LeakingInit, PTL DEF Spec
<1>5. RegistryNeverExpires /\ NothingLeaks => StatesAreHeld
  BY DEF StatesAreHeld
<1> QED
  BY <1>4, <1>5, RegistryIsHeld, PTL

---------------------------------------------------------------------------
(* The contract                                                          *)

\* The interval of a state is one in use from the start (0 until it is set),
\* and only helpers are single-shot: a single-shot Timer that is started in
\* its own callback is stopped again (restart_in_callback.cfg), which no
\* contract would promise.
PeriodicTimers == 0 \in Intervals /\ Modes \subseteq {FALSE}

\* Every deadline is an interval after a moment that has been.
FromNow ==
    /\ \A s \in States : m_interval_ms[s] \in Intervals
    /\ \A t \in Timers : ~m_is_single_shot[t]
    /\ \A th \in Threads : call[th].op = "push" =>
         \E i \in Intervals, then \in 0 .. now : call[th].time = then + i

ContractInv == ShotsInv /\ FromNow

LEMMA ContractInit == PeriodicTimers /\ Init => ContractInv
  BY ShotsInit, CallFields, StatesType DEF Init, ContractInv, FromNow, PeriodicTimers

\* A step that sets no interval and no mode and computes no deadline.
FromNowCalm ==
    /\ now' >= now
    /\ UNCHANGED <<m_interval_ms, m_is_single_shot>>
    /\ \A th \in Threads : call'[th].op = "push" => call'[th] = call[th]

LEMMA FromNowCalmKeeps == TypeInv /\ TypeInv' /\ FromNow /\ FromNowCalm => FromNow'
<1> SUFFICES ASSUME TypeInv, TypeInv', FromNow, FromNowCalm PROVE FromNow'
  OBVIOUS
<1>1. now \in Nat /\ now' \in Nat
  BY DEF TypeInv, TypeOK
<1>2. ASSUME NEW th \in Threads, call'[th].op = "push"
      PROVE  \E i \in Intervals, then \in 0 .. now' : call'[th].time = then + i
  <2>1. PICK i \in Intervals, then \in 0 .. now : call[th].time = then + i
    BY <1>2 DEF FromNow, FromNowCalm
  <2>2. then \in 0 .. now'
    BY <1>1 DEF FromNowCalm
  <2> QED
    BY <1>2, <2>1, <2>2 DEF FromNowCalm
<1> QED
  BY <1>2 DEF FromNow, FromNowCalm

LEMMA FromNowNext ==
    ASSUME PeriodicTimers, TypeInv, ShapeInv, FromNow, TypeInv', [Next]_vars
    PROVE  FromNow'
<1> USE SchedulerAssumption, StatesType
<1>1. FromNowCalm => FromNow'
  BY FromNowCalmKeeps
<1>2. now \in Nat
  BY DEF TypeInv, TypeOK
<1>3. ASSUME NEW th \in Threads, NEW c, SetCall(th, c)
      PROVE  \A o \in Threads : call'[o] = IF o = th THEN c ELSE call[o]
  BY <1>3 DEF SetCall, TypeInv, TypeOK
<1>4. ASSUME NEW th \in Threads, NEW c, SetCall(th, c), c.op # "push",
             UNCHANGED <<now, m_interval_ms, m_is_single_shot>>
      PROVE  FromNowCalm
  BY <1>2, <1>3, <1>4 DEF FromNowCalm
<1>5. ASSUME now' >= now, UNCHANGED <<call, m_interval_ms, m_is_single_shot>> PROVE FromNowCalm
  BY <1>5 DEF FromNowCalm
<1>6. ASSUME NEW th \in Threads, Own(th) \/ StartTimer(th) \/ WaitReturns(th) \/ Erase(th) \/ Teardown(th)
      PROVE  FromNowCalm
  BY <1>4, <1>6, CallFields DEF Own, StartTimer, WaitReturns, Erase, Teardown, Return, stateVars, confVars
<1>7. ASSUME NEW th \in Threads, Drained(th) \/ Disown(th) \/ ClearCallback(th) PROVE FromNowCalm
  BY <1>4, <1>7, CallFields DEF Drained, Disown, ClearCallback, stateVars, confVars
<1>8. ASSUME NEW th \in Threads, StopJoined(th) \/ ClearOrphan(th) PROVE FromNowCalm
  <2>1. /\ UNCHANGED <<now, m_interval_ms, m_is_single_shot>>
        /\ call[th] \in Call /\ call[th].op \in {"join", "orphans"}
    BY <1>8 DEF StopJoined, ClearOrphan, stateVars, confVars, TypeInv, TypeOK
  <2>2. CASE StopReturns(th)
    <3> DEFINE c == IF closed = "begun" THEN [NoCall EXCEPT !.op = "teardown"] ELSE NoCall
    <3>1. SetCall(th, c) /\ c.op # "push"
      BY <2>2 DEF StopReturns, NoCall
    <3> HIDE DEF c
    <3> QED
      BY <1>4, <2>1, <3>1
  <2>3. ASSUME NEW s, \/ SetCall(th, [call[th] EXCEPT !.op = "orphans", !.worker = Nil])
                      \/ SetCall(th, [call[th] EXCEPT !.orphans = @ \ {s}])
        PROVE  FromNowCalm
    <3> DEFINE c == [call[th] EXCEPT !.op = "orphans", !.worker = Nil]
               d == [call[th] EXCEPT !.orphans = @ \ {s}]
    <3>1. c.op # "push" /\ d.op # "push"
      BY <2>1, OrphansType
    <3>2. SetCall(th, c) \/ SetCall(th, d)
      BY <2>3
    <3> HIDE DEF c, d
    <3> QED
      BY <1>4, <2>1, <3>1, <3>2
  <2> QED
    BY <1>8, <2>2, <2>3 DEF StopJoined, ClearOrphan
<1>9. ASSUME NEW th \in Threads, ArmShot(th) PROVE FromNow'
  <2> DEFINE s == call[th].state
             i == call[th].time
  <2>1. s \in Shots /\ s \in States /\ s \notin Timers /\ i \in Intervals
    BY <1>9 DEF ArmShot, ShapeInv, CallShape
  <2>2. /\ \A o \in States : m_interval_ms'[o] = IF o = s THEN i ELSE m_interval_ms[o]
        /\ \A o \in States : o # s => m_is_single_shot'[o] = m_is_single_shot[o]
        /\ now' = now
    BY <1>9, <2>1 DEF ArmShot, TypeInv, TypeOK
  <2>3. \A o \in Threads : call'[o] = IF o = th THEN At("push", s, now + i) ELSE call[o]
    BY <1>3, <1>9 DEF ArmShot
  <2>4. now \in 0 .. now'
    BY <1>2, <2>2
  <2>6. call'[th].time = now + i /\ now' = now
    BY <2>2, <2>3, CallFields
  <2>5. ASSUME NEW o \in Threads, call'[o].op = "push"
        PROVE  \E j \in Intervals, then \in 0 .. now' : call'[o].time = then + j
    BY <2>1, <2>3, <2>4, <2>5, <2>6 DEF FromNow
  <2> QED
    BY <2>1, <2>2, <2>5 DEF FromNow
<1>10. ASSUME NEW th \in Threads,
              \/ FetchCallback(th) \/ CallbackReturns(th) \/ CallbackThrows(th)
              \/ ShotClears(th) \/ ShotErases(th) \/ FinalizeTimer(th)
       PROVE  FromNowCalm
  BY <1>2, <1>5, <1>10 DEF FetchCallback, CallbackReturns, CallbackThrows, ShotClears, ShotErases,
     FinalizeTimer, stateVars, confVars
<1>11. ASSUME NEW th \in Threads, NEW t \in Timers, Start(th, t) PROVE FromNow'
  <2> DEFINE i == m_interval_ms[t]
  <2>1. /\ \A o \in Threads : call'[o] = IF o = th THEN At("push", t, now + i) ELSE call[o]
        /\ UNCHANGED <<now, m_interval_ms, m_is_single_shot>>
    BY <1>3, <1>11 DEF Start, stateVars, confVars
  <2>2. i \in Intervals /\ now \in 0 .. now'
    BY <1>2, <2>1 DEF FromNow
  <2>3. call'[th].time = now + i /\ now' = now
    BY <2>1, CallFields
  <2>4. ASSUME NEW o \in Threads, call'[o].op = "push"
        PROVE  \E j \in Intervals, then \in 0 .. now' : call'[o].time = then + j
    BY <2>1, <2>2, <2>3, <2>4 DEF FromNow
  <2> QED
    BY <2>1, <2>4 DEF FromNow
<1>12. ASSUME NEW th \in Threads, NEW t \in Timers,
              Construct(th, t) \/ StopAndWait(th, t) \/ Destroy(th, t)
       PROVE  FromNowCalm
  BY <1>4, <1>12, CallFields DEF Construct, StopAndWait, Destroy, stateVars, confVars
<1>13. ASSUME NEW th \in Threads, NEW s \in Shots, NEW i \in Intervals, SingleShot(th, s, i)
       PROVE  FromNowCalm
  BY <1>4, <1>13, CallFields DEF SingleShot, confVars
<1>14. ASSUME NEW th \in Threads, RequestStop(th) PROVE FromNowCalm
  <2> DEFINE c == [NoCall EXCEPT !.op = "join", !.orphans = Orphans,
                      !.worker = IF m_is_worker_running THEN m_thread ELSE Nil]
  <2>1. SetCall(th, c) /\ c.op # "push"
    BY <1>14 DEF RequestStop, NoCall
  <2> HIDE DEF c
  <2> QED
    BY <1>4, <1>14, <2>1 DEF RequestStop, stateVars, confVars
<1>15. ASSUME NEW th \in Threads, Run(th) \/ Process(th) PROVE FromNowCalm
  BY <1>2, <1>5, <1>15 DEF Run, Process, stateVars, confVars
<1>16. ASSUME NEW w \in Workers, WorkerStep(w) PROVE FromNowCalm
  BY <1>2, <1>5, <1>16 DEF WorkerStep, WorkerTop, WakeEmpty, WakeUntil, confVars
<1>17. ASSUME NEW t \in Timers, Configure(t) PROVE FromNow'
  <2>1. now' = now /\ call' = call
    BY <1>17 DEF Configure, SetInterval, SetSingleShot, SetCallback, Stop, threadVars
  <2>2. \A s \in States : m_interval_ms'[s] = m_interval_ms[s] \/ m_interval_ms'[s] \in Intervals
    BY <1>17 DEF Configure, SetInterval, SetSingleShot, SetCallback, Stop, confVars, TypeInv, TypeOK
  <2>3. \A s \in Timers : m_is_single_shot'[s] => m_is_single_shot[s]
    <3>1. CASE \E b \in Modes : SetSingleShot(t, b)
      BY <3>1 DEF SetSingleShot, TypeInv, TypeOK, PeriodicTimers
    <3>2. CASE UNCHANGED m_is_single_shot
      BY <3>2
    <3> QED
      BY <1>17, <3>1, <3>2 DEF Configure, SetInterval, SetCallback, Stop, confVars
  <2> QED
    BY <2>1, <2>2, <2>3 DEF FromNow
<1>18. CASE Tick \/ UNCHANGED vars
  BY <1>1, <1>2, <1>5, <1>18 DEF Tick, vars, stateVars, confVars, threadVars
<1> QED
  BY <1>1, <1>6, <1>7, <1>8, <1>9, <1>10, <1>11, <1>12, <1>13, <1>14, <1>15, <1>16, <1>17, <1>18
     DEF Next, Progress, ApiCall, StopScheduler, DestroyScheduler

LEMMA ContractNext == ASSUME PeriodicTimers PROVE ContractInv /\ [Next]_vars => ContractInv'
  BY ShotsNext, TypeInvNext, FromNowNext DEF ContractInv, ShotsInv, TicketInv

---------------------------------------------------------------------------
(* The steps of the contract                                               *)

Taken   == [th \in Threads |-> {Firing(e) : e \in batch[th]}]
Running == [th \in Threads |-> IF cur[th] = Nil THEN Nil ELSE Firing(cur[th])]

\* A timer has one live entry at most, and that one is its deadline.
LEMMA OneLiveEntry ==
    ASSUME TicketInv, NEW s \in States, NEW e \in LiveEntries(s)
    PROVE  LiveEntries(s) = {e} /\ Deadline[s] = e.fire /\ e \in Entry
<1>1. LiveEntries(s) = {e}
  BY DEF LiveEntries, IsLive, TicketInv, Once
<1>2. e \in Entry
  BY DEF LiveEntries, TicketInv, TypeInv, TypeOK
<1>3. (CHOOSE f \in LiveEntries(s) : TRUE) = e
  BY <1>1
<1> QED
  BY <1>1, <1>2, <1>3 DEF Deadline

LEMMA NoLiveEntry == \A s \in States : LiveEntries(s) = {} => Deadline[s] = -1
  BY DEF Deadline

\* A timer has a deadline exactly when it has a live entry.
LEMMA DeadlineExists ==
    ASSUME TicketInv, NEW s \in States
    PROVE  /\ Deadline[s] \in Nat \cup {-1}
           /\ Deadline[s] # -1 => \E e \in LiveEntries(s) : Deadline[s] = e.fire
<1>1. CASE LiveEntries(s) = {}
  BY <1>1, NoLiveEntry
<1>2. ASSUME NEW e \in LiveEntries(s) PROVE Deadline[s] = e.fire /\ e.fire \in Nat
  BY OneLiveEntry DEF Entry
<1> QED
  BY <1>1, <1>2

\* What a step does to the deadlines follows from what it does to the live
\* entries.
LEMMA SameEntriesSameDeadline ==
    ASSUME NEW s \in States, LiveEntries(s)' = LiveEntries(s)
    PROVE  Deadline'[s] = Deadline[s]
  BY DEF Deadline

LEMMA NoEntryNoDeadline ==
    ASSUME NEW s \in States, LiveEntries(s)' = {}
    PROVE  Deadline'[s] = -1
  BY DEF Deadline

\* Lazy cancellation: when no entry is touched and nothing becomes active or
\* registered, some timers lose their deadline and the others keep it.
LEMMA CalmDisarms ==
    ASSUME UNCHANGED <<now, batch, cur>>, m_queue' = m_queue \/ m_queue' = {},
           \A s \in States : s \in m_timers' /\ m_is_active'[s] =>
               s \in m_timers /\ m_is_active[s] /\ m_generation'[s] = m_generation[s]
    PROVE  Contract!Disarm
<1> DEFINE S == {s \in States : LiveEntries(s)' = {}}
<1>1. ASSUME NEW s \in States PROVE LiveEntries(s)' = LiveEntries(s) \/ LiveEntries(s)' = {}
  <2>1. CASE m_queue' = {}
    BY <2>1 DEF LiveEntries
  <2>2. CASE m_queue' = m_queue /\ s \in m_timers' /\ m_is_active'[s]
    BY <2>2 DEF LiveEntries, IsLive
  <2>3. CASE ~(s \in m_timers' /\ m_is_active'[s])
    BY <2>3 DEF LiveEntries, IsLive
  <2> QED
    BY <2>1, <2>2, <2>3
<1>2. \A s \in States : Deadline'[s] = IF s \in S THEN -1 ELSE Deadline[s]
  BY <1>1, SameEntriesSameDeadline, NoEntryNoDeadline
<1>3. Deadline' = [s \in States |-> IF s \in S THEN -1 ELSE Deadline[s]]
  BY <1>2 DEF Deadline
<1>4. S \in SUBSET States
  OBVIOUS
<1> HIDE DEF S
<1>5. Taken' = Taken /\ Running' = Running
  BY DEF Taken, Running
<1> QED
  BY <1>3, <1>4, <1>5 DEF Contract!Disarm, Contract!None, Taken, Running

\* The new entry of start() or of a reschedule is the only live one of its
\* timer, if that is registered; the other timers keep theirs.
LEMMA RequeueArms ==
    ASSUME TicketInv, NEW s \in States, NEW fire \in Nat, Requeue(s, fire), m_timers' = m_timers,
           m_is_active'[s], \A o \in States : o # s => m_is_active'[o] = m_is_active[o]
    PROVE  /\ \A o \in States : o # s => Deadline'[o] = Deadline[o]
           /\ s \in m_timers => Deadline'[s] = fire
           /\ s \notin m_timers => Deadline'[s] = Deadline[s]
<1> DEFINE new == [fire |-> fire, state |-> s, gen |-> m_generation[s] + 1]
<1>1. /\ \A o \in States : m_generation'[o] = IF o = s THEN m_generation[s] + 1 ELSE m_generation[o]
      /\ \A o \in States : m_generation[o] \in Nat
      /\ m_queue' = m_queue \cup {new}
      /\ \A e \in m_queue : e.state \in States /\ e.gen \in Nat /\ e.gen <= m_generation[e.state]
  BY DEF Requeue, TicketInv, GenBound, TypeInv, TypeOK, Entry
<1>2. ASSUME NEW o \in States, o # s PROVE LiveEntries(o)' = LiveEntries(o)
  BY <1>1, <1>2 DEF LiveEntries, IsLive
<1>3. ASSUME s \in m_timers PROVE LiveEntries(s)' = {new}
  <2>1. new.state = s /\ new.gen = m_generation[s] + 1
    OBVIOUS
  <2> HIDE DEF new
  <2>2. \A e : e \in LiveEntries(s)' <=> e = new
    BY <1>1, <1>3, <2>1 DEF LiveEntries, IsLive
  <2> QED
    BY <2>2
<1>4. ASSUME s \notin m_timers PROVE LiveEntries(s)' = LiveEntries(s)
  BY <1>4 DEF LiveEntries, IsLive
<1>5. ASSUME s \in m_timers PROVE Deadline'[s] = fire
  <2>1. LiveEntries(s)' = {new}
    BY <1>3, <1>5
  <2>2. (CHOOSE e \in {new} : TRUE) = new
    OBVIOUS
  <2>3. new.fire = fire
    OBVIOUS
  <2> HIDE DEF new
  <2> QED
    BY <2>1, <2>2, <2>3 DEF Deadline
<1> QED
  BY <1>2, <1>4, <1>5, SameEntriesSameDeadline

\* start_timer arms the timer, or does nothing that shows when stop() has
\* dropped the state meanwhile.
LEMMA StartArms ==
    ASSUME ContractInv, NEW th \in Threads, StartTimer(th)
    PROVE  Contract!Next
<1> DEFINE s == call[th].state
<1>1. TypeInv /\ TicketInv
  BY DEF ContractInv, ShotsInv, TicketInv
<1>2. s \in States /\ call[th].time \in Nat
  BY <1>1 DEF StartTimer, TypeInv, TypeOK, CallOK, StateOps, Call
<1>3. /\ UNCHANGED <<now, m_timers, batch, cur>> /\ m_is_active'[s] /\ Requeue(s, call[th].time)
      /\ \A o \in States : o # s => m_is_active'[o] = m_is_active[o]
  BY <1>1, <1>2 DEF StartTimer, Requeue, TypeInv, TypeOK, execVars
<1>4. /\ \A o \in States : o # s => Deadline'[o] = Deadline[o]
      /\ s \in m_timers => Deadline'[s] = call[th].time
      /\ s \notin m_timers => Deadline'[s] = Deadline[s]
  BY <1>1, <1>2, <1>3, RequeueArms
<1>5. Taken' = Taken /\ Running' = Running
  BY <1>3 DEF Taken, Running
<1>6. CASE s \in m_timers
  <2>1. PICK i \in Intervals, then \in 0 .. now : call[th].time = then + i
    BY DEF ContractInv, FromNow, StartTimer
  <2>2. Deadline' = [Deadline EXCEPT ![s] = then + i]
    BY <1>2, <1>4, <1>6, <2>1 DEF Deadline
  <2>3. Contract!Arm(s)
    BY <1>3, <1>5, <2>1, <2>2 DEF Contract!Arm, Taken, Running
  <2> QED
    BY <1>2, <2>3 DEF Contract!Next
<1>7. CASE s \notin m_timers
  <2>1. Deadline' = [o \in States |-> IF o \in {} THEN -1 ELSE Deadline[o]]
    BY <1>4, <1>7 DEF Deadline
  <2>2. {} \in SUBSET States
    OBVIOUS
  <2>3. Contract!Disarm
    BY <1>3, <1>5, <2>1, <2>2 DEF Contract!Disarm, Contract!None, Taken, Running
  <2> QED
    BY <2>3 DEF Contract!Next
<1> QED
  BY <1>6, <1>7

\* collect_due_timers_locked takes every timer that is due, and no other.
LEMMA CollectTakes ==
    ASSUME ContractInv, Collecting, UNCHANGED <<now, cur>>
    PROVE  Contract!Next
<1>1. TypeOK /\ TicketInv
  BY DEF ContractInv, ShotsInv, TicketInv, TypeInv
<1>2. PICK th \in Threads, rest \in {"idle", "top"} : batch[th] = {} /\ CollectDueTimers(th, rest)
  BY DEF Collecting
<1> DEFINE due == {e \in DueEntries : IsLive(e)}
           Due == {s \in States : Deadline[s] # -1 /\ Deadline[s] <= now}
<1>3. m_queue' = m_queue \ DueEntries /\ batch' = [batch EXCEPT ![th] = due]
  BY <1>2 DEF CollectDueTimers
<1>4. ASSUME NEW s \in States
      PROVE  LiveEntries(s)' = {e \in LiveEntries(s) : ~(e.fire <= now)}
  BY <1>3 DEF LiveEntries, IsLive, DueEntries, Collecting
<1>5. ASSUME NEW s \in States PROVE Deadline'[s] = IF s \in Due THEN -1 ELSE Deadline[s]
  <2>1. CASE LiveEntries(s) = {}
    BY <1>4, <2>1 DEF Deadline
  <2>2. ASSUME NEW e \in LiveEntries(s) PROVE Deadline'[s] = IF s \in Due THEN -1 ELSE Deadline[s]
    <3>1. LiveEntries(s) = {e} /\ Deadline[s] = e.fire /\ e.fire \in Nat
      BY <1>1, OneLiveEntry DEF Entry
    <3>2. CASE e.fire <= now
      BY <1>4, <3>1, <3>2, NoEntryNoDeadline
    <3>3. CASE ~(e.fire <= now)
      BY <1>4, <3>1, <3>3, SameEntriesSameDeadline
    <3> QED
      BY <3>2, <3>3
  <2> QED
    BY <2>1, <2>2
<1>6. Deadline' = [s \in States |-> IF s \in Due THEN -1 ELSE Deadline[s]]
  BY <1>5 DEF Deadline
<1>7. {Firing(e) : e \in due} = {[state |-> s, at |-> Deadline[s]] : s \in Due}
  <2>1. ASSUME NEW e \in due PROVE Firing(e) \in {[state |-> s, at |-> Deadline[s]] : s \in Due}
    <3>1. e.state \in States /\ e \in LiveEntries(e.state) /\ e.fire <= now
      BY <1>1 DEF LiveEntries, DueEntries, TypeOK, Entry
    <3>2. Deadline[e.state] = e.fire /\ e.fire \in Nat
      BY <1>1, <3>1, OneLiveEntry DEF Entry
    <3>3. e.state \in Due
      BY <3>1, <3>2
    <3> QED
      BY <3>2, <3>3 DEF Firing
  <2>2. ASSUME NEW s \in Due PROVE [state |-> s, at |-> Deadline[s]] \in {Firing(e) : e \in due}
    <3>1. PICK e \in LiveEntries(s) : Deadline[s] = e.fire
      BY <1>1, DeadlineExists
    <3>2. e \in due /\ e.state = s
      BY <3>1 DEF LiveEntries, DueEntries
    <3> QED
      BY <3>1, <3>2 DEF Firing
  <2> QED
    BY <2>1, <2>2
<1>8. Taken[th] = {} /\ Running' = Running
  BY <1>2 DEF Taken, Running
<1>9. Taken' = [Taken EXCEPT ![th] = {[state |-> s, at |-> Deadline[s]] : s \in Due}]
  <2>1. \A o \in Threads : batch'[o] = IF o = th THEN due ELSE batch[o]
    BY <1>1, <1>3 DEF TypeOK
  <2> HIDE DEF due, Due
  <2> QED
    BY <1>7, <2>1 DEF Taken
<1>10. Contract!Due = Due
  BY DEF Contract!Due, Contract!None
<1> HIDE DEF Due, due
<1>11. Contract!Take(th)
  BY <1>6, <1>8, <1>9, <1>10 DEF Contract!Take, Contract!None, Taken, Running
<1> QED
  BY <1>11 DEF Contract!Next

\* A due entry is a real one, and none stands for "no entry".
LEMMA FiringIsReal ==
    ASSUME NEW e \in Entry
    PROVE  e # Nil /\ Firing(e) # Nil /\ Firing(e).state = e.state /\ Firing(e).at = e.fire
<1>1. Firing(e) \in [state : States, at : Nat]
  BY DEF Firing, Entry
<1> QED
  BY <1>1, NilAssumption DEF Firing

\* The earliest entry of the batch is fetched.
LEMMA FetchBegins ==
    ASSUME ContractInv, NEW th \in Threads, FetchCallback(th)
    PROVE  Contract!Next
<1>1. TypeOK /\ ShapeInv
  BY DEF ContractInv, ShotsInv, TicketInv, TypeInv
<1>2. PICK e \in batch[th] : /\ \A f \in batch[th] : e.fire <= f.fire
                             /\ cur' = [cur EXCEPT ![th] = e]
  BY DEF FetchCallback
<1>3. e \in Entry
  BY <1>1 DEF TypeOK
<1>4. UNCHANGED <<now, m_queue, m_timers, m_is_active, m_generation, batch>>
  BY DEF FetchCallback, schedVars, stateVars, flagVars
<1>5. Deadline' = Deadline /\ Taken' = Taken
  BY <1>4 DEF Deadline, LiveEntries, IsLive, Taken
<1>6. Running[th] = Nil
  BY <1>1 DEF FetchCallback, ShapeInv, Executing, Running
<1>7. Running' = [Running EXCEPT ![th] = Firing(e)]
  <2>1. \A o \in Threads : cur'[o] = IF o = th THEN e ELSE cur[o]
    BY <1>1, <1>2 DEF TypeOK
  <2>2. e # Nil
    BY <1>3, FiringIsReal
  <2> QED
    BY <2>1, <2>2 DEF Running
<1>8. Firing(e) \in Taken[th] /\ \A g \in Taken[th] : Firing(e).at <= g.at
  <2>1. ASSUME NEW f \in batch[th] PROVE Firing(e).at <= Firing(f).at
    BY <1>2 DEF Firing
  <2> QED
    BY <2>1 DEF Taken
<1>9. Contract!Begin(th)
  BY <1>4, <1>5, <1>6, <1>7, <1>8 DEF Contract!Begin, Taken, Running
<1> QED
  BY <1>9 DEF Contract!Next

\* A helper that ends is not armed for another time: it was started once.
LEMMA ShotHasNoDeadline ==
    ASSUME ContractInv, NEW th \in Threads, NEW e \in batch[th], e.state \in States,
           m_is_active[e.state], m_is_single_shot[e.state]
    PROVE  LiveEntries(e.state) = {}
<1>1. TypeOK /\ GenBound /\ Once /\ ShotInv /\ FromNow /\ EntriesArePositive
  BY DEF ContractInv, ShotsInv, TicketInv, TypeInv
<1>2. e.state \in Shots
  BY <1>1 DEF FromNow, States
<1>3. m_generation[e.state] <= 1 /\ e.gen >= 1 /\ e.gen <= m_generation[e.state]
  BY <1>1, <1>2 DEF ShotInv, EntriesArePositive, GenBound
<1>4. e.gen \in Nat /\ m_generation[e.state] \in Nat
  BY <1>1 DEF TypeOK, Entry
<1>5. e.gen = m_generation[e.state]
  BY <1>3, <1>4
<1> QED
  BY <1>1, <1>5 DEF LiveEntries, IsLive, Once

\* finalize_timer ends the firing; a timer that is not superseded is armed
\* again, counting from the time it was due.
LEMMA FinalizeFinishes ==
    ASSUME ContractInv, NEW th \in Threads, FinalizeTimer(th), NEW due, due = cur[th]
    PROVE  Contract!Next
<1> DEFINE s == due.state
<1>1. TypeOK /\ TicketInv /\ Once /\ FromNow
  BY DEF ContractInv, ShotsInv, TicketInv, TypeInv
<1>2. due \in batch[th] /\ due \in Entry /\ s \in States /\ due.fire \in Nat
  BY <1>1 DEF FinalizeTimer, TicketInv, TypeInv, TypeOK, ExecOK, Executing, Entry
<1>3. /\ \A o \in Threads : batch'[o] = IF o = th THEN batch[o] \ {due} ELSE batch[o]
      /\ \A o \in Threads : cur'[o] = IF o = th THEN Nil ELSE cur[o]
      /\ UNCHANGED <<now, m_timers, m_interval_ms, m_is_single_shot>>
  BY <1>1 DEF FinalizeTimer, TypeOK, confVars
<1>4. due # Nil /\ Firing(due) # Nil /\ Firing(due).state = s /\ Firing(due).at = due.fire
  BY <1>2, FiringIsReal
<1>5. Running[th] = Firing(due) /\ Running' = [Running EXCEPT ![th] = Nil]
  BY <1>3, <1>4 DEF Running
<1>6. Taken' = [Taken EXCEPT ![th] = @ \ {Firing(due)}]
  <2>1. \A e \in batch[th] : Firing(e) = Firing(due) => e = due
    BY <1>1, <1>2 DEF Firing, Once
  <2>2. {Firing(e) : e \in batch[th] \ {due}} = {Firing(e) : e \in batch[th]} \ {Firing(due)}
    BY <2>1
  <2> QED
    BY <1>3, <2>2 DEF Taken
<1>7. Deadline' = Deadline => Contract!Finish(th)
  BY <1>3, <1>4, <1>5, <1>6 DEF Contract!Finish, Taken, Running
<1>8. CASE UNCHANGED <<flagVars, m_queue>>
  <2>1. Deadline' = Deadline
    BY <1>3, <1>8 DEF Deadline, LiveEntries, IsLive, flagVars
  <2> QED
    BY <1>7, <2>1 DEF Contract!Next
<1>9. CASE m_is_active[s] /\ m_is_single_shot[s] /\ Deactivate(s) /\ m_queue' = m_queue
  <2>1. LiveEntries(s) = {}
    BY <1>2, <1>9, ShotHasNoDeadline
  <2>6. ~m_is_active'[s]
    BY <1>1, <1>2, <1>9 DEF Deactivate, TypeOK
  <2>2. LiveEntries(s)' = {}
    BY <2>6 DEF LiveEntries, IsLive
  <2>3. ASSUME NEW o \in States, o # s PROVE LiveEntries(o)' = LiveEntries(o)
    BY <1>1, <1>3, <1>9, <2>3 DEF LiveEntries, IsLive, Deactivate, TypeOK
  <2>7. \A o \in States : LiveEntries(o)' = LiveEntries(o)
    BY <2>1, <2>2, <2>3
  <2>4. \A o \in States : Deadline'[o] = Deadline[o]
    BY <2>7, SameEntriesSameDeadline
  <2>5. Deadline' = Deadline
    BY <2>4 DEF Deadline
  <2> QED
    BY <1>7, <2>5 DEF Contract!Next
<1>10. CASE /\ m_is_active[s] /\ UNCHANGED m_is_active /\ ~Superseded(due)
            /\ Requeue(s, due.fire + m_interval_ms[s])
  <2> DEFINE i == m_interval_ms[s]
  <2>1. i \in Intervals /\ i \in Nat
    BY <1>1, <1>2 DEF FromNow, TypeOK
  <2>2. LiveEntries(s) = {}
    BY <1>1, <1>2, <1>10 DEF LiveEntries, IsLive, Once, Superseded
  <2>3. Deadline[s] = -1
    BY <1>2, <2>2, NoLiveEntry
  <2>4. /\ \A o \in States : o # s => Deadline'[o] = Deadline[o]
        /\ s \in m_timers => Deadline'[s] = due.fire + i
        /\ s \notin m_timers => Deadline'[s] = Deadline[s]
    <3>1. due.fire + i \in Nat /\ m_is_active'[s]
      BY <1>2, <1>10, <2>1
    <3>2. m_timers' = m_timers /\ \A o \in States : o # s => m_is_active'[o] = m_is_active[o]
      BY <1>3, <1>10
    <3> QED
      BY <1>1, <1>2, <1>10, <3>1, <3>2, RequeueArms
  <2>5. CASE s \notin m_timers
    <3>1. Deadline' = Deadline
      BY <2>4, <2>5 DEF Deadline
    <3> QED
      BY <1>7, <3>1 DEF Contract!Next
  <2>6. CASE s \in m_timers
    <3>1. Deadline' = [Deadline EXCEPT ![s] = due.fire + i]
      BY <1>2, <2>4, <2>6 DEF Deadline
    <3>2. Contract!Finish(th)
      BY <1>3, <1>4, <1>5, <1>6, <2>1, <2>3, <3>1 DEF Contract!Finish, Contract!None, Taken, Running
    <3> QED
      BY <3>2 DEF Contract!Next
  <2> QED
    BY <2>5, <2>6
<1> QED
  BY <1>8, <1>9, <1>10 DEF FinalizeTimer, Reschedule, Requeue, NextEntry

\* Which steps change what a thread executes, and the clock.
LEMMA NowAndCur ==
    ASSUME [Next]_vars
    PROVE  \/ UNCHANGED <<now, cur>> \/ Tick
           \/ \E th \in Threads : FetchCallback(th) \/ FinalizeTimer(th)
<1>1. ASSUME NEW th \in Threads, Progress(th), ~FetchCallback(th), ~FinalizeTimer(th)
      PROVE  UNCHANGED <<now, cur>>
  BY <1>1 DEF Progress, Own, WaitReturns, Drained, Disown, ClearCallback, Erase, ArmShot, StartTimer,
     StopJoined, ClearOrphan, Teardown, CallbackReturns, CallbackThrows, ShotClears, ShotErases, execVars
<1>2. ASSUME NEW th \in Threads, ApiCall(th) PROVE UNCHANGED <<now, cur>>
  BY <1>2 DEF ApiCall, Construct, Start, StopAndWait, Destroy, SingleShot, Run,
     StopScheduler, DestroyScheduler, RequestStop, Process, execVars
<1>3. ASSUME NEW w \in Workers, WorkerStep(w) PROVE UNCHANGED <<now, cur>>
  BY <1>3 DEF WorkerStep, WorkerTop, WakeEmpty, WakeUntil
<1>4. ASSUME NEW t \in Timers, Configure(t) PROVE UNCHANGED <<now, cur>>
  BY <1>4 DEF Configure, SetInterval, SetSingleShot, SetCallback, Stop, threadVars, execVars
<1>5. CASE UNCHANGED vars
  BY <1>5 DEF vars, threadVars, execVars
<1> QED
  BY <1>1, <1>2, <1>3, <1>4, <1>5 DEF Next

LEMMA ContractStep ==
    ASSUME ContractInv, TypeInv', [Next]_vars
    PROVE  Contract!Next
<1> USE SchedulerAssumption
<1>1. TicketInv /\ TypeOK
  BY DEF ContractInv, ShotsInv, TicketInv, TypeInv
<1>2. CASE Tick
  <2>1. UNCHANGED <<m_queue, m_timers, m_is_active, m_generation, batch, cur>> /\ now' = now + 1
    BY <1>2 DEF Tick, schedVars, stateVars, flagVars, threadVars, execVars
  <2>2. Deadline' = Deadline
    BY <2>1 DEF Deadline, LiveEntries, IsLive
  <2>3. Taken' = Taken /\ Running' = Running
    BY <2>1 DEF Taken, Running
  <2>4. Contract!Advance
    BY <2>1, <2>2, <2>3 DEF Contract!Advance, Taken, Running
  <2> QED
    BY <2>4 DEF Contract!Next
<1>3. ASSUME NEW th \in Threads, FetchCallback(th) \/ FinalizeTimer(th) PROVE Contract!Next
  BY <1>3, FetchBegins, FinalizeFinishes
<1>4. CASE UNCHANGED <<now, cur>> /\ Calm
  <2>1. Contract!Disarm
    BY <1>4, CalmDisarms DEF Calm
  <2> QED
    BY <2>1 DEF Contract!Next
<1>5. CASE UNCHANGED <<now, cur>> /\ Collecting
  BY <1>5, CollectTakes
<1>6. ASSUME NEW th \in Threads, StartTimer(th) PROVE Contract!Next
  BY <1>6, StartArms
<1>7. ASSUME NEW th \in Threads, Teardown(th) PROVE Contract!Next
  <2>1. UNCHANGED <<now, batch, cur>> /\ m_queue' = {} /\ m_timers' = {}
    BY <1>7 DEF Teardown, execVars
  <2>2. Contract!Disarm
    BY <2>1, CalmDisarms
  <2> QED
    BY <2>2 DEF Contract!Next
<1> QED
  BY <1>1, <1>2, <1>3, <1>4, <1>5, <1>6, <1>7, NowAndCur, EntrySteps

LEMMA ContractStart == Init => Contract!Init
<1> SUFFICES ASSUME Init PROVE Contract!Init
  OBVIOUS
<1>1. Deadline = [s \in States |-> -1]
  BY DEF Init, Deadline, LiveEntries
<1>2. Taken = [th \in Threads |-> {}] /\ Running = [th \in Threads |-> Nil]
  BY DEF Init, Taken, Running
<1> QED
  BY <1>1, <1>2 DEF Init, Contract!Init, Contract!None, Taken, Running

\* start(), stop(), process(), the worker and the destructors, with their
\* generations and lazy cancellation, show nothing that the contract does not
\* allow: no firing before its time, none after stop(), none twice, a fixed
\* rate, and no start() made in a callback that the reschedule overwrites.
THEOREM TimersKeepTheContract == PeriodicTimers => (Spec => ImplementsContract)
<1> SUFFICES ASSUME PeriodicTimers PROVE Spec => ImplementsContract
  OBVIOUS
<1>1. Init => Contract!Init /\ ContractInv
  BY ContractStart, ContractInit
<1>2. ContractInv /\ [Next]_vars => ContractInv'
  BY ContractNext
<1>3. ContractInv /\ ContractInv' /\ [Next]_vars => [Contract!Next]_(Contract!vars)
  BY ContractStep DEF ContractInv, ShotsInv, TicketInv
<1> QED
  BY <1>1, <1>2, <1>3, PTL DEF Spec, ImplementsContract, Contract!Spec

=============================================================================
