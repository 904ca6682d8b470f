----------------------------- MODULE NtpPoolRunner -----------------------------
(***************************************************************************)
(* BasicPoolRunner: a thread that measures periodically, or when forced,   *)
(* and callers that measure too. One thread, the owner, starts and stops   *)
(* it (NtpTimeService sees to that); every atomic access is a step, and    *)
(* the pool does its steps in the middle of a do_measure(). The interval   *)
(* is abstract: a sleep may time out whenever it lasts.                    *)
(***************************************************************************)
EXTENDS NtpClientPool

CONSTANTS Worker, Owner, Users

ASSUME RunnerAssumption ==
    /\ Measurers = Users \cup {Worker}
    /\ Owner \in Users /\ Worker \notin Users

VARIABLES
    m_thread,        \* "none" or "joinable"
    m_is_running, m_is_stop_requested, m_is_force_requested,
    m_last_measure_ok,
    pc               \* where each thread is in the runner's code

runnerVars == <<m_thread, m_is_running, m_is_stop_requested, m_is_force_requested, m_last_measure_ok, pc>>
vars == <<poolVars, runnerVars>>

\* The worker sleeps in m_cv.wait_for at "sleep"; at "block" it has looked at
\* the flags and does not sleep yet. Notifications come without m_cv_mtx, so
\* one that comes then is lost.
WorkerPc == {"off", "first", "loop", "check", "block", "sleep", "woken", "end"}
UserPc   == {"idle", "create", "stop_notify", "join", "stop_end", "force_store", "force_notify"}
MeasurePc == {"lock", "measuring", "stats"}

Init ==
    /\ PoolInit
    /\ m_thread = "none"
    /\ m_is_running = FALSE /\ m_is_stop_requested = FALSE /\ m_is_force_requested = FALSE
    /\ m_last_measure_ok = FALSE
    /\ pc = [th \in Measurers |-> IF th = Worker THEN "off" ELSE "idle"]

Goto(th, from, to) == pc[th] = from /\ pc' = [pc EXCEPT ![th] = to]

\* m_cv.notify_all and notify_one: at most one thread sleeps.
Notified == [pc EXCEPT ![Worker] = IF @ = "sleep" THEN "check" ELSE @]

----------------------------------------------------------------------------
(* do_measure(), of the worker and of measure_now()                        *)

\* Defective: measures without m_pool_mtx.
NoMutex == TRUE

PoolIsFree == \A th \in Measurers : pc[th] # "measuring"

DoMeasure(th) ==
    /\ PoolIsFree
    /\ Measure(th, m_cfg.sample_servers)
    /\ Goto(th, "lock", "measuring")
    /\ UNCHANGED <<m_thread, m_is_running, m_is_stop_requested, m_is_force_requested, m_last_measure_ok>>

PoolStep(th) == pc[th] = "measuring" /\ MeasureStep(th) /\ UNCHANGED runnerVars

Unlock(th) ==
    /\ measuring[th].pc = "idle"
    /\ Goto(th, "measuring", "stats")
    /\ UNCHANGED <<m_thread, m_is_running, m_is_stop_requested, m_is_force_requested, m_last_measure_ok, poolVars>>

BackTo(th) == IF th = Worker THEN "loop" ELSE "idle"

\* The statistics are stored without a lock; of them only the result is kept.
StoreStats(th) ==
    /\ m_last_measure_ok' = measuring[th].ok
    /\ Goto(th, "stats", BackTo(th))
    /\ UNCHANGED <<m_thread, m_is_running, m_is_stop_requested, m_is_force_requested, poolVars>>

MeasureSteps(th) == DoMeasure(th) \/ PoolStep(th) \/ Unlock(th) \/ StoreStats(th)

----------------------------------------------------------------------------
(* run_loop()                                                              *)

LoopTop ==
    /\ \/ pc[Worker] = "first" /\ Goto(Worker, "first", IF m_is_stop_requested THEN "end" ELSE "lock")
       \/ pc[Worker] = "loop"  /\ Goto(Worker, "loop",  IF m_is_stop_requested THEN "end" ELSE "check")
    /\ UNCHANGED <<m_thread, m_is_running, m_is_stop_requested, m_is_force_requested, m_last_measure_ok, poolVars>>

CheckFlags ==
    /\ Goto(Worker, "check", IF m_is_stop_requested \/ m_is_force_requested THEN "woken" ELSE "block")
    /\ UNCHANGED <<m_thread, m_is_running, m_is_stop_requested, m_is_force_requested, m_last_measure_ok, poolVars>>

Block ==
    /\ Goto(Worker, "block", "sleep")
    /\ UNCHANGED <<m_thread, m_is_running, m_is_stop_requested, m_is_force_requested, m_last_measure_ok, poolVars>>

\* Defective: waits for a notification only.
NeverElapses == FALSE

IntervalElapses == pc[Worker] = "sleep"

TimesOut ==
    /\ IntervalElapses
    /\ Goto(Worker, "sleep", "woken")
    /\ UNCHANGED <<m_thread, m_is_running, m_is_stop_requested, m_is_force_requested, m_last_measure_ok, poolVars>>

Woken ==
    /\ Goto(Worker, "woken", IF m_is_stop_requested THEN "end" ELSE "lock")
    /\ m_is_force_requested' = (m_is_force_requested /\ m_is_stop_requested)
    /\ UNCHANGED <<m_thread, m_is_running, m_is_stop_requested, m_last_measure_ok, poolVars>>

LoopEnds ==
    /\ Goto(Worker, "end", "off")
    /\ m_is_running' = FALSE
    /\ UNCHANGED <<m_thread, m_is_stop_requested, m_is_force_requested, m_last_measure_ok, poolVars>>

RunLoop == LoopTop \/ CheckFlags \/ Block \/ TimesOut \/ Woken \/ LoopEnds

----------------------------------------------------------------------------
(* start(), stop(), force_measure(), measure_now()                         *)

Start ==
    /\ ~m_is_running
    /\ m_is_stop_requested' = FALSE /\ m_is_force_requested' = FALSE /\ m_is_running' = TRUE
    /\ Goto(Owner, "idle", "create")
    /\ UNCHANGED <<m_thread, m_last_measure_ok, poolVars>>

CreateThread ==
    /\ pc[Owner] = "create"
    /\ \/ /\ m_thread' = "joinable" /\ UNCHANGED m_is_running
          /\ \E top \in {"first", "loop"} : pc' = [pc EXCEPT ![Owner] = "idle", ![Worker] = top]
       \/ /\ m_is_running' = FALSE /\ UNCHANGED m_thread          \* no thread
          /\ Goto(Owner, "create", "idle")
    /\ UNCHANGED <<m_is_stop_requested, m_is_force_requested, m_last_measure_ok, poolVars>>

Stop ==
    /\ m_is_stop_requested' = TRUE
    /\ Goto(Owner, "idle", "stop_notify")
    /\ UNCHANGED <<m_thread, m_is_running, m_is_force_requested, m_last_measure_ok, poolVars>>

StopNotify ==
    /\ pc[Owner] = "stop_notify"
    /\ pc' = [Notified EXCEPT ![Owner] = "join"]
    /\ UNCHANGED <<m_thread, m_is_running, m_is_stop_requested, m_is_force_requested, m_last_measure_ok, poolVars>>

\* Defective: does not wait for the thread.
DoesNotWait == TRUE

ThreadHasEnded == m_thread = "none" \/ pc[Worker] = "off"

Join ==
    /\ ThreadHasEnded
    /\ Goto(Owner, "join", "stop_end")
    /\ m_thread' = "none"
    /\ UNCHANGED <<m_is_running, m_is_stop_requested, m_is_force_requested, m_last_measure_ok, poolVars>>

StopEnd ==
    /\ m_is_running' = FALSE
    /\ Goto(Owner, "stop_end", "idle")
    /\ UNCHANGED <<m_thread, m_is_stop_requested, m_is_force_requested, m_last_measure_ok, poolVars>>

ForceMeasure(th) ==
    /\ m_is_running
    /\ Goto(th, "idle", "force_store")
    /\ UNCHANGED <<m_thread, m_is_running, m_is_stop_requested, m_is_force_requested, m_last_measure_ok, poolVars>>

ForceStore(th) ==
    /\ m_is_force_requested' = TRUE
    /\ Goto(th, "force_store", "force_notify")
    /\ UNCHANGED <<m_thread, m_is_running, m_is_stop_requested, m_last_measure_ok, poolVars>>

ForceNotify(th) ==
    /\ pc[th] = "force_notify"
    /\ pc' = [Notified EXCEPT ![th] = "idle"]
    /\ UNCHANGED <<m_thread, m_is_running, m_is_stop_requested, m_is_force_requested, m_last_measure_ok, poolVars>>

MeasureNow(th) ==
    /\ Goto(th, "idle", "lock")
    /\ UNCHANGED <<m_thread, m_is_running, m_is_stop_requested, m_is_force_requested, m_last_measure_ok, poolVars>>

Calls(th) == ForceMeasure(th) \/ MeasureNow(th) \/ (th = Owner /\ (Start \/ Stop))

\* What a thread inside a call does next.
Steps(th) ==
    \/ MeasureSteps(th) \/ ForceStore(th) \/ ForceNotify(th)
    \/ th = Owner /\ (CreateThread \/ StopNotify \/ Join \/ StopEnd)

ClockTicks == Tick /\ UNCHANGED runnerVars

Next ==
    \/ RunLoop \/ MeasureSteps(Worker)
    \/ \E th \in Users : Calls(th) \/ Steps(th)
    \/ ClockTicks

Spec == Init /\ [][Next]_vars

\* Threads are scheduled, a sleep times out and a query ends; no call need come.
FairSpec ==
    /\ Spec
    /\ WF_vars(RunLoop \/ MeasureSteps(Worker))
    /\ \A th \in Users : WF_vars(Steps(th))

----------------------------------------------------------------------------
(* Properties                                                              *)

RunnerTypeOK ==
    /\ m_thread \in {"none", "joinable"}
    /\ m_is_running \in BOOLEAN /\ m_is_stop_requested \in BOOLEAN /\ m_is_force_requested \in BOOLEAN
    /\ m_last_measure_ok \in BOOLEAN
    /\ pc \in [Measurers -> WorkerPc \cup UserPc \cup MeasurePc]
    /\ pc[Worker] \notin UserPc /\ \A th \in Users : pc[th] \notin WorkerPc

\* A server is never asked before its next_allowed, although that was looked at
\* when the servers were picked, other measurements are made by other threads,
\* and the queries come one after the other.
NotTooSoon ==
    [][\A th \in Measurers :
         LET s == measuring'[th].asked
         IN  measuring[th].asked = NoServer /\ s # NoServer => now >= m_servers[s].next_allowed]_vars

\* When nobody measures, the offset (without smoothing) is the estimate made
\* from the samples that last_samples() returns, if they were enough.
SamplesExplainOffset ==
    (\A th \in Measurers : measuring[th].pc = "idle") /\ m_cfg.alpha >= AlphaUnit /\ Enough(m_last_samples, m_cfg)
        => m_offset_us = Estimate(m_cfg.aggregation, m_last_samples)

\* A stop() that has returned leaves nothing behind, whoever forced or made a
\* measurement meanwhile: the thread is over and joined, and so a start() that
\* follows has no joinable thread to overwrite.
StopIsComplete ==
    pc[Owner] = "create" \/ (pc[Owner] = "idle" /\ ~m_is_running)
        => m_thread = "none" /\ pc[Worker] = "off"

NoMoreCalls == <>[][\A th \in Users : pc[th] = "idle" => pc'[th] = "idle"]_vars

\* stop() returns, also when its notification comes too early to be heard. (A
\* worker may be kept from m_pool_mtx as long as others go on measuring.)
StopReturns == NoMoreCalls => (pc[Owner] = "join" ~> pc[Owner] = "idle")

\* A forced measurement is made, though the request comes while the worker
\* measures, is about to sleep or has just been woken.
ForceIsServed ==
    NoMoreCalls =>
        (m_is_force_requested ~> \/ pc[Worker] = "lock" /\ ~m_is_force_requested
                                 \/ m_is_stop_requested \/ ~m_is_running)

=============================================================================
