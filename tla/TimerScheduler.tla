--------------------------- MODULE TimerScheduler ---------------------------
(***************************************************************************)
(* TimerScheduler.hpp: the scheduler, its worker thread, Timer objects and *)
(* the single-shot helper.  Every critical section of m_mutex or of a      *)
(* callback mutex, and every atomic access made outside of them, is one    *)
(* action; a call that takes several of them is tracked in call[thread].   *)
(*                                                                         *)
(* Callers keep the C++ rules the header relies on: nobody calls a Timer   *)
(* whose destructor has begun, stop_and_wait() is not called from the      *)
(* timer's own callback (an assert), process() is not called while         *)
(* m_is_worker_running (an assert), a callback neither nests process() nor *)
(* stops the worker it runs on.                                            *)
(***************************************************************************)
EXTENDS Integers, FiniteSets

CONSTANTS
    Timers,      \* timer states owned by a Timer object
    Shots,       \* timer states made by Timer::single_shot
    Workers,     \* identities of the threads run() may create
    Apps,        \* application threads
    Pollers,     \* application threads that may call process()
    Stoppers,    \* application threads that may call run() and stop()
    Waiters,     \* threads that may call stop_and_wait() or destroy a Timer
    Closers,     \* application threads that may destroy the scheduler
    Intervals,   \* intervals in use, in ticks
    Modes,       \* values given to set_single_shot()
    MayThrow,    \* whether the user callback of a helper may throw
    MaxTime,     \* bound: the clock stops here
    MaxCalls,    \* bound: no call bumps a generation beyond it
    MaxGen,      \* bound: nothing is collected once a generation reaches it
    Nil

Threads == Workers \cup Apps
States  == Timers \cup Shots

ASSUME SchedulerAssumption ==
    /\ Timers \cap Shots = {} /\ Workers \cap Apps = {}
    /\ Pollers \subseteq Apps /\ Stoppers \subseteq Apps
    /\ Waiters \subseteq Threads /\ Closers \subseteq Apps
    /\ Intervals \subseteq Nat /\ Modes \subseteq BOOLEAN
    /\ MayThrow \in BOOLEAN
    /\ MaxTime \in Nat /\ MaxCalls \in Nat /\ MaxGen \in Nat
    /\ Nil \notin States \cup Workers

VARIABLES
    now,                  \* steady_clock, in ticks
    m_queue,              \* scheduled entries [fire, state, gen]
    m_timers,             \* states in the id map
    m_is_worker_running,
    m_stop_requested,
    m_thread,             \* the worker held by the std::thread member, or Nil
    m_interval_ms, m_is_single_shot, m_is_active, m_is_running,
    m_generation, m_callback, m_has_external_owner,
    life,                 \* progress of the object: fresh .. dead
    closed,               \* ~TimerScheduler: "no", "begun" or "done"
    pc,                   \* where a thread is in worker_loop / execution
    batch,                \* due entries a thread has collected and not finalized
    cur,                  \* the due entry a thread is executing
    call,                 \* the multi-step API call a thread is inside
    wakeAt,               \* time a worker's wait_until ends
    signalled             \* workers notified while waiting on m_cv

schedVars  == <<m_queue, m_timers>>
workerVars == <<m_is_worker_running, m_stop_requested, m_thread, closed>>
flagVars   == <<m_is_active, m_generation>>
confVars   == <<m_interval_ms, m_is_single_shot, m_has_external_owner>>
stateVars  == <<flagVars, confVars, m_is_running, m_callback, life>>
waitVars   == <<wakeAt, signalled>>
execVars   == <<pc, batch, cur>>
threadVars == <<execVars, call, waitVars>>
vars == <<now, schedVars, workerVars, stateVars, threadVars>>

Entry == [fire : Nat, state : States, gen : Nat]

CallOps == {"none", "own", "push", "wait", "drain", "disown", "clear", "erase",
            "arm", "join", "orphans", "teardown"}
Call == [op : CallOps, state : States \cup {Nil}, time : Nat,
         worker : Workers \cup {Nil}, orphans : SUBSET States]

NoCall == [op |-> "none", state |-> Nil, time |-> 0, worker |-> Nil, orphans |-> {}]
On(op, s)       == [NoCall EXCEPT !.op = op, !.state = s]
At(op, s, time) == [On(op, s) EXCEPT !.time = time]

TypeOK ==
    /\ now \in Nat
    /\ m_queue \subseteq Entry
    /\ m_timers \subseteq States
    /\ m_is_worker_running \in BOOLEAN
    /\ m_stop_requested \in BOOLEAN
    /\ m_thread \in Workers \cup {Nil}
    /\ m_interval_ms \in [States -> Nat]
    /\ m_is_single_shot \in [States -> BOOLEAN]
    /\ m_is_active \in [States -> BOOLEAN]
    /\ m_is_running \in [States -> BOOLEAN]
    /\ m_generation \in [States -> Nat]
    /\ m_callback \in [States -> BOOLEAN]
    /\ m_has_external_owner \in [States -> BOOLEAN]
    /\ life \in [States -> {"fresh", "building", "alive", "closing", "dead"}]
    /\ closed \in {"no", "begun", "done"}
    /\ pc \in [Threads -> {"idle", "unborn", "top", "waitEmpty", "waitUntil", "gone",
                           "exec", "callback", "clear", "erase", "final"}]
    /\ batch \in [Threads -> SUBSET Entry]
    /\ cur \in [Threads -> Entry \cup {Nil}]
    /\ call \in [Threads -> Call]
    /\ wakeAt \in [Workers -> Nat]
    /\ signalled \subseteq Workers

Init ==
    /\ now = 0
    /\ m_queue = {} /\ m_timers = {}
    /\ m_is_worker_running = FALSE /\ m_stop_requested = FALSE /\ m_thread = Nil
    /\ m_interval_ms = [s \in States |-> 0]
    /\ m_is_single_shot = [s \in States |-> FALSE]
    /\ m_is_active = [s \in States |-> FALSE]
    /\ m_is_running = [s \in States |-> FALSE]
    /\ m_generation = [s \in States |-> 0]
    /\ m_callback = [s \in States |-> FALSE]
    /\ m_has_external_owner = [s \in States |-> FALSE]
    /\ life = [s \in States |-> "fresh"]
    /\ closed = "no"
    /\ pc = [th \in Threads |-> IF th \in Workers THEN "unborn" ELSE "idle"]
    /\ batch = [th \in Threads |-> {}]
    /\ cur = [th \in Threads |-> Nil]
    /\ call = [th \in Threads |-> NoCall]
    /\ wakeAt = [w \in Workers |-> 0]
    /\ signalled = {}

----------------------------------------------------------------------------
(* Shared pieces of the handlers                                           *)

\* A thread may call the API when it is outside the library or in a callback;
\* once ~TimerScheduler has begun only callbacks still may.
CanCall(th) ==
    /\ call[th].op = "none"
    /\ \/ pc[th] = "callback"
       \/ pc[th] = "idle" /\ closed = "no"
SomeoneCalls == \E th \in Threads : CanCall(th)

\* The timer whose callback the thread is running: current_timer_state().
CurrentTimerState(th) == IF pc[th] = "callback" THEN cur[th].state ELSE Nil

SetCall(th, c) == call' = [call EXCEPT ![th] = c]
Return(th)     == SetCall(th, NoCall)

\* Defective: a call that forgets m_cv.notify_all().
NotifyNobody == UNCHANGED signalled

NotifyAll == signalled' = signalled \cup {w \in Workers : pc[w] \in {"waitEmpty", "waitUntil"}}

\* Defective: cancels the queued entry but leaves the timer active.
OnlyBump(s) ==
    /\ m_generation' = [m_generation EXCEPT ![s] = @ + 1]
    /\ UNCHANGED m_is_active

\* TimerScheduler::stop_timer, and the locked part of destroy_timer_state.
Deactivate(s) ==
    /\ m_is_active' = [m_is_active EXCEPT ![s] = FALSE]
    /\ m_generation' = [m_generation EXCEPT ![s] = @ + 1]

StopTimer(s) == Deactivate(s) /\ NotifyAll

\* Defective: destroy_timer_state forgets the map entry.
KeepRegistered(s) == UNCHANGED m_timers

Unregister(s) == m_timers' = m_timers \ {s}

\* TimerScheduler::create_timer_state.
CreateTimerState(s) ==
    /\ life[s] = "fresh"
    /\ life' = [life EXCEPT ![s] = "building"]
    /\ m_timers' = m_timers \cup {s}

CanBump(s) == m_generation[s] < MaxCalls

----------------------------------------------------------------------------
(* Timer                                                                   *)

\* Timer::Timer: the state is registered first, marked as owned afterwards.
Construct(th, t) ==
    /\ CanCall(th)
    /\ CreateTimerState(t)
    /\ SetCall(th, On("own", t))
    /\ UNCHANGED <<now, m_queue, workerVars, flagVars, confVars, m_is_running, m_callback,
                   execVars, waitVars>>

Own(th) ==
    /\ call[th].op = "own"
    /\ m_has_external_owner' = [m_has_external_owner EXCEPT ![call[th].state] = TRUE]
    /\ life' = [life EXCEPT ![call[th].state] = "alive"]
    /\ Return(th)
    /\ UNCHANGED <<now, schedVars, workerVars, flagVars, m_interval_ms, m_is_single_shot,
                   m_is_running, m_callback, execVars, waitVars>>

SetInterval(t, i) ==
    /\ SomeoneCalls /\ life[t] = "alive"
    /\ m_interval_ms' = [m_interval_ms EXCEPT ![t] = i]
    /\ UNCHANGED <<now, schedVars, workerVars, flagVars, m_is_single_shot,
                   m_has_external_owner, m_is_running, m_callback, life, threadVars>>

SetSingleShot(t, b) ==
    /\ SomeoneCalls /\ life[t] = "alive"
    /\ m_is_single_shot' = [m_is_single_shot EXCEPT ![t] = b]
    /\ UNCHANGED <<now, schedVars, workerVars, flagVars, m_interval_ms,
                   m_has_external_owner, m_is_running, m_callback, life, threadVars>>

SetCallback(t) ==
    /\ SomeoneCalls /\ life[t] = "alive"
    /\ m_callback' = [m_callback EXCEPT ![t] = TRUE]
    /\ UNCHANGED <<now, schedVars, workerVars, flagVars, confVars, m_is_running, life,
                   threadVars>>

\* Timer::start reads the interval and the clock before start_timer locks.
Start(th, t) ==
    /\ CanCall(th) /\ life[t] = "alive" /\ CanBump(t)
    /\ SetCall(th, At("push", t, now + m_interval_ms[t]))
    /\ UNCHANGED <<now, schedVars, workerVars, stateVars, execVars, waitVars>>

\* TimerScheduler::start_timer.
StartTimer(th) ==
    /\ call[th].op = "push"
    /\ LET s == call[th].state
       IN  /\ m_is_active' = [m_is_active EXCEPT ![s] = TRUE]
           /\ m_generation' = [m_generation EXCEPT ![s] = @ + 1]
           /\ m_queue' = m_queue \cup
                {[fire |-> call[th].time, state |-> s, gen |-> m_generation[s] + 1]}
           /\ life' = [life EXCEPT ![s] = "alive"]
    /\ NotifyAll
    /\ Return(th)
    /\ UNCHANGED <<now, m_timers, workerVars, confVars, m_is_running, m_callback,
                   execVars, wakeAt>>

Stop(t) ==
    /\ SomeoneCalls /\ life[t] = "alive" /\ CanBump(t)
    /\ StopTimer(t)
    /\ UNCHANGED <<now, schedVars, workerVars, confVars, m_is_running, m_callback, life,
                   execVars, call, wakeAt>>

\* Timer::stop_and_wait: stop_timer, then spin until m_is_running is false.
StopAndWait(th, t) ==
    /\ CanCall(th) /\ life[t] = "alive" /\ CanBump(t)
    /\ CurrentTimerState(th) # t
    /\ StopTimer(t)
    /\ SetCall(th, On("wait", t))
    /\ UNCHANGED <<now, schedVars, workerVars, confVars, m_is_running, m_callback, life,
                   execVars, wakeAt>>

\* The spin of stop_and_wait ends.
HasFinished(s) == ~m_is_running[s]

WaitReturns(th) ==
    /\ call[th].op = "wait" /\ HasFinished(call[th].state)
    /\ Return(th)
    /\ UNCHANGED <<now, schedVars, workerVars, stateVars, execVars, waitVars>>

\* Timer::~Timer: outside its own callback it waits like stop_and_wait does.
Destroy(th, t) ==
    /\ CanCall(th) /\ life[t] = "alive" /\ CanBump(t)
    /\ \A other \in Threads : call[other].state # t
    /\ StopTimer(t)
    /\ SetCall(th, On(IF CurrentTimerState(th) = t THEN "disown" ELSE "drain", t))
    /\ life' = [life EXCEPT ![t] = "closing"]
    /\ UNCHANGED <<now, schedVars, workerVars, confVars, m_is_running, m_callback,
                   execVars, wakeAt>>

Drained(th) ==
    /\ call[th].op = "drain" /\ HasFinished(call[th].state)
    /\ SetCall(th, On("disown", call[th].state))
    /\ UNCHANGED <<now, schedVars, workerVars, stateVars, execVars, waitVars>>

Disown(th) ==
    /\ call[th].op = "disown"
    /\ m_has_external_owner' = [m_has_external_owner EXCEPT ![call[th].state] = FALSE]
    /\ SetCall(th, On("clear", call[th].state))
    /\ UNCHANGED <<now, schedVars, workerVars, flagVars, m_interval_ms, m_is_single_shot,
                   m_is_running, m_callback, life, execVars, waitVars>>

\* TimerScheduler::destroy_timer_state: the callback first, the map entry after.
ClearCallback(th) ==
    /\ call[th].op = "clear"
    /\ m_callback' = [m_callback EXCEPT ![call[th].state] = FALSE]
    /\ SetCall(th, On("erase", call[th].state))
    /\ UNCHANGED <<now, schedVars, workerVars, flagVars, confVars, m_is_running, life,
                   execVars, waitVars>>

Erase(th) ==
    /\ call[th].op = "erase"
    /\ Deactivate(call[th].state)
    /\ Unregister(call[th].state)
    /\ life' = [life EXCEPT ![call[th].state] = "dead"]
    /\ Return(th)
    /\ UNCHANGED <<now, m_queue, workerVars, confVars, m_is_running, m_callback,
                   execVars, waitVars>>

\* Timer::single_shot: create_timer_state, fill the state in, start_timer.
SingleShot(th, s, i) ==
    /\ CanCall(th)
    /\ CreateTimerState(s)
    /\ SetCall(th, At("arm", s, i))
    /\ UNCHANGED <<now, m_queue, workerVars, flagVars, confVars, m_is_running, m_callback,
                   execVars, waitVars>>

ArmShot(th) ==
    /\ call[th].op = "arm"
    /\ LET s == call[th].state
       IN  /\ m_is_single_shot' = [m_is_single_shot EXCEPT ![s] = TRUE]
           /\ m_interval_ms' = [m_interval_ms EXCEPT ![s] = call[th].time]
           /\ m_callback' = [m_callback EXCEPT ![s] = TRUE]
           /\ SetCall(th, At("push", s, now + call[th].time))
    /\ UNCHANGED <<now, schedVars, workerVars, flagVars, m_has_external_owner,
                   m_is_running, life, execVars, waitVars>>

----------------------------------------------------------------------------
(* TimerScheduler::run, stop and the destructor                            *)

Run(th) ==
    /\ CanCall(th)
    /\ ~m_is_worker_running
    /\ \E w \in Workers :
         /\ pc[w] = "unborn"
         /\ pc' = [pc EXCEPT ![w] = "top"]
         /\ m_thread' = w
    /\ m_stop_requested' = FALSE
    /\ m_is_worker_running' = TRUE
    /\ UNCHANGED <<now, closed, schedVars, stateVars, batch, cur, call, waitVars>>

\* The states stop() takes over: registered, and owned by no Timer.
Orphans == {s \in m_timers : ~m_has_external_owner[s]}

\* First critical section: ask the worker to leave, take m_thread, unregister
\* the orphans.
RequestStop(th) ==
    /\ CanCall(th)
    /\ IF m_is_worker_running
       THEN /\ m_stop_requested' = TRUE
            /\ NotifyAll
            /\ m_thread' = Nil
       ELSE /\ m_stop_requested' = FALSE
            /\ UNCHANGED <<m_thread, signalled>>
    /\ m_timers' = m_timers \ Orphans
    /\ SetCall(th, [NoCall EXCEPT !.op = "join", !.orphans = Orphans,
                        !.worker = IF m_is_worker_running THEN m_thread ELSE Nil])
    /\ UNCHANGED <<now, m_queue, m_is_worker_running, stateVars, execVars, wakeAt>>

StopScheduler(th) == RequestStop(th) /\ UNCHANGED closed

\* ~TimerScheduler begins with stop(); by then every Timer is gone and no
\* other thread is inside the scheduler, the worker excepted.
DestroyScheduler(th) ==
    /\ pc[th] = "idle"
    /\ \A t \in Timers : life[t] \in {"fresh", "dead"}
    /\ \A other \in Apps : pc[other] = "idle" /\ call[other].op = "none"
    /\ RequestStop(th)
    /\ closed' = "begun"

\* What stop() does last: return, or leave the rest to ~TimerScheduler.
StopReturns(th) ==
    SetCall(th, IF closed = "begun" THEN [NoCall EXCEPT !.op = "teardown"] ELSE NoCall)

\* Defective: stop() detaches the worker.
Detached(c) == TRUE

\* worker_to_join.join() has nothing to wait for.
Joined(c) == c.worker # Nil => pc[c.worker] = "gone"

\* join() returns; second critical section.
StopJoined(th) ==
    /\ call[th].op = "join" /\ Joined(call[th])
    /\ m_is_worker_running' = FALSE
    /\ m_stop_requested' = FALSE
    /\ IF call[th].orphans = {}
       THEN StopReturns(th)
       ELSE SetCall(th, [call[th] EXCEPT !.op = "orphans", !.worker = Nil])
    /\ UNCHANGED <<now, closed, schedVars, m_thread, stateVars, execVars, waitVars>>

ClearOrphan(th) ==
    /\ call[th].op = "orphans"
    /\ \E s \in call[th].orphans :
         /\ m_callback' = [m_callback EXCEPT ![s] = FALSE]
         /\ m_is_active' = [m_is_active EXCEPT ![s] = FALSE]
         /\ IF call[th].orphans = {s}
            THEN StopReturns(th)
            ELSE SetCall(th, [call[th] EXCEPT !.orphans = @ \ {s}])
    /\ UNCHANGED <<now, schedVars, workerVars, confVars, m_generation, m_is_running, life,
                   execVars, waitVars>>

\* The rest of ~TimerScheduler.
Teardown(th) ==
    /\ call[th].op = "teardown"
    /\ m_callback' = [s \in States |-> m_callback[s] /\ s \notin m_timers]
    /\ m_timers' = {} /\ m_queue' = {}
    /\ closed' = "done"
    /\ Return(th)
    /\ UNCHANGED <<now, m_is_worker_running, m_stop_requested, m_thread, flagVars, confVars,
                   m_is_running, life, execVars, waitVars>>

----------------------------------------------------------------------------
(* Collecting and executing due timers                                     *)

DueEntries == {e \in m_queue : e.fire <= now}
\* Defective: ignores the generation, so a cancelled entry still counts.
IsActiveEntry(e) == e.state \in m_timers /\ m_is_active[e.state]

IsLive(e) ==
    /\ e.state \in m_timers
    /\ m_is_active[e.state]
    /\ m_generation[e.state] = e.gen

\* Defective: is_running() turns true only once the callback is entered.
MarkLater(due) == UNCHANGED m_is_running

MarkRunning(due) ==
    m_is_running' = [s \in States |-> m_is_running[s] \/ \E e \in due : e.state = s]

\* TimerScheduler::collect_due_timers_locked.
CollectDueTimers(th, rest) ==
    LET due == {e \in DueEntries : IsLive(e)}
    IN  /\ \A e \in due : e.gen < MaxGen
        /\ m_queue' = m_queue \ DueEntries
        /\ MarkRunning(due)
        /\ batch' = [batch EXCEPT ![th] = due]
        /\ pc' = [pc EXCEPT ![th] = IF due = {} THEN rest ELSE "exec"]

\* TimerScheduler::process, up to the release of m_mutex.
Process(th) ==
    /\ CanCall(th) /\ pc[th] = "idle"
    /\ ~m_is_worker_running
    /\ CollectDueTimers(th, "idle")
    /\ UNCHANGED <<now, m_timers, workerVars, flagVars, confVars, m_callback, life,
                   cur, call, waitVars>>

\* One pass of worker_loop with m_mutex held: leave, wait, or collect.
WorkerLoop(w) ==
    \/ /\ m_stop_requested
       /\ pc' = [pc EXCEPT ![w] = "gone"]
       /\ UNCHANGED <<m_queue, m_is_running, batch, wakeAt>>
    \/ /\ ~m_stop_requested /\ m_queue = {}
       /\ pc' = [pc EXCEPT ![w] = "waitEmpty"]
       /\ UNCHANGED <<m_queue, m_is_running, batch, wakeAt>>
    \/ /\ ~m_stop_requested /\ m_queue # {} /\ DueEntries = {}
       /\ \E e \in m_queue : /\ \A f \in m_queue : e.fire <= f.fire
                             /\ wakeAt' = [wakeAt EXCEPT ![w] = e.fire]
       /\ pc' = [pc EXCEPT ![w] = "waitUntil"]
       /\ UNCHANGED <<m_queue, m_is_running, batch>>
    \/ /\ ~m_stop_requested /\ DueEntries # {}
       /\ CollectDueTimers(w, "top")
       /\ UNCHANGED wakeAt

WorkerTop(w) ==
    /\ pc[w] = "top"
    /\ WorkerLoop(w)
    /\ UNCHANGED <<now, m_timers, workerVars, flagVars, confVars, m_callback, life,
                   cur, call, signalled>>

\* m_cv.wait with its predicate, woken by a notification.
WakeEmpty(w) ==
    /\ pc[w] = "waitEmpty" /\ w \in signalled
    /\ signalled' = signalled \ {w}
    /\ IF m_stop_requested \/ m_queue # {}
       THEN WorkerLoop(w)
       ELSE UNCHANGED <<m_queue, m_is_running, pc, batch, wakeAt>>
    /\ UNCHANGED <<now, m_timers, workerVars, flagVars, confVars, m_callback, life,
                   cur, call>>

\* Defective: a wait whose time has passed goes back to sleep.
DozesOn(w) ==
    /\ pc[w] = "waitUntil" /\ (w \in signalled \/ now >= wakeAt[w])
    /\ signalled' = signalled \ {w}
    /\ IF m_stop_requested \/ m_queue = {} \/ \E e \in m_queue : e.fire < wakeAt[w]
       THEN WorkerLoop(w)
       ELSE UNCHANGED <<m_queue, m_is_running, pc, batch, wakeAt>>
    /\ UNCHANGED <<now, m_timers, workerVars, flagVars, confVars, m_callback, life,
                   cur, call>>

\* m_cv.wait_until with its predicate, woken by a notification or the clock.
WakeUntil(w) ==
    /\ pc[w] = "waitUntil" /\ (w \in signalled \/ now >= wakeAt[w])
    /\ signalled' = signalled \ {w}
    /\ IF \/ m_stop_requested \/ m_queue = {} \/ now >= wakeAt[w]
          \/ \E e \in m_queue : e.fire < wakeAt[w]
       THEN WorkerLoop(w)
       ELSE UNCHANGED <<m_queue, m_is_running, pc, batch, wakeAt>>
    /\ UNCHANGED <<now, m_timers, workerVars, flagVars, confVars, m_callback, life,
                   cur, call>>

\* execute_due_timers: entries run in the order of their fire times.
FetchCallback(th) ==
    /\ pc[th] = "exec"
    /\ \E e \in batch[th] :
         /\ \A f \in batch[th] : e.fire <= f.fire
         /\ cur' = [cur EXCEPT ![th] = e]
         /\ pc' = [pc EXCEPT ![th] = IF m_callback[e.state] THEN "callback" ELSE "final"]
    /\ UNCHANGED <<now, schedVars, workerVars, stateVars, batch, call, waitVars>>

\* The user callback returns; a helper's lambda goes on to release its state.
CallbackReturns(th) ==
    /\ pc[th] = "callback" /\ call[th].op = "none"
    /\ pc' = [pc EXCEPT ![th] = IF cur[th].state \in Shots THEN "clear" ELSE "final"]
    /\ UNCHANGED <<now, schedVars, workerVars, stateVars, batch, cur, call, waitVars>>

\* The user callback throws: execute_due_timers swallows it, the rest of a
\* helper's lambda is skipped.
CallbackThrows(th) ==
    /\ MayThrow
    /\ pc[th] = "callback" /\ call[th].op = "none" /\ cur[th].state \in Shots
    /\ pc' = [pc EXCEPT ![th] = "final"]
    /\ UNCHANGED <<now, schedVars, workerVars, stateVars, batch, cur, call, waitVars>>

\* Rest of the helper's lambda: clear the callback, then destroy_timer_state.
ShotClears(th) ==
    /\ pc[th] = "clear"
    /\ m_callback' = [m_callback EXCEPT ![cur[th].state] = FALSE]
    /\ pc' = [pc EXCEPT ![th] = "erase"]
    /\ UNCHANGED <<now, schedVars, workerVars, flagVars, confVars, m_is_running, life,
                   batch, cur, call, waitVars>>

ShotErases(th) ==
    /\ pc[th] = "erase"
    /\ Deactivate(cur[th].state)
    /\ Unregister(cur[th].state)
    /\ life' = [life EXCEPT ![cur[th].state] = "dead"]
    /\ pc' = [pc EXCEPT ![th] = "final"]
    /\ UNCHANGED <<now, m_queue, workerVars, confVars, m_is_running, m_callback,
                   batch, cur, call, waitVars>>

\* Defective: reschedules over a newer start().
NeverSuperseded(due) == FALSE

\* The timer was stopped or started again since the entry was collected.
Superseded(due) == m_generation[due.state] # due.gen

\* Defective: the interval is subtracted.
EarlierEntry(due) == [fire |-> due.fire - m_interval_ms[due.state], state |-> due.state,
                      gen  |-> m_generation[due.state] + 1]

\* The next entry keeps the phase: it is based on the stored fire time.
NextEntry(due) == [fire  |-> due.fire + m_interval_ms[due.state], state |-> due.state,
                   gen   |-> m_generation[due.state] + 1]

\* TimerScheduler::finalize_timer: what becomes of a timer after its callback.
Reschedule(due) ==
    LET s == due.state
    IN  \/ /\ ~m_is_active[s]
           /\ UNCHANGED <<flagVars, m_queue, signalled>>
        \/ /\ m_is_active[s] /\ m_is_single_shot[s]
           /\ Deactivate(s)
           /\ UNCHANGED <<m_queue, signalled>>
        \/ /\ m_is_active[s] /\ ~m_is_single_shot[s] /\ Superseded(due)
           /\ UNCHANGED <<flagVars, m_queue, signalled>>
        \/ /\ m_is_active[s] /\ ~m_is_single_shot[s] /\ ~Superseded(due)
           /\ m_generation' = [m_generation EXCEPT ![s] = @ + 1]
           /\ m_queue' = m_queue \cup {NextEntry(due)}
           /\ NotifyAll
           /\ UNCHANGED m_is_active

FinalizeTimer(th) ==
    /\ pc[th] = "final"
    /\ m_is_running' = [m_is_running EXCEPT ![cur[th].state] = FALSE]
    /\ Reschedule(cur[th])
    /\ batch' = [batch EXCEPT ![th] = @ \ {cur[th]}]
    /\ cur' = [cur EXCEPT ![th] = Nil]
    /\ pc' = [pc EXCEPT ![th] = IF batch[th] # {cur[th]} THEN "exec"
                                ELSE IF th \in Workers THEN "top" ELSE "idle"]
    /\ UNCHANGED <<now, m_timers, workerVars, confVars, m_callback, life, call, wakeAt>>

----------------------------------------------------------------------------

Tick ==
    /\ now < MaxTime
    /\ now' = now + 1
    /\ UNCHANGED <<schedVars, workerVars, stateVars, threadVars>>

\* Steps a thread takes by itself once it is inside the library.
Progress(th) ==
    \/ Own(th) \/ StartTimer(th) \/ WaitReturns(th)
    \/ Drained(th) \/ Disown(th) \/ ClearCallback(th) \/ Erase(th)
    \/ ArmShot(th) \/ StopJoined(th) \/ ClearOrphan(th) \/ Teardown(th)
    \/ FetchCallback(th) \/ CallbackReturns(th) \/ CallbackThrows(th)
    \/ ShotClears(th) \/ ShotErases(th) \/ FinalizeTimer(th)

WorkerStep(w) == WorkerTop(w) \/ WakeEmpty(w) \/ WakeUntil(w)

\* Calls a thread may decide to make.
ApiCall(th) ==
    \/ \E t \in Timers : Construct(th, t) \/ Start(th, t)
    \/ th \in Waiters /\ \E t \in Timers : StopAndWait(th, t) \/ Destroy(th, t)
    \/ \E s \in Shots, i \in Intervals : SingleShot(th, s, i)
    \/ th \in Stoppers /\ (Run(th) \/ StopScheduler(th))
    \/ th \in Closers /\ DestroyScheduler(th)
    \/ th \in Pollers /\ Process(th)

Configure(t) ==
    \/ \E i \in Intervals : SetInterval(t, i)
    \/ \E b \in Modes : SetSingleShot(t, b)
    \/ SetCallback(t)
    \/ Stop(t)

Next ==
    \/ Tick
    \/ \E th \in Threads : Progress(th) \/ ApiCall(th)
    \/ \E w \in Workers : WorkerStep(w)
    \/ \E t \in Timers : Configure(t)

Spec == Init /\ [][Next]_vars

\* The clock advances, threads are scheduled, a mutex is granted eventually
\* and callbacks return; nobody is obliged to call the API.
Fairness ==
    /\ WF_vars(Tick)
    /\ \A th \in Threads : WF_vars(Progress(th))
    /\ \A w \in Workers : WF_vars(WorkerStep(w))

FairSpec == Spec /\ Fairness

----------------------------------------------------------------------------
(* Properties                                                              *)

InFlight == UNION {batch[th] : th \in Threads}

\* The entries that may still make timer s fire, or are making it fire.
Tickets(s) == {e \in m_queue \cup InFlight : e.state = s /\ e.gen = m_generation[s]}

\* No firing is executed twice: start(), the reschedule after a callback and
\* the collection never leave two entries of a timer under one generation,
\* no thread collects a timer twice in one go, and an entry is in the queue or
\* in the hands of exactly one thread.
EachFiringOnce ==
    /\ \A e, f \in m_queue \cup InFlight : e.state = f.state /\ e.gen = f.gen => e = f
    /\ \A th \in Threads : \A e, f \in batch[th] : e.state = f.state => e = f
    /\ m_queue \cap InFlight = {}
    /\ \A th, other \in Threads : th # other => batch[th] \cap batch[other] = {}

\* A timer that reports is_active() and is registered is really going to
\* fire: lazy cancellation never drops its current entry.
ActiveHasTicket == \A s \in m_timers : m_is_active[s] => Tickets(s) # {}

\* No lost wakeup: a worker asleep in worker_loop without a notification on
\* its way has nothing to do before the time it wakes up by itself.
SleepIsJustified ==
    \A w \in Workers \ signalled :
        /\ pc[w] = "waitEmpty" => ~m_stop_requested /\ m_queue = {}
        /\ pc[w] = "waitUntil" =>
             ~m_stop_requested /\ \A e \in m_queue : e.fire >= wakeAt[w]

\* When stop_and_wait() or the wait inside ~Timer ends, no thread still holds
\* an entry of that timer: its callback neither runs nor is about to.
StopAndWaitDrains ==
    [][\A th \in Threads :
         call[th].op \in {"wait", "drain"} /\ call'[th].op # call[th].op
           => \A e \in InFlight : e.state # call[th].state]_vars

\* A worker thread that has not exited is held by m_thread or by the stop()
\* that will join it, so run() never assigns to a joinable std::thread.
WorkerHasJoiner ==
    /\ \A w \in Workers : pc[w] \notin {"unborn", "gone"} =>
         \/ m_thread = w /\ m_is_worker_running
         \/ \E th \in Apps : call[th].op = "join" /\ call[th].worker = w
    /\ ~m_is_worker_running => m_thread = Nil

\* When stop() gets past its join, no worker thread is left.
StopJoinsWorker ==
    [][\A th \in Threads : call[th].op = "join" /\ call'[th].op # "join"
         => \A w \in Workers : pc[w] \in {"unborn", "gone"}]_vars

\* The strong references to a state: its Timer, single_shot() on its way, the
\* helper's lambda (it captures the state), a due entry, a stop() in progress.
Referenced(s) ==
    \/ s \in Timers /\ life[s] \in {"building", "alive", "closing"}
    \/ s \in Shots /\ m_callback[s]
    \/ \E th \in Threads : call[th].op \in {"arm", "push"} /\ call[th].state = s
    \/ \E e \in InFlight : e.state = s
    \/ \E th \in Threads : s \in call[th].orphans

\* The weak pointers of m_timers never expire: nobody lets go of a state
\* before it is unregistered.
RegistryNeverExpires == \A s \in m_timers : Referenced(s)

\* A helper's state refers to itself through its callback.  Once it is out of
\* the registry some thread still has to break that cycle, or it leaks.
NothingLeaks ==
    \A s \in Shots \ m_timers : m_callback[s] =>
        \/ \E e \in InFlight : e.state = s
        \/ \E th \in Threads : s \in call[th].orphans

\* The life of a state follows from who refers to it, at every moment: nobody
\* lets go of a registered one, and none refers only to itself.
StatesAreHeld == RegistryNeverExpires /\ NothingLeaks

\* A timer started again while its callback runs stays started: ending the
\* callback must not undo the new start().
RestartSurvives ==
    [][\A th \in Threads :
         pc[th] = "final" /\ pc'[th] # "final" /\ Superseded(cur[th])
           => m_is_active'[cur[th].state] = m_is_active[cur[th].state]]_vars

\* While the worker runs, an entry that is due is executed, cancelled or
\* replaced sooner or later.
WaitsForWorker(s) ==
    /\ m_is_worker_running
    /\ \E e \in DueEntries : e.state = s /\ IsLive(e) /\ e.gen < MaxGen

DueIsServed == \A s \in States : WaitsForWorker(s) ~> ~WaitsForWorker(s)

\* stop_and_wait(), ~Timer and stop() return.
CallsReturn ==
    \A th \in Threads : call[th].op \in {"wait", "drain", "join"} ~> call[th].op = "none"

=============================================================================
