--------------------------- MODULE NtpTimeService ---------------------------
(***************************************************************************)
(* The life cycle of the NtpTimeServiceT singleton. Threads start it, stop *)
(* it, rebuild its runner and read the offset while the process may begin  *)
(* to exit. Every critical section of m_mtx is one step (none of them      *)
(* blocks), and so is every call to a runner and every atomic access made  *)
(* outside of the mutex.                                                   *)
(*                                                                         *)
(* A runner is seen through what the service uses of it: it is built with  *)
(* a configuration, its thread is active between start() and stop(), and   *)
(* it has a last offset (BasicPoolRunner is modelled in NtpPoolRunner). A  *)
(* runner that was stopped stays allocated until the function that stopped *)
(* it returns: after m_state has changed and the others have been woken.   *)
(***************************************************************************)
EXTENDS Integers

CONSTANTS
    Callers,     \* threads that use the service
    Exiter,      \* the thread that runs the atexit handler
    Runners,     \* identities of runner objects, used again after destruction
    Intervals,   \* measurement intervals given to init()
    Configs,     \* what set_servers() and set_pool_config() can select
    Offsets,     \* offsets a measurement can give
    DefaultInterval, DefaultConfig,
    MaxSets,     \* bound: number of calls of set_*() that change something
    Nil          \* no runner

ASSUME ConstantsAssumption ==
    /\ Exiter \notin Callers
    /\ Nil \notin Runners
    /\ DefaultInterval \in Intervals /\ DefaultConfig \in Configs
    /\ Offsets \subseteq Int
    /\ MaxSets \in Nat

VARIABLES
    m_state,          \* life-cycle state of the singleton
    m_process_state,  \* "alive" or "shutting_down"
    m_runner,         \* the current runner or Nil
    m_last_offset,    \* m_last_offset_us
    m_interval, m_config,
    runner,           \* the runner objects
    call,             \* what each thread is doing inside the service
    sets              \* calls of set_*() so far

vars == <<m_state, m_process_state, m_runner, m_last_offset, m_interval, m_config, runner, call, sets>>

Threads == Callers \cup {Exiter}

States == {"stopped", "starting", "running", "stopping"}

\* exists: the object is allocated; active: its thread runs.
RunnerObject == [exists : BOOLEAN, active : BOOLEAN, offset : Offsets \cup {0},
                 config : Configs, interval : Intervals]
NoRunner == [exists |-> FALSE, active |-> FALSE, offset |-> 0,
             config |-> DefaultConfig, interval |-> DefaultInterval]

\* Where a thread is inside a call. The first set is outside of a transition,
\* the second has the steps of one, up to the lock that ends it.
Outside    == {"idle", "ensure", "enter", "wait", "notify", "leave", "read"}
Transition == {"stop_old", "start", "measure", "decide", "discard", "publish", "stop", "settle"}

\* op: the function; for_offset: init() was called by ensure_started(); local,
\* old: the unique_ptrs on the stack; ok: is_ok; got: what was returned last.
Call == [op : {"none", "init", "apply", "shutdown", "exit", "offset"}, pc : Outside \cup Transition,
         for_offset : BOOLEAN, interval : Intervals, local : Runners \cup {Nil}, old : Runners \cup {Nil},
         ok : BOOLEAN, got : Offsets \cup {0, Nil}]
NoCall == [op |-> "none", pc |-> "idle", for_offset |-> FALSE, interval |-> DefaultInterval,
           local |-> Nil, old |-> Nil, ok |-> FALSE, got |-> Nil]

Init ==
    /\ m_state = "stopped" /\ m_process_state = "alive"
    /\ m_runner = Nil /\ m_last_offset = 0
    /\ m_interval = DefaultInterval /\ m_config = DefaultConfig
    /\ runner = [r \in Runners |-> NoRunner]
    /\ call = [th \in Threads |-> NoCall]
    /\ sets = 0

----------------------------------------------------------------------------
(* Predicates of the code                                                  *)

is_process_shutting_down == m_process_state = "shutting_down"
is_transitioning_locked  == m_state \in {"starting", "stopping"}
is_running_locked        == m_runner # Nil /\ runner[m_runner].active
is_reconfigurable_locked ==
    ~is_process_shutting_down /\ m_state = "stopped" /\ m_runner = Nil

At(th, pc) == call[th].pc = pc
Goto(th, pc) == call' = [call EXCEPT ![th].pc = pc]

\* What the unique_ptrs in rs own is destroyed.
Destroyed(rs) == [r \in Runners |-> IF r \in rs THEN NoRunner ELSE runner[r]]

\* The function is left; what it returned stays visible. An init() made by
\* ensure_started() goes on with the read of the offset.
Left(c, ok) == IF c.for_offset THEN [NoCall EXCEPT !.op = "offset", !.pc = "read"]
                               ELSE [NoCall EXCEPT !.ok = ok]
Return(th, ok) == call' = [call EXCEPT ![th] = Left(@, ok)]

\* m_cv.wait: the thread blocks while someone else is in a transition.
Wait(th) ==
    /\ At(th, "enter") /\ is_transitioning_locked
    /\ Goto(th, "wait")
    /\ UNCHANGED <<m_state, m_process_state, m_runner, m_last_offset, m_interval, m_config, runner, sets>>

\* Defective: does not wait for the transition to end.
EntersAtOnce(th, op) == At(th, "enter") /\ call[th].op = op

\* Passing the wait loop: what every locked section that begins a call does.
Enters(th, op) == At(th, "enter") /\ call[th].op = op /\ ~is_transitioning_locked

\* Defective: nobody who waits is woken.
WakeNobody(calls) == calls

\* m_cv.notify_all.
NotifyAll(calls) ==
    [th \in Threads |-> IF calls[th].pc = "wait" THEN [calls[th] EXCEPT !.pc = "enter"] ELSE calls[th]]

\* The notification that follows every transition.
Notify(th) ==
    /\ At(th, "notify")
    /\ call' = [NotifyAll(call) EXCEPT ![th].pc = "leave"]
    /\ UNCHANGED <<m_state, m_process_state, m_runner, m_last_offset, m_interval, m_config, runner, sets>>

\* Then the function returns, and the runner it has stopped is destroyed.
Leave(th) ==
    /\ At(th, "leave")
    /\ runner' = Destroyed({call[th].local, call[th].old})
    /\ Return(th, call[th].ok)
    /\ UNCHANGED <<m_state, m_process_state, m_runner, m_last_offset, m_interval, m_config, sets>>

----------------------------------------------------------------------------
(* init() and apply_config_now()                                           *)

\* init() reads the stored interval before it takes the mutex.
InitCall(th, interval) ==
    /\ At(th, "idle")
    /\ call' = [call EXCEPT ![th] =
                  IF is_process_shutting_down THEN NoCall
                  ELSE [NoCall EXCEPT !.op = "init", !.pc = "enter", !.interval = interval]]
    /\ UNCHANGED <<m_state, m_process_state, m_runner, m_last_offset, m_interval, m_config, runner, sets>>

ApplyCall(th) ==
    /\ At(th, "idle")
    /\ call' = [call EXCEPT ![th] =
                  IF is_process_shutting_down THEN NoCall
                  ELSE [NoCall EXCEPT !.op = "apply", !.pc = "enter"]]
    /\ UNCHANGED <<m_state, m_process_state, m_runner, m_last_offset, m_interval, m_config, runner, sets>>

\* The locked section of init() when there is nothing to start.
InitReturns(th) ==
    /\ Enters(th, "init")
    /\ \/ is_process_shutting_down /\ Return(th, FALSE)
       \/ ~is_process_shutting_down /\ m_state = "running" /\ is_running_locked /\ Return(th, TRUE)
    /\ UNCHANGED <<m_state, m_process_state, m_runner, m_last_offset, m_interval, m_config, runner, sets>>

\* Defective: the interval is not handed over, so the runner gets none.
BuildWithoutInterval(r, interval) ==
    [exists |-> TRUE, active |-> FALSE, offset |-> 0, config |-> m_config, interval |-> 0]

\* build_runner_locked: a runner with the configuration of this moment.
Build(r, interval) == [exists |-> TRUE, active |-> FALSE, offset |-> 0, config |-> m_config, interval |-> interval]

InitBegins(th) ==
    /\ Enters(th, "init") /\ ~is_process_shutting_down
    /\ ~(m_state = "running" /\ is_running_locked)
    /\ m_interval' = call[th].interval
    /\ \/ \E r \in Runners :
            /\ ~runner[r].exists
            /\ m_state' = "starting"
            /\ runner' = [runner EXCEPT ![r] = Build(r, call[th].interval)]
            /\ call' = [call EXCEPT ![th].pc = "start", ![th].local = r]
       \/ m_state' = "stopped" /\ Goto(th, "notify") /\ UNCHANGED runner   \* no memory
    /\ UNCHANGED <<m_process_state, m_runner, m_last_offset, m_config, sets>>

ApplyReturns(th) ==
    /\ Enters(th, "apply") /\ is_process_shutting_down
    /\ Return(th, FALSE)
    /\ UNCHANGED <<m_state, m_process_state, m_runner, m_last_offset, m_interval, m_config, runner, sets>>

\* Defective: the old runner is stopped when the function returns.
StartFirst(old) == "start"

\* The step of apply_config_now() after its locked section.
AfterTakeover(old) == IF old = Nil THEN "start" ELSE "stop_old"

ApplyBegins(th) ==
    /\ Enters(th, "apply") /\ ~is_process_shutting_down
    /\ \/ \E r \in Runners :
            /\ ~runner[r].exists
            /\ m_state' = "starting"
            /\ runner' = [runner EXCEPT ![r] = Build(r, m_interval)]
            /\ call' = [call EXCEPT ![th].pc = AfterTakeover(m_runner), ![th].interval = m_interval,
                                    ![th].local = r, ![th].old = m_runner]
            /\ m_runner' = Nil
       \/ /\ m_state' = IF m_state = "running" /\ is_running_locked THEN "running" ELSE "stopped"
          /\ Goto(th, "notify") /\ UNCHANGED <<runner, m_runner>>          \* no memory
    /\ UNCHANGED <<m_process_state, m_last_offset, m_interval, m_config, sets>>

\* old_runner->stop() joins the thread; the object goes with the function.
StopOld(th) ==
    /\ At(th, "stop_old")
    /\ runner' = [runner EXCEPT ![call[th].old].active = FALSE]
    /\ Goto(th, "start")
    /\ UNCHANGED <<m_state, m_process_state, m_runner, m_last_offset, m_interval, m_config, sets>>

\* start() of the new runner; it fails when no thread can be created.
StartRunner(th) ==
    /\ At(th, "start")
    /\ \/ /\ runner' = [runner EXCEPT ![call[th].local].active = TRUE]
          /\ Goto(th, "measure")
       \/ Goto(th, "decide") /\ UNCHANGED runner
    /\ UNCHANGED <<m_state, m_process_state, m_runner, m_last_offset, m_interval, m_config, sets>>

\* measure_now() gives an offset or fails.
MeasureNow(th) ==
    /\ At(th, "measure")
    /\ \/ \E o \in Offsets :
            /\ runner' = [runner EXCEPT ![call[th].local].offset = o]
            /\ call' = [call EXCEPT ![th].pc = "decide", ![th].ok = TRUE]
       \/ Goto(th, "decide") /\ UNCHANGED runner
    /\ UNCHANGED <<m_state, m_process_state, m_runner, m_last_offset, m_interval, m_config, sets>>

\* Keep the new runner or not: reads the process state outside of the mutex.
Decide(th) ==
    /\ At(th, "decide")
    /\ Goto(th, IF call[th].ok /\ ~is_process_shutting_down THEN "publish" ELSE "discard")
    /\ UNCHANGED <<m_state, m_process_state, m_runner, m_last_offset, m_interval, m_config, runner, sets>>

\* local_runner->stop() if it was started, and reset().
Discard(th) ==
    /\ At(th, "discard")
    /\ runner' = Destroyed({call[th].local})
    /\ call' = [call EXCEPT ![th].pc = "publish", ![th].local = Nil]
    /\ UNCHANGED <<m_state, m_process_state, m_runner, m_last_offset, m_interval, m_config, sets>>

\* Defective: leaves the service running when nothing was started.
AlwaysRunning(new) == "running"

StateAfterStart(new) == IF new = Nil THEN "stopped" ELSE "running"

\* The locked section that ends init() and apply_config_now().
Publish(th) ==
    /\ At(th, "publish")
    /\ LET new == call[th].local IN
        /\ m_last_offset' = IF new = Nil THEN m_last_offset ELSE runner[new].offset
        /\ runner' = Destroyed({m_runner})
        /\ m_runner' = new
        /\ m_state' = StateAfterStart(new)
    /\ call' = [call EXCEPT ![th].pc = "notify", ![th].local = Nil]
    /\ UNCHANGED <<m_process_state, m_interval, m_config, sets>>

----------------------------------------------------------------------------
(* shutdown() and begin_process_shutdown()                                 *)

ShutdownCall(th) ==
    /\ At(th, "idle")
    /\ call' = [call EXCEPT ![th] = [NoCall EXCEPT !.op = "shutdown", !.pc = "enter"]]
    /\ UNCHANGED <<m_state, m_process_state, m_runner, m_last_offset, m_interval, m_config, runner, sets>>

\* m_runner moves to the stack of the thread that will stop it.
Takeover(th) ==
    /\ m_state' = "stopping" /\ m_runner' = Nil
    /\ call' = [call EXCEPT ![th].pc = "stop", ![th].local = m_runner]

ShutdownBegins(th) ==
    /\ Enters(th, "shutdown")
    /\ IF m_state = "stopped" \/ m_runner = Nil
       THEN Return(th, FALSE) /\ UNCHANGED <<m_state, m_runner>>
       ELSE Takeover(th)
    /\ UNCHANGED <<m_process_state, m_last_offset, m_interval, m_config, runner, sets>>

\* The atexit handler runs once.
ExitCall(th) ==
    /\ th = Exiter /\ ~is_process_shutting_down
    /\ m_process_state' = "shutting_down"
    /\ call' = [call EXCEPT ![th] = [NoCall EXCEPT !.op = "exit", !.pc = "enter"]]
    /\ UNCHANGED <<m_state, m_runner, m_last_offset, m_interval, m_config, runner, sets>>

ExitBegins(th) ==
    /\ Enters(th, "exit")
    /\ IF m_runner # Nil
       THEN m_last_offset' = runner[m_runner].offset /\ Takeover(th)
       ELSE /\ m_state' = "stopped" /\ Goto(th, "settle")
            /\ UNCHANGED <<m_last_offset, m_runner>>
    /\ UNCHANGED <<m_process_state, m_interval, m_config, runner, sets>>

\* local_runner->stop() joins the runner's thread; the object goes with the
\* function.
StopRunner(th) ==
    /\ At(th, "stop")
    /\ runner' = [runner EXCEPT ![call[th].local].active = FALSE]
    /\ Goto(th, "settle")
    /\ UNCHANGED <<m_state, m_process_state, m_runner, m_last_offset, m_interval, m_config, sets>>

\* The locked section that ends shutdown() and the exit handler.
Settle(th) ==
    /\ At(th, "settle")
    /\ m_state' = "stopped"
    /\ Goto(th, "notify")
    /\ UNCHANGED <<m_process_state, m_runner, m_last_offset, m_interval, m_config, runner, sets>>

----------------------------------------------------------------------------
(* offset_us() and the setters                                             *)

\* offset_us() of a process that exits answers from the cache.
OffsetCall(th) ==
    /\ At(th, "idle")
    /\ call' = [call EXCEPT ![th] =
                  IF is_process_shutting_down THEN [NoCall EXCEPT !.got = m_last_offset]
                  ELSE [NoCall EXCEPT !.op = "offset", !.pc = "ensure"]]
    /\ UNCHANGED <<m_state, m_process_state, m_runner, m_last_offset, m_interval, m_config, runner, sets>>

\* ensure_started(): init() with the stored interval unless running().
EnsureStarted(th) ==
    /\ At(th, "ensure")
    /\ call' = [call EXCEPT ![th] =
                  IF is_process_shutting_down \/ (m_state = "running" /\ is_running_locked)
                  THEN [@ EXCEPT !.pc = "read"]
                  ELSE [NoCall EXCEPT !.op = "init", !.pc = "enter", !.for_offset = TRUE, !.interval = m_interval]]
    /\ UNCHANGED <<m_state, m_process_state, m_runner, m_last_offset, m_interval, m_config, runner, sets>>

\* The locked section that ends offset_us().
ReadOffset(th) ==
    /\ At(th, "read")
    /\ LET offset == IF m_runner = Nil THEN 0 ELSE runner[m_runner].offset IN
        /\ m_last_offset' = IF m_runner = Nil THEN m_last_offset ELSE offset
        /\ call' = [call EXCEPT ![th] = [NoCall EXCEPT !.got = offset]]
    /\ UNCHANGED <<m_state, m_process_state, m_runner, m_interval, m_config, runner, sets>>

\* Defective: trusts the runner alone, which is absent during a transition too.
NoRunnerYet == ~is_process_shutting_down /\ m_runner = Nil

\* The guard of set_servers(), set_default_servers(), clear_servers() and
\* set_pool_config().
CanReconfigure == is_reconfigurable_locked

SetConfig(th, config) ==
    /\ At(th, "idle") /\ CanReconfigure
    /\ config # m_config /\ sets < MaxSets
    /\ m_config' = config /\ sets' = sets + 1
    /\ UNCHANGED <<m_state, m_process_state, m_runner, m_last_offset, m_interval, runner, call>>

\* The thread of an active runner measures on its own.
RunnerMeasures(r) ==
    /\ runner[r].active
    /\ \E o \in Offsets : runner' = [runner EXCEPT ![r].offset = o]
    /\ UNCHANGED <<m_state, m_process_state, m_runner, m_last_offset, m_interval, m_config, call, sets>>

----------------------------------------------------------------------------
\* What a thread inside a call does next.
Steps(th) ==
    \/ Wait(th) \/ Notify(th) \/ Leave(th)
    \/ InitReturns(th) \/ InitBegins(th) \/ ApplyReturns(th) \/ ApplyBegins(th)
    \/ StopOld(th) \/ StartRunner(th) \/ MeasureNow(th) \/ Decide(th) \/ Discard(th) \/ Publish(th)
    \/ ShutdownBegins(th) \/ ExitBegins(th) \/ StopRunner(th) \/ Settle(th)
    \/ EnsureStarted(th) \/ ReadOffset(th)

\* A call made by a thread of the program.
Calls(th) ==
    \/ \E interval \in Intervals \cup {m_interval} : InitCall(th, interval)
    \/ ApplyCall(th) \/ ShutdownCall(th) \/ OffsetCall(th)
    \/ \E config \in Configs : SetConfig(th, config)

Next ==
    \/ \E th \in Threads : Steps(th)
    \/ \E th \in Callers : Calls(th)
    \/ ExitCall(Exiter)
    \/ \E r \in Runners : RunnerMeasures(r)

Spec == Init /\ [][Next]_vars

\* Threads inside the service are scheduled, what they wait for outside of it
\* (threads to join, servers with a timeout) comes; nobody is obliged to call.
FairSpec == Spec /\ \A th \in Threads : WF_vars(Steps(th))

----------------------------------------------------------------------------
(* Properties                                                              *)

TypeOK ==
    /\ m_state \in States /\ m_process_state \in {"alive", "shutting_down"}
    /\ m_runner \in Runners \cup {Nil} /\ m_last_offset \in Offsets \cup {0}
    /\ m_interval \in Intervals /\ m_config \in Configs
    /\ runner \in [Runners -> RunnerObject]
    /\ call \in [Threads -> Call]
    /\ sets \in 0 .. MaxSets

InTransition(th) == call[th].pc \in Transition

\* The transitional states of m_state are a lock held across unlocked code:
\* one thread at most owns it, and while one does, m_state says so. The exit
\* handler alone may be about to settle a service that is already stopped.
TransitionIsExclusive ==
    /\ \A t1, t2 \in Threads : InTransition(t1) /\ InTransition(t2) => t1 = t2
    /\ is_transitioning_locked <=> \E th \in Threads :
         InTransition(th) /\ ~(call[th].op = "exit" /\ m_state = "stopped")

\* Never do two runners measure at the same time: the old one is joined before
\* the new one starts, whatever the calls and the exit of the process.
OneActiveRunner ==
    \A r1, r2 \in Runners : runner[r1].active /\ runner[r2].active => r1 = r2

\* Between transitions the service is exactly what m_state says: running with
\* an active runner, or stopped with none. Any other runner object that is left
\* is stopped, and a call that has ended its transition is about to return and
\* destroy it.
StateTellsRunner ==
    ~is_transitioning_locked =>
        /\ m_state = "running" <=> is_running_locked
        /\ \A r \in Runners \ {m_runner} : runner[r].exists =>
             /\ ~runner[r].active
             /\ \E th \in Threads : /\ call[th].pc \in {"notify", "leave"}
                                    /\ r \in {call[th].local, call[th].old}

\* Once the exit handler has returned nothing runs and nothing starts again.
ExitIsFinal ==
    is_process_shutting_down /\ At(Exiter, "idle") =>
        m_state = "stopped" /\ \A r \in Runners : ~runner[r].active

\* The running service measures with the configuration and the interval that
\* the getters report: setters and init() cannot change them under it.
ConfigIsInForce ==
    m_state = "running" => runner[m_runner].config = m_config /\ runner[m_runner].interval = m_interval

\* A thread that sleeps in m_cv.wait has someone who will wake it.
SleepersHaveWaker ==
    (\E th \in Threads : At(th, "wait")) =>
        \E th \in Threads : InTransition(th) \/ At(th, "notify")

\* Nobody hangs: once no new call is made, every call that is under way returns,
\* the exit handler's too. (While calls keep coming a waiting thread may lose
\* every race for the mutex: the condition variable promises no turn.)
CallsReturn ==
    (<>[][\A th \in Threads : At(th, "idle") => At(th, "idle")']_vars)
        => \A th \in Threads : []<>At(th, "idle")

\* "During process shutdown, returns the last cached offset": an offset_us()
\* that returns while the process exits gives the cached offset.
ExitKeepsOffset ==
    [][\A th \in Callers :
         At(th, "read") /\ At(th, "idle")' /\ is_process_shutting_down
           => call'[th].got = m_last_offset']_vars

=============================================================================
