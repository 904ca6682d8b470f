---------------------------- MODULE TimerContract ----------------------------
(***************************************************************************)
(* What TimerScheduler.hpp promises to the owner of a timer, without ids,  *)
(* generations, lazy cancellation, notifications or locks.                 *)
(*                                                                         *)
(* A timer has one deadline or none.  start() replaces it, stop() removes  *)
(* it.  A thread that executes timers takes all the deadlines that have    *)
(* passed at once, runs them in the order of their times, and after each   *)
(* of them may set the next deadline, one interval after the one that was  *)
(* taken and only if the timer has not been given another one meanwhile.   *)
(***************************************************************************)
EXTENDS Integers

CONSTANTS States, Threads, Intervals, Idle

None == -1

VARIABLES
    now,       \* the steady clock
    deadline,  \* when a timer is going to fire, or None
    taken,     \* [state, at]: firings a thread has taken and not finished
    running    \* the firing a thread executes, or Idle

vars == <<now, deadline, taken, running>>

Init ==
    /\ now = 0
    /\ deadline = [s \in States |-> None]
    /\ taken = [th \in Threads |-> {}]
    /\ running = [th \in Threads |-> Idle]

\* start()
Arm(s) ==
    /\ \E i \in Intervals, then \in 0 .. now :
         deadline' = [deadline EXCEPT ![s] = then + i]
    /\ UNCHANGED <<now, taken, running>>

\* stop(), destruction, or stop() of the scheduler for the helpers it drops
Disarm ==
    /\ \E S \in SUBSET States :
         deadline' = [s \in States |-> IF s \in S THEN None ELSE deadline[s]]
    /\ UNCHANGED <<now, taken, running>>

Due == {s \in States : deadline[s] # None /\ deadline[s] <= now}

\* A thread takes every timer that is due, early ones never.
Take(th) ==
    /\ taken[th] = {}
    /\ taken' = [taken EXCEPT ![th] = {[state |-> s, at |-> deadline[s]] : s \in Due}]
    /\ deadline' = [s \in States |-> IF s \in Due THEN None ELSE deadline[s]]
    /\ UNCHANGED <<now, running>>

Begin(th) ==
    /\ running[th] = Idle
    /\ \E f \in taken[th] : /\ \A g \in taken[th] : f.at <= g.at
                            /\ running' = [running EXCEPT ![th] = f]
    /\ UNCHANGED <<now, deadline, taken>>

\* The callback is over.  Fixed rate: the next deadline counts from this one.
Finish(th) ==
    /\ running[th] # Idle
    /\ taken' = [taken EXCEPT ![th] = @ \ {running[th]}]
    /\ running' = [running EXCEPT ![th] = Idle]
    /\ LET s == running[th].state
       IN  \/ UNCHANGED deadline
           \/ /\ deadline[s] = None
              /\ \E i \in Intervals : deadline' = [deadline EXCEPT ![s] = running[th].at + i]
    /\ UNCHANGED now

Advance ==
    /\ now' = now + 1
    /\ UNCHANGED <<deadline, taken, running>>

Next ==
    \/ \E s \in States : Arm(s)
    \/ Disarm
    \/ \E th \in Threads : Take(th) \/ Begin(th) \/ Finish(th)
    \/ Advance

Spec == Init /\ [][Next]_vars

=============================================================================
