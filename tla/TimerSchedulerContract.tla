----------------------- MODULE TimerSchedulerContract -----------------------
(* TimerScheduler implements TimerContract: a deadline is the live entry of  *)
(* the queue, everything else in the queue is waiting for lazy removal.     *)
EXTENDS TimerScheduler

\* No entry and no firing is mistaken for "none".
ASSUME NilAssumption == Nil \notin Entry \cup [state : States, at : Nat]

LiveEntries(s) == {e \in m_queue : e.state = s /\ IsLive(e)}

Deadline ==
    [s \in States |-> IF LiveEntries(s) = {} THEN -1 ELSE (CHOOSE e \in LiveEntries(s) : TRUE).fire]

Firing(e) == [state |-> e.state, at |-> e.fire]

Contract == INSTANCE TimerContract WITH
    deadline <- Deadline,
    taken    <- [th \in Threads |-> {Firing(e) : e \in batch[th]}],
    running  <- [th \in Threads |-> IF cur[th] = Nil THEN Nil ELSE Firing(cur[th])],
    Idle     <- Nil

\* What start(), stop() and the destructors promise survives lazy
\* cancellation, generations and every interleaving: no firing before its
\* time, none after stop(), none twice, fixed rate, and a start() made while
\* the callback runs is not overwritten by the reschedule.
ImplementsContract == Contract!Spec

=============================================================================
