-------------------------- MODULE MCTimerScheduler --------------------------
(* Instances of TimerScheduler for TLC.                                    *)
EXTENDS TimerSchedulerContract

CONSTANTS t1, t2, s1, s2, w1, w2, a1, a2

=============================================================================
