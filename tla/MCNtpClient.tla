----------------------------- MODULE MCNtpClient -----------------------------
(* Instance of NtpClient for TLC: seconds of three microseconds and eight   *)
(* fractions; the era ends in the middle of the run.                        *)
EXTENDS NtpClient

CONSTANTS p1, p2

\* Servers whose clock is ahead of ours or behind it.
MCLeads == {-2, 5}

\* The fields are stored whole at the end of a query: what they held during one
\* makes no difference to what follows.
MCView == <<now, lead, wire, pc, transaction, IF pc = "idle" THEN <<measured, last_error_code>> ELSE <<>>>>
=============================================================================
