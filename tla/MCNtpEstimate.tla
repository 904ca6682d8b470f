--------------------------- MODULE MCNtpEstimate ---------------------------
(* Instance of NtpEstimateInputs for TLC.                                   *)
EXTENDS NtpEstimateInputs

\* Few offsets, of both signs and unevenly spaced.
MCOffsets == {-6, -2, 0, 1, 3}

=============================================================================
