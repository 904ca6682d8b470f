--------------------------- MODULE MCNtpTimeService ---------------------------
(* Instance of NtpTimeService for TLC. Where only the finding about         *)
(* offset_us() tells offsets apart, one that is not 0 stands for them all.  *)
EXTENDS NtpTimeService

MCOffsets == {-3, 5}
MCOneOffset == {5}

=============================================================================
