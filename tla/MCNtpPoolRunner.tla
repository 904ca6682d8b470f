---------------------------- MODULE MCNtpPoolRunner ----------------------------
(* Instance of NtpPoolRunner for TLC: one server that everybody competes for. *)
EXTENDS NtpPoolRunner

MCConfigs == {[sample_servers |-> 1, min_valid_samples |-> 1, aggregation |-> "Median", alpha |-> AlphaUnit]}

=============================================================================
