---------------------------- MODULE MCNtpClientPool ----------------------------
(* Instance of NtpClientPool for TLC: three servers, one of them a liar.    *)
EXTENDS NtpClientPool, TLC

CONSTANTS s1, s2, s3, m1, m2

MCTrue == {4}
MCAll  == {4, -9}

\* Two configurations that demand all three servers, one with smoothing.
MCConfigs ==
    {[sample_servers |-> 3, min_valid_samples |-> 3, aggregation |-> "Median", alpha |-> a] : a \in {1, 2}}

Good(o) == [offset |-> o, delay |-> 1, max_delay |-> 1, is_ok |-> TRUE]
Late(o) == [offset |-> o, delay |-> 2, max_delay |-> 1, is_ok |-> TRUE]

\* A lie and a late answer among honest samples.
MCBatches == {<<Good(4), Late(4), Good(-9), Good(4)>>}

\* Nothing reads m_last_samples and what measure_n() returned, so samples that
\* wait to become the former do not count either; the median of the others does not depend on their order, nor on those
\* that are not valid.
Tally(samples) == [o \in MCAll |-> Cardinality({i \in Indices(samples) : IsValid(samples[i]) /\ samples[i].offset = o})]
MCView == <<now, m_servers, listed, m_cfg, m_offset_us,
            [th \in Measurers |-> <<[measuring[th] EXCEPT !.samples = <<>>, !.ok = FALSE],
                                 IF measuring[th].pc = "publish" THEN <<>> ELSE Tally(measuring[th].samples)>>]>>

MCSymmetry == Permutations(Measurers) \cup Permutations({s1, s2})

=============================================================================
