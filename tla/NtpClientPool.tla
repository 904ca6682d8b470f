---------------------------- MODULE NtpClientPool ----------------------------
(***************************************************************************)
(* NtpClientPoolT: rate-limited measurements of several servers. A thread  *)
(* that measures takes m_mtx to pick servers, to start and to end each     *)
(* query, and to store the samples; it holds no lock during the queries    *)
(* nor while it updates the atomic offset, so the steps of several threads *)
(* interleave. The server list is replaced only while nobody queries.      *)
(***************************************************************************)
EXTENDS NtpEstimate

CONSTANTS
    Servers,         \* entries that m_servers may have
    Liars,           \* servers whose offsets may be wrong
    TrueOffsets,     \* offsets an honest server reports in time
    AllOffsets,      \* offsets of liars and of late answers
    Delays,          \* round-trip delays
    MaxDelay,        \* NtpServerConfig::max_delay, 0 for none
    MinInterval, BackoffInitial, BackoffMax,
    Configs,         \* pool configurations
    Batches,         \* sample lists given to apply_samples()
    ServerLists,     \* lists given to set_servers()
    Measurers,       \* threads that measure
    MaxTime,         \* bound of the clock
    NoServer

ASSUME PoolAssumption ==
    /\ IsFiniteSet(Servers) /\ Liars \subseteq Servers /\ NoServer \notin Servers
    /\ TrueOffsets \subseteq AllOffsets /\ AllOffsets \subseteq Int
    /\ Delays \subseteq Nat /\ MaxDelay \in Nat
    /\ MinInterval \in Nat /\ BackoffInitial \in Nat /\ BackoffMax \in Nat
    /\ MaxTime \in Nat
    /\ Configs # {} /\ ServerLists \subseteq SUBSET Servers

\* smoothing_alpha is alpha / AlphaUnit.
AlphaUnit == 2

VARIABLES
    now,             \* steady clock
    m_servers,       \* state of every server, for those in the list
    listed,          \* servers in m_servers
    m_cfg, m_offset_us, m_last_samples,
    measuring        \* what each thread is doing in measure_n()

poolVars == <<now, m_servers, listed, m_cfg, m_offset_us, m_last_samples, measuring>>

\* The rest of ServerState is written and never read.
ServerState == [next_allowed : Nat, backoff : Nat, fail_count : Nat]
NewServer == [next_allowed |-> 0, backoff |-> 0, fail_count |-> 0]

\* The locals of measure_n(). wanted: servers_to_sample; picked: still to be
\* queried; asked: the query under way; value: the estimate, or old value.
Idle == [pc |-> "idle", wanted |-> 0, cfg |-> CHOOSE c \in Configs : TRUE, picked |-> {}, asked |-> NoServer,
         samples |-> <<>>, value |-> 0, ok |-> FALSE]

PoolInit ==
    /\ now = 0
    /\ m_servers = [s \in Servers |-> NewServer] /\ listed = Servers
    /\ m_cfg \in Configs
    /\ m_offset_us = 0 /\ m_last_samples = <<>>
    /\ measuring = [th \in Measurers |-> Idle]

----------------------------------------------------------------------------
(* measure() and measure_n()                                               *)

\* measure() reads sample_servers with config(); measure_n() is given it.
Measure(th, wanted) ==
    /\ measuring[th].pc = "idle"
    /\ measuring' = [measuring EXCEPT ![th] = [Idle EXCEPT !.pc = "pick", !.wanted = wanted]]
    /\ UNCHANGED <<now, m_servers, listed, m_cfg, m_offset_us, m_last_samples>>

\* Defective: a server that does not fail may always be asked.
NotFailing(s) == m_servers[s].fail_count = 0 \/ now >= m_servers[s].next_allowed

Eligible(s) == now >= m_servers[s].next_allowed

\* pick_servers_locked: all eligible servers, or a random choice of them.
PickServers(th) ==
    /\ measuring[th].pc = "pick"
    /\ LET eligible == {s \in listed : Eligible(s)}
           wanted   == measuring[th].wanted
       IN  \E picked \in SUBSET eligible :
             /\ Cardinality(picked) = IF wanted < Cardinality(eligible) THEN wanted ELSE Cardinality(eligible)
             /\ measuring' = [measuring EXCEPT ![th] = [Idle EXCEPT !.pc = "query", !.picked = picked, !.cfg = m_cfg]]
    /\ UNCHANGED <<now, m_servers, listed, m_cfg, m_offset_us, m_last_samples>>

\* query_one up to the query: the server is not to be asked again so soon.
QueryBegin(th) ==
    /\ measuring[th].pc = "query" /\ measuring[th].asked = NoServer
    /\ \E s \in measuring[th].picked :
        /\ m_servers' = [m_servers EXCEPT ![s].next_allowed = now + MinInterval]
        /\ measuring' = [measuring EXCEPT ![th].asked = s, ![th].picked = @ \ {s}]
    /\ UNCHANGED <<now, listed, m_cfg, m_offset_us, m_last_samples>>

\* What NtpClient::query may leave: a failure, thrown or returned; an answer.
Failed == [offset |-> 0, delay |-> 0, max_delay |-> MaxDelay, is_ok |-> FALSE]
Answers(s) ==
    {Failed} \cup
    {[offset |-> o, delay |-> d, max_delay |-> MaxDelay, is_ok |-> TRUE] :
        o \in IF s \in Liars THEN AllOffsets ELSE TrueOffsets, d \in Delays} \cup
    {[offset |-> o, delay |-> d, max_delay |-> MaxDelay, is_ok |-> TRUE] :
        o \in AllOffsets, d \in {d \in Delays : d > MaxDelay /\ MaxDelay > 0}}

NextBackoff(backoff) ==
    IF backoff = 0 THEN BackoffInitial
    ELSE IF 2 * backoff < BackoffMax THEN 2 * backoff ELSE BackoffMax

\* Defective: a success keeps the backoff for the next failure.
ForgetsCountOnly(state) == [state EXCEPT !.fail_count = 0]

AfterSuccess(state) == [state EXCEPT !.fail_count = 0, !.backoff = 0]

AfterFailure(state) ==
    LET backoff == NextBackoff(state.backoff)
    IN  [state EXCEPT !.fail_count = @ + 1, !.backoff = backoff, !.next_allowed = now + backoff]

\* The end of query_one, with update_server_state_after_query.
QueryEnd(th) ==
    /\ measuring[th].asked # NoServer
    /\ LET s == measuring[th].asked IN \E sample \in Answers(s) :
        /\ m_servers' = [m_servers EXCEPT ![s] = IF sample.is_ok THEN AfterSuccess(@) ELSE AfterFailure(@)]
        /\ measuring' = [measuring EXCEPT ![th].asked = NoServer, ![th].samples = Append(@, sample)]
    /\ UNCHANGED <<now, listed, m_cfg, m_offset_us, m_last_samples>>

\* Defective: one sample short of the minimum is enough.
AlmostEnough(samples, cfg) == Size(Offsets(samples)) + 1 >= cfg.min_valid_samples

Enough(samples, cfg) == Size(Offsets(samples)) >= cfg.min_valid_samples

\* median() reads values[0] of an empty vector when min_valid_samples is 0:
\* undefined behaviour, kept out by the assumption on the configurations.
ASSUME ConfigAssumption ==
    \A cfg \in Configs :
        /\ cfg.sample_servers \in Nat /\ cfg.min_valid_samples \in Nat \ {0}
        /\ cfg.aggregation \in Kinds /\ cfg.alpha \in Int

\* update_from_samples has returned ok.
Measured(m, ok) == [Idle EXCEPT !.pc = "publish", !.samples = m.samples, !.ok = ok]

\* update_from_samples once the queries are over. With smoothing the old value
\* is loaded here and the new one stored by a later step.
Update(th) ==
    LET m == measuring[th]
    IN  /\ m.pc = "query" /\ m.picked = {} /\ m.asked = NoServer
        /\ IF Enough(m.samples, m.cfg) /\ m.cfg.alpha >= AlphaUnit
           THEN m_offset_us' = Estimate(m.cfg.aggregation, m.samples)
           ELSE UNCHANGED m_offset_us
        /\ measuring' = [measuring EXCEPT ![th] =
             IF Enough(m.samples, m.cfg) /\ 0 < m.cfg.alpha /\ m.cfg.alpha < AlphaUnit
             THEN [m EXCEPT !.pc = "blend", !.value = m_offset_us]
             ELSE Measured(m, Enough(m.samples, m.cfg))]
        /\ UNCHANGED <<now, m_servers, listed, m_cfg, m_last_samples>>

Blend(th) ==
    LET m == measuring[th] IN
    /\ m.pc = "blend"
    /\ m_offset_us' = Smooth(m.value, Estimate(m.cfg.aggregation, m.samples), m.cfg.alpha, AlphaUnit)
    /\ measuring' = [measuring EXCEPT ![th] = Measured(m, TRUE)]
    /\ UNCHANGED <<now, m_servers, listed, m_cfg, m_last_samples>>

\* The samples are stored under the mutex and measure_n() returns ok.
PublishSamples(th) ==
    /\ measuring[th].pc = "publish"
    /\ m_last_samples' = measuring[th].samples
    /\ measuring' = [measuring EXCEPT ![th] = [Idle EXCEPT !.ok = measuring[th].ok]]
    /\ UNCHANGED <<now, m_servers, listed, m_cfg, m_offset_us>>

\* What measure_n() does next.
MeasureStep(th) ==
    PickServers(th) \/ QueryBegin(th) \/ QueryEnd(th) \/ Update(th) \/ Blend(th) \/ PublishSamples(th)

----------------------------------------------------------------------------
(* The other operations                                                    *)

\* apply_samples(): samples collected elsewhere.
ApplySamples(th, samples) ==
    /\ measuring[th].pc = "idle"
    /\ measuring' = [measuring EXCEPT ![th] = [Idle EXCEPT !.pc = "query", !.cfg = m_cfg, !.samples = samples]]
    /\ UNCHANGED <<now, m_servers, listed, m_cfg, m_offset_us, m_last_samples>>

SetConfig(cfg) ==
    /\ cfg # m_cfg /\ m_cfg' = cfg
    /\ UNCHANGED <<now, m_servers, listed, m_offset_us, m_last_samples, measuring>>

Querying == \E th \in Measurers : measuring[th].pc = "query" /\ (measuring[th].picked # {} \/ measuring[th].asked # NoServer)

\* set_servers(), and clear_servers() with an empty list: new states for all.
SetServers(servers) ==
    /\ ~Querying
    /\ listed' = servers
    /\ m_servers' = [s \in Servers |-> NewServer]
    /\ UNCHANGED <<now, m_cfg, m_offset_us, m_last_samples, measuring>>

AddServer(s) ==
    /\ ~Querying /\ s \notin listed
    /\ listed' = listed \cup {s}
    /\ m_servers' = [m_servers EXCEPT ![s] = NewServer]
    /\ UNCHANGED <<now, m_cfg, m_offset_us, m_last_samples, measuring>>

Tick ==
    /\ now < MaxTime /\ now' = now + 1
    /\ UNCHANGED <<m_servers, listed, m_cfg, m_offset_us, m_last_samples, measuring>>

\* measure() and the other calls, from any thread at any time.
PoolNext ==
    \/ \E th \in Measurers :
        \/ Measure(th, m_cfg.sample_servers)
        \/ \E samples \in Batches : ApplySamples(th, samples)
        \/ MeasureStep(th)
    \/ \E cfg \in Configs : SetConfig(cfg)
    \/ \E servers \in ServerLists : SetServers(servers)
    \/ \E s \in Servers : AddServer(s)
    \/ Tick

PoolSpec == PoolInit /\ [][PoolNext]_poolVars

----------------------------------------------------------------------------
(* Properties                                                              *)

\* With medians of more than twice as many valid samples as there are liars,
\* neither liars nor late or failed answers, from measurements that interleave,
\* move the offset away from what honest servers say in time: it stays among
\* their offsets and the initial 0, which smoothing may still contain.
OffsetTrusted ==
    (\A cfg \in Configs : cfg.aggregation = "Median" /\ cfg.min_valid_samples > 2 * Cardinality(Liars))
        => Between(m_offset_us, TrueOffsets \cup {0})

\* However queries of several threads end, the backoff is what the number of
\* failures in a row demands: the initial one, doubled each time up to the
\* maximum, none after a success.
BackoffIsExact ==
    \A s \in Servers :
        LET n       == m_servers[s].fail_count
            doubled == BackoffInitial * 2 ^ (n - 1)
        IN  m_servers[s].backoff = IF n = 0 THEN 0
                                   ELSE IF n = 1 \/ doubled < BackoffMax THEN doubled
                                   ELSE BackoffMax

=============================================================================
