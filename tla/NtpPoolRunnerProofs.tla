-------------------------- MODULE NtpPoolRunnerProofs --------------------------
(***************************************************************************)
(* The pool and its runner, for any servers, threads, delays and offsets.  *)
(*                                                                         *)
(* The pool alone: its offset is one that honest servers vouch for. The    *)
(* argument counts: a measurement asks a server once, so the valid samples *)
(* that are wrong and the liars still to be heard are together never more  *)
(* than there are liars, however the measurements of other threads         *)
(* interleave. Its backoff is initial * 2^(failures - 1) up to the maximum *)
(* because each failure climbs one rung of that ladder.                    *)
(*                                                                         *)
(* Under the runner: stop() is complete, and no server is asked too soon.  *)
(* The second rests on the mutex of the runner: who has picked servers     *)
(* measures alone, so what he saw when he picked them still holds when     *)
(* their turn comes. The runner's steps are steps of the pool, so what is  *)
(* proved of the pool holds under it.                                      *)
(***************************************************************************)
EXTENDS NtpPoolRunner, NtpEstimateProofs

----------------------------------------------------------------------------
(* The offset of the pool                                                  *)

\* Valid samples whose offset no honest server reports.
Lies(samples) == {i \in Valid(samples) : samples[i].offset \notin TrueOffsets}

\* What is given to apply_samples() counts as a measurement of the same servers.
FairBatches ==
    \A samples \in Batches : samples \in Seq(AnySample) /\ Cardinality(Lies(samples)) <= Cardinality(Liars)

\* measuring[th] is a record of these fields. The value depends on the strategy:
\* what it is worth is said where it is computed.
PoolLocals(m) ==
    m \in [pc : {"idle", "pick", "query", "blend", "publish"}, wanted : Nat, cfg : Configs,
           picked : SUBSET Servers, asked : Servers \cup {NoServer},
           samples : Seq(AnySample), value : {m.value}, ok : BOOLEAN]

PoolTypes ==
    /\ m_cfg \in Configs /\ listed \in SUBSET Servers
    /\ measuring = [th \in Measurers |-> measuring[th]]
    /\ \A th \in Measurers : PoolLocals(measuring[th])

\* Liars that a measurement has still to hear.
Unheard(m) == Liars \cap (m.picked \cup {m.asked})

\* Servers are picked and asked during the queries only, each of them once.
AskedOnce(m) ==
    /\ m.asked \notin m.picked
    /\ m.pc # "query" => m.picked = {} /\ m.asked = NoServer

Counted(m) == Cardinality(Lies(m.samples)) + Cardinality(Unheard(m)) <= Cardinality(Liars)

Vouched(offset) == offset \in Int /\ Between(offset, TrueOffsets \cup {0})

\* The antecedent of OffsetTrusted.
Demanding == \A cfg \in Configs : cfg.aggregation = "Median" /\ cfg.min_valid_samples > 2 * Cardinality(Liars)

\* Once the old value is loaded the estimate has been found possible.
BlendsVouched(m) == m.pc = "blend" => Vouched(m.value) /\ Enough(m.samples, m.cfg)

PoolIInv ==
    /\ PoolTypes
    /\ \A th \in Measurers : AskedOnce(measuring[th]) /\ Counted(measuring[th])
    /\ Demanding => Vouched(m_offset_us) /\ \A th \in Measurers : BlendsVouched(measuring[th])

----------------------------------------------------------------------------
(* Samples                                                                 *)

\* The offsets of a list of samples, and those among them that are wrong.
LEMMA OffsetsAreAVector ==
    ASSUME NEW samples \in Seq(AnySample)
    PROVE  /\ IsFiniteSet(Valid(samples)) /\ DOMAIN Offsets(samples) = Valid(samples)
           /\ IsVector(Offsets(samples)) /\ Lies(samples) \in SUBSET Valid(samples)
           /\ IsFiniteSet(Lies(samples)) /\ Cardinality(Lies(samples)) \in Nat
           /\ \A i \in Valid(samples) : samples[i] \in AnySample /\ Offsets(samples)[i] = samples[i].offset
  <1>1. Indices(samples) = 1 .. Len(samples) /\ Len(samples) \in Nat /\ \A i \in Indices(samples) : samples[i] \in AnySample
    BY DEF Indices
  <1>2. IsFiniteSet(Indices(samples))
    BY <1>1, FS_Interval
  <1>3. IsFiniteSet(Valid(samples)) /\ Valid(samples) \in SUBSET Indices(samples)
    BY <1>2, FS_Subset DEF Valid
  <1>4. \A i \in Valid(samples) : samples[i] \in AnySample /\ Offsets(samples)[i] = samples[i].offset
    BY <1>1, <1>3 DEF Offsets
  <1>5. DOMAIN Offsets(samples) = Valid(samples) /\ IsVector(Offsets(samples))
    BY <1>3, <1>4 DEF Offsets, IsVector, AnySample
  <1>6. Lies(samples) \in SUBSET Valid(samples)
    BY DEF Lies
  <1>7. IsFiniteSet(Lies(samples)) /\ Cardinality(Lies(samples)) \in Nat
    BY <1>3, <1>6, Counting
  <1> QED
    BY <1>3, <1>4, <1>5, <1>6, <1>7

\* There are no samples to begin with.
LEMMA NoSamples ==
    /\ <<>> \in Seq(AnySample) /\ Lies(<<>>) = {} /\ Cardinality(Lies(<<>>)) = 0
    /\ \A cfg \in Configs : ~Enough(<<>>, cfg)
  <1>1. Valid(<<>>) = {}
    BY DEF Valid, Indices
  <1>2. Lies(<<>>) = {} /\ Cardinality(Lies(<<>>)) = 0 /\ Size(Offsets(<<>>)) = 0
    BY <1>1, FS_EmptySet DEF Lies, Offsets, Size
  <1>3. \A cfg \in Configs : cfg.min_valid_samples \in Nat \ {0}
    BY ConfigAssumption
  <1>4. \A cfg \in Configs : ~Enough(<<>>, cfg)
    BY <1>2, <1>3 DEF Enough
  <1> QED
    BY <1>2, <1>4

\* A new sample is one more lie at most, and none if it is not valid or says
\* what an honest server would say.
LEMMA AnotherSample ==
    ASSUME NEW samples \in Seq(AnySample), NEW sample \in AnySample
    PROVE  /\ Append(samples, sample) \in Seq(AnySample)
           /\ Cardinality(Lies(Append(samples, sample))) <= Cardinality(Lies(samples)) + 1
           /\ (IsValid(sample) => sample.offset \in TrueOffsets)
                => Cardinality(Lies(Append(samples, sample))) = Cardinality(Lies(samples))
  <1> DEFINE longer == Append(samples, sample)
             n == Len(samples) + 1
  <1>1. /\ longer \in Seq(AnySample) /\ Len(samples) \in Nat /\ Indices(longer) = Indices(samples) \cup {n}
        /\ longer[n] = sample /\ n \notin Indices(samples) /\ \A i \in Indices(samples) : longer[i] = samples[i]
    BY DEF Indices
  <1> HIDE DEF longer, n
  <1>2. /\ Lies(longer) \in SUBSET (Lies(samples) \cup {n}) /\ n \notin Lies(samples)
        /\ (IsValid(sample) => sample.offset \in TrueOffsets) => Lies(longer) = Lies(samples)
    BY <1>1 DEF Lies, Valid
  <1>3. IsFiniteSet(Lies(samples)) /\ Cardinality(Lies(samples)) \in Nat
    BY OffsetsAreAVector
  <1>4. /\ IsFiniteSet(Lies(samples) \cup {n})
        /\ Cardinality(Lies(samples) \cup {n}) = Cardinality(Lies(samples)) + 1
    BY <1>2, <1>3, FS_AddElement
  <1>5. Cardinality(Lies(longer)) <= Cardinality(Lies(samples)) + 1
    BY <1>2, <1>4, FS_Subset
  <1> QED
    BY <1>1, <1>2, <1>5 DEF longer

\* An answer is a sample, and an honest server's lies to nobody in time.
LEMMA HonestAnswers ==
    ASSUME NEW s \in Servers, NEW sample \in Answers(s)
    PROVE  /\ sample \in AnySample
           /\ s \notin Liars => (IsValid(sample) => sample.offset \in TrueOffsets)
  <1> USE PoolAssumption
  <1> DEFINE Answer(o, d) == [offset |-> o, delay |-> d, max_delay |-> MaxDelay, is_ok |-> TRUE]
  <1>1. CASE sample = Failed
    BY <1>1 DEF Failed, AnySample, IsValid
  <1>2. CASE \E o \in (IF s \in Liars THEN AllOffsets ELSE TrueOffsets), d \in Delays : sample = Answer(o, d)
    <2>1. PICK o \in (IF s \in Liars THEN AllOffsets ELSE TrueOffsets), d \in Delays : sample = Answer(o, d)
      BY <1>2
    <2>2. o \in Int /\ d \in Int /\ (s \notin Liars => o \in TrueOffsets)
      OBVIOUS
    <2> QED
      BY <2>1, <2>2 DEF AnySample
  <1>3. CASE \E o \in AllOffsets, d \in Delays : d > MaxDelay /\ MaxDelay > 0 /\ sample = Answer(o, d)
    <2>1. PICK o \in AllOffsets, d \in Delays : d > MaxDelay /\ MaxDelay > 0 /\ sample = Answer(o, d)
      BY <1>3
    <2>2. o \in Int /\ d \in Int
      OBVIOUS
    <2> QED
      BY <2>1, <2>2 DEF AnySample, IsValid
  <1> QED
    BY <1>1, <1>2, <1>3 DEF Answers

----------------------------------------------------------------------------
(* The estimate                                                            *)

\* Offsets are integers.
LEMMA OffsetsAreIntegers == TrueOffsets \cup {0} \subseteq Int
  BY PoolAssumption

\* Whoever is between two vouched offsets is vouched for himself.
LEMMA BetweenVouched ==
    ASSUME NEW a, NEW b, NEW y \in Int, Vouched(a), Vouched(b), Between(y, {a, b})
    PROVE  Vouched(y)
  <1> DEFINE S == TrueOffsets \cup {0}
  <1>1. \A x \in S : x \in Int
    BY OffsetsAreIntegers
  <1>2. PICK l1 \in S, l2 \in S, h1 \in S, h2 \in S : l1 <= a /\ a <= h1 /\ l2 <= b /\ b <= h2
    BY DEF Vouched, Between
  <1>3. (a <= y \/ b <= y) /\ (y <= a \/ y <= b) /\ a \in Int /\ b \in Int
    BY DEF Vouched, Between
  <1> HIDE DEF S
  <1>4. (l1 <= y \/ l2 <= y) /\ (y <= h1 \/ y <= h2)
    BY <1>1, <1>2, <1>3
  <1> QED
    BY <1>2, <1>4 DEF Vouched, Between, S

\* With more than twice as many valid samples as there can be lies, honest
\* servers vouch for the estimate.
LEMMA EstimateIsVouched ==
    ASSUME Demanding, NEW samples \in Seq(AnySample), NEW cfg \in Configs, Enough(samples, cfg),
           Cardinality(Lies(samples)) <= Cardinality(Liars)
    PROVE  Vouched(Estimate(cfg.aggregation, samples))
  <1> DEFINE f == Offsets(samples)
  <1>1. Estimate(cfg.aggregation, samples) = Median(f)
    BY DEF Demanding, Estimate
  <1>2. /\ IsVector(f) /\ DOMAIN f = Valid(samples) /\ Lies(samples) \in SUBSET DOMAIN f
        /\ Cardinality(Lies(samples)) \in Nat
        /\ \A i \in DOMAIN f : f[i] = samples[i].offset
    BY OffsetsAreAVector
  <1>3. Cardinality(Liars) \in Nat /\ cfg.min_valid_samples \in Nat
    BY PoolAssumption, ConfigAssumption, FS_Subset, FS_CardinalityType
  <1>4. Size(f) \in Nat
    BY <1>2, FS_CardinalityType DEF IsVector, Size
  <1>5. Size(f) >= cfg.min_valid_samples /\ cfg.min_valid_samples > 2 * Cardinality(Liars)
    BY DEF Enough, Demanding
  <1> HIDE DEF f
  <1>6. 2 * Cardinality(Lies(samples)) < Size(f)
    BY <1>2, <1>3, <1>4, <1>5
  <1>7. Median(f) \in Int /\ Between(Median(f), {f[i] : i \in DOMAIN f \ Lies(samples)})
    BY <1>2, <1>6, MajorityDecides
  <1>8. {f[i] : i \in DOMAIN f \ Lies(samples)} \subseteq TrueOffsets
    BY <1>2 DEF Lies
  <1>9. Vouched(Median(f))
    BY <1>7, <1>8 DEF Vouched, Between
  <1> QED
    BY <1>1, <1>7, <1>9

----------------------------------------------------------------------------
(* Steps                                                                   *)

\* The locals between two measurements.
LEMMA IdleIsSound ==
    /\ PoolLocals(Idle) /\ Idle.pc = "idle" /\ Idle.picked = {} /\ Idle.asked = NoServer /\ Idle.samples = <<>>
    /\ AskedOnce(Idle) /\ Counted(Idle) /\ BlendsVouched(Idle)
    /\ Cardinality(Liars) \in Nat /\ IsFiniteSet(Liars)
  <1> USE PoolAssumption
  <1>1. PoolLocals(Idle)
    BY NoSamples DEF PoolLocals, Idle
  <1>2. Idle.pc = "idle" /\ Idle.picked = {} /\ Idle.asked = NoServer /\ Idle.samples = <<>>
    BY DEF Idle
  <1>3. IsFiniteSet(Liars) /\ Cardinality(Liars) \in Nat
    BY FS_Subset, FS_CardinalityType
  <1>4. Unheard(Idle) = {} /\ Cardinality(Unheard(Idle)) = 0
    BY <1>2, FS_EmptySet DEF Unheard
  <1>5. Counted(Idle)
    BY <1>2, <1>3, <1>4, NoSamples DEF Counted
  <1> QED
    BY <1>1, <1>2, <1>3, <1>5 DEF AskedOnce, BlendsVouched

LEMMA PoolInitIsSound == PoolInit => PoolIInv
  <1> SUFFICES ASSUME PoolInit PROVE PoolIInv
    OBVIOUS
  <1>1. measuring = [th \in Measurers |-> Idle] /\ m_cfg \in Configs /\ m_offset_us = 0 /\ listed = Servers
    BY DEF PoolInit
  <1> HIDE DEF PoolInit
  <1>2. PoolTypes
    BY <1>1, IdleIsSound DEF PoolTypes
  <1>3. Vouched(m_offset_us)
    BY <1>1, OffsetsAreIntegers DEF Vouched, Between
  <1> QED
    BY <1>1, <1>2, <1>3, IdleIsSound DEF PoolIInv

\* What a step of a measurement amounts to: one thread gets new locals.
LEMMA NewPoolLocalsAreSound ==
    ASSUME PoolIInv, NEW th \in Measurers, NEW m, measuring' = [measuring EXCEPT ![th] = m], UNCHANGED <<m_cfg, listed>>,
           PoolLocals(m), AskedOnce(m), Counted(m),
           Demanding => Vouched(m_offset_us') /\ BlendsVouched(m)
    PROVE  PoolIInv'
  <1>1. \A t \in Measurers : measuring'[t] = IF t = th THEN m ELSE measuring[t]
    BY DEF PoolIInv, PoolTypes
  <1>2. PoolTypes'
    <2>1. \A t \in Measurers : PoolLocals(measuring'[t])
      BY <1>1 DEF PoolIInv, PoolTypes
    <2>2. \A t \in Measurers : PoolLocals(measuring[t])'
      BY <2>1 DEF PoolLocals
    <2> QED
      BY <2>2 DEF PoolIInv, PoolTypes
  <1>3. \A t \in Measurers : AskedOnce(measuring'[t]) /\ Counted(measuring'[t])
    BY <1>1 DEF PoolIInv
  <1>4. \A t \in Measurers : AskedOnce(measuring[t])' /\ Counted(measuring[t])'
    BY <1>3 DEF AskedOnce, Counted, Unheard
  <1>5. ASSUME Demanding PROVE Vouched(m_offset_us)' /\ \A t \in Measurers : BlendsVouched(measuring[t])'
    <2>1. \A t \in Measurers : BlendsVouched(measuring'[t])
      BY <1>1, <1>5 DEF PoolIInv
    <2> QED
      BY <1>5, <2>1 DEF BlendsVouched, Vouched
  <1> QED
    BY <1>2, <1>4, <1>5 DEF PoolIInv, Demanding

\* Servers are picked: the liars among them are still to be heard.
LEMMA PickIsSound ==
    ASSUME PoolIInv, NEW th \in Measurers, PickServers(th)
    PROVE  PoolIInv'
  <1>1. PICK picked \in SUBSET {s \in listed : Eligible(s)} :
          measuring' = [measuring EXCEPT ![th] = [Idle EXCEPT !.pc = "query", !.picked = picked, !.cfg = m_cfg]]
    BY DEF PickServers
  <1> DEFINE n == [Idle EXCEPT !.pc = "query", !.picked = picked, !.cfg = m_cfg]
  <1>2. /\ UNCHANGED <<m_cfg, listed, m_offset_us>> /\ picked \in SUBSET Servers /\ m_cfg \in Configs
        /\ measuring' = [measuring EXCEPT ![th] = n]
    BY <1>1 DEF PickServers, PoolIInv, PoolTypes
  <1>3. n.pc = "query" /\ n.picked = picked /\ n.asked = NoServer /\ n.samples = <<>> /\ PoolLocals(n)
    BY <1>2, IdleIsSound DEF PoolLocals
  <1> HIDE DEF n
  <1>4. AskedOnce(n)
    BY <1>2, <1>3, PoolAssumption DEF AskedOnce
  <1>5. Counted(n)
    <2>1. Cardinality(Unheard(n)) <= Cardinality(Liars) /\ Cardinality(Unheard(n)) \in Nat
      BY IdleIsSound, Counting DEF Unheard
    <2> QED
      BY <1>3, <2>1, IdleIsSound, NoSamples DEF Counted
  <1>6. BlendsVouched(n)
    BY <1>3 DEF BlendsVouched
  <1> QED
    BY <1>2, <1>3, <1>4, <1>5, <1>6, NewPoolLocalsAreSound DEF PoolIInv, Vouched

\* The server to be asked next is taken from those picked.
LEMMA QueryBeginIsSound ==
    ASSUME PoolIInv, NEW th \in Measurers, QueryBegin(th)
    PROVE  PoolIInv'
  <1> DEFINE m == measuring[th]
  <1>1. PICK s \in m.picked : measuring' = [measuring EXCEPT ![th].asked = s, ![th].picked = @ \ {s}]
    BY DEF QueryBegin
  <1> DEFINE n == [m EXCEPT !.asked = s, !.picked = @ \ {s}]
  <1>2. PoolLocals(m) /\ AskedOnce(m) /\ Counted(m) /\ m.pc = "query" /\ m.asked = NoServer
    BY DEF QueryBegin, PoolIInv, PoolTypes
  <1>3. UNCHANGED <<m_cfg, listed, m_offset_us>> /\ measuring' = [measuring EXCEPT ![th] = n]
    BY <1>1 DEF QueryBegin, PoolIInv, PoolTypes
  <1>4. /\ PoolLocals(n) /\ n.pc = "query" /\ n.picked = m.picked \ {s} /\ n.asked = s /\ n.samples = m.samples
    BY <1>1, <1>2 DEF PoolLocals
  <1> HIDE DEF n
  <1>5. AskedOnce(n)
    BY <1>4 DEF AskedOnce
  <1>6. Counted(n)
    <2>1. Unheard(n) = Unheard(m)
      BY <1>1, <1>2, <1>4, PoolAssumption DEF Unheard
    <2> QED
      BY <1>2, <1>4, <2>1 DEF Counted
  <1>7. BlendsVouched(n)
    BY <1>4 DEF BlendsVouched
  <1> QED
    BY <1>3, <1>4, <1>5, <1>6, <1>7, NewPoolLocalsAreSound DEF PoolIInv, Vouched

\* An answer of a liar may be one more lie, but there is one liar less to hear.
LEMMA QueryEndIsSound ==
    ASSUME PoolIInv, NEW th \in Measurers, QueryEnd(th)
    PROVE  PoolIInv'
  <1> DEFINE m == measuring[th]
  <1>1. PICK sample \in Answers(m.asked) :
          measuring' = [measuring EXCEPT ![th].asked = NoServer, ![th].samples = Append(@, sample)]
    BY DEF QueryEnd
  <1> DEFINE n == [m EXCEPT !.asked = NoServer, !.samples = Append(@, sample)]
  <1>2. PoolLocals(m) /\ AskedOnce(m) /\ Counted(m) /\ m.asked # NoServer
    BY DEF QueryEnd, PoolIInv, PoolTypes
  <1>3. UNCHANGED <<m_cfg, listed, m_offset_us>> /\ measuring' = [measuring EXCEPT ![th] = n]
    BY <1>1 DEF QueryEnd, PoolIInv, PoolTypes
  <1>4. m.asked \in Servers /\ m.samples \in Seq(AnySample) /\ m.pc = "query"
    BY <1>2 DEF PoolLocals, AskedOnce
  <1>5. /\ sample \in AnySample /\ Append(m.samples, sample) \in Seq(AnySample)
        /\ m.asked \notin Liars => (IsValid(sample) => sample.offset \in TrueOffsets)
    BY <1>1, <1>4, HonestAnswers, AnotherSample
  <1>6. /\ PoolLocals(n) /\ n.pc = "query" /\ n.picked = m.picked /\ n.asked = NoServer
        /\ n.samples = Append(m.samples, sample)
    BY <1>2, <1>4, <1>5 DEF PoolLocals
  <1> HIDE DEF n
  <1>7. AskedOnce(n)
    BY <1>2, <1>6, PoolAssumption DEF AskedOnce, PoolLocals
  <1>8. Counted(n)
    <2>1. Unheard(n) = Unheard(m) \ {m.asked}
      BY <1>2, <1>6, PoolAssumption DEF Unheard, AskedOnce
    <2>2. /\ IsFiniteSet(Unheard(m)) /\ Cardinality(Unheard(m)) \in Nat
          /\ Cardinality(Unheard(n)) = IF m.asked \in Unheard(m) THEN Cardinality(Unheard(m)) - 1
                                       ELSE Cardinality(Unheard(m))
      <3>1. IsFiniteSet(Unheard(m)) /\ Cardinality(Unheard(m)) \in Nat
        BY IdleIsSound, Counting DEF Unheard
      <3> QED
        BY <2>1, <3>1, FS_RemoveElement, ZenonT(30)
    <2>3. /\ Cardinality(Lies(n.samples)) <= Cardinality(Lies(m.samples)) + 1
          /\ m.asked \notin Liars => Cardinality(Lies(n.samples)) = Cardinality(Lies(m.samples))
      BY <1>4, <1>5, <1>6, AnotherSample
    <2>4. Cardinality(Lies(n.samples)) \in Nat /\ Cardinality(Lies(m.samples)) \in Nat
      BY <1>4, <1>5, <1>6, OffsetsAreAVector
    <2>5. m.asked \in Unheard(m) <=> m.asked \in Liars
      BY DEF Unheard
    <2> QED
      BY <1>2, <2>2, <2>3, <2>4, <2>5, IdleIsSound DEF Counted
  <1>9. BlendsVouched(n)
    BY <1>6 DEF BlendsVouched
  <1> QED
    BY <1>3, <1>6, <1>7, <1>8, <1>9, NewPoolLocalsAreSound DEF PoolIInv, Vouched

\* Once everybody was heard, the lies among the samples are no more than liars.
LEMMA AllHeard ==
    ASSUME NEW m, PoolLocals(m), Counted(m), m.picked = {}, m.asked = NoServer
    PROVE  Cardinality(Lies(m.samples)) <= Cardinality(Liars)
  <1>1. Unheard(m) = {} /\ Cardinality(Unheard(m)) = 0
    BY PoolAssumption, FS_EmptySet DEF Unheard
  <1>2. Cardinality(Lies(m.samples)) \in Nat
    BY OffsetsAreAVector DEF PoolLocals
  <1> QED
    BY <1>1, <1>2, IdleIsSound DEF Counted

\* The locals once the offset is stored, and after the samples are.
LEMMA MeasuredIsSound ==
    ASSUME NEW m, PoolLocals(m), Counted(m), m.picked = {}, m.asked = NoServer, NEW ok \in BOOLEAN
    PROVE  /\ PoolLocals(Measured(m, ok)) /\ AskedOnce(Measured(m, ok)) /\ Counted(Measured(m, ok))
           /\ BlendsVouched(Measured(m, ok))
           /\ LET n == [Idle EXCEPT !.ok = ok] IN PoolLocals(n) /\ AskedOnce(n) /\ Counted(n) /\ BlendsVouched(n)
  <1> DEFINE n == Measured(m, ok)
             i == [Idle EXCEPT !.ok = ok]
  <1>1. PoolLocals(n) /\ n.pc = "publish" /\ n.picked = {} /\ n.asked = NoServer /\ n.samples = m.samples
    BY IdleIsSound DEF Measured, PoolLocals
  <1>2. PoolLocals(i) /\ i.pc = "idle" /\ i.picked = {} /\ i.asked = NoServer /\ i.samples = <<>>
    BY IdleIsSound DEF PoolLocals
  <1> HIDE DEF n, i
  <1>3. Unheard(n) = Unheard(m) /\ Unheard(i) = Unheard(Idle)
    BY <1>1, <1>2, IdleIsSound DEF Unheard
  <1>4. Counted(n) /\ Counted(i)
    BY <1>1, <1>2, <1>3, IdleIsSound DEF Counted
  <1>5. AskedOnce(n) /\ AskedOnce(i)
    BY <1>1, <1>2 DEF AskedOnce
  <1>6. BlendsVouched(n) /\ BlendsVouched(i)
    BY <1>1, <1>2 DEF BlendsVouched
  <1> QED
    BY <1>1, <1>2, <1>4, <1>5, <1>6 DEF n, i

\* update_from_samples stores an estimate that is vouched for, or nothing, or
\* loads the old value to blend it with the estimate.
LEMMA UpdateIsSound ==
    ASSUME PoolIInv, NEW th \in Measurers, Update(th)
    PROVE  PoolIInv'
  <1> DEFINE m == measuring[th]
             enough == Enough(m.samples, m.cfg)
  <1>1. /\ PoolLocals(m) /\ AskedOnce(m) /\ Counted(m) /\ m.pc = "query" /\ m.picked = {} /\ m.asked = NoServer
        /\ UNCHANGED <<m_cfg, listed>>
    BY DEF Update, PoolIInv, PoolTypes
  <1>2. m.samples \in Seq(AnySample) /\ m.cfg \in Configs /\ enough \in BOOLEAN
    BY <1>1 DEF PoolLocals, Enough
  <1>3. ASSUME Demanding PROVE Vouched(m_offset_us')
    <2>1. CASE ~(enough /\ m.cfg.alpha >= AlphaUnit)
      <3>1. m_offset_us' = m_offset_us
        BY <2>1 DEF Update
      <3> QED
        BY <1>3, <3>1 DEF PoolIInv
    <2>2. CASE enough /\ m.cfg.alpha >= AlphaUnit
      <3>1. m_offset_us' = Estimate(m.cfg.aggregation, m.samples)
        BY <2>2 DEF Update
      <3>2. Cardinality(Lies(m.samples)) <= Cardinality(Liars)
        BY <1>1, AllHeard
      <3> QED
        BY <1>2, <1>3, <2>2, <3>1, <3>2, EstimateIsVouched
    <2> QED
      BY <2>1, <2>2
  <1>4. CASE enough /\ measuring' = [measuring EXCEPT ![th] = [m EXCEPT !.pc = "blend", !.value = m_offset_us]]
    <2> DEFINE n == [m EXCEPT !.pc = "blend", !.value = m_offset_us]
    <2>1. /\ PoolLocals(n) /\ n.picked = {} /\ n.asked = NoServer /\ n.samples = m.samples
          /\ n.value = m_offset_us /\ n.cfg = m.cfg
      BY <1>1 DEF PoolLocals
    <2> HIDE DEF n
    <2>2. AskedOnce(n)
      BY <2>1 DEF AskedOnce
    <2>3. Unheard(n) = Unheard(m)
      BY <1>1, <2>1 DEF Unheard
    <2>4. Counted(n)
      BY <1>1, <2>1, <2>3 DEF Counted
    <2>5. Demanding => BlendsVouched(n)
      BY <1>4, <2>1 DEF BlendsVouched, PoolIInv
    <2>6. measuring' = [measuring EXCEPT ![th] = n]
      BY <1>4 DEF n
    <2> QED
      BY <1>1, <1>3, <2>1, <2>2, <2>4, <2>5, <2>6, NewPoolLocalsAreSound
  <1>5. CASE measuring' = [measuring EXCEPT ![th] = Measured(m, enough)]
    <2> DEFINE n == Measured(m, enough)
    <2>1. PoolLocals(n) /\ AskedOnce(n) /\ Counted(n) /\ BlendsVouched(n)
      BY <1>1, <1>2, MeasuredIsSound
    <2> QED
      BY <1>1, <1>3, <1>5, <2>1, NewPoolLocalsAreSound
  <1> QED
    BY <1>4, <1>5 DEF Update

\* Blending two vouched values gives a vouched one.
LEMMA BlendIsSound ==
    ASSUME PoolIInv, NEW th \in Measurers, Blend(th)
    PROVE  PoolIInv'
  <1> DEFINE m == measuring[th]
             estimate == Estimate(m.cfg.aggregation, m.samples)
  <1>1. /\ PoolLocals(m) /\ AskedOnce(m) /\ Counted(m) /\ m.pc = "blend"
        /\ UNCHANGED <<m_cfg, listed>> /\ m_offset_us' = Smooth(m.value, estimate, m.cfg.alpha, AlphaUnit)
        /\ measuring' = [measuring EXCEPT ![th] = Measured(m, TRUE)]
    BY DEF Blend, PoolIInv, PoolTypes
  <1>2. m.picked = {} /\ m.asked = NoServer /\ m.samples \in Seq(AnySample) /\ m.cfg \in Configs
    BY <1>1 DEF PoolLocals, AskedOnce
  <1> HIDE DEF estimate
  <1>3. ASSUME Demanding PROVE Vouched(m_offset_us')
    <2>1. Vouched(m.value) /\ Enough(m.samples, m.cfg)
      BY <1>1, <1>3 DEF PoolIInv, BlendsVouched
    <2>2. Vouched(estimate)
      BY <1>1, <1>2, <1>3, <2>1, AllHeard, EstimateIsVouched DEF estimate
    <2>3. m.value \in Int /\ estimate \in Int /\ m.cfg.alpha \in Int /\ AlphaUnit \in Nat \ {0}
      BY <1>2, <2>1, <2>2, ConfigAssumption DEF Vouched, AlphaUnit
    <2>4. m_offset_us' \in Int /\ Between(m_offset_us', {m.value, estimate})
      BY <1>1, <2>3, SmoothingApproaches
    <2> QED
      BY <2>1, <2>2, <2>4, BetweenVouched
  <1>4. LET n == Measured(m, TRUE) IN PoolLocals(n) /\ AskedOnce(n) /\ Counted(n) /\ BlendsVouched(n)
    BY <1>1, <1>2, MeasuredIsSound
  <1> QED
    BY <1>1, <1>3, <1>4, NewPoolLocalsAreSound

\* Storing the samples leaves the offset alone.
LEMMA PublishIsSound ==
    ASSUME PoolIInv, NEW th \in Measurers, PublishSamples(th)
    PROVE  PoolIInv'
  <1> DEFINE m == measuring[th]
             n == [Idle EXCEPT !.ok = m.ok]
  <1>1. /\ PoolLocals(m) /\ AskedOnce(m) /\ Counted(m) /\ m.pc = "publish"
        /\ UNCHANGED <<m_cfg, listed, m_offset_us>> /\ measuring' = [measuring EXCEPT ![th] = n]
    BY DEF PublishSamples, PoolIInv, PoolTypes
  <1>2. m.picked = {} /\ m.asked = NoServer /\ m.ok \in BOOLEAN
    BY <1>1 DEF PoolLocals, AskedOnce
  <1>3. PoolLocals(n) /\ AskedOnce(n) /\ Counted(n) /\ BlendsVouched(n)
    BY <1>1, <1>2, MeasuredIsSound
  <1> HIDE DEF n
  <1> QED
    BY <1>1, <1>3, NewPoolLocalsAreSound DEF PoolIInv, Vouched

\* Every step of the pool keeps the invariant.
LEMMA PoolNextIsSound ==
    ASSUME FairBatches, PoolIInv, [PoolNext]_poolVars
    PROVE  PoolIInv'
  <1>1. ASSUME UNCHANGED <<measuring, m_offset_us>>, m_cfg' \in Configs, listed' \in SUBSET Servers PROVE PoolIInv'
    <2>1. PoolTypes'
      BY <1>1 DEF PoolIInv, PoolTypes, PoolLocals
    <2> QED
      BY <1>1, <2>1 DEF PoolIInv, AskedOnce, Counted, Unheard, BlendsVouched, Vouched, Demanding
  <1>2. ASSUME NEW th \in Measurers, Measure(th, m_cfg.sample_servers) PROVE PoolIInv'
    <2> DEFINE n == [Idle EXCEPT !.pc = "pick", !.wanted = m_cfg.sample_servers]
    <2>1. UNCHANGED <<m_cfg, listed, m_offset_us>> /\ measuring' = [measuring EXCEPT ![th] = n]
      BY <1>2 DEF Measure
    <2>2. m_cfg.sample_servers \in Nat
      BY ConfigAssumption DEF PoolIInv, PoolTypes
    <2>3. PoolLocals(n) /\ n.pc = "pick" /\ n.picked = {} /\ n.asked = NoServer /\ n.samples = <<>>
      BY <2>2, IdleIsSound DEF PoolLocals
    <2> HIDE DEF n
    <2>4. Unheard(n) = Unheard(Idle)
      BY <2>3, IdleIsSound DEF Unheard
    <2>5. AskedOnce(n) /\ Counted(n) /\ BlendsVouched(n)
      BY <2>3, <2>4, IdleIsSound DEF AskedOnce, Counted, BlendsVouched
    <2> QED
      BY <2>1, <2>3, <2>5, NewPoolLocalsAreSound DEF PoolIInv, Vouched
  <1>3. ASSUME NEW th \in Measurers, NEW samples \in Batches, ApplySamples(th, samples) PROVE PoolIInv'
    <2> DEFINE n == [Idle EXCEPT !.pc = "query", !.cfg = m_cfg, !.samples = samples]
    <2>1. UNCHANGED <<m_cfg, listed, m_offset_us>> /\ measuring' = [measuring EXCEPT ![th] = n]
      BY <1>3 DEF ApplySamples
    <2>2. samples \in Seq(AnySample) /\ Cardinality(Lies(samples)) <= Cardinality(Liars) /\ m_cfg \in Configs
      BY DEF FairBatches, PoolIInv, PoolTypes
    <2>3. PoolLocals(n) /\ n.pc = "query" /\ n.picked = {} /\ n.asked = NoServer /\ n.samples = samples
      BY <2>2, IdleIsSound DEF PoolLocals
    <2> HIDE DEF n
    <2>4. Unheard(n) = {} /\ Cardinality(Unheard(n)) = 0
      BY <2>3, PoolAssumption, FS_EmptySet DEF Unheard
    <2>5. Cardinality(Lies(samples)) \in Nat
      BY <2>2, OffsetsAreAVector
    <2>6. AskedOnce(n) /\ Counted(n) /\ BlendsVouched(n)
      BY <2>2, <2>3, <2>4, <2>5, IdleIsSound DEF AskedOnce, Counted, BlendsVouched
    <2> QED
      BY <2>1, <2>3, <2>6, NewPoolLocalsAreSound DEF PoolIInv, Vouched
  <1>4. ASSUME NEW th \in Measurers, MeasureStep(th) PROVE PoolIInv'
    BY <1>4, PickIsSound, QueryBeginIsSound, QueryEndIsSound, UpdateIsSound, BlendIsSound, PublishIsSound
       DEF MeasureStep
  <1>5. ASSUME NEW cfg \in Configs, SetConfig(cfg) PROVE PoolIInv'
    BY <1>1, <1>5 DEF SetConfig, PoolIInv, PoolTypes
  <1>6. ASSUME NEW servers \in ServerLists, SetServers(servers) PROVE PoolIInv'
    BY <1>1, <1>6, PoolAssumption DEF SetServers, PoolIInv, PoolTypes
  <1>7. ASSUME NEW s \in Servers, AddServer(s) PROVE PoolIInv'
    BY <1>1, <1>7 DEF AddServer, PoolIInv, PoolTypes
  <1>8. ASSUME Tick \/ UNCHANGED poolVars PROVE PoolIInv'
    BY <1>1, <1>8 DEF Tick, poolVars, PoolIInv, PoolTypes
  <1> QED
    BY <1>2, <1>3, <1>4, <1>5, <1>6, <1>7, <1>8 DEF PoolNext

\* The invariant of the pool, alone or under its runner.
THEOREM PoolInvariance == FairBatches => (PoolSpec => []PoolIInv)
  <1> SUFFICES ASSUME FairBatches PROVE PoolSpec => []PoolIInv
    OBVIOUS
  <1>1. PoolIInv /\ [PoolNext]_poolVars => PoolIInv'
    BY PoolNextIsSound
  <1> QED
    BY <1>1, PoolInitIsSound, PTL DEF PoolSpec

\* With medians of more than twice as many valid samples as there are liars, no
\* number of liars, late or failed answers and threads moves the offset out of
\* what honest servers say in time, if samples collected elsewhere contain no
\* more lies than there are liars.
THEOREM OffsetsAreTrusted == FairBatches => (PoolSpec => []OffsetTrusted)
  <1> SUFFICES ASSUME FairBatches PROVE PoolSpec => []OffsetTrusted
    OBVIOUS
  <1>1. PoolIInv => OffsetTrusted
    BY DEF PoolIInv, Demanding, Vouched, OffsetTrusted
  <1> QED
    BY <1>1, PoolInvariance, PTL


----------------------------------------------------------------------------
(* The backoff                                                             *)

\* Powers of two double. They are the numbers of subsets: of 1 .. n + 1 there are
\* those of 1 .. n, and as many with n + 1.
LEMMA Doubling ==
    ASSUME NEW n \in Nat
    PROVE  2 ^ n \in Nat \ {0} /\ 2 ^ (n + 1) = 2 * 2 ^ n
  <1> DEFINE S == 1 .. n
             T == 1 .. n + 1
             With == {s \cup {n + 1} : s \in SUBSET S}
             f == [s \in SUBSET S |-> s \cup {n + 1}]
  <1>1. IsFiniteSet(S) /\ Cardinality(S) = n /\ IsFiniteSet(T) /\ Cardinality(T) = n + 1
    BY FS_Interval
  <1>2. /\ IsFiniteSet(SUBSET S) /\ Cardinality(SUBSET S) = 2 ^ n
        /\ Cardinality(SUBSET T) = 2 ^ (n + 1) /\ Cardinality(SUBSET S) \in Nat \ {0}
    <2>1. IsFiniteSet(SUBSET S) /\ Cardinality(SUBSET S) = 2 ^ n /\ Cardinality(SUBSET T) = 2 ^ (n + 1)
      BY <1>1, FS_SUBSET
    <2>2. {} \in SUBSET S
      OBVIOUS
    <2>3. Cardinality(SUBSET S) \in Nat
      BY <2>1, FS_CardinalityType
    <2> HIDE DEF S
    <2>4. Cardinality(SUBSET S) # 0
      BY <2>1, <2>2, FS_EmptySet
    <2> QED
      BY <2>1, <2>3, <2>4
  <1>3. f \in Bijection(SUBSET S, With)
    <2>1. f \in Surjection(SUBSET S, With)
      BY DEF Surjection
    <2>2. ASSUME NEW a \in SUBSET S, NEW b \in SUBSET S, f[a] = f[b] PROVE a = b
      <3>1. n + 1 \notin a /\ n + 1 \notin b
        OBVIOUS
      <3>2. a \cup {n + 1} = b \cup {n + 1}
        BY <2>2
      <3> HIDE DEF S, f
      <3> QED
        BY <3>1, <3>2
    <2> QED
      BY <2>1, <2>2 DEF Bijection, Injection, IsInjective, Surjection
  <1>4. IsFiniteSet(With) /\ Cardinality(With) = 2 ^ n
    BY <1>2, <1>3, FS_Bijection DEF ExistsBijection
  <1>5. SUBSET T = (SUBSET S) \cup With
    <2>1. T = S \cup {n + 1}
      OBVIOUS
    <2>2. ASSUME NEW x \in SUBSET T PROVE x \in (SUBSET S) \cup With
      <3>1. CASE n + 1 \in x
        <4> DEFINE y == x \ {n + 1}
        <4>1. y \in SUBSET S
          BY <2>1
        <4>2. x = y \cup {n + 1}
          BY <3>1
        <4> HIDE DEF y
        <4> QED
          BY <4>1, <4>2
      <3>2. CASE n + 1 \notin x
        BY <2>1, <3>2
      <3> QED
        BY <3>1, <3>2
    <2>3. ASSUME NEW s \in SUBSET S PROVE s \in SUBSET T /\ s \cup {n + 1} \in SUBSET T
      BY <2>1
    <2> HIDE DEF S, T
    <2>4. \A x \in With : x \in SUBSET T
      BY <2>3
    <2> QED
      BY <2>2, <2>3, <2>4
  <1>6. (SUBSET S) \cap With = {}
    <2>1. n + 1 \notin S
      OBVIOUS
    <2> HIDE DEF S
    <2>2. \A x \in With : n + 1 \in x
      OBVIOUS
    <2> QED
      BY <2>1, <2>2
  <1>7. Cardinality((SUBSET S) \cap With) = 0
    BY <1>6, FS_EmptySet
  <1>8. Cardinality((SUBSET S) \cup With) = Cardinality(SUBSET S) + Cardinality(With) - Cardinality((SUBSET S) \cap With)
    BY <1>2, <1>4, FS_Union
  <1>9. Cardinality(SUBSET T) = Cardinality(SUBSET S) + Cardinality(SUBSET S)
    <2> HIDE DEF S, T, With
    <2>1. Cardinality(SUBSET T) = Cardinality(SUBSET S) + Cardinality(With) - 0
      BY <1>5, <1>7, <1>8
    <2>2. Cardinality(With) = Cardinality(SUBSET S)
      BY <1>2, <1>4
    <2>3. Cardinality(SUBSET S) \in Nat
      BY <1>2
    <2> QED
      BY <2>1, <2>2, <2>3
  <1>10. \A a, b \in Nat : a = b + b => a = 2 * b
    OBVIOUS
  <1> HIDE DEF S, T
  <1> QED
    BY <1>2, <1>9, <1>10

LEMMA PowerOfZero == 2 ^ 0 = 1
  <1>1. IsFiniteSet({}) /\ Cardinality({}) = 0
    BY FS_EmptySet
  <1>2. Cardinality(SUBSET {}) = 2 ^ 0
    BY <1>1, FS_SUBSET
  <1>3. SUBSET {} = {{}} /\ Cardinality({{}}) = 1
    BY FS_Singleton
  <1> QED
    BY <1>2, <1>3

\* The backoff that a number of failures in a row demands.
Demanded(n) ==
    LET doubled == BackoffInitial * 2 ^ (n - 1)
    IN  IF n = 0 THEN 0
        ELSE IF n = 1 \/ doubled < BackoffMax THEN doubled
        ELSE BackoffMax

\* A backoff_max of zero with an initial backoff would make the code begin again
\* with the initial one after every second failure: zero is also its sign that
\* there was no failure yet.
MaximumCounts == BackoffMax > 0 \/ BackoffInitial = 0

\* One more failure.
LEMMA NextRung ==
    ASSUME MaximumCounts, NEW n \in Nat
    PROVE  /\ Demanded(n) \in Nat
           /\ NextBackoff(Demanded(n)) = Demanded(n + 1)
  <1> USE PoolAssumption
  <1>1. Demanded(0) = 0 /\ Demanded(1) = BackoffInitial
    BY PowerOfZero DEF Demanded
  <1>2. CASE n = 0
    BY <1>1, <1>2 DEF NextBackoff
  <1>3. CASE n # 0
    <2> DEFINE d == BackoffInitial * 2 ^ (n - 1)
    <2>1. n - 1 \in Nat /\ (n - 1) + 1 = n /\ n + 1 - 1 = n /\ n + 1 # 0 /\ n + 1 # 1
      BY <1>3
    <2>2. 2 ^ (n - 1) \in Nat \ {0} /\ 2 ^ n = 2 * 2 ^ (n - 1)
      BY <2>1, Doubling
    <2>3. \A i, p \in Nat : i * p \in Nat /\ i * (2 * p) = 2 * (i * p)
      OBVIOUS
    <2>4. d \in Nat /\ BackoffInitial * 2 ^ n = 2 * d
      BY <2>2, <2>3
    <2>5. /\ Demanded(n) = IF n = 1 \/ d < BackoffMax THEN d ELSE BackoffMax
          /\ Demanded(n + 1) = IF BackoffInitial * 2 ^ n < BackoffMax THEN BackoffInitial * 2 ^ n ELSE BackoffMax
      BY <1>3, <2>1 DEF Demanded
    <2>6. BackoffInitial = 0 <=> d = 0
      BY <2>2
    <2> HIDE DEF d
    <2> QED
      BY <2>4, <2>5, <2>6 DEF NextBackoff, MaximumCounts
  <1> QED
    BY <1>2, <1>3

\* The state of a server after a query.
LEMMA QueriesKeepTheType ==
    ASSUME now \in Nat, NEW state \in ServerState
    PROVE  AfterSuccess(state) \in ServerState /\ AfterFailure(state) \in ServerState
  <1>1. NextBackoff(state.backoff) \in Nat
    BY PoolAssumption DEF NextBackoff, ServerState
  <1>2. AfterSuccess(state) \in ServerState
    BY DEF AfterSuccess, ServerState
  <1>3. ASSUME NEW backoff \in Nat
        PROVE  [state EXCEPT !.fail_count = @ + 1, !.backoff = backoff, !.next_allowed = now + backoff] \in ServerState
    <2>1. state.fail_count + 1 \in Nat /\ now + backoff \in Nat
      BY DEF ServerState
    <2> QED
      BY <2>1 DEF ServerState
  <1>4. AfterFailure(state) \in ServerState
    BY <1>1, <1>3 DEF AfterFailure
  <1> QED
    BY <1>2, <1>4

\* The state of every server says how often it has failed in a row.
ServersInv ==
    /\ now \in Nat
    /\ m_servers \in [Servers -> ServerState]
    /\ \A s \in Servers : m_servers[s].backoff = Demanded(m_servers[s].fail_count)

\* The state of a new server, and of one that was asked.
LEMMA StatesFitTheirCount ==
    ASSUME MaximumCounts, now \in Nat, NEW state \in ServerState, state.backoff = Demanded(state.fail_count)
    PROVE  /\ NewServer \in ServerState /\ NewServer.backoff = Demanded(NewServer.fail_count)
           /\ \A next \in {AfterSuccess(state), AfterFailure(state)} :
                next \in ServerState /\ next.backoff = Demanded(next.fail_count)
  <1>1. Demanded(0) = 0
    BY DEF Demanded
  <1>2. NewServer \in ServerState /\ NewServer.backoff = Demanded(NewServer.fail_count)
    BY <1>1 DEF NewServer, ServerState
  <1>3. AfterSuccess(state) \in ServerState /\ AfterFailure(state) \in ServerState
    BY QueriesKeepTheType
  <1>4. AfterSuccess(state).backoff = 0 /\ AfterSuccess(state).fail_count = 0
    BY DEF AfterSuccess, ServerState
  <1>5. /\ AfterFailure(state).backoff = NextBackoff(state.backoff)
        /\ AfterFailure(state).fail_count = state.fail_count + 1
    BY DEF AfterFailure, ServerState
  <1>6. NextBackoff(Demanded(state.fail_count)) = Demanded(state.fail_count + 1)
    BY NextRung DEF ServerState
  <1> QED
    BY <1>1, <1>2, <1>3, <1>4, <1>5, <1>6

\* Every step of the pool keeps that.
LEMMA PoolNextCounts ==
    ASSUME MaximumCounts, ServersInv, [PoolNext]_poolVars
    PROVE  ServersInv'
  <1> USE PoolAssumption
  <1>1. ASSUME UNCHANGED m_servers, now' \in {now, now + 1} PROVE ServersInv'
    BY <1>1 DEF ServersInv
  <1>2. ASSUME UNCHANGED now, m_servers' = [s \in Servers |-> m_servers'[s]],
               \A s \in Servers : m_servers'[s] \in ServerState /\ m_servers'[s].backoff = Demanded(m_servers'[s].fail_count)
        PROVE  ServersInv'
    BY <1>2 DEF ServersInv
  <1>3. NewServer \in ServerState /\ NewServer.backoff = Demanded(NewServer.fail_count)
    BY DEF Demanded, NewServer, ServerState
  <1>4. ASSUME NEW th \in Measurers, QueryBegin(th) PROVE ServersInv'
    <2>1. PICK s : m_servers' = [m_servers EXCEPT ![s].next_allowed = now + MinInterval]
      BY <1>4 DEF QueryBegin
    <2>2. \A x \in Servers : /\ m_servers'[x] \in ServerState
                             /\ m_servers'[x].backoff = m_servers[x].backoff
                             /\ m_servers'[x].fail_count = m_servers[x].fail_count
      BY <2>1 DEF ServersInv, ServerState
    <2> QED
      BY <1>2, <1>4, <2>1, <2>2 DEF QueryBegin, ServersInv
  <1>5. ASSUME NEW th \in Measurers, QueryEnd(th) PROVE ServersInv'
    <2> DEFINE s == measuring[th].asked
    <2>1. PICK sample \in Answers(s) :
            m_servers' = [m_servers EXCEPT ![s] = IF sample.is_ok THEN AfterSuccess(@) ELSE AfterFailure(@)]
      BY <1>5 DEF QueryEnd
    <2>2. ASSUME NEW x \in Servers
          PROVE  m_servers'[x] \in ServerState /\ m_servers'[x].backoff = Demanded(m_servers'[x].fail_count)
      <3>1. m_servers'[x] \in {m_servers[x], AfterSuccess(m_servers[x]), AfterFailure(m_servers[x])}
        BY <2>1 DEF ServersInv
      <3>2. m_servers[x] \in ServerState /\ m_servers[x].backoff = Demanded(m_servers[x].fail_count) /\ now \in Nat
        BY DEF ServersInv
      <3> QED
        BY <3>1, <3>2, StatesFitTheirCount
    <2> QED
      BY <1>2, <1>5, <2>1, <2>2 DEF QueryEnd, ServersInv
  <1>6. ASSUME NEW servers \in ServerLists, SetServers(servers) PROVE ServersInv'
    BY <1>2, <1>3, <1>6 DEF SetServers
  <1>7. ASSUME NEW s \in Servers, AddServer(s) PROVE ServersInv'
    BY <1>2, <1>3, <1>7 DEF AddServer, ServersInv
  <1>8. ASSUME NEW th \in Measurers,
               Measure(th, m_cfg.sample_servers) \/ PickServers(th) \/ Update(th) \/ Blend(th) \/ PublishSamples(th)
        PROVE  ServersInv'
    BY <1>1, <1>8 DEF Measure, PickServers, Update, Blend, PublishSamples
  <1>9. ASSUME NEW th \in Measurers, NEW samples \in Batches, ApplySamples(th, samples) PROVE ServersInv'
    BY <1>1, <1>9 DEF ApplySamples
  <1>10. ASSUME (\E cfg \in Configs : SetConfig(cfg)) \/ Tick \/ UNCHANGED poolVars PROVE ServersInv'
    BY <1>1, <1>10 DEF SetConfig, Tick, poolVars
  <1> QED
    BY <1>4, <1>5, <1>6, <1>7, <1>8, <1>9, <1>10 DEF PoolNext, MeasureStep

\* However the queries of several threads end, and whatever is done with the
\* list of servers meanwhile, the backoff doubles with each failure in a row up
\* to its maximum.
THEOREM BackoffsAreExact == MaximumCounts => (PoolSpec => []BackoffIsExact)
  <1> SUFFICES ASSUME MaximumCounts PROVE PoolSpec => []BackoffIsExact
    OBVIOUS
  <1>1. PoolInit => ServersInv
    BY DEF PoolInit, ServersInv, ServerState, NewServer, Demanded
  <1>2. ServersInv /\ [PoolNext]_poolVars => ServersInv'
    BY PoolNextCounts
  <1>3. ServersInv => BackoffIsExact
    BY DEF ServersInv, ServerState, Demanded, BackoffIsExact
  <1> QED
    BY <1>1, <1>2, <1>3, PTL DEF PoolSpec

----------------------------------------------------------------------------
(* The runner                                                              *)

\* measuring[th] is a record of these fields. What is measured does not matter
\* here, so its fields may have any value.
IsLocals(m) ==
    m \in [pc : {"idle", "pick", "query", "blend", "publish"}, wanted : {m.wanted}, cfg : {m.cfg},
           picked : SUBSET Servers, asked : Servers \cup {NoServer},
           samples : {m.samples}, value : {m.value}, ok : BOOLEAN]

\* The types of what a measurement reads and writes.
Types ==
    /\ now \in Nat
    /\ m_servers \in [Servers -> ServerState] /\ listed \in SUBSET Servers
    /\ measuring = [th \in Measurers |-> measuring[th]]
    /\ \A th \in Measurers : IsLocals(measuring[th])

\* One thread at a time measures; the others have nothing picked or asked.
Turns ==
    /\ \A t1, t2 \in Measurers : pc[t1] = "measuring" /\ pc[t2] = "measuring" => t1 = t2
    /\ \A th \in Measurers : pc[th] # "measuring" => measuring[th].pc = "idle"
    /\ \A th \in Measurers : measuring[th].pc # "query" => measuring[th].picked = {} /\ measuring[th].asked = NoServer

\* What is picked may still be asked.
StillAllowed ==
    \A th \in Measurers : \A s \in measuring[th].picked :
        now >= m_servers[s].next_allowed /\ s # measuring[th].asked

\* A worker has a joiner; as long as the owner does not stop it, it goes on.
Joinable ==
    /\ pc[Worker] # "off" => m_thread = "joinable"
    /\ m_thread = "joinable" /\ pc[Owner] \notin {"stop_notify", "join"}
         => m_is_running /\ ~m_is_stop_requested /\ pc[Worker] \notin {"off", "end"}
    /\ pc[Owner] \in {"create", "stop_end"} => m_thread = "none"
    /\ pc[Owner] = "create" => m_is_running /\ ~m_is_stop_requested

IInv == RunnerTypeOK /\ Types /\ Turns /\ StillAllowed /\ Joinable

----------------------------------------------------------------------------
\* The initial state satisfies the invariant.
LEMMA InitIsSound == Init => IInv
  <1> SUFFICES ASSUME Init PROVE IInv
    OBVIOUS
  <1> USE RunnerAssumption, PoolAssumption
  <1>1. RunnerTypeOK
    BY DEF Init, RunnerTypeOK, WorkerPc, UserPc, MeasurePc
  <1>2. Types
    BY DEF Init, PoolInit, Types, IsLocals, Idle, ServerState, NewServer
  <1>3. Turns /\ StillAllowed
    BY DEF Init, PoolInit, Turns, StillAllowed, Idle
  <1>4. Joinable
    BY DEF Init, Joinable
  <1> QED
    BY <1>1, <1>2, <1>3, <1>4 DEF IInv

----------------------------------------------------------------------------
(* Steps inside a measurement                                              *)

\* What every such step amounts to: the thread that measures gets new locals m,
\* whose picked servers may still be asked.
LEMMA NewLocalsAreSound ==
    ASSUME IInv, NEW th \in Measurers, NEW m, PoolStep(th),
           measuring' = [measuring EXCEPT ![th] = m], IsLocals(m),
           m.pc # "query" => m.picked = {} /\ m.asked = NoServer,
           m_servers' \in [Servers -> ServerState], listed' = listed, now' = now,
           \A s \in m.picked : now >= m_servers'[s].next_allowed /\ s # m.asked
    PROVE  IInv'
  <1> USE RunnerAssumption, PoolAssumption DEF IInv
  <1>1. /\ pc[th] = "measuring" /\ UNCHANGED runnerVars
        /\ \A t \in Measurers \ {th} : pc[t] # "measuring"
    BY DEF PoolStep, Turns
  <1>2. /\ measuring'[th] = m
        /\ \A t \in Measurers \ {th} : measuring'[t] = measuring[t] /\ measuring'[t].picked = {}
    BY <1>1 DEF Types, Turns
  <1>3. RunnerTypeOK' /\ Joinable'
    BY <1>1 DEF runnerVars, RunnerTypeOK, Joinable
  <1>4. Types'
    <2>1. \A t \in Measurers : IsLocals(measuring'[t])
      BY <1>2 DEF Types
    <2>2. \A t \in Measurers : IsLocals(measuring[t])'
      BY <2>1 DEF IsLocals
    <2> QED
      BY <2>2 DEF Types
  <1>5. Turns'
    BY <1>1, <1>2 DEF runnerVars, Turns
  <1>6. StillAllowed'
    BY <1>1, <1>2 DEF StillAllowed
  <1> QED
    BY <1>3, <1>4, <1>5, <1>6

\* The thread in the middle of a measurement keeps the locals typed, stays the
\* only one, and what it has picked stays allowed.
LEMMA PoolStepIsSound ==
    ASSUME IInv, NEW th \in Measurers, PoolStep(th)
    PROVE  IInv'
  <1> USE RunnerAssumption, PoolAssumption DEF IInv
  <1>1. MeasureStep(th) /\ IsLocals(measuring[th])
    BY DEF PoolStep, Types
  <1> DEFINE m == measuring[th]
  <1>2. IsLocals(Idle) /\ Idle.picked = {} /\ Idle.asked = NoServer /\ Idle.pc = "idle"
    BY DEF IsLocals, Idle
  <1>3. CASE PickServers(th)
    <2>1. PICK picked \in SUBSET {s \in listed : Eligible(s)} :
            measuring' = [measuring EXCEPT ![th] = [Idle EXCEPT !.pc = "query", !.picked = picked, !.cfg = m_cfg]]
      BY <1>3 DEF PickServers
    <2> DEFINE n == [Idle EXCEPT !.pc = "query", !.picked = picked, !.cfg = m_cfg]
    <2>2. IsLocals(n) /\ n.pc = "query" /\ n.picked = picked /\ n.asked = NoServer
      BY <1>2, <2>1 DEF IsLocals, Idle, Types
    <2>3. UNCHANGED <<m_servers, listed, now>>
      BY <1>3 DEF PickServers
    <2>4. \A s \in picked : s \in Servers /\ now >= m_servers'[s].next_allowed
      BY <2>1, <2>3 DEF Types, Eligible
    <2>5. measuring' = [measuring EXCEPT ![th] = n]
      BY <2>1
    <2>6. m_servers' \in [Servers -> ServerState] /\ \A s \in n.picked : s # n.asked
      BY <2>2, <2>3, <2>4 DEF Types
    <2> HIDE DEF n
    <2> QED
      BY <2>2, <2>3, <2>4, <2>5, <2>6, NewLocalsAreSound
  <1>4. CASE QueryBegin(th)
    <2>1. PICK s \in m.picked :
            /\ m_servers' = [m_servers EXCEPT ![s].next_allowed = now + MinInterval]
            /\ measuring' = [measuring EXCEPT ![th].asked = s, ![th].picked = @ \ {s}]
      BY <1>4 DEF QueryBegin
    <2> DEFINE n == [m EXCEPT !.asked = s, !.picked = @ \ {s}]
    <2>2. s \in Servers /\ measuring' = [measuring EXCEPT ![th] = n]
      BY <1>1, <2>1 DEF Types, IsLocals
    <2>3. IsLocals(n) /\ n.pc = "query" /\ n.picked = m.picked \ {s} /\ n.asked = s
      BY <1>1, <1>4, <2>1, <2>2 DEF IsLocals, QueryBegin
    <2>4. UNCHANGED <<listed, now>>
      BY <1>4 DEF QueryBegin
    <2>5. m_servers' \in [Servers -> ServerState]
      BY <2>1, <2>2 DEF Types, ServerState
    <2>6. \A x \in n.picked : now >= m_servers'[x].next_allowed
      BY <1>1, <2>1, <2>2, <2>3 DEF Types, StillAllowed, IsLocals
    <2> HIDE DEF n
    <2> QED
      BY <2>2, <2>3, <2>4, <2>5, <2>6, NewLocalsAreSound
  <1>5. CASE QueryEnd(th)
    <2>1. PICK sample \in Answers(m.asked) :
            /\ m_servers' = [m_servers EXCEPT ![m.asked] = IF sample.is_ok THEN AfterSuccess(@) ELSE AfterFailure(@)]
            /\ measuring' = [measuring EXCEPT ![th].asked = NoServer, ![th].samples = Append(@, sample)]
      BY <1>5 DEF QueryEnd
    <2> DEFINE n == [m EXCEPT !.asked = NoServer, !.samples = Append(@, sample)]
    <2>2. m.asked \in Servers /\ measuring' = [measuring EXCEPT ![th] = n]
      BY <1>1, <1>5, <2>1 DEF Types, IsLocals, QueryEnd
    <2>3. IsLocals(n) /\ n.pc = m.pc /\ n.picked = m.picked /\ n.asked = NoServer
      BY <1>1 DEF IsLocals
    <2>4. UNCHANGED <<listed, now>>
      BY <1>5 DEF QueryEnd
    <2>5. m_servers' \in [Servers -> ServerState]
      <3>1. m_servers[m.asked] \in ServerState
        BY <2>2 DEF Types
      <3>2. /\ AfterSuccess(m_servers[m.asked]) \in ServerState
            /\ AfterFailure(m_servers[m.asked]) \in ServerState
        BY <3>1, QueriesKeepTheType DEF Types
      <3> QED
        BY <2>1, <2>2, <3>2 DEF Types
    <2>6. \A x \in m.picked : x # m.asked /\ m_servers'[x] = m_servers[x] /\ now >= m_servers[x].next_allowed
      BY <1>1, <2>1, <2>2 DEF Types, StillAllowed, IsLocals
    <2>7. n.pc = "query" \/ n.picked = {}
      BY <2>3 DEF Turns
    <2>8. \A x \in n.picked : now >= m_servers'[x].next_allowed /\ x # n.asked
      BY <1>1, <2>3, <2>6 DEF IsLocals
    <2> HIDE DEF n
    <2> QED
      BY <2>2, <2>3, <2>4, <2>5, <2>7, <2>8, NewLocalsAreSound
  <1>6. CASE Update(th)
    <2> DEFINE enough == Enough(m.samples, m.cfg)
    <2>1. /\ UNCHANGED <<m_servers, listed, now>>
          /\ \/ measuring' = [measuring EXCEPT ![th] = [m EXCEPT !.pc = "blend", !.value = m_offset_us]]
             \/ measuring' = [measuring EXCEPT ![th] = Measured(m, enough)]
          /\ m.picked = {} /\ m.asked = NoServer
      BY <1>6 DEF Update
    <2>2. CASE measuring' = [measuring EXCEPT ![th] = [m EXCEPT !.pc = "blend", !.value = m_offset_us]]
      <3> DEFINE n == [m EXCEPT !.pc = "blend", !.value = m_offset_us]
      <3>1. IsLocals(n) /\ n.pc = "blend" /\ n.picked = {} /\ n.asked = NoServer
        BY <1>1, <2>1 DEF IsLocals
      <3> HIDE DEF n
      <3> QED
        BY <2>1, <2>2, <3>1, NewLocalsAreSound DEF n, Types
    <2>3. CASE measuring' = [measuring EXCEPT ![th] = Measured(m, enough)]
      <3> DEFINE n == Measured(m, enough)
      <3>1. enough \in BOOLEAN
        BY DEF Enough
      <3>2. IsLocals(n) /\ n.pc = "publish" /\ n.picked = {} /\ n.asked = NoServer
        BY <1>2, <3>1 DEF IsLocals, Measured, Idle
      <3> HIDE DEF n
      <3> QED
        BY <2>1, <2>3, <3>2, NewLocalsAreSound DEF n, Types
    <2> QED
      BY <2>1, <2>2, <2>3
  <1>7. CASE Blend(th)
    <2> DEFINE n == Measured(m, TRUE)
    <2>1. UNCHANGED <<m_servers, listed, now>> /\ measuring' = [measuring EXCEPT ![th] = n]
      BY <1>7 DEF Blend
    <2>2. IsLocals(n) /\ n.pc = "publish" /\ n.picked = {} /\ n.asked = NoServer
      BY <1>2 DEF IsLocals, Measured, Idle
    <2> HIDE DEF n
    <2> QED
      BY <2>1, <2>2, NewLocalsAreSound DEF Types
  <1>8. CASE PublishSamples(th)
    <2> DEFINE n == [Idle EXCEPT !.ok = m.ok]
    <2>1. UNCHANGED <<m_servers, listed, now>> /\ measuring' = [measuring EXCEPT ![th] = n]
      BY <1>8 DEF PublishSamples
    <2>2. IsLocals(n) /\ n.pc = "idle" /\ n.picked = {} /\ n.asked = NoServer
      BY <1>1, <1>2 DEF IsLocals, Idle
    <2> HIDE DEF n
    <2> QED
      BY <2>1, <2>2, NewLocalsAreSound DEF Types
  <1> QED
    BY <1>1, <1>3, <1>4, <1>5, <1>6, <1>7, <1>8 DEF MeasureStep

----------------------------------------------------------------------------
(* The other steps                                                         *)

\* A thread takes m_pool_mtx and begins: nobody else is in a measurement.
LEMMA DoMeasureIsSound ==
    ASSUME IInv, NEW th \in Measurers, DoMeasure(th)
    PROVE  IInv'
  <1> USE RunnerAssumption, PoolAssumption DEF IInv
  <1> DEFINE n == [Idle EXCEPT !.pc = "pick", !.wanted = m_cfg.sample_servers]
  <1>1. /\ \A t \in Measurers : pc[t] # "measuring" /\ measuring[t].picked = {} /\ measuring[t].asked = NoServer
        /\ pc[th] = "lock" /\ pc' = [pc EXCEPT ![th] = "measuring"]
        /\ measuring' = [measuring EXCEPT ![th] = n]
        /\ UNCHANGED <<now, m_servers, listed, m_thread, m_is_running, m_is_stop_requested, m_is_force_requested,
                       m_last_measure_ok>>
    BY DEF DoMeasure, PoolIsFree, Measure, Goto, Turns
  <1>2. IsLocals(n) /\ n.pc = "pick" /\ n.picked = {} /\ n.asked = NoServer
    BY DEF IsLocals, Idle
  <1> HIDE DEF n
  <1>3. RunnerTypeOK' /\ Joinable'
    BY <1>1 DEF RunnerTypeOK, Joinable, WorkerPc, UserPc, MeasurePc
  <1>4. \A t \in Measurers : measuring'[t] = IF t = th THEN n ELSE measuring[t]
    BY <1>1 DEF Types
  <1>5. Types'
    <2>1. \A t \in Measurers : IsLocals(measuring'[t])
      BY <1>2, <1>4 DEF Types
    <2>2. \A t \in Measurers : IsLocals(measuring[t])'
      BY <2>1 DEF IsLocals
    <2> QED
      BY <1>1, <2>2 DEF Types
  <1>6. Turns'
    BY <1>1, <1>2, <1>4 DEF RunnerTypeOK, Turns
  <1>7. StillAllowed'
    BY <1>1, <1>2, <1>4 DEF StillAllowed
  <1> QED
    BY <1>3, <1>5, <1>6, <1>7

\* Steps that leave the pool alone, but for the clock, and in which nobody
\* begins a measurement nor leaves one that is not over.
Aside ==
    /\ UNCHANGED <<m_servers, listed, measuring>> /\ now' \in {now, now + 1}
    /\ \A th \in Measurers : pc'[th] = "measuring" => pc[th] = "measuring"
    /\ \A th \in Measurers : pc[th] = "measuring" /\ pc'[th] # "measuring" => measuring[th].pc = "idle"

LEMMA AsideIsSound ==
    ASSUME IInv, Aside
    PROVE  Types' /\ Turns' /\ StillAllowed'
  <1> USE RunnerAssumption, PoolAssumption DEF IInv
  <1>1. Types'
    <2>1. \A th \in Measurers : IsLocals(measuring'[th])
      BY DEF Aside, Types
    <2>2. \A th \in Measurers : IsLocals(measuring[th])'
      BY <2>1 DEF IsLocals
    <2>3. UNCHANGED <<m_servers, listed, measuring>> /\ now' \in Nat
      BY DEF Aside, Types
    <2> HIDE DEF IInv
    <2> QED
      BY <2>2, <2>3 DEF Types, IInv
  <1>2. Turns'
    BY DEF Aside, Turns
  <1>3. StillAllowed'
    <2> SUFFICES ASSUME NEW th \in Measurers, NEW s \in measuring[th].picked
                 PROVE  now' >= m_servers[s].next_allowed /\ s # measuring[th].asked
      BY DEF Aside, StillAllowed
    <2>1. s \in Servers
      BY DEF Types, IsLocals
    <2>2. m_servers[s].next_allowed \in Nat /\ now \in Nat
      BY <2>1 DEF Types, ServerState
    <2> QED
      BY <2>2 DEF Aside, StillAllowed
  <1> QED
    BY <1>1, <1>2, <1>3

\* The steps of the worker outside of a measurement.
LEMMA RunLoopIsSound ==
    ASSUME IInv, RunLoop
    PROVE  RunnerTypeOK' /\ Joinable' /\ Aside
  <1> USE RunnerAssumption DEF IInv, RunnerTypeOK, Goto, poolVars, WorkerPc, UserPc, MeasurePc
  <1>1. CASE LoopTop
    BY <1>1 DEF LoopTop, Joinable, Aside
  <1>2. CASE CheckFlags
    BY <1>2 DEF CheckFlags, Joinable, Aside
  <1>3. CASE Block
    BY <1>3 DEF Block, Joinable, Aside
  <1>4. CASE TimesOut
    BY <1>4 DEF TimesOut, Joinable, Aside
  <1>5. CASE Woken
    BY <1>5 DEF Woken, Joinable, Aside
  <1>6. CASE LoopEnds
    BY <1>6 DEF LoopEnds, Joinable, Aside
  <1> QED
    BY <1>1, <1>2, <1>3, <1>4, <1>5, <1>6 DEF RunLoop

\* The end of a do_measure(), after the measurement itself.
LEMMA MeasureEndIsSound ==
    ASSUME IInv, NEW th \in Measurers, Unlock(th) \/ StoreStats(th)
    PROVE  RunnerTypeOK' /\ Joinable' /\ Aside
  <1> USE RunnerAssumption DEF IInv, RunnerTypeOK, Goto, poolVars, WorkerPc, UserPc, MeasurePc
  <1>1. CASE Unlock(th)
    BY <1>1 DEF Unlock, Joinable, Aside
  <1>2. CASE StoreStats(th)
    <2>1. measuring[th].ok \in BOOLEAN
      BY DEF Types, IsLocals
    <2> QED
      BY <1>2, <2>1 DEF StoreStats, BackTo, Joinable, Aside
  <1> QED
    BY <1>1, <1>2

\* Calls, and the steps of start(), stop() and force_measure().
LEMMA UserIsSound ==
    ASSUME IInv, NEW th \in Users,
           Calls(th) \/ ForceStore(th) \/ ForceNotify(th)
             \/ (th = Owner /\ (CreateThread \/ StopNotify \/ Join \/ StopEnd))
    PROVE  RunnerTypeOK' /\ Joinable' /\ Aside
  <1> USE RunnerAssumption DEF IInv, RunnerTypeOK, Goto, poolVars, WorkerPc, UserPc, MeasurePc
  <1>1. CASE ForceMeasure(th)
    BY <1>1 DEF ForceMeasure, Joinable, Aside
  <1>2. CASE MeasureNow(th)
    BY <1>2 DEF MeasureNow, Joinable, Aside
  <1>3. CASE th = Owner /\ Start
    BY <1>3 DEF Start, Joinable, Aside
  <1>4. CASE th = Owner /\ Stop
    BY <1>4 DEF Stop, Joinable, Aside
  <1>5. CASE ForceStore(th)
    BY <1>5 DEF ForceStore, Joinable, Aside
  <1>6. CASE ForceNotify(th)
    BY <1>6 DEF ForceNotify, Notified, Joinable, Aside
  <1>7. CASE th = Owner /\ CreateThread
    BY <1>7 DEF CreateThread, Joinable, Aside
  <1>8. CASE th = Owner /\ StopNotify
    BY <1>8 DEF StopNotify, Notified, Joinable, Aside
  <1>9. CASE th = Owner /\ Join
    BY <1>9 DEF Join, ThreadHasEnded, Joinable, Aside
  <1>10. CASE th = Owner /\ StopEnd
    BY <1>10 DEF StopEnd, Joinable, Aside
  <1> QED
    BY <1>1, <1>2, <1>3, <1>4, <1>5, <1>6, <1>7, <1>8, <1>9, <1>10 DEF Calls

\* Every step keeps the invariant.
LEMMA NextIsSound == IInv /\ [Next]_vars => IInv'
  <1> SUFFICES ASSUME IInv, [Next]_vars PROVE IInv'
    OBVIOUS
  <1> USE RunnerAssumption
  <1>1. ASSUME NEW th \in Measurers, MeasureSteps(th) PROVE IInv'
    <2>1. CASE DoMeasure(th)
      BY <2>1, DoMeasureIsSound
    <2>2. CASE PoolStep(th)
      BY <2>2, PoolStepIsSound
    <2>3. CASE Unlock(th) \/ StoreStats(th)
      BY <2>3, MeasureEndIsSound, AsideIsSound DEF IInv
    <2> QED
      BY <1>1, <2>1, <2>2, <2>3 DEF MeasureSteps
  <1>2. CASE RunLoop
    BY <1>2, RunLoopIsSound, AsideIsSound DEF IInv
  <1>3. ASSUME NEW th \in Users, Calls(th) \/ Steps(th) PROVE IInv'
    <2>1. CASE MeasureSteps(th)
      BY <2>1, <1>1
    <2>2. CASE Calls(th) \/ ForceStore(th) \/ ForceNotify(th)
                 \/ (th = Owner /\ (CreateThread \/ StopNotify \/ Join \/ StopEnd))
      BY <2>2, UserIsSound, AsideIsSound DEF IInv
    <2> QED
      BY <1>3, <2>1, <2>2 DEF Steps
  <1>4. CASE ClockTicks
    <2>1. RunnerTypeOK' /\ Joinable' /\ Aside
      BY <1>4 DEF ClockTicks, Tick, runnerVars, IInv, RunnerTypeOK, Joinable, Aside
    <2> QED
      BY <2>1, AsideIsSound DEF IInv
  <1>5. CASE UNCHANGED vars
    <2>1. RunnerTypeOK' /\ Joinable' /\ Aside
      BY <1>5 DEF vars, poolVars, runnerVars, IInv, RunnerTypeOK, Joinable, Aside
    <2> QED
      BY <2>1, AsideIsSound DEF IInv
  <1> QED
    BY <1>1, <1>2, <1>3, <1>4, <1>5 DEF Next

THEOREM Invariance == Spec => []IInv
  BY InitIsSound, NextIsSound, PTL DEF Spec

----------------------------------------------------------------------------
(* What follows from it                                                    *)

\* RunnerTypeOK holds for any servers, users and configurations.
THEOREM RunnerTypeCorrect == Spec => []RunnerTypeOK
  <1>1. IInv => RunnerTypeOK
    BY DEF IInv
  <1> QED
    BY <1>1, Invariance, PTL

\* A stop() that has returned leaves no thread behind, and start() never
\* overwrites a thread that can be joined, whatever the other callers do.
THEOREM StopsAreComplete == Spec => []StopIsComplete
  <1>1. IInv => StopIsComplete
    BY RunnerAssumption DEF IInv, RunnerTypeOK, Joinable, StopIsComplete
  <1> QED
    BY <1>1, Invariance, PTL

\* A thread that begins to ask a server does so by the step that marks it.
LEMMA OnlyQueryBeginAsks ==
    ASSUME IInv, NEW th \in Measurers, [Next]_vars,
           measuring[th].asked = NoServer, measuring'[th].asked # NoServer
    PROVE  QueryBegin(th)
  <1> USE RunnerAssumption, PoolAssumption
  <1>1. \A t \in Measurers : IsLocals(measuring[t])
    BY DEF IInv, Types
  <1>2. measuring' # measuring
    OBVIOUS
  <1>3. PICK t \in Measurers : DoMeasure(t) \/ PoolStep(t)
    BY <1>2 DEF Next, RunLoop, LoopTop, CheckFlags, Block, TimesOut, Woken, LoopEnds, MeasureSteps, Unlock,
                StoreStats, Calls, Steps, ForceMeasure, MeasureNow, Start, Stop, ForceStore, ForceNotify,
                CreateThread, StopNotify, Join, StopEnd, ClockTicks, Tick, vars, poolVars
  <1>4. ~DoMeasure(t)
    <2>1. ASSUME DoMeasure(t) PROVE measuring'[th].asked \in {measuring[th].asked, NoServer}
      BY <2>1 DEF DoMeasure, Measure, Idle, IInv, Types
    <2> QED
      BY <2>1
  <1>5. CASE PickServers(t)
    BY <1>1, <1>5 DEF PickServers, Idle, IInv, Types
  <1>6. CASE QueryBegin(t)
    BY <1>1, <1>6 DEF QueryBegin, IInv, Types
  <1>7. CASE QueryEnd(t)
    BY <1>1, <1>7 DEF QueryEnd, IInv, Types, IsLocals
  <1>8. CASE Update(t)
    BY <1>1, <1>8 DEF Update, Measured, Idle, IInv, Types, IsLocals
  <1>9. CASE Blend(t)
    BY <1>1, <1>9 DEF Blend, Measured, Idle, IInv, Types
  <1>10. CASE PublishSamples(t)
    BY <1>1, <1>10 DEF PublishSamples, Idle, IInv, Types
  <1> QED
    BY <1>3, <1>4, <1>5, <1>6, <1>7, <1>8, <1>9, <1>10 DEF PoolStep, MeasureStep

\* No server is asked before its next_allowed, however many threads measure.
THEOREM QueriesAreSpaced == Spec => NotTooSoon
  <1>1. ASSUME IInv, NEW th \in Measurers, [Next]_vars,
               measuring[th].asked = NoServer, measuring'[th].asked # NoServer
        PROVE  now >= m_servers[measuring'[th].asked].next_allowed
    <2>1. QueryBegin(th)
      BY <1>1, OnlyQueryBeginAsks
    <2>2. PICK s \in measuring[th].picked :
            measuring' = [measuring EXCEPT ![th].asked = s, ![th].picked = @ \ {s}]
      BY <2>1 DEF QueryBegin
    <2>3. measuring'[th].asked = s
      <3>1. IsLocals(measuring[th]) /\ measuring = [t \in Measurers |-> measuring[t]]
        BY <1>1 DEF IInv, Types
      <3> QED
        BY <2>2, <3>1 DEF IsLocals
    <2> QED
      BY <1>1, <2>3 DEF IInv, StillAllowed
  <1>2. IInv /\ [Next]_vars =>
          [\A th \in Measurers :
             LET s == measuring'[th].asked
             IN  measuring[th].asked = NoServer /\ s # NoServer => now >= m_servers[s].next_allowed]_vars
    BY <1>1
  <1> QED
    BY <1>2, Invariance, PTL DEF Spec, NotTooSoon

----------------------------------------------------------------------------
(* The pool under its runner                                               *)

\* A step of the runner is one of the pool, or leaves the pool alone.
LEMMA RunnerSteps ==
    ASSUME [Next]_vars
    PROVE  \/ \E th \in Measurers : DoMeasure(th) \/ PoolStep(th)
           \/ Tick
           \/ UNCHANGED poolVars
  <1> USE RunnerAssumption
  <1>1. ASSUME NEW th \in Measurers, MeasureSteps(th)
        PROVE  DoMeasure(th) \/ PoolStep(th) \/ UNCHANGED poolVars
    BY <1>1 DEF MeasureSteps, Unlock, StoreStats
  <1>2. CASE RunLoop
    BY <1>2 DEF RunLoop, LoopTop, CheckFlags, Block, TimesOut, Woken, LoopEnds
  <1>3. ASSUME NEW th \in Users, Calls(th) PROVE UNCHANGED poolVars
    BY <1>3 DEF Calls, ForceMeasure, MeasureNow, Start, Stop
  <1>4. ASSUME NEW th \in Users, Steps(th) PROVE MeasureSteps(th) \/ UNCHANGED poolVars
    BY <1>4 DEF Steps, ForceStore, ForceNotify, CreateThread, StopNotify, Join, StopEnd
  <1>5. CASE UNCHANGED vars
    BY <1>5 DEF vars
  <1> QED
    BY <1>1, <1>2, <1>3, <1>4, <1>5 DEF Next, ClockTicks

\* Whatever the runner and its callers do, the pool behaves as a pool may: what
\* is shown of NtpClientPoolT holds under BasicPoolRunner.
THEOREM RunnerKeepsToThePool == Spec => PoolSpec
  <1>1. Init => PoolInit
    BY DEF Init
  <1>2. [Next]_vars => [PoolNext]_poolVars
    BY RunnerSteps DEF DoMeasure, PoolStep, PoolNext
  <1> QED
    BY <1>1, <1>2, PTL DEF Spec, PoolSpec

\* So the offset of a pool that a runner measures can be trusted too.
THEOREM MeasuredOffsetsAreTrusted == FairBatches => (Spec => []OffsetTrusted)
  <1> SUFFICES ASSUME FairBatches PROVE Spec => []OffsetTrusted
    OBVIOUS
  <1> QED
    BY RunnerKeepsToThePool, OffsetsAreTrusted, PTL

\* If the samples are enough, an offset is the estimate made from them.
Explains(samples, offset) == Enough(samples, m_cfg) => offset = Estimate(m_cfg.aggregation, samples)

\* The samples of a measurement become those of last_samples() only later. Until
\* then its thread is the one that explains the offset.
Explained ==
    /\ m_cfg \in Configs
    /\ \A th \in Measurers : measuring[th].pc \in {"query", "blend"} => measuring[th].cfg = m_cfg
    /\ m_cfg.alpha >= AlphaUnit =>
         /\ \A th \in Measurers :
              measuring[th].pc # "blend" /\ (measuring[th].pc = "publish" => Explains(measuring[th].samples, m_offset_us))
         /\ (\A th \in Measurers : measuring[th].pc # "publish") => Explains(m_last_samples, m_offset_us)

\* A step of a measurement: the others are idle, and the configuration stays.
LEMMA MeasureStepExplains ==
    ASSUME IInv, Explained, NEW th \in Measurers, PoolStep(th)
    PROVE  Explained'
  <1> USE PoolAssumption DEF IInv
  <1> DEFINE m == measuring[th]
  <1>1. /\ MeasureStep(th) /\ IsLocals(m) /\ measuring = [t \in Measurers |-> measuring[t]]
        /\ \A t \in Measurers \ {th} : measuring[t].pc = "idle"
    BY DEF PoolStep, Types, Turns
  <1>2. ASSUME NEW n, measuring' = [measuring EXCEPT ![th] = n], m_cfg' = m_cfg,
               n.pc \in {"query", "blend"} => n.cfg = m_cfg,
               m_cfg.alpha >= AlphaUnit =>
                 /\ n.pc # "blend"
                 /\ n.pc = "publish" => Explains(n.samples, m_offset_us')
                 /\ n.pc # "publish" => Explains(m_last_samples', m_offset_us')
        PROVE  Explained'
    <2>1. /\ measuring'[th] = n
          /\ \A t \in Measurers \ {th} : measuring'[t].pc = "idle"
      BY <1>1, <1>2
    <2> QED
      BY <1>2, <2>1 DEF Explained, Explains
  <1>3. ASSUME NEW n, measuring' = [measuring EXCEPT ![th] = n], UNCHANGED <<m_cfg, m_offset_us, m_last_samples>>,
               m.pc # "publish", n.pc = "query", n.cfg = m_cfg
        PROVE  Explained'
    <2>1. \A t \in Measurers : measuring[t].pc # "publish"
      BY <1>1, <1>3
    <2>2. m_cfg.alpha >= AlphaUnit => Explains(m_last_samples', m_offset_us')
      BY <1>3, <2>1 DEF Explained, Explains
    <2> QED
      BY <1>2, <1>3, <2>2
  <1>4. CASE PickServers(th)
    <2>1. PICK picked \in SUBSET {s \in listed : Eligible(s)} :
            measuring' = [measuring EXCEPT ![th] = [Idle EXCEPT !.pc = "query", !.picked = picked, !.cfg = m_cfg]]
      BY <1>4 DEF PickServers
    <2> DEFINE n == [Idle EXCEPT !.pc = "query", !.picked = picked, !.cfg = m_cfg]
    <2>2. n.pc = "query" /\ n.cfg = m_cfg /\ m.pc # "publish"
      BY <1>4 DEF PickServers, Idle
    <2>3. UNCHANGED <<m_cfg, m_offset_us, m_last_samples>> /\ measuring' = [measuring EXCEPT ![th] = n]
      BY <1>4, <2>1 DEF PickServers
    <2> HIDE DEF n
    <2> QED
      BY <1>3, <2>2, <2>3
  <1>5. CASE QueryBegin(th)
    <2>1. PICK s \in m.picked : measuring' = [measuring EXCEPT ![th].asked = s, ![th].picked = @ \ {s}]
      BY <1>5 DEF QueryBegin
    <2> DEFINE n == [m EXCEPT !.asked = s, !.picked = @ \ {s}]
    <2>2. n.pc = "query" /\ n.cfg = m_cfg /\ m.pc # "publish"
      BY <1>1, <1>5 DEF QueryBegin, Explained, IsLocals
    <2>3. UNCHANGED <<m_cfg, m_offset_us, m_last_samples>> /\ measuring' = [measuring EXCEPT ![th] = n]
      BY <1>1, <1>5, <2>1 DEF QueryBegin
    <2> HIDE DEF n
    <2> QED
      BY <1>3, <2>2, <2>3
  <1>6. CASE QueryEnd(th)
    <2>1. PICK sample \in Answers(m.asked) :
            measuring' = [measuring EXCEPT ![th].asked = NoServer, ![th].samples = Append(@, sample)]
      BY <1>6 DEF QueryEnd
    <2> DEFINE n == [m EXCEPT !.asked = NoServer, !.samples = Append(@, sample)]
    <2>2. m.pc = "query" /\ m.cfg = m_cfg
      BY <1>6 DEF QueryEnd, Turns, Explained
    <2>3. n.pc = "query" /\ n.cfg = m_cfg
      BY <1>1, <2>2 DEF IsLocals
    <2>4. UNCHANGED <<m_cfg, m_offset_us, m_last_samples>> /\ measuring' = [measuring EXCEPT ![th] = n]
      BY <1>1, <1>6, <2>1 DEF QueryEnd
    <2> HIDE DEF n
    <2> QED
      BY <1>3, <2>2, <2>3, <2>4
  <1>7. CASE Update(th)
    <2> DEFINE enough == Enough(m.samples, m_cfg)
    <2>1. m.pc = "query" /\ m.cfg = m_cfg /\ UNCHANGED <<m_cfg, m_last_samples>> /\ m_cfg.alpha \in Int
      BY <1>7, ConfigAssumption DEF Update, Explained
    <2>2. enough /\ m_cfg.alpha >= AlphaUnit => m_offset_us' = Estimate(m_cfg.aggregation, m.samples)
      BY <1>7, <2>1 DEF Update
    <2>3. \/ measuring' = [measuring EXCEPT ![th] = Measured(m, enough)]
          \/ /\ m_cfg.alpha < AlphaUnit
             /\ measuring' = [measuring EXCEPT ![th] = [m EXCEPT !.pc = "blend", !.value = m_offset_us]]
      BY <1>7, <2>1 DEF Update
    <2>4. CASE measuring' = [measuring EXCEPT ![th] = Measured(m, enough)]
      <3> DEFINE n == Measured(m, enough)
      <3>1. n.pc = "publish" /\ n.samples = m.samples /\ measuring' = [measuring EXCEPT ![th] = n]
        BY <2>4 DEF Measured, Idle
      <3> HIDE DEF n
      <3>2. m_cfg.alpha >= AlphaUnit => Explains(n.samples, m_offset_us')
        BY <2>1, <2>2, <3>1 DEF Explains
      <3> QED
        BY <1>2, <2>1, <3>1, <3>2
    <2>5. CASE /\ m_cfg.alpha < AlphaUnit
               /\ measuring' = [measuring EXCEPT ![th] = [m EXCEPT !.pc = "blend", !.value = m_offset_us]]
      <3> DEFINE n == [m EXCEPT !.pc = "blend", !.value = m_offset_us]
      <3>1. n.pc = "blend" /\ n.cfg = m_cfg /\ measuring' = [measuring EXCEPT ![th] = n]
        BY <1>1, <2>1, <2>5 DEF IsLocals
      <3>2. ~(m_cfg.alpha >= AlphaUnit)
        BY <2>1, <2>5 DEF AlphaUnit
      <3> HIDE DEF n
      <3> QED
        BY <1>2, <2>1, <3>1, <3>2
    <2> QED
      BY <2>3, <2>4, <2>5
  <1>8. CASE Blend(th)
    <2> DEFINE n == Measured(m, TRUE)
    <2>1. /\ m.pc = "blend" /\ UNCHANGED <<m_cfg, m_last_samples>>
          /\ measuring' = [measuring EXCEPT ![th] = n] /\ ~(m_cfg.alpha >= AlphaUnit)
      BY <1>8 DEF Blend, Explained
    <2>2. n.pc = "publish"
      BY DEF Measured, Idle
    <2> HIDE DEF n
    <2> QED
      BY <1>2, <2>1, <2>2
  <1>9. CASE PublishSamples(th)
    <2> DEFINE n == [Idle EXCEPT !.ok = m.ok]
    <2>1. /\ m.pc = "publish" /\ UNCHANGED <<m_cfg, m_offset_us>> /\ m_last_samples' = m.samples
          /\ measuring' = [measuring EXCEPT ![th] = n]
      BY <1>9 DEF PublishSamples
    <2>2. n.pc = "idle"
      BY DEF Idle
    <2>3. m_cfg.alpha >= AlphaUnit => Explains(m_last_samples', m_offset_us')
      BY <2>1 DEF Explained, Explains
    <2> HIDE DEF n
    <2> QED
      BY <1>2, <2>1, <2>2, <2>3
  <1> QED
    BY <1>1, <1>4, <1>5, <1>6, <1>7, <1>8, <1>9 DEF MeasureStep

\* The beginning of a measurement, and what leaves the pool alone.
LEMMA OthersExplain ==
    ASSUME Explained,
           (\E th \in Measurers : DoMeasure(th)) \/ Tick \/ UNCHANGED poolVars,
           measuring = [th \in Measurers |-> measuring[th]]
    PROVE  Explained'
  <1>1. ASSUME NEW th \in Measurers, DoMeasure(th) PROVE Explained'
    <2> DEFINE n == [Idle EXCEPT !.pc = "pick", !.wanted = m_cfg.sample_servers]
    <2>1. /\ measuring[th].pc = "idle" /\ UNCHANGED <<m_cfg, m_offset_us, m_last_samples>>
          /\ measuring' = [measuring EXCEPT ![th] = n] /\ n.pc = "pick"
      BY <1>1 DEF DoMeasure, Measure, Idle
    <2> HIDE DEF n
    <2>2. \A t \in Measurers : measuring'[t] = IF t = th THEN n ELSE measuring[t]
      BY <2>1
    <2> QED
      BY <2>1, <2>2 DEF Explained, Explains
  <1>2. CASE Tick \/ UNCHANGED poolVars
    <2>1. UNCHANGED <<m_cfg, m_offset_us, m_last_samples, measuring>>
      BY <1>2 DEF Tick, poolVars
    <2> QED
      BY <2>1 DEF Explained, Explains
  <1> QED
    BY <1>1, <1>2

\* Whenever nobody measures, last_samples() and offset_us() belong together,
\* although they are stored one after the other and without a common lock.
THEOREM SamplesAreExplained == Spec => []SamplesExplainOffset
  <1>1. Init => Explained
    <2> SUFFICES ASSUME Init PROVE Explained
      OBVIOUS
    <2>1. measuring = [th \in Measurers |-> Idle] /\ m_cfg \in Configs /\ m_last_samples = <<>>
      BY DEF Init, PoolInit
    <2>2. ~Enough(<<>>, m_cfg)
      BY <2>1, NoSamples
    <2>3. Idle.pc = "idle"
      BY DEF Idle
    <2> QED
      BY <2>1, <2>2, <2>3 DEF Explained, Explains
  <1>2. IInv /\ Explained /\ [Next]_vars => Explained'
    <2> SUFFICES ASSUME IInv, Explained, [Next]_vars PROVE Explained'
      OBVIOUS
    <2>1. measuring = [th \in Measurers |-> measuring[th]]
      BY DEF IInv, Types
    <2> QED
      BY <2>1, RunnerSteps, MeasureStepExplains, OthersExplain
  <1>3. Explained => SamplesExplainOffset
    BY DEF Explained, Explains, SamplesExplainOffset
  <1> QED
    BY <1>1, <1>2, <1>3, Invariance, PTL DEF Spec

=============================================================================
