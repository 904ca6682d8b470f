----------------------------- MODULE NtpEstimate -----------------------------
(***************************************************************************)
(* How NtpClientPoolT turns the samples of a measurement into one offset.  *)
(* A sample is [offset, delay, max_delay, is_ok]. Of a vector of offsets   *)
(* the order does not matter: it is a function on any finite set, such as  *)
(* the indices of the samples it was taken from.                           *)
(***************************************************************************)
EXTENDS Integers, Sequences, FiniteSets

Kinds == {"Median", "BestDelay", "MedianMadTrim"}

Indices(s) == 1 .. Len(s)
Size(f)    == Cardinality(DOMAIN f)

\* Division of integers as C++ does it: towards zero.
TruncDiv(a, b) == IF a >= 0 THEN a \div b ELSE -((-a) \div b)

\* std::nth_element: the value at index k, from zero, once f is sorted.
IsNth(v, f, k) ==
    /\ Cardinality({i \in DOMAIN f : f[i] < v}) <= k
    /\ k < Cardinality({i \in DOMAIN f : f[i] <= v})

NthElement(f, k) == CHOOSE v \in {f[i] : i \in DOMAIN f} : IsNth(v, f, k)

\* Defective: takes the upper one of the two middle values.
UpperMedian(f) == NthElement(f, Size(f) \div 2)

\* NtpClientPoolT::median.
Median(f) ==
    LET mid == Size(f) \div 2
    IN  IF Size(f) % 2 = 1
        THEN NthElement(f, mid)
        ELSE TruncDiv(NthElement(f, mid - 1) + NthElement(f, mid), 2)

Deviation(v, med) == IF v > med THEN v - med ELSE med - v

\* Defective: compares signed differences, so low outliers are kept.
SignedWithin(v, med, threshold) == v - med <= threshold

Within(v, med, threshold) == Deviation(v, med) <= threshold

\* NtpClientPoolT::median_mad_trim.
MedianMadTrim(f) ==
    LET med  == Median(f)
        mad  == Median([i \in DOMAIN f |-> Deviation(f[i], med)])
        kept == {i \in DOMAIN f : Within(f[i], med, 3 * mad)}
    IN  IF mad = 0 \/ kept = {} THEN med ELSE Median([i \in kept |-> f[i]])

\* Defective: accepts late answers.
AnyAnswer(sample) == sample.is_ok

\* A sample that takes part in the estimate.
IsValid(sample) ==
    sample.is_ok /\ ~(sample.max_delay > 0 /\ sample.delay > sample.max_delay)

Valid(samples)   == {i \in Indices(samples) : IsValid(samples[i])}
Offsets(samples) == [i \in Valid(samples) |-> samples[i].offset]

\* A delay that is not positive neither replaces nor is replaced.
Replaces(sample, best) == sample.delay > 0 /\ best.delay > 0 /\ sample.delay < best.delay

\* NtpClientPoolT::best_delay_offset: best[n] is the sample kept after the first
\* n, or 0.
BestDelayOffset(samples) ==
    LET best[n \in 0 .. Len(samples)] ==
          IF n = 0 THEN 0
          ELSE IF IsValid(samples[n]) /\ (best[n - 1] = 0 \/ Replaces(samples[n], samples[best[n - 1]]))
               THEN n
               ELSE best[n - 1]
        last == best[Len(samples)]
    IN  IF last = 0 THEN 0 ELSE samples[last].offset

\* The estimate of NtpClientPoolT::update_from_samples.
Estimate(kind, samples) ==
    CASE kind = "BestDelay"     -> BestDelayOffset(samples)
      [] kind = "MedianMadTrim" -> MedianMadTrim(Offsets(samples))
      [] OTHER                  -> Median(Offsets(samples))

\* Defective: the weights of the old value and the estimate are swapped.
SmoothBackwards(old, new, num, den) == TruncDiv(num * old + (den - num) * new, den)

\* Exponential smoothing with alpha = num / den, clamped to 0 .. 1.
Smooth(old, new, num, den) ==
    IF num >= den THEN new
    ELSE IF num <= 0 THEN old
    ELSE TruncDiv((den - num) * old + num * new, den)

----------------------------------------------------------------------------
(* Reference definitions and what the algorithms owe to them               *)

\* A value that at least half of the inputs do not exceed and at least half
\* reach: what any median must satisfy.
SplitsInHalf(m, f) ==
    /\ 2 * Cardinality({i \in DOMAIN f : f[i] <= m}) >= Size(f)
    /\ 2 * Cardinality({i \in DOMAIN f : f[i] >= m}) >= Size(f)

\* The elements of a sequence at some of its indices, in their order.
Rank(i, S)   == Cardinality({j \in S : j <= i})
Select(s, S) == [r \in 1 .. Cardinality(S) |-> s[CHOOSE i \in S : Rank(i, S) = r]]

Mirror(f) == [i \in DOMAIN f |-> -f[i]]

\* The values of f but one, and S with what is as far out of its range as that is
\* wide.
ValuesBut(f, k) == {f[i] : i \in DOMAIN f \ {k}}
Reach(S)        == S \cup {2 * x - y : x \in S, y \in S}

Between(v, S) == (\E a \in S : a <= v) /\ (\E b \in S : v <= b)

=============================================================================
