-------------------------- MODULE NtpEstimateInputs --------------------------
(* Every input of the estimators up to a bound: one state per input, built  *)
(* one sample at a time. Up to MaxAny samples of every kind, up to MaxGood  *)
(* when all of them are timely answers.                                     *)
EXTENDS NtpEstimate

CONSTANTS OffsetSet, Delays, MaxDelay, MaxAny, MaxGood

ASSUME InputAssumption == OffsetSet \subseteq Int /\ Delays \subseteq Int /\ MaxDelay \in Nat

VARIABLE input

Sample == [offset : OffsetSet, delay : Delays, max_delay : {0, MaxDelay}, is_ok : BOOLEAN]
Good(o) == [offset |-> o, delay |-> 1, max_delay |-> 0, is_ok |-> TRUE]

Init == input = <<>>
Any  == Len(input) < MaxAny /\ \E x \in Sample : input' = Append(input, x)
Timely == /\ Len(input) < MaxGood
          /\ \A i \in Indices(input) : input[i] = Good(input[i].offset)
          /\ \E o \in OffsetSet : input' = Append(input, Good(o))
Spec == Init /\ [][Any \/ Timely]_input

ok   == Valid(input)
offs == Offsets(input)

\* median() splits the offsets in half, whatever their number and sign, and has
\* no bias: mirrored clock errors give the mirrored median, in spite of the
\* truncating division of the even case.
MedianIsMedian ==
    ok # {} => /\ SplitsInHalf(Median(offs), offs)
               /\ Median(Mirror(offs)) = -Median(offs)

\* median_mad_trim() trims both sides alike, and one server among three or more,
\* however far its offset is, cannot move the estimate further out of the range
\* of the others than that range is wide. (It can move it out: of -6, 1 and 3
\* the trim drops -6, so the third server alone decides that the result is 2.)
TrimResistsOutlier ==
    /\ ok # {} => MedianMadTrim(Mirror(offs)) = -MedianMadTrim(offs)
    /\ Size(offs) >= 3 => \A k \in ok : Between(MedianMadTrim(offs), Reach(ValuesBut(offs, k)))

\* best_delay_offset() returns the offset of a valid sample, and with positive
\* delays no valid sample was faster.
BestIsFastest ==
    ok # {} => \E i \in ok :
        /\ input[i].offset = BestDelayOffset(input)
        /\ (\A j \in ok : input[j].delay > 0) => \A j \in ok : input[i].delay <= input[j].delay

\* A successful answer that is not later than its limit, if it has one.
Counts(x) == x.is_ok /\ (x.max_delay = 0 \/ x.delay <= x.max_delay)

\* A late or failed answer never reaches the estimate of update_from_samples():
\* removing it changes nothing, with each strategy.
OnlyValidCount ==
    ok # {} =>
      LET timely == Select(input, {i \in Indices(input) : Counts(input[i])})
      IN  timely # <<>> /\ \A kind \in Kinds : Estimate(kind, input) = Estimate(kind, timely)

\* The valid samples decide alone, and of them the fastest where the strategy
\* says so.
TimelyDecide == OnlyValidCount /\ BestIsFastest

\* Smoothing with any alpha never leaves the interval between the old offset
\* and the estimate, and with an alpha of one half or more it always closes a
\* gap of two or more: truncation to an integer cannot freeze the offset.
SmoothingConverges ==
    ok # {} => LET m == Median(offs) IN \A old \in OffsetSet :
        /\ \A num \in -1 .. 5 : Between(Smooth(old, m, num, 4), {old, m})
        /\ \A num \in 2 .. 4 : Deviation(m, old) >= 2 => Deviation(Smooth(old, m, num, 4), m) < Deviation(old, m)

=============================================================================
