------------------------ MODULE NtpEstimateInputsProofs ------------------------
(***************************************************************************)
(* What the estimators owe to their inputs, for any offsets and delays and *)
(* any number of samples: the theorems about the operators, said of the    *)
(* inputs that are enumerated.                                             *)
(***************************************************************************)
EXTENDS NtpEstimateInputs, NtpEstimateProofs

\* The samples are of the type that the theorems are about.
InputType == input \in Seq(AnySample) /\ \A i \in Indices(input) : input[i].max_delay \in {0, MaxDelay}

LEMMA InputsAreSamples == Spec => []InputType
<1>1. Init => InputType
  BY DEF Init, InputType, Indices
<1>2. ASSUME InputType, [Any \/ Timely]_input PROVE InputType'
  <2>1. ASSUME NEW x \in AnySample, x.max_delay \in {0, MaxDelay}, input' = Append(input, x) PROVE InputType'
    <3>1. input \in Seq(AnySample) /\ \A i \in 1 .. Len(input) : input[i].max_delay \in {0, MaxDelay}
      BY <1>2 DEF InputType, Indices
    <3>2. /\ input' \in Seq(AnySample) /\ Len(input') = Len(input) + 1 /\ Len(input) \in Nat
          /\ \A i \in 1 .. Len(input') : (i \in 1 .. Len(input) /\ input'[i] = input[i]) \/ input'[i] = x
      BY <2>1, <3>1
    <3> QED
      BY <2>1, <3>1, <3>2 DEF InputType, Indices
  <2>2. CASE Any
    <3>1. PICK x \in Sample : input' = Append(input, x)
      BY <2>2 DEF Any
    <3>2. x \in AnySample /\ x.max_delay \in {0, MaxDelay}
      <4>1. /\ x = [offset |-> x.offset, delay |-> x.delay, max_delay |-> x.max_delay, is_ok |-> x.is_ok]
            /\ x.offset \in OffsetSet /\ x.delay \in Delays /\ x.max_delay \in {0, MaxDelay} /\ x.is_ok \in BOOLEAN
        BY DEF Sample
      <4>2. x.offset \in Int /\ x.delay \in Int /\ x.max_delay \in Int
        BY <4>1, InputAssumption
      <4> QED
        BY <4>1, <4>2 DEF AnySample
    <3> QED
      BY <2>1, <3>1, <3>2
  <2>3. CASE Timely
    <3>1. PICK o \in OffsetSet : input' = Append(input, Good(o))
      BY <2>3 DEF Timely
    <3>2. Good(o) \in AnySample /\ Good(o).max_delay = 0
      BY InputAssumption DEF Good, AnySample
    <3> QED
      BY <2>1, <3>1, <3>2
  <2>4. CASE UNCHANGED input
    BY <1>2, <2>4 DEF InputType, Indices
  <2> QED
    BY <1>2, <2>2, <2>3, <2>4
<1> QED
  BY <1>1, <1>2, PTL DEF Spec

\* The offsets of the valid samples are a vector.
LEMMA OffsetsAreVectors ==
    ASSUME InputType
    PROVE  /\ IsVector(offs) /\ DOMAIN offs = ok /\ (ok # {} => Median(offs) \in Int)
           /\ \A i \in ok : offs[i] = input[i].offset
  <1>1. input \in Seq(AnySample) /\ Len(input) \in Nat /\ ok \in SUBSET (1 .. Len(input))
    BY SamplesAreTyped DEF InputType, ok
  <1>2. IsFiniteSet(ok)
    BY <1>1, PartOfInterval
  <1>3. DOMAIN offs = ok /\ \A i \in ok : offs[i] = input[i].offset
    BY DEF offs, Offsets, ok
  <1>4. \A i \in ok : offs[i] \in Int
    BY <1>1, <1>3, SamplesAreTyped
  <1>5. IsVector(offs)
    BY <1>2, <1>3, <1>4 DEF IsVector
  <1> QED
    BY <1>3, <1>5, MedianSplits

\* median() is a median without bias, of any number of offsets.
THEOREM MediansAreMedians == Spec => []MedianIsMedian
<1>1. InputType => MedianIsMedian
  BY OffsetsAreVectors, MedianSplits, MedianIsUnbiased DEF MedianIsMedian
<1> QED
  BY <1>1, InputsAreSamples, PTL

\* No single server moves the trimmed median further than the others vary.
THEOREM OutliersAreResisted == Spec => []TrimResistsOutlier
<1>1. ASSUME InputType PROVE TrimResistsOutlier
  <2>1. IsVector(offs) /\ DOMAIN offs = ok
    BY <1>1, OffsetsAreVectors
  <2>2. ok # {} => MedianMadTrim(Mirror(offs)) = -MedianMadTrim(offs)
    BY <2>1, TrimIsUnbiased
  <2>3. ASSUME Size(offs) >= 3, NEW k \in ok PROVE Between(MedianMadTrim(offs), Reach(ValuesBut(offs, k)))
    BY <2>1, <2>3, TrimResists
  <2> QED
    BY <2>2, <2>3 DEF TrimResistsOutlier
<1> QED
  BY <1>1, InputsAreSamples, PTL

\* The timely answers decide alone, and of them the fastest where the strategy
\* says so.
THEOREM TimelyAnswersDecide == Spec => []TimelyDecide
<1>1. ASSUME InputType PROVE OnlyValidCount
  <2>1. input \in Seq(AnySample)
    BY <1>1 DEF InputType
  <2>2. {i \in Indices(input) : Counts(input[i])} = ok
    <3>1. ASSUME NEW i \in Indices(input) PROVE Counts(input[i]) <=> IsValid(input[i])
      <4>1. input[i].delay \in Int /\ (input[i].max_delay = 0 \/ input[i].max_delay = MaxDelay) /\ MaxDelay \in Nat
        BY <1>1, SamplesAreTyped, InputAssumption DEF InputType, Indices
      <4> QED
        BY <4>1 DEF Counts, IsValid
    <3> QED
      BY <3>1 DEF ok, Valid
  <2> QED
    BY <2>1, <2>2, OnlyTimelyCount DEF OnlyValidCount, ok
<1>2. ASSUME InputType PROVE BestIsFastest
  <2>1. input \in Seq(AnySample)
    BY <1>2 DEF InputType
  <2> QED
    BY <2>1, FastestDecides DEF BestIsFastest, Delayed, ok
<1>3. InputType => TimelyDecide
  BY <1>1, <1>2 DEF TimelyDecide
<1> QED
  BY <1>3, InputsAreSamples, PTL

\* Smoothing stays between the old offset and the estimate and does not freeze.
THEOREM SmoothingIsSteady == Spec => []SmoothingConverges
<1>1. ASSUME InputType, ok # {}, NEW m, m = Median(offs), NEW old \in OffsetSet
      PROVE  /\ \A num \in -1 .. 5 : Between(Smooth(old, m, num, 4), {old, m})
             /\ \A num \in 2 .. 4 : Deviation(m, old) >= 2 => Deviation(Smooth(old, m, num, 4), m) < Deviation(old, m)
  <2>1. m \in Int /\ old \in Int
    BY <1>1, OffsetsAreVectors, InputAssumption
  <2>2. ASSUME NEW num \in Int
        PROVE  /\ Between(Smooth(old, m, num, 4), {old, m})
               /\ 2 * num >= 4 /\ Deviation(m, old) >= 2 => Deviation(Smooth(old, m, num, 4), m) < Deviation(old, m)
    BY <2>1, SmoothingApproaches
  <2> QED
    BY <2>2
<1>2. InputType => SmoothingConverges
  BY <1>1 DEF SmoothingConverges
<1> QED
  BY <1>2, InputsAreSamples, PTL

=============================================================================
