------------------------- MODULE ReconstructProofs -------------------------
(***************************************************************************)
(* That the order-1 reconstruction recovers the signal through all folds,  *)
(* for every threshold, resolution, range and step of the signal that the  *)
(* assumptions of Reconstruct admit; and that the moving average's running *)
(* sum is the total of its window, and its output a mean of it.  And that  *)
(* the reference model, of every order, makes the folds of the signal, and *)
(* the hardware those of the model when the order is 1.                    *)
(***************************************************************************)
EXTENDS Reconstruct, ReconstructN, TLAPS

-----------------------------------------------------------------------------
(* Division and words.                                                     *)

LEMMA DivisionFacts ==
  ASSUME NEW D \in Nat \ {0}, NEW x \in Int
  PROVE  /\ x \div D \in Int /\ x % D \in 0..D-1
         /\ x = D * (x \div D) + (x % D)
BY Z3

\* There is only one multiple of D less than D in size.
LEMMA OneMultiple ==
  ASSUME NEW D \in Nat \ {0}, NEW p \in Int, -D < D * p, D * p < D
  PROVE  p = 0
<1>1. CASE p >= 1
  <2>1. D * p >= D * 1
    BY <1>1
  <2> QED BY <2>1
<1>2. CASE p <= -1
  <2>1. D * p <= D * (-1)
    BY <1>2
  <2> QED BY <2>1
<1> QED BY <1>1, <1>2

LEMMA SmallRemainder ==
  ASSUME NEW D \in Nat \ {0}, NEW x \in 0..D-1
  PROVE  x % D = x
OBVIOUS

\* A number that is a word is not changed by the word's width.
LEMMA WrapWord ==
  ASSUME NEW h \in Nat \ {0}, NEW x \in Word(h)
  PROVE  Wrap(x, h) = x
<1>1. x + h \in 0..(2 * h) - 1 /\ 2 * h \in Nat \ {0} /\ x \in Int
  BY DEF Word
<1>2. (x + h) % (2 * h) = x + h
  BY <1>1, SmallRemainder
<1> QED BY <1>1, <1>2 DEF Wrap

LEMMA WrapType ==
  ASSUME NEW h \in Nat \ {0}, NEW x \in Int
  PROVE  Wrap(x, h) \in Word(h)
<1>1. x + h \in Int /\ 2 * h \in Nat \ {0}
  OBVIOUS
<1>2. (x + h) % (2 * h) \in 0..(2 * h) - 1
  BY <1>1, DivisionFacts
<1> QED BY <1>2 DEF Wrap, Word

LEMMA NarrowType ==
  ASSUME NEW h \in Nat \ {0}, NEW x \in Int
  PROVE  Narrow(x, h) \in Word(h)
<1>1. x % h \in 0..h-1
  BY DivisionFacts
<1> QED BY <1>1 DEF Narrow, Word

-----------------------------------------------------------------------------
(* The folding circuit, the ADC and the blocks.                            *)

LEMMA Constants ==
  /\ Half \in Nat \ {0} /\ SumHalf \in Nat \ {0}
  /\ Lambda \in Nat \ {0} /\ two_lambda \in Nat \ {0} /\ two_lambda = 2 * Lambda
  /\ WINDOW_SIZE \in Nat \ {0} /\ AdcGain \in Nat \ {0} /\ AdcGain <= Lambda
  /\ AdcOffset \in Nat /\ AdcOffset >= Lambda
  /\ MaxStep \in Nat /\ MaxStep + AdcGain <= Lambda /\ MaxSignal \in Nat
  /\ 2 * MaxSignal + 2 * AdcOffset + 8 * Lambda < Half
BY ReconstructAssumption, SamplingAssumption, RangeAssumption DEF two_lambda

\* Folding keeps a signal within the threshold and moves it by whole folds.
LEMMA FoldFacts ==
  ASSUME NEW g \in Int
  PROVE  /\ Fold(g) \in -Lambda .. Lambda - 1
         /\ \E q \in Int : g = Fold(g) + two_lambda * q
<1> DEFINE q == (g + Lambda) \div two_lambda
           r == (g + Lambda) % two_lambda
<1>1. g + Lambda \in Int
  BY Constants
<1>2. q \in Int /\ r \in 0..two_lambda - 1 /\ g + Lambda = two_lambda * q + r
  BY <1>1, Constants, DivisionFacts
<1>3. Fold(g) = r - Lambda
  BY DEF Fold
<1> HIDE DEF q, r
<1>4. two_lambda * q \in Int
  BY <1>2, Constants
<1>5. g = Fold(g) + two_lambda * q
  BY <1>2, <1>3, <1>4, Constants
<1> QED BY <1>2, <1>3, <1>5, Constants

\* The sample the datapath takes is the folded signal with the offset, less what
\* the resolution of the ADC cuts off.
LEMMA SampleFacts ==
  ASSUME NEW g \in Int
  PROVE  /\ Fold(g) + AdcOffset - Fixed(Code(g)) \in 0..AdcGain-1
         /\ Fixed(Code(g)) \in 0 .. AdcOffset + Lambda - 1
<1> DEFINE v == Fold(g) + AdcOffset
<1>1. v \in 0 .. AdcOffset + Lambda - 1
  <2>1. Fold(g) \in -Lambda .. Lambda - 1
    BY FoldFacts
  <2> QED BY <2>1, Constants
<1>11. v = Fold(g) + AdcOffset /\ Code(g) = v \div AdcGain /\ Fold(g) \in Int
  BY FoldFacts, Constants DEF Code
<1> HIDE DEF v
<1> DEFINE c == v \div AdcGain
           r == v % AdcGain
<1>2. c \in Int /\ r \in 0..AdcGain-1 /\ v = AdcGain * c + r
  BY <1>1, Constants, DivisionFacts
<1>3. Code(g) = c
  BY <1>11
<1> HIDE DEF c, r
<1>4. AdcGain * c = c * AdcGain /\ AdcGain * c \in Int
  BY <1>2, Constants
<1>5. c * AdcGain = v - r /\ c * AdcGain \in Int
  BY <1>1, <1>2, <1>4, Constants
<1>6. c >= 0
  <2>1. SUFFICES ASSUME c <= -1 PROVE FALSE
    BY <1>2
  <2>2. AdcGain * c <= AdcGain * (-1)
    BY <1>2, <2>1, Constants
  <2> QED BY <1>1, <1>2, <2>2, Constants
<1>7. c * AdcGain >= 0
  BY <1>2, <1>6, Constants
<1>8. c * AdcGain \in 0..Half-1
  BY <1>1, <1>2, <1>5, <1>7, Constants
<1>9. Narrow(c * AdcGain, Half) = c * AdcGain
  BY <1>8, SmallRemainder, Constants DEF Narrow
<1>10. Fixed(Code(g)) = v - r
  BY <1>3, <1>5, <1>9 DEF Fixed
<1>12. v - r >= 0 /\ v - r <= v
  BY <1>1, <1>2, <1>5, <1>7
<1> QED BY <1>1, <1>2, <1>10, <1>11, <1>12, Constants

\* The modulo residual is the one whole number of folds that brings a difference
\* back within the threshold.
LEMMA ResidualFacts ==
  ASSUME NEW d \in -(AdcOffset + Lambda) .. AdcOffset + Lambda
  PROVE  /\ ModuloResidual(d) + d \in -Lambda .. Lambda - 1
         /\ \E q \in Int : ModuloResidual(d) = two_lambda * q
<1> DEFINE q == (d + Lambda) \div two_lambda
           r == (d + Lambda) % two_lambda
<1>1. d + Lambda \in Word(Half) /\ d + Lambda \in Int
  BY Constants DEF Word
<1>2. q \in Int /\ r \in 0..two_lambda - 1 /\ d + Lambda = two_lambda * q + r
  BY <1>1, Constants, DivisionFacts
<1>3. Wrap(d + Lambda, Half) = d + Lambda
  BY <1>1, Constants, WrapWord
<1>4. ModuloResidual(d) = Wrap(r - Lambda - d, Half)
  BY <1>3 DEF ModuloResidual
<1> HIDE DEF q, r
<1>5. r - Lambda - d \in Word(Half)
  BY <1>2, Constants DEF Word
<1>6. ModuloResidual(d) = r - Lambda - d
  BY <1>4, <1>5, Constants, WrapWord
<1>7. two_lambda * q \in Int /\ two_lambda * (-q) = -(two_lambda * q)
  BY <1>2, Constants
<1>8. ModuloResidual(d) = two_lambda * (-q) /\ -q \in Int
  BY <1>2, <1>6, <1>7, Constants
<1>9. ModuloResidual(d) + d = r - Lambda /\ r - Lambda \in -Lambda .. Lambda - 1
  BY <1>2, <1>6, Constants
<1> QED BY <1>8, <1>9

\* Between two samples of a signal that changes slowly enough the residual is
\* exactly the folds that were made.
LEMMA ResidualIsFolds ==
  ASSUME NEW g \in Int, NEW h \in Int, h - g \in -MaxStep .. MaxStep
  PROVE  /\ Fixed(Code(h)) - Fixed(Code(g)) \in -(AdcOffset + Lambda) .. AdcOffset + Lambda
         /\ ModuloResidual(Fixed(Code(h)) - Fixed(Code(g)))
              = (h - Fold(h)) - (g - Fold(g))
<1> DEFINE d == Fixed(Code(h)) - Fixed(Code(g))
           m == ModuloResidual(d)
           r == Fold(g) + AdcOffset - Fixed(Code(g))
           t == Fold(h) + AdcOffset - Fixed(Code(h))
<1>1. /\ r \in 0..AdcGain-1 /\ Fixed(Code(g)) \in 0 .. AdcOffset + Lambda - 1
      /\ t \in 0..AdcGain-1 /\ Fixed(Code(h)) \in 0 .. AdcOffset + Lambda - 1
  BY SampleFacts
<1>2. Fold(g) \in Int /\ Fold(h) \in Int
  BY FoldFacts, Constants
<1>3. d \in -(AdcOffset + Lambda) .. AdcOffset + Lambda
  BY <1>1, Constants
<1>4. PICK q \in Int : m = two_lambda * q
  BY <1>3, ResidualFacts
<1>5. m + d \in -Lambda .. Lambda - 1
  BY <1>3, ResidualFacts
<1>6. PICK i \in Int : g = Fold(g) + two_lambda * i
  BY FoldFacts
<1>7. PICK j \in Int : h = Fold(h) + two_lambda * j
  BY FoldFacts
<1>8. d = (h - g) - (t - r) - (two_lambda * j - two_lambda * i)
  <2>1. Fixed(Code(g)) \in Int /\ Fixed(Code(h)) \in Int
    BY <1>1, Constants
  <2>2. two_lambda * i \in Int /\ two_lambda * j \in Int
    BY Constants
  <2>3. d = (Fold(h) - Fold(g)) - (t - r)
    BY <2>1, <1>2, Constants
  <2>4. Fold(h) - Fold(g) = (h - g) - (two_lambda * j - two_lambda * i)
    BY <2>2, <1>2, <1>6, <1>7
  <2> HIDE DEF d, r, t
  <2>5. Fold(h) - Fold(g) \in Int /\ t - r \in Int
    BY <1>1, <1>2, Constants
  <2> QED BY <2>2, <2>3, <2>4, <2>5
<1> HIDE DEF d, m, r, t
<1>9. two_lambda * (q - j + i) = two_lambda * q - two_lambda * j + two_lambda * i
  BY Constants
<1>10. (h - g) - (t - r) \in -(Lambda - 1) .. Lambda - 1
  BY <1>1, Constants
<1>11. d \in Int
  BY <1>3, Constants
<1>12. m + d = (h - g) - (t - r) + two_lambda * (q - j + i)
  <2>1. two_lambda * i \in Int /\ two_lambda * j \in Int /\ two_lambda * q \in Int
    BY Constants
  <2>2. (h - g) - (t - r) \in Int
    BY <1>10, Constants
  <2> QED BY <2>1, <2>2, <1>4, <1>8, <1>9, <1>11
<1>13. two_lambda * (q - j + i) \in -(two_lambda - 1) .. two_lambda - 1
  <2>1. two_lambda * (q - j + i) \in Int
    BY Constants
  <2> QED BY <2>1, <1>5, <1>10, <1>12, Constants
<1>14. q - j + i = 0
  BY <1>13, OneMultiple, Constants
<1>15. two_lambda * q = two_lambda * j - two_lambda * i
  BY <1>9, <1>14, Constants
<1>16. m = (h - Fold(h)) - (g - Fold(g))
  <2>1. two_lambda * i \in Int /\ two_lambda * j \in Int
    BY Constants
  <2> QED BY <2>1, <1>2, <1>4, <1>6, <1>7, <1>15
<1> QED BY <1>3, <1>16 DEF d, m

LEMMA MultipleRemainder ==
  ASSUME NEW D \in Nat \ {0}, NEW m \in Int
  PROVE  D * m \in Int /\ (D * m) % D = 0
<1> DEFINE x == D * m
           p == x \div D
           r == x % D
<1>1. x \in Int
  OBVIOUS
<1>2. p \in Int /\ r \in 0..D-1 /\ x = D * p + r
  BY <1>1, DivisionFacts
<1>4. x = D * m
  OBVIOUS
<1> HIDE DEF x, p, r
<1>3. D * (m - p) = D * m - D * p /\ D * p \in Int
  BY <1>2
<1>5. D * (m - p) = r
  BY <1>1, <1>2, <1>3, <1>4
<1>6. m - p = 0
  BY <1>2, <1>5, OneMultiple
<1>7. r = 0
  BY <1>2, <1>5, <1>6
<1> QED BY <1>1, <1>7 DEF x, r

\* Rounding changes nothing in a whole number of folds.
LEMMA RoundedWhole ==
  ASSUME NEW x \in Word(Half), x % two_lambda = 0
  PROVE  Rounded(x) = x
<1>1. x \in Int
  BY Constants DEF Word
<1>2. x \div two_lambda \in Int /\ x = two_lambda * (x \div two_lambda) + (x % two_lambda)
  BY <1>1, Constants, DivisionFacts
<1>3. (x \div two_lambda) * two_lambda = two_lambda * (x \div two_lambda)
  BY <1>2, Constants
<1>4. (x \div two_lambda) * two_lambda = x
  <2>1. two_lambda * (x \div two_lambda) \in Int
    BY <1>2, Constants
  <2> QED BY <1>2, <1>3, <2>1
<1> QED BY <1>4, WrapWord, Constants DEF Rounded

-----------------------------------------------------------------------------
(* Types.                                                                  *)

LEMMA AverageType ==
  ASSUME TypeOK, NEW x \in Word(Half), Average(x)
  PROVE  /\ buffer' \in [0..WINDOW_SIZE-1 -> Word(Half)] /\ index' \in 0..WINDOW_SIZE-1
         /\ sample_count' \in 0..WINDOW_SIZE /\ sample_count' > 0
         /\ sum' \in Word(SumHalf) /\ out_avg' \in Word(Half)
         /\ totals' \in [0..WINDOW_SIZE -> Int]
<1>1. buffer' \in [0..WINDOW_SIZE-1 -> Word(Half)]
  BY DEF TypeOK, Average
<1>2. index' \in 0..WINDOW_SIZE-1
  <2>1. index + 1 \in Int /\ index' = (index + 1) % WINDOW_SIZE
    BY DEF TypeOK, Average, NextIndex
  <2> QED BY <2>1, Constants, DivisionFacts
<1>3. sample_count' \in 0..WINDOW_SIZE /\ sample_count' > 0
  BY Constants DEF TypeOK, Average
<1>4. sum' \in Word(SumHalf) /\ sum' \in Int
  <2>1. x \in Int /\ sum \in Int
    BY Constants DEF TypeOK, Word
  <2>2. Replaced \in Int
    <3>1. buffer[index] \in Word(Half)
      BY DEF TypeOK
    <3> QED BY <3>1, Constants DEF Replaced, Word
  <2>3. sum + x - Replaced \in Int
    BY <2>1, <2>2
  <2>4. sum' = Wrap(sum + x - Replaced, SumHalf)
    BY DEF Average
  <2>5. sum' \in Word(SumHalf)
    BY <2>3, <2>4, WrapType, Constants
  <2> QED BY <2>5, Constants DEF Word
<1>5. out_avg' \in Word(Half)
  <2>1. sum' \div sample_count' \in Int
    BY <1>3, <1>4, DivisionFacts
  <2>2. out_avg' = Narrow(sum' \div sample_count', Half)
    BY DEF Average, Mean
  <2> QED BY <2>1, <2>2, NarrowType, Constants
<1>6. totals' \in [0..WINDOW_SIZE -> Int]
  <2>1. x \in Int
    BY Constants DEF Word
  <2>2. \A i \in 0..WINDOW_SIZE : i # 0 => i - 1 \in 0..WINDOW_SIZE
    BY Constants
  <2>3. \A i \in 0..WINDOW_SIZE : totals[i] \in Int
    BY DEF TypeOK
  <2>4. ASSUME NEW i \in 0..WINDOW_SIZE
        PROVE  (IF i = 0 THEN 0 ELSE x + totals[i - 1]) \in Int
    <3>1. CASE i = 0
      BY <3>1
    <3>2. CASE i # 0
      <4>1. totals[i - 1] \in Int
        BY <3>2, <2>2, <2>3
      <4> QED BY <4>1, <3>2, <2>1
    <3> QED BY <3>1, <3>2
  <2> QED BY <2>4 DEF Average
<1> QED BY <1>1, <1>2, <1>3, <1>4, <1>5, <1>6

LEMMA SampleType ==
  ASSUME TypeOK, NEW g \in -MaxSignal..MaxSignal, Sample(g)
  PROVE  /\ signal' \in -MaxSignal..MaxSignal
         /\ prev_in' \in Word(Half) /\ residual' \in Word(Half)
         /\ reconstructed' \in Word(Half)
         /\ buffer' \in [0..WINDOW_SIZE-1 -> Word(Half)] /\ index' \in 0..WINDOW_SIZE-1
         /\ sample_count' \in 0..WINDOW_SIZE /\ sample_count' > 0
         /\ sum' \in Word(SumHalf) /\ out_avg' \in Word(Half)
         /\ totals' \in [0..WINDOW_SIZE -> Int]
<1> DEFINE y == Fixed(Code(g))
           d == Wrap(y - prev_in, Half)
<1>1. y \in Int /\ y \in Word(Half)
  <2>1. g \in Int
    BY Constants
  <2>2. y \in 0 .. AdcOffset + Lambda - 1
    BY <2>1, SampleFacts
  <2> QED BY <2>2, Constants DEF Word
<1>2. prev_in' \in Word(Half)
  BY <1>1 DEF Sample
<1>3. residual' \in Word(Half) /\ residual' \in Int
  <2>1. residual' = Wrap(residual + ModuloResidual(d), Half)
    BY DEF Sample
  <2>2. prev_in \in Int /\ residual \in Int
    BY Constants DEF TypeOK, Word
  <2>3. d \in Int
    <3>1. y - prev_in \in Int
      BY <1>1, <2>2
    <3>2. d \in Word(Half)
      BY <3>1, WrapType, Constants
    <3> QED BY <3>2, Constants DEF Word
  <2> HIDE DEF d
  <2>4. ModuloResidual(d) \in Int
    <3>1. Wrap(d + Lambda, Half) \in Int
      <4>1. d + Lambda \in Int
        BY <2>3, Constants
      <4>2. Wrap(d + Lambda, Half) \in Word(Half)
        BY <4>1, WrapType, Constants
      <4> QED BY <4>2, Constants DEF Word
    <3>2. Wrap(d + Lambda, Half) % two_lambda \in Int
      BY <3>1, DivisionFacts, Constants
    <3>3. (Wrap(d + Lambda, Half) % two_lambda) - Lambda - d \in Int
      BY <3>2, <2>3, Constants
    <3>4. ModuloResidual(d) \in Word(Half)
      BY <3>3, WrapType, Constants DEF ModuloResidual
    <3> QED BY <3>4, Constants DEF Word
  <2>5. residual' \in Word(Half)
    <3>1. residual + ModuloResidual(d) \in Int
      BY <2>2, <2>4
    <3> QED BY <3>1, <2>1, WrapType, Constants
  <2> QED BY <2>5, Constants DEF Word
<1>4. reconstructed' \in Word(Half)
  <2>1. residual' \div two_lambda \in Int
    BY <1>3, DivisionFacts, Constants
  <2>2. (residual' \div two_lambda) * two_lambda \in Int
    BY <2>1, Constants
  <2>3. Rounded(residual') \in Int
    <3>1. Rounded(residual') \in Word(Half)
      BY <2>2, WrapType, Constants DEF Rounded
    <3> QED BY <3>1, Constants DEF Word
  <2>4. y + Rounded(residual') \in Int
    BY <1>1, <2>3
  <2>5. reconstructed' = Wrap(y + Rounded(residual'), Half)
    BY DEF Sample
  <2> QED BY <2>4, <2>5, WrapType, Constants
<1>5. Average(reconstructed') /\ signal' = g
  BY DEF Sample
<1> QED BY <1>2, <1>3, <1>4, <1>5, AverageType

LEMMA DacType ==
  ASSUME NEW s \in Word(Half)
  PROVE  Dac(s) \in 0..255
<1> DEFINE u == ((s \div DacShift) + dac_offset) % (2 * Half)
           clamped == IF u > vref THEN vref ELSE u
<1>1. DacShift \in Nat \ {0} /\ dac_offset \in Nat /\ vref \in Nat
      /\ dac_max_over_vref \in Nat /\ DacFraction \in Nat \ {0}
  BY ReconstructAssumption
<1>2. s \div DacShift \in Int
  <2>1. s \in Int
    BY Constants DEF Word
  <2> QED BY <1>1, <2>1, DivisionFacts
<1>3. u \in Int
  <2>1. (s \div DacShift) + dac_offset \in Int /\ 2 * Half \in Nat \ {0}
    BY <1>1, <1>2, Constants
  <2> QED BY <2>1, DivisionFacts
<1> HIDE DEF u
<1>4. clamped * dac_max_over_vref \in Int
  BY <1>1, <1>3
<1> DEFINE v == (clamped * dac_max_over_vref) \div DacFraction
<1>5. v \in Int
  BY <1>1, <1>4, DivisionFacts
<1>6. Dac(s) = v % 256
  BY DEF Dac, u
<1> HIDE DEF v
<1>7. v % 256 \in 0..255
  BY <1>5
<1> QED BY <1>6, <1>7

LEMMA ConvertedType ==
  ASSUME NEW x \in Word(Half), NEW mean \in Word(Half)
  PROVE  Converted(x, mean) \in Word(Half)
<1>1. one_over_a \in Nat /\ Fraction \in Nat \ {0}
  BY ReconstructAssumption
<1>2. x - mean \in Int
  BY Constants DEF Word
<1>3. Wrap(x - mean, Half) \in Int
  <2>1. Wrap(x - mean, Half) \in Word(Half)
    BY <1>2, WrapType, Constants
  <2> QED BY <2>1, Constants DEF Word
<1>4. Wrap(x - mean, Half) * one_over_a \in Int
  BY <1>1, <1>3
<1>5. (Wrap(x - mean, Half) * one_over_a) \div Fraction \in Int
  BY <1>1, <1>4, DivisionFacts
<1> QED BY <1>5, NarrowType, Constants DEF Converted

LEMMA InitType == Init => TypeOK
<1> SUFFICES ASSUME Init PROVE TypeOK
  OBVIOUS
<1>1. 0 \in Word(Half) /\ 0 \in Word(SumHalf) /\ 0 \in -MaxSignal..MaxSignal
  BY Constants DEF Word
<1>2. 0 \in 0..WINDOW_SIZE-1 /\ 0 \in 0..WINDOW_SIZE /\ 0 \in 0..255
  BY Constants
<1> QED BY <1>1, <1>2 DEF Init, TypeOK

LEMMA StepType == TypeOK /\ [Next]_vars => TypeOK'
<1> SUFFICES ASSUME TypeOK, [Next]_vars PROVE TypeOK'
  OBVIOUS
<1>1. CASE FirstSample
  <2>1. PICK g \in -MaxSignal..MaxSignal : Sample(g)
    BY <1>1 DEF FirstSample
  <2>2. base' = reconstructed' - signal' /\ dac_out' = dac_out /\ signal_in' = signal_in
    BY <1>1 DEF FirstSample
  <2>3. reconstructed' \in Int /\ signal' \in Int
    <3>1. reconstructed' \in Word(Half) /\ signal' \in -MaxSignal..MaxSignal
      BY <2>1, SampleType
    <3> QED BY <3>1, Constants DEF Word
  <2> QED BY <2>1, <2>2, <2>3, SampleType DEF TypeOK
<1>2. CASE NextSample
  <2>1. PICK g \in -MaxSignal..MaxSignal : Sample(g)
    BY <1>2 DEF NextSample
  <2>2. /\ signal_in' = Converted(reconstructed', out_avg) /\ dac_out' = Dac(signal_in')
        /\ base' = base
    BY <1>2 DEF NextSample
  <2>3. signal_in' \in Word(Half)
    BY <2>1, <2>2, SampleType, ConvertedType DEF TypeOK
  <2>4. dac_out' \in 0..255
    BY <2>2, <2>3, DacType
  <2> QED BY <2>1, <2>2, <2>3, <2>4, SampleType DEF TypeOK
<1>3. CASE UNCHANGED vars
  BY <1>3 DEF vars, avgvars, TypeOK
<1> QED BY <1>1, <1>2, <1>3 DEF Next

\* The datapath keeps its types: every register holds a word of its width.
THEOREM TypeCorrect == Spec => []TypeOK
BY InitType, StepType, PTL DEF Spec

-----------------------------------------------------------------------------
(* What accumulates.                                                       *)

LEMMA FoldsInRange ==
  ASSUME NEW g \in -MaxSignal..MaxSignal
  PROVE  /\ g - Fold(g) \in -(MaxSignal + Lambda) .. MaxSignal + Lambda
         /\ Fold(g) \in Int /\ g \in Int
<1>1. g \in Int
  BY Constants
<1>2. Fold(g) \in -Lambda .. Lambda - 1
  BY <1>1, FoldFacts
<1> QED BY <1>1, <1>2, Constants

\* A sample adds the modulo residual of the difference; if the result is whole
\* folds and leaves room, no word overflows and the rounding does nothing.
LEMMA SampleAdds ==
  ASSUME NEW g \in -MaxSignal..MaxSignal, Sample(g), prev_in \in Int, residual \in Int,
         NEW m \in Int,
         Fixed(Code(g)) - prev_in \in -(AdcOffset + Lambda) .. AdcOffset + Lambda,
         m = ModuloResidual(Fixed(Code(g)) - prev_in),
         residual + m \in -(Half - AdcOffset - Lambda) .. Half - 1 - AdcOffset - Lambda,
         (residual + m) % two_lambda = 0
  PROVE  /\ prev_in' = Fixed(Code(g)) /\ signal' = g
         /\ residual' = residual + m
         /\ reconstructed' = prev_in' + residual'
<1> DEFINE y == Fixed(Code(g))
           s == residual + m
<1>1. y \in 0 .. AdcOffset + Lambda - 1
  BY FoldsInRange, SampleFacts
<1>2. y - prev_in \in Word(Half)
  BY Constants DEF Word
<1>3. Wrap(y - prev_in, Half) = y - prev_in
  BY <1>2, WrapWord, Constants
<1>4. s \in Word(Half)
  BY Constants DEF Word
<1>5. residual' = s
  BY <1>3, <1>4, WrapWord, Constants DEF Sample
<1>6. Rounded(s) = s
  BY <1>4, RoundedWhole
<1> HIDE DEF s
<1>7. y + s \in Word(Half)
  <2>1. s \in -(Half - AdcOffset - Lambda) .. Half - 1 - AdcOffset - Lambda
    BY DEF s
  <2> QED BY <1>1, <2>1, Constants DEF Word
<1>8. reconstructed' = y + s
  BY <1>5, <1>6, <1>7, WrapWord, Constants DEF Sample
<1> QED BY <1>5, <1>8 DEF Sample, s

LEMMA FirstAccumulates ==
  ASSUME TypeOK, FoldsAccumulated, FirstSample
  PROVE  FoldsAccumulated'
<1>1. PICK g \in -MaxSignal..MaxSignal : Sample(g)
  BY DEF FirstSample
<1> DEFINE y == Fixed(Code(g))
           m == ModuloResidual(y)
<1>2. prev_in = 0 /\ residual = 0 /\ base' = reconstructed' - signal'
  BY DEF FirstSample, FoldsAccumulated
<1>3. /\ Fold(g) + AdcOffset - y \in 0..AdcGain-1 /\ y \in 0 .. AdcOffset + Lambda - 1
      /\ g - Fold(g) \in -(MaxSignal + Lambda) .. MaxSignal + Lambda
      /\ Fold(g) \in Int /\ g \in Int
  BY FoldsInRange, SampleFacts
<1>4. y \in -(AdcOffset + Lambda) .. AdcOffset + Lambda
  BY <1>3, Constants
<1>5. PICK q \in Int : m = two_lambda * q
  BY <1>4, ResidualFacts
<1>6. m + y \in -Lambda .. Lambda - 1
  BY <1>4, ResidualFacts
<1> HIDE DEF m
<1>7. m \in Int /\ m % two_lambda = 0
  BY <1>5, MultipleRemainder, Constants
<1>8. m \in -(AdcOffset + 2 * Lambda) .. Lambda
  BY <1>3, <1>6, <1>7, Constants
<1>9. y - prev_in = y /\ residual + m = m
  BY <1>2, <1>3, <1>7, Constants
<1>10. m \in -(Half - AdcOffset - Lambda) .. Half - 1 - AdcOffset - Lambda
  BY <1>8, Constants
<1>11. /\ prev_in' = y /\ signal' = g /\ residual' = m
       /\ reconstructed' = prev_in' + residual'
  <2>1. prev_in \in Int /\ residual \in Int
    BY <1>2
  <2>2. m = ModuloResidual(y - prev_in)
    BY <1>9 DEF m
  <2> QED BY <2>1, <2>2, <1>1, <1>4, <1>7, <1>9, <1>10, SampleAdds
<1>12. sample_count' > 0 /\ sample_count' # 0
  BY <1>1, SampleType DEF TypeOK
<1> HIDE DEF y
<1>13. residual' - (signal' - Fold(signal')) + AdcOffset - base' \in 0..AdcGain-1
  <2>1. base' = y + m - g
    BY <1>2, <1>3, <1>7, <1>11
  <2>2. y \in Int /\ Fold(g) + AdcOffset - y = m - (g - Fold(g)) + AdcOffset - (y + m - g)
    BY <1>3, <1>7, Constants
  <2>3. residual' - (signal' - Fold(signal')) = m - (g - Fold(g))
    BY <1>11
  <2> QED BY <1>3, <2>1, <2>2, <2>3
<1>14. residual' - (signal' - Fold(signal'))
         \in -(MaxSignal + AdcOffset + 3 * Lambda) .. MaxSignal + 2 * Lambda
  BY <1>3, <1>8, <1>11, Constants
<1>15. prev_in' = Fixed(Code(signal'))
  BY <1>11 DEF y
<1>16. residual' % two_lambda = 0
  BY <1>7, <1>11
<1> QED BY <1>11, <1>12, <1>13, <1>14, <1>15, <1>16 DEF FoldsAccumulated, Fold, Code

LEMMA NextAccumulates ==
  ASSUME TypeOK, FoldsAccumulated, NextSample
  PROVE  FoldsAccumulated'
<1>1. PICK step \in -MaxStep..MaxStep :
        signal + step \in -MaxSignal..MaxSignal /\ Sample(signal + step)
  BY DEF NextSample
<1> DEFINE g == signal + step
           f == signal - Fold(signal)
           h == g - Fold(g)
           d == Fixed(Code(g)) - prev_in
<1>2. /\ prev_in = Fixed(Code(signal)) /\ residual - f + AdcOffset - base \in 0..AdcGain-1
      /\ residual - f \in -(MaxSignal + AdcOffset + 3 * Lambda) .. MaxSignal + 2 * Lambda
      /\ residual % two_lambda = 0 /\ base' = base
  BY DEF NextSample, FoldsAccumulated
<1>3. signal \in Int /\ g \in Int /\ g - signal = step /\ residual \in Int /\ prev_in \in Int
      /\ base \in Int
  BY Constants DEF TypeOK, Word
<1>4. ModuloResidual(d) = h - f /\ d \in -(AdcOffset + Lambda) .. AdcOffset + Lambda
  BY <1>2, <1>3, ResidualIsFolds
<1>5. /\ h \in -(MaxSignal + Lambda) .. MaxSignal + Lambda
      /\ f \in -(MaxSignal + Lambda) .. MaxSignal + Lambda
  BY <1>1, FoldsInRange DEF TypeOK
<1>6. (residual + (h - f)) % two_lambda = 0
  <2>1. PICK i \in Int : signal = Fold(signal) + two_lambda * i
    BY <1>3, FoldFacts
  <2>2. PICK j \in Int : g = Fold(g) + two_lambda * j
    BY <1>3, FoldFacts
  <2> DEFINE p == residual \div two_lambda
  <2>3. p \in Int /\ residual = two_lambda * p + (residual % two_lambda)
    BY <1>3, DivisionFacts, Constants
  <2>4. Fold(signal) \in Int /\ Fold(g) \in Int
    BY <1>3, FoldFacts, Constants
  <2>5. /\ two_lambda * i \in Int /\ two_lambda * j \in Int /\ two_lambda * p \in Int
        /\ two_lambda * (p + j - i) = two_lambda * p + two_lambda * j - two_lambda * i
    <3> HIDE DEF p
    <3> QED BY <2>3, Constants
  <2>6. f = two_lambda * i
    BY <2>1, <2>4, <2>5, <1>3
  <2>7. h = two_lambda * j
    BY <2>2, <2>4, <2>5, <1>3
  <2> HIDE DEF p, f, h, g
  <2>8. residual = two_lambda * p
    BY <1>2, <2>3, <2>5
  <2>9. residual + (h - f) = two_lambda * (p + j - i)
    BY <2>5, <2>6, <2>7, <2>8
  <2> QED BY <2>3, <2>9, MultipleRemainder, Constants
<1> HIDE DEF f, h
<1>7. residual + (h - f) \in -(Half - AdcOffset - Lambda) .. Half - 1 - AdcOffset - Lambda
  BY <1>2, <1>3, <1>5, Constants
<1>8. h - f \in Int
  BY <1>5, Constants
<1>9. /\ prev_in' = Fixed(Code(g)) /\ signal' = g /\ residual' = residual + (h - f)
      /\ reconstructed' = prev_in' + residual'
  BY <1>1, <1>3, <1>4, <1>6, <1>7, <1>8, SampleAdds
<1>10. sample_count' > 0 /\ sample_count' # 0
  BY <1>1, SampleType DEF TypeOK
<1>11. residual' - h = residual - f
  BY <1>3, <1>5, <1>9, Constants
<1>12. signal' - Fold(signal') = h
  BY <1>9 DEF h
<1>13. residual' - (signal' - Fold(signal')) + AdcOffset - base' \in 0..AdcGain-1
  BY <1>2, <1>11, <1>12
<1>14. residual' - (signal' - Fold(signal'))
         \in -(MaxSignal + AdcOffset + 3 * Lambda) .. MaxSignal + 2 * Lambda
  BY <1>2, <1>11, <1>12
<1>15. residual' % two_lambda = 0 /\ prev_in' = Fixed(Code(signal'))
  BY <1>6, <1>9
<1> QED BY <1>9, <1>10, <1>13, <1>14, <1>15 DEF FoldsAccumulated, Fold, Code

LEMMA InitIInv == Init => IInv
<1> SUFFICES ASSUME Init PROVE IInv
  OBVIOUS
<1>1. sample_count = 0 /\ prev_in = 0 /\ residual = 0
  BY DEF Init
<1>2. 0 % two_lambda = 0
  <2>1. 0 \in 0..two_lambda - 1
    BY Constants
  <2> QED BY <2>1, SmallRemainder, Constants
<1> QED BY <1>1, <1>2, InitType DEF IInv, FoldsAccumulated

LEMMA StepIInv == IInv /\ [Next]_vars => IInv'
<1> SUFFICES ASSUME IInv, [Next]_vars PROVE IInv'
  OBVIOUS
<1>1. TypeOK /\ FoldsAccumulated /\ TypeOK'
  BY StepType DEF IInv
<1>2. CASE FirstSample
  BY <1>1, <1>2, FirstAccumulates DEF IInv
<1>3. CASE NextSample
  BY <1>1, <1>3, NextAccumulates DEF IInv
<1>4. CASE UNCHANGED vars
  BY <1>1, <1>4 DEF vars, avgvars, IInv, FoldsAccumulated, Fold, Code
<1> QED BY <1>2, <1>3, <1>4 DEF Next

LEMMA AlwaysIInv == Spec => []IInv
BY InitIInv, StepIInv, PTL DEF Spec

\* The accumulator holds a whole number of folds at every sample, so that the
\* division that rounds it down never moves the reconstruction.
THEOREM WholeFoldsHold == Spec => []WholeFolds
<1>1. IInv => WholeFolds
  BY RoundedWhole DEF IInv, TypeOK, FoldsAccumulated, WholeFolds
<1> QED BY <1>1, AlwaysIInv, PTL

\* Unlimited sensing: however often the signal folds, the reconstruction follows
\* it at one constant distance, to within the resolution of the ADC.
THEOREM TracksSignalHolds == Spec => []TracksSignal
<1>1. IInv => TracksSignal
  <2> SUFFICES ASSUME IInv, sample_count > 0
               PROVE  reconstructed - signal - base \in -(AdcGain - 1) .. AdcGain - 1
    BY DEF TracksSignal
  <2> DEFINE r == residual - (signal - Fold(signal)) + AdcOffset - base
             t == Fold(signal) + AdcOffset - prev_in
  <2>1. signal \in Int /\ residual \in Int /\ base \in Int /\ prev_in \in Int
    BY Constants DEF IInv, TypeOK, Word
  <2>2. r \in 0..AdcGain-1 /\ reconstructed = prev_in + residual
    BY DEF IInv, FoldsAccumulated
  <2>3. t \in 0..AdcGain-1
    BY <2>1, SampleFacts DEF IInv, FoldsAccumulated
  <2>4. Fold(signal) \in Int
    BY <2>1, FoldFacts, Constants
  <2>5. reconstructed - signal - base = r - t
    BY <2>1, <2>2, <2>4, Constants
  <2> HIDE DEF r, t
  <2> QED BY <2>2, <2>3, <2>5, Constants
<1> QED BY <1>1, AlwaysIInv, PTL

-----------------------------------------------------------------------------
(* The moving average.                                                     *)

\* A sample moves every total up by one place.
LEMMA TotalsMove ==
  ASSUME WindowInv, NEW x \in Word(Half), Average(x)
  PROVE  /\ totals'[0] = 0
         /\ \A i \in 1..WINDOW_SIZE : totals'[i] = x + totals[i - 1]
         /\ Past(1)' = x
         /\ \A i \in 1..WINDOW_SIZE-1 : Past(i + 1)' = Past(i)
<1>1. /\ totals \in [0..WINDOW_SIZE -> Int] /\ x \in Int /\ totals[0] = 0
  BY Constants DEF WindowInv, TypeOK, Word
<1>2. totals'[0] = 0 /\ \A i \in 1..WINDOW_SIZE : totals'[i] = x + totals[i - 1]
  <2>1. 0 \in 0..WINDOW_SIZE /\ \A i \in 1..WINDOW_SIZE : i \in 0..WINDOW_SIZE /\ i # 0
    BY Constants
  <2> QED BY <2>1 DEF Average
<1>3. Past(1)' = x
  <2>1. 1 \in 1..WINDOW_SIZE /\ 1 - 1 = 0
    BY Constants
  <2>2. totals'[1] = x + totals[0]
    BY <1>2, <2>1
  <2>3. Past(1)' = totals'[1] - totals'[0]
    BY <2>1 DEF Past
  <2> QED BY <1>1, <1>2, <2>2, <2>3
<1>4. ASSUME NEW i \in 1..WINDOW_SIZE-1 PROVE Past(i + 1)' = Past(i)
  <2>1. /\ i + 1 \in 1..WINDOW_SIZE /\ i \in 1..WINDOW_SIZE /\ i + 1 - 1 = i
        /\ i \in 0..WINDOW_SIZE /\ i - 1 \in 0..WINDOW_SIZE
    BY Constants
  <2>2. totals'[i + 1] = x + totals[i] /\ totals'[i] = x + totals[i - 1]
    BY <1>2, <2>1
  <2>3. Past(i + 1)' = totals'[i + 1] - totals'[i]
    BY <2>1 DEF Past
  <2>4. totals[i] \in Int /\ totals[i - 1] \in Int
    BY <1>1, <2>1
  <2> QED BY <1>1, <2>2, <2>3, <2>4 DEF Past
<1> QED BY <1>2, <1>3, <1>4

\* Each place of the buffer grows a sample older, but for the one written.
LEMMA AgesMove ==
  ASSUME TypeOK, index' = NextIndex, NEW j \in 0..WINDOW_SIZE-1
  PROVE  /\ j = index => Age(j) = WINDOW_SIZE /\ Age(j)' = 1
         /\ j # index => Age(j) \in 1..WINDOW_SIZE-1 /\ Age(j)' = Age(j) + 1
<1>1. index \in 0..WINDOW_SIZE-1 /\ WINDOW_SIZE \in Nat \ {0}
  BY Constants DEF TypeOK
<1>2. CASE index + 1 < WINDOW_SIZE
  <2>1. index + 1 \in 0..WINDOW_SIZE-1
    BY <1>1, <1>2
  <2>2. index' = index + 1
    BY <1>1, <2>1, SmallRemainder DEF NextIndex
  <2> QED BY <1>1, <1>2, <2>2 DEF Age
<1>3. CASE ~(index + 1 < WINDOW_SIZE)
  <2>1. index + 1 = WINDOW_SIZE /\ index = WINDOW_SIZE - 1
    BY <1>1, <1>3
  <2>2. WINDOW_SIZE % WINDOW_SIZE = 0
    <3>1. WINDOW_SIZE * 1 = WINDOW_SIZE
      BY <1>1
    <3> QED BY <1>1, <3>1, MultipleRemainder
  <2>3. index' = 0
    BY <2>1, <2>2 DEF NextIndex
  <2> QED BY <1>1, <2>1, <2>3 DEF Age
<1> QED BY <1>2, <1>3

\* What is taken off the sum is the oldest sample of a full window, and nothing
\* before: either way the sample WINDOW_SIZE ago.
LEMMA ReplacedIsOldest ==
  ASSUME WindowInv
  PROVE  Replaced = Past(WINDOW_SIZE)
<1>1. /\ index \in 0..WINDOW_SIZE-1 /\ sample_count \in 0..WINDOW_SIZE
      /\ totals \in [0..WINDOW_SIZE -> Int] /\ WINDOW_SIZE \in Nat \ {0}
  BY Constants DEF WindowInv, TypeOK
<1>2. CASE sample_count = WINDOW_SIZE
  <2>1. Age(index) = WINDOW_SIZE
    BY <1>1 DEF Age
  <2>2. buffer[index] = Past(Age(index))
    BY <1>1 DEF WindowInv
  <2> QED BY <1>2, <2>1, <2>2 DEF Replaced
<1>3. CASE sample_count # WINDOW_SIZE
  <2>1. WINDOW_SIZE \in sample_count..WINDOW_SIZE /\ WINDOW_SIZE - 1 \in sample_count..WINDOW_SIZE
    BY <1>1, <1>3
  <2>2. /\ totals[WINDOW_SIZE] = totals[sample_count]
        /\ totals[WINDOW_SIZE - 1] = totals[sample_count]
    BY <2>1 DEF WindowInv
  <2>3. totals[sample_count] \in Int
    BY <1>1
  <2>4. Past(WINDOW_SIZE) = 0
    BY <2>2, <2>3 DEF Past
  <2> QED BY <1>3, <2>4 DEF Replaced
<1> QED BY <1>2, <1>3

\* Bounds on the words of a window bound the totals.
LEMMA BoundsMove ==
  ASSUME WindowInv, NEW x \in Word(Half), Average(x)
  PROVE  TotalsBounded'
<1>1. /\ totals \in [0..WINDOW_SIZE -> Int] /\ x \in Int /\ WINDOW_SIZE \in Nat \ {0}
  BY Constants DEF WindowInv, TypeOK, Word
<1>2. /\ totals'[0] = 0
      /\ \A i \in 1..WINDOW_SIZE : totals'[i] = x + totals[i - 1]
      /\ Past(1)' = x
      /\ \A i \in 1..WINDOW_SIZE-1 : Past(i + 1)' = Past(i)
  BY TotalsMove
<1>3. ASSUME NEW i \in 0..WINDOW_SIZE, NEW b \in -Half-1 .. Half
      PROVE  /\ (\A j \in 1..i : b <= Past(j)') => i * b <= totals'[i]
             /\ (\A j \in 1..i : Past(j)' <= b) => totals'[i] <= i * b
  <2>0. b \in Int
    BY Constants
  <2>1. CASE i = 0
    BY <2>0, <2>1, <1>2
  <2>2. CASE i # 0
    <3> DEFINE k == i - 1
    <3>1. k \in 0..WINDOW_SIZE /\ i \in 1..WINDOW_SIZE /\ i = k + 1 /\ 1 \in 1..i
      BY <1>1, <2>2
    <3>2. \A j \in 1..k : j \in 1..WINDOW_SIZE-1 /\ j + 1 \in 1..i
      BY <1>1, <3>1
    <3>3. /\ (\A j \in 1..k : b <= Past(j)) => k * b <= totals[k]
          /\ (\A j \in 1..k : Past(j) <= b) => totals[k] <= k * b
      BY <3>1 DEF WindowInv, TotalsBounded
    <3>4. totals'[i] = x + totals[k] /\ totals[k] \in Int
      BY <1>1, <1>2, <3>1
    <3> HIDE DEF k
    <3> DEFINE p == k * b
    <3>5. p \in Int /\ i * b = p + b
      BY <2>0, <3>1
    <3>6. \A j \in 1..k : Past(j + 1)' = Past(j)
      BY <1>2, <3>2
    <3>7. ASSUME \A j \in 1..i : b <= Past(j)' PROVE i * b <= totals'[i]
      <4>1. \A j \in 1..k : b <= Past(j)
        BY <3>2, <3>6, <3>7
      <4>2. b <= x
        BY <1>2, <3>1, <3>7
      <4>3. p <= totals[k]
        BY <3>3, <4>1
      <4> HIDE DEF p
      <4> QED BY <1>1, <2>0, <3>4, <3>5, <4>2, <4>3
    <3>8. ASSUME \A j \in 1..i : Past(j)' <= b PROVE totals'[i] <= i * b
      <4>1. \A j \in 1..k : Past(j) <= b
        BY <3>2, <3>6, <3>8
      <4>2. x <= b
        BY <1>2, <3>1, <3>8
      <4>3. totals[k] <= p
        BY <3>3, <4>1
      <4> HIDE DEF p
      <4> QED BY <1>1, <2>0, <3>4, <3>5, <4>2, <4>3
    <3> QED BY <3>7, <3>8
  <2> QED BY <2>1, <2>2
<1> QED BY <1>3 DEF TotalsBounded

\* The total of a window of words is a word of the sum.
LEMMA TotalFits ==
  ASSUME NEW t \in Int, WINDOW_SIZE * (-Half) <= t, t <= WINDOW_SIZE * (Half - 1)
  PROVE  t \in Word(SumHalf)
<1> DEFINE p == WINDOW_SIZE * Half
<1>1. WINDOW_SIZE \in Nat \ {0} /\ Half \in Nat \ {0} /\ SumHalf \in Nat \ {0}
  BY Constants
<1>2. /\ WINDOW_SIZE * (-Half) = -p /\ WINDOW_SIZE * (Half - 1) = p - WINDOW_SIZE
      /\ p \in Int
  BY <1>1
<1>3. p <= SumHalf
  BY SumAssumption
<1> HIDE DEF p
<1> QED BY <1>1, <1>2, <1>3 DEF Word

\* The sum stays the total of the window, without a carry out of its word.
LEMMA SumMoves ==
  ASSUME WindowInv, NEW x \in Word(Half), Average(x)
  PROVE  /\ sum' = totals'[WINDOW_SIZE]
         /\ \A i \in 1..WINDOW_SIZE : Past(i)' \in Word(Half)
<1>1. /\ totals \in [0..WINDOW_SIZE -> Int] /\ x \in Int /\ WINDOW_SIZE \in Nat \ {0}
      /\ sum = totals[WINDOW_SIZE]
  BY Constants DEF WindowInv, WindowSum, TypeOK, Word
<1>2. /\ \A i \in 1..WINDOW_SIZE : totals'[i] = x + totals[i - 1]
      /\ Past(1)' = x
      /\ \A i \in 1..WINDOW_SIZE-1 : Past(i + 1)' = Past(i)
  BY TotalsMove
<1>3. ASSUME NEW i \in 1..WINDOW_SIZE PROVE Past(i)' \in Word(Half)
  <2>1. CASE i = 1
    BY <2>1, <1>2
  <2>2. CASE i # 1
    <3>1. i - 1 \in 1..WINDOW_SIZE-1 /\ i - 1 \in 1..WINDOW_SIZE /\ i - 1 + 1 = i
      BY <1>1, <2>2
    <3>2. Past(i - 1) \in Word(Half)
      BY <3>1 DEF WindowInv
    <3>3. Past(i - 1 + 1)' = Past(i - 1)
      BY <1>2, <3>1
    <3>4. Past(i - 1 + 1)' = Past(i)'
      BY <3>1
    <3> QED BY <3>2, <3>3, <3>4
  <2> QED BY <2>1, <2>2
<1>4. Replaced = totals[WINDOW_SIZE] - totals[WINDOW_SIZE - 1]
  BY ReplacedIsOldest DEF Past
<1>5. /\ WINDOW_SIZE \in 0..WINDOW_SIZE /\ WINDOW_SIZE - 1 \in 0..WINDOW_SIZE
      /\ WINDOW_SIZE \in 1..WINDOW_SIZE
  BY <1>1
<1>6. /\ totals[WINDOW_SIZE] \in Int /\ totals[WINDOW_SIZE - 1] \in Int
      /\ totals'[WINDOW_SIZE] = x + totals[WINDOW_SIZE - 1]
  BY <1>1, <1>2, <1>5
<1>7. sum + x - Replaced = totals'[WINDOW_SIZE]
  BY <1>1, <1>4, <1>6
<1>8. totals'[WINDOW_SIZE] \in Int
  BY <1>1, <1>6
<1>9. TotalsBounded'
  BY BoundsMove
<1>10. totals'[WINDOW_SIZE] \in Word(SumHalf)
  <2>1. -Half \in -Half-1 .. Half /\ Half - 1 \in -Half-1 .. Half
    BY Constants
  <2>2. \A i \in 1..WINDOW_SIZE : -Half <= Past(i)' /\ Past(i)' <= Half - 1
    BY <1>3, Constants DEF Word
  <2>3. WINDOW_SIZE * (-Half) <= totals'[WINDOW_SIZE]
    BY <1>5, <1>9, <2>1, <2>2 DEF TotalsBounded
  <2>4. totals'[WINDOW_SIZE] <= WINDOW_SIZE * (Half - 1)
    BY <1>5, <1>9, <2>1, <2>2 DEF TotalsBounded
  <2> QED BY <1>8, <2>3, <2>4, TotalFits
<1>11. sum' = Wrap(totals'[WINDOW_SIZE], SumHalf)
  BY <1>7 DEF Average
<1> QED BY <1>3, <1>10, <1>11, WrapWord, Constants

\* A sample keeps the window.
LEMMA AverageWindow ==
  ASSUME WindowInv, NEW x \in Word(Half), Average(x), TypeOK'
  PROVE  WindowInv'
<1>1. /\ totals \in [0..WINDOW_SIZE -> Int] /\ x \in Int /\ WINDOW_SIZE \in Nat \ {0}
      /\ sample_count \in 0..WINDOW_SIZE /\ index \in 0..WINDOW_SIZE-1 /\ TypeOK
      /\ buffer \in [0..WINDOW_SIZE-1 -> Word(Half)]
  <2>1. TypeOK
    BY DEF WindowInv
  <2>2. x \in Int
    BY Constants DEF Word
  <2> QED BY <2>1, <2>2, Constants DEF TypeOK
<1>2. /\ totals'[0] = 0
      /\ \A i \in 1..WINDOW_SIZE : totals'[i] = x + totals[i - 1]
      /\ Past(1)' = x
      /\ \A i \in 1..WINDOW_SIZE-1 : Past(i + 1)' = Past(i)
  BY TotalsMove
<1>3. sum' = totals'[WINDOW_SIZE] /\ \A i \in 1..WINDOW_SIZE : Past(i)' \in Word(Half)
  BY SumMoves
<1>4. ASSUME NEW j \in 0..WINDOW_SIZE-1 PROVE buffer'[j] = Past(Age(j))'
  <2>1. buffer' = [buffer EXCEPT ![index] = x] /\ index' = NextIndex
    BY DEF Average
  <2>2. CASE j = index
    <3>1. Age(j)' = 1
      BY <1>1, <2>1, <2>2, AgesMove
    <3>2. Past(Age(j))' = Past(1)'
      BY <3>1 DEF Past
    <3>3. buffer'[j] = x
      BY <1>1, <2>1, <2>2
    <3> QED BY <1>2, <3>2, <3>3
  <2>3. CASE j # index
    <3>1. Age(j) \in 1..WINDOW_SIZE-1 /\ Age(j)' = Age(j) + 1
      BY <1>1, <2>1, <2>3, AgesMove
    <3>2. PICK k \in 1..WINDOW_SIZE-1 : k = Age(j)
      BY <3>1
    <3>3. Past(Age(j))' = Past(k + 1)'
      BY <3>1, <3>2 DEF Past
    <3>4. buffer[j] = Past(k)
      BY <3>2 DEF WindowInv
    <3>5. buffer'[j] = buffer[j]
      BY <1>1, <2>1, <2>3
    <3> QED BY <1>2, <3>3, <3>4, <3>5
  <2> QED BY <2>2, <2>3
<1>5. ASSUME NEW i \in sample_count'..WINDOW_SIZE
      PROVE  totals'[i] = totals'[sample_count']
  <2>1. sample_count' = IF sample_count < WINDOW_SIZE THEN sample_count + 1 ELSE sample_count
    BY DEF Average
  <2>2. CASE sample_count < WINDOW_SIZE
    <3>1. /\ sample_count' = sample_count + 1 /\ sample_count' \in 1..WINDOW_SIZE
          /\ i \in 1..WINDOW_SIZE /\ i - 1 \in sample_count..WINDOW_SIZE
      BY <1>1, <2>1, <2>2
    <3>2. totals[i - 1] = totals[sample_count]
      BY <3>1 DEF WindowInv
    <3>3. totals'[i] = x + totals[i - 1]
      BY <1>2, <3>1
    <3>4. totals'[sample_count'] = x + totals[sample_count' - 1] /\ sample_count' - 1 = sample_count
      BY <1>1, <1>2, <3>1
    <3> QED BY <3>2, <3>3, <3>4
  <2>3. CASE ~(sample_count < WINDOW_SIZE)
    BY <1>1, <2>1, <2>3
  <2> QED BY <2>2, <2>3
<1>6. TotalsBounded'
  BY BoundsMove
<1>7. out_avg' = Mean(sum', sample_count')
  BY DEF Average
<1>8. WindowSum'
  BY <1>3 DEF WindowSum
<1>9. (sample_count > 0 => out_avg = Mean(sum, sample_count))'
  BY <1>7 DEF Mean
<1> QED BY <1>2, <1>3, <1>4, <1>5, <1>6, <1>8, <1>9 DEF WindowInv

LEMMA InitWindow == Init => WindowInv
<1> SUFFICES ASSUME Init PROVE WindowInv
  OBVIOUS
<1>1. /\ WINDOW_SIZE \in Nat \ {0} /\ Half \in Nat \ {0}
      /\ totals = [i \in 0..WINDOW_SIZE |-> 0] /\ sample_count = 0 /\ sum = 0 /\ index = 0
      /\ buffer = [i \in 0..WINDOW_SIZE-1 |-> 0]
  BY Constants DEF Init
<1>2. \A i \in 0..WINDOW_SIZE : totals[i] = 0
  BY <1>1
<1>3. \A i \in 1..WINDOW_SIZE : i \in 0..WINDOW_SIZE /\ i - 1 \in 0..WINDOW_SIZE
  BY <1>1
<1>4. \A i \in 1..WINDOW_SIZE : Past(i) = 0
  BY <1>2, <1>3 DEF Past
<1>5. 0 \in Word(Half)
  BY <1>1 DEF Word
<1>6. ASSUME NEW j \in 0..WINDOW_SIZE-1 PROVE buffer[j] = Past(Age(j))
  <2>1. Age(j) \in 1..WINDOW_SIZE
    BY <1>1 DEF Age
  <2> QED BY <1>1, <1>4, <2>1
<1>7. 0 \in 0..WINDOW_SIZE /\ WINDOW_SIZE \in 0..WINDOW_SIZE
  BY <1>1
<1>8. WindowSum
  BY <1>1, <1>2, <1>7 DEF WindowSum
<1>9. TotalsBounded
  <2> SUFFICES ASSUME NEW i \in 0..WINDOW_SIZE, NEW b \in -Half-1 .. Half
               PROVE  /\ (\A j \in 1..i : b <= Past(j)) => i * b <= totals[i]
                      /\ (\A j \in 1..i : Past(j) <= b) => totals[i] <= i * b
    BY DEF TotalsBounded
  <2>1. totals[i] = 0 /\ b \in Int /\ i \in Nat
    BY <1>1, <1>2
  <2>2. CASE i = 0
    BY <2>1, <2>2
  <2>3. CASE i # 0
    <3>1. 1 \in 1..i /\ Past(1) = 0
      BY <1>1, <1>4, <2>1, <2>3
    <3>2. b <= 0 => i * b <= 0
      BY <2>1
    <3>3. b >= 0 => i * b >= 0
      BY <2>1
    <3> QED BY <2>1, <3>1, <3>2, <3>3
  <2> QED BY <2>2, <2>3
<1>10. \A i \in sample_count..WINDOW_SIZE : totals[i] = totals[sample_count]
  BY <1>1, <1>2, <1>7
<1>11. totals[0] = 0 /\ ~(sample_count > 0)
  BY <1>1, <1>2, <1>7
<1> QED BY <1>4, <1>5, <1>6, <1>8, <1>9, <1>10, <1>11, InitType DEF WindowInv

LEMMA StepWindow == WindowInv /\ [Next]_vars => WindowInv'
<1> SUFFICES ASSUME WindowInv, [Next]_vars PROVE WindowInv'
  OBVIOUS
<1>1. TypeOK /\ TypeOK'
  BY StepType DEF WindowInv
<1>2. CASE Next
  <2>1. PICK g : Sample(g)
    BY <1>2 DEF Next, FirstSample, NextSample
  <2>2. PICK x \in Word(Half) : x = reconstructed'
    BY <1>1 DEF TypeOK
  <2>3. Average(x)
    BY <2>1, <2>2 DEF Sample, Average
  <2> QED BY <1>1, <2>3, AverageWindow
<1>3. CASE UNCHANGED vars
  <2>1. /\ totals' = totals /\ buffer' = buffer /\ index' = index
        /\ sample_count' = sample_count /\ sum' = sum /\ out_avg' = out_avg
    BY <1>3 DEF vars, avgvars
  <2> QED BY <1>1, <2>1 DEF WindowInv, WindowSum, TotalsBounded, Past, Age
<1> QED BY <1>2, <1>3

LEMMA AlwaysWindow == Spec => []WindowInv
BY InitWindow, StepWindow, PTL DEF Spec

\* The running sum is the total of the last WINDOW_SIZE reconstructions, whatever
\* has been added to it and taken off it since the start: nothing is lost to the
\* order of its updates, to the index that wraps or to the width of its word.
THEOREM WindowSumHolds == Spec => []WindowSum
<1>1. WindowInv => WindowSum
  BY DEF WindowInv
<1> QED BY <1>1, AlwaysWindow, PTL

\* A word keeps its value when it is narrowed to its own width.
LEMMA NarrowWord ==
  ASSUME NEW h \in Nat \ {0}, NEW x \in Word(h)
  PROVE  Narrow(x, h) = x
<1>1. x \in Int /\ -h <= x /\ x <= h - 1
  BY DEF Word
<1>2. CASE x >= 0
  <2>1. x \in 0..h-1
    BY <1>1, <1>2
  <2>2. x % h = x
    BY <2>1, SmallRemainder
  <2> QED BY <1>1, <1>2, <2>2 DEF Narrow
<1>3. CASE x < 0
  <2> DEFINE q == x \div h
             r == x % h
  <2>1. q \in Int /\ r \in 0..h-1 /\ x = h * q + r
    BY <1>1, DivisionFacts
  <2>2. Narrow(x, h) = r - h
    BY <1>3 DEF Narrow
  <2> HIDE DEF q, r
  <2>3. h * (q + 1) = h * q + h /\ h * q \in Int
    BY <2>1
  <2>4. h * (q + 1) = x - r + h
    BY <1>1, <2>1, <2>3
  <2>5. x - r + h < h /\ -h < x - r + h
    BY <1>1, <1>3, <2>1
  <2>6. q + 1 = 0
    BY <2>1, <2>4, <2>5, OneMultiple
  <2> QED BY <1>1, <2>1, <2>2, <2>4, <2>6
<1> QED BY <1>1, <1>2, <1>3

\* A quotient keeps the side of a bound that the dividend has of its multiple.
LEMMA QuotientBounds ==
  ASSUME NEW c \in Nat \ {0}, NEW s \in Int, NEW b \in Int
  PROVE  /\ c * b <= s => b <= s \div c
         /\ s <= c * b => s \div c <= b
<1> DEFINE q == s \div c
           r == s % c
<1>1. q \in Int /\ r \in 0..c-1 /\ s = c * q + r
  BY DivisionFacts
<1> HIDE DEF q, r
<1>2. c * q \in Int /\ c * b \in Int
  BY <1>1
<1>3. ASSUME c * b <= s, q < b PROVE FALSE
  <2>1. c * (b - q - 1) >= 0
    BY <1>1, <1>3
  <2>2. c * (b - q - 1) = c * b - c * q - c
    BY <1>1
  <2> QED BY <1>1, <1>2, <1>3, <2>1, <2>2
<1>4. ASSUME s <= c * b, q > b PROVE FALSE
  <2>1. c * (q - b - 1) >= 0
    BY <1>1, <1>4
  <2>2. c * (q - b - 1) = c * q - c * b - c
    BY <1>1
  <2> QED BY <1>1, <1>2, <1>4, <2>1, <2>2
<1>5. (c * b <= s => b <= q) /\ (s <= c * b => q <= b)
  BY <1>1, <1>3, <1>4
<1> QED BY <1>5 DEF q

\* The mean that comes out lies between the least and the greatest of the samples
\* it is of: the division rounds towards a sample, and the narrowing to a word
\* changes nothing.
THEOREM MeanWithinHolds == Spec => []MeanWithin
<1>1. WindowInv => MeanWithin
  <2> SUFFICES ASSUME WindowInv, sample_count > 0
               PROVE  \E i, j \in 1..sample_count : Past(i) <= out_avg /\ out_avg <= Past(j)
    BY DEF MeanWithin
  <2> DEFINE q == sum \div sample_count
  <2>1. /\ sample_count \in 1..WINDOW_SIZE /\ sample_count \in Nat \ {0} /\ sum \in Int
        /\ sample_count \in 0..WINDOW_SIZE /\ WINDOW_SIZE \in sample_count..WINDOW_SIZE
    BY Constants DEF WindowInv, TypeOK, Word
  <2>2. sum = totals[sample_count]
    BY <2>1 DEF WindowInv, WindowSum
  <2>3. \A i \in 1..sample_count : Past(i) \in Int /\ -Half <= Past(i) /\ Past(i) <= Half - 1
    <3>1. \A i \in 1..sample_count : i \in 1..WINDOW_SIZE
      BY <2>1
    <3>2. \A i \in 1..WINDOW_SIZE : Past(i) \in Word(Half)
      BY DEF WindowInv
    <3> QED BY <3>1, <3>2, Constants DEF Word
  <2>4. ASSUME NEW b \in -Half-1 .. Half
        PROVE  /\ (\A j \in 1..sample_count : b <= Past(j)) => b <= q
               /\ (\A j \in 1..sample_count : Past(j) <= b) => q <= b
    <3>1. /\ (\A j \in 1..sample_count : b <= Past(j)) => sample_count * b <= sum
          /\ (\A j \in 1..sample_count : Past(j) <= b) => sum <= sample_count * b
      BY <2>1, <2>2 DEF WindowInv, TotalsBounded
    <3>2. b \in Int
      BY Constants
    <3> QED BY <2>1, <3>1, <3>2, QuotientBounds
  <2>5. q \in Int
    BY <2>1, DivisionFacts
  <2>6. out_avg = Narrow(q, Half)
    BY DEF WindowInv, Mean
  <2> HIDE DEF q
  <2>7. q \in Word(Half) /\ q + 1 \in -Half-1 .. Half /\ q - 1 \in -Half-1 .. Half
    <3>1. -Half \in -Half-1 .. Half /\ Half - 1 \in -Half-1 .. Half
      BY Constants
    <3>2. -Half <= q /\ q <= Half - 1
      BY <2>3, <2>4, <3>1
    <3> QED BY <2>5, <3>2, Constants DEF Word
  <2>8. out_avg = q
    BY <2>6, <2>7, NarrowWord, Constants
  <2>9. \E i \in 1..sample_count : Past(i) <= q
    <3>1. SUFFICES ASSUME \A i \in 1..sample_count : ~(Past(i) <= q) PROVE FALSE
      OBVIOUS
    <3>2. \A i \in 1..sample_count : q + 1 <= Past(i)
      BY <2>3, <2>5, <3>1
    <3>3. q + 1 <= q
      BY <2>4, <2>7, <3>2
    <3> QED BY <2>5, <3>3
  <2>10. \E j \in 1..sample_count : q <= Past(j)
    <3>1. SUFFICES ASSUME \A j \in 1..sample_count : ~(q <= Past(j)) PROVE FALSE
      OBVIOUS
    <3>2. \A j \in 1..sample_count : Past(j) <= q - 1
      BY <2>3, <2>5, <3>1
    <3>3. q <= q - 1
      BY <2>4, <2>7, <3>2
    <3> QED BY <2>5, <3>3
  <2> QED BY <2>8, <2>9, <2>10
<1> QED BY <1>1, AlwaysWindow, PTL

-----------------------------------------------------------------------------
(* The reference model: arithmetic.                                        *)

LEMMA ModelConstants ==
  /\ lam \in Nat \ {0} /\ two_lam \in Nat \ {0} /\ two_lam = 2 * lam
  /\ MA_WINDOW_SIZE \in Nat \ {0} /\ a \in Nat \ {0}
  /\ DAC_MAX_VALUE \in Nat /\ V_REF \in Nat \ {0} /\ OFFSET \in Nat
  /\ AdcBias \in Nat /\ MaxRise \in Nat /\ MaxVoltage \in Nat
BY ModelAssumption DEF two_lam

\* The orders, and how slow the signal is for each of them.
LEMMA OrderCases ==
  ASSUME order \in Orders
  PROVE  /\ order \in Nat /\ order \in 1..3
         /\ order = 1 => MaxRise < lam
         /\ order = 2 => 2 * MaxRise < lam
         /\ order = 3 => 4 * MaxRise < lam
         /\ order > 1 => MaxRise * MA_WINDOW_SIZE <= two_lam /\ MA_WINDOW_SIZE > 4
<1>1. order \in 1..3
  BY ModelAssumption DEF MaxOrder
<1>2. MaxRise * Doublings[order] < lam /\ MaxRise \in Nat
  BY RiseAssumption, ModelConstants
<1>3. Doublings[1] = 1 /\ Doublings[2] = 2 /\ Doublings[3] = 4
  BY DEF Doublings
<1>4. order = 1 => MaxRise < lam
  BY <1>2, <1>3
<1>5. order = 2 => 2 * MaxRise < lam
  BY <1>2, <1>3
<1>6. order = 3 => 4 * MaxRise < lam
  BY <1>2, <1>3
<1> QED BY <1>1, <1>4, <1>5, <1>6, WindowAssumption

\* The quotient is the only one that leaves a remainder in range.
LEMMA QuotientIs ==
  ASSUME NEW D \in Nat \ {0}, NEW y \in Int, NEW r \in 0..D-1, NEW x, x = D * y + r
  PROVE  x \div D = y /\ x % D = r
<1>1. D * y \in Int /\ x \in Int
  OBVIOUS
<1> DEFINE q == x \div D
           s == x % D
<1>2. q \in Int /\ s \in 0..D-1 /\ x = D * q + s
  BY <1>1, DivisionFacts
<1> HIDE DEF q, s
<1>3. D * (q - y) = D * q - D * y /\ D * q \in Int
  BY <1>2
<1>4. D * (q - y) = r - s
  BY <1>1, <1>2, <1>3
<1>5. q - y = 0
  BY <1>2, <1>4, OneMultiple
<1>6. q = y /\ s = r
  BY <1>2, <1>4, <1>5
<1> QED BY <1>6 DEF q, s

\* A whole number of folds.
Whole(x) == \E q \in Int : x = two_lam * q

LEMMA WholeFacts ==
  /\ \A x : Whole(x) => x \in Int /\ x % two_lam = 0
  /\ \A x \in Int : x % two_lam = 0 => Whole(x)
  /\ \A x, y : Whole(x) /\ Whole(y) => Whole(x + y) /\ Whole(x - y)
  /\ Whole(0)
<1>1. ASSUME NEW x, Whole(x) PROVE x \in Int /\ x % two_lam = 0
  <2>1. PICK q \in Int : x = two_lam * q
    BY <1>1 DEF Whole
  <2>2. two_lam * q \in Int /\ (two_lam * q) % two_lam = 0
    BY ModelConstants, MultipleRemainder
  <2> QED BY <2>1, <2>2
<1>2. ASSUME NEW x \in Int, x % two_lam = 0 PROVE Whole(x)
  <2>1. x \div two_lam \in Int /\ x = two_lam * (x \div two_lam) + (x % two_lam)
    BY ModelConstants, DivisionFacts
  <2>2. two_lam * (x \div two_lam) \in Int
    BY <2>1, ModelConstants
  <2>3. x = two_lam * (x \div two_lam)
    BY <1>2, <2>1, <2>2
  <2> QED BY <2>1, <2>3 DEF Whole
<1>3. ASSUME NEW x, NEW y, Whole(x), Whole(y) PROVE Whole(x + y) /\ Whole(x - y)
  <2>1. PICK i \in Int : x = two_lam * i
    BY <1>3 DEF Whole
  <2>2. PICK j \in Int : y = two_lam * j
    BY <1>3 DEF Whole
  <2>3. two_lam * (i + j) = x + y /\ two_lam * (i - j) = x - y /\ i + j \in Int /\ i - j \in Int
    BY <2>1, <2>2, ModelConstants
  <2> QED BY <2>3 DEF Whole
<1>4. Whole(0)
  <2>1. 0 = two_lam * 0
    BY ModelConstants
  <2> QED BY <2>1 DEF Whole
<1> QED BY <1>1, <1>2, <1>3, <1>4

\* A whole number of folds that is less than two is one at most.
LEMMA OneFold ==
  ASSUME NEW x, Whole(x), -(2 * two_lam) < x, x < 2 * two_lam
  PROVE  x \in -two_lam..two_lam
<1>1. PICK q \in Int : x = two_lam * q
  BY DEF Whole
<1>2. CASE q >= 2
  <2>1. two_lam * q >= two_lam * 2
    BY <1>2, ModelConstants
  <2> QED BY <1>1, <2>1, ModelConstants
<1>3. CASE q <= -2
  <2>1. two_lam * q <= two_lam * (-2)
    BY <1>3, ModelConstants
  <2> QED BY <1>1, <2>1, ModelConstants
<1>4. CASE q \in {-1, 0, 1}
  BY <1>1, <1>4, ModelConstants
<1> QED BY <1>2, <1>3, <1>4

\* Rounding finds the whole number of folds that is less than half a fold away.
LEMMA RoundedNear ==
  ASSUME NEW q \in Nat \ {0}, NEW x, Whole(x), NEW e \in Int,
         -(q * two_lam) < 2 * e, 2 * e < q * two_lam, NEW p, p = q * x + e
  PROVE  RoundToFolds(p, q) = x
<1> DEFINE half == q * two_lam
<1>1. PICK y \in Int : x = two_lam * y
  BY DEF Whole
<1>2. half \in Nat \ {0} /\ 2 * q * two_lam = 2 * half /\ q * x = half * y
      /\ x \in Int /\ q * x \in Int /\ p \in Int /\ x = y * two_lam
  BY <1>1, ModelConstants
<1>3. CASE p < 0
  <2>1. RoundToFolds(p, q) = -(((2 * (-p) + half) \div (2 * half)) * two_lam)
    BY <1>2, <1>3 DEF RoundToFolds
  <2> HIDE DEF half
  <2>2. (2 * half) * (-y) = -2 * (half * y) /\ half * y \in Int
    BY <1>2
  <2>3. 2 * (-p) + half = (2 * half) * (-y) + (half - 2 * e)
    BY <1>2, <2>2
  <2>4. half - 2 * e \in 0 .. 2 * half - 1
    BY <1>2 DEF half
  <2>5. (2 * (-p) + half) \div (2 * half) = -y
    <3> DEFINE D == 2 * half
               r == half - 2 * e
               n == 2 * (-p) + half
               z == -y
    <3>1. D \in Nat \ {0} /\ z \in Int /\ r \in 0..D-1 /\ n = D * z + r
      BY <1>2, <2>3, <2>4
    <3> HIDE DEF D, r, n, z
    <3>2. n \div D = z
      BY <3>1, QuotientIs
    <3> QED BY <3>2 DEF D, n, z
  <2>6. -((-y) * two_lam) = y * two_lam
    BY ModelConstants
  <2> QED BY <1>2, <2>1, <2>5, <2>6
<1>4. CASE ~(p < 0)
  <2>1. RoundToFolds(p, q) = ((2 * p + half) \div (2 * half)) * two_lam
    BY <1>2, <1>4 DEF RoundToFolds
  <2> HIDE DEF half
  <2>2. (2 * half) * y = 2 * (half * y) /\ half * y \in Int
    BY <1>2
  <2>3. 2 * p + half = (2 * half) * y + (half + 2 * e)
    BY <1>2, <2>2
  <2>4. half + 2 * e \in 0 .. 2 * half - 1
    BY <1>2 DEF half
  <2>5. (2 * p + half) \div (2 * half) = y
    <3> DEFINE D == 2 * half
               r == half + 2 * e
               n == 2 * p + half
    <3>1. D \in Nat \ {0} /\ r \in 0..D-1 /\ n = D * y + r
      BY <1>2, <2>3, <2>4
    <3> HIDE DEF D, r, n
    <3>2. n \div D = y
      BY <3>1, QuotientIs
    <3> QED BY <3>2 DEF D, n
  <2> QED BY <1>2, <2>1, <2>5
<1> QED BY <1>3, <1>4

\* What it finds is a whole number of folds in any case.
LEMMA RoundedWholeFolds ==
  ASSUME NEW q \in Nat \ {0}, NEW p \in Int
  PROVE  Whole(RoundToFolds(p, q))
<1> DEFINE size == IF p < 0 THEN -p ELSE p
           y == (2 * size + q * two_lam) \div (2 * q * two_lam)
<1>1. q * two_lam \in Nat \ {0} /\ 2 * q * two_lam \in Nat \ {0} /\ size \in Int
  BY ModelConstants
<1>2. y \in Int
  <2>1. 2 * size + q * two_lam \in Int
    BY <1>1
  <2> QED BY <1>1, <2>1, DivisionFacts
<1>3. RoundToFolds(p, q) = IF p < 0 THEN -(y * two_lam) ELSE y * two_lam
  BY DEF RoundToFolds
<1> HIDE DEF y
<1>4. -(y * two_lam) = two_lam * (-y) /\ y * two_lam = two_lam * y /\ -y \in Int
  BY <1>2, ModelConstants
<1> QED BY <1>2, <1>3, <1>4 DEF Whole

\* The modulo residual is a whole number of folds, and if the folds d bring the
\* difference x below the threshold it is d.
LEMMA ModuloFacts ==
  ASSUME NEW x \in Int
  PROVE  /\ Whole(modulo(x) - x)
         /\ \A d : Whole(d) /\ x + d \in -lam .. lam - 1 => modulo(x) - x = d
<1> DEFINE y == (x + lam) \div two_lam
           r == (x + lam) % two_lam
<1>1. y \in Int /\ r \in 0..two_lam-1 /\ x + lam = two_lam * y + r
  <2>1. x + lam \in Int
    BY ModelConstants
  <2> QED BY <2>1, ModelConstants, DivisionFacts
<1>2. modulo(x) = r - lam
  BY DEF modulo
<1> HIDE DEF y, r
<1>3. two_lam * (-y) = -(two_lam * y) /\ two_lam * y \in Int /\ -y \in Int
  BY <1>1, ModelConstants
<1>4. modulo(x) - x = two_lam * (-y)
  BY <1>1, <1>2, <1>3, ModelConstants
<1>5. ASSUME NEW d, Whole(d), x + d \in -lam .. lam - 1 PROVE modulo(x) - x = d
  <2>1. PICK z \in Int : d = two_lam * z
    BY <1>5 DEF Whole
  <2>2. d \in Int /\ two_lam * (y + z) = two_lam * y + d
    BY <1>1, <2>1, ModelConstants
  <2>3. two_lam * (y + z) = (x + d + lam) - r
    BY <1>1, <1>3, <2>2, ModelConstants
  <2>4. x + d + lam \in 0..two_lam-1
    BY <1>5, <2>2, ModelConstants
  <2>5. y + z = 0
    BY <1>1, <2>1, <2>3, <2>4, OneMultiple, ModelConstants
  <2>6. z = -y
    BY <1>1, <2>1, <2>5
  <2> QED BY <1>4, <2>1, <2>6
<1> QED BY <1>3, <1>4, <1>5 DEF Whole

\* The folding circuit.
LEMMA FoldVoltageFacts ==
  ASSUME NEW g \in Int
  PROVE  FoldVoltage(g) \in -lam .. lam - 1 /\ Whole(g - FoldVoltage(g))
<1> DEFINE y == (g + lam) \div two_lam
           r == (g + lam) % two_lam
<1>1. y \in Int /\ r \in 0..two_lam-1 /\ g + lam = two_lam * y + r
  <2>1. g + lam \in Int
    BY ModelConstants
  <2> QED BY <2>1, ModelConstants, DivisionFacts
<1>2. FoldVoltage(g) = r - lam
  BY DEF FoldVoltage
<1> HIDE DEF y, r
<1>3. two_lam * y \in Int
  BY <1>1, ModelConstants
<1>4. g - FoldVoltage(g) = two_lam * y
  BY <1>1, <1>2, <1>3, ModelConstants
<1> QED BY <1>1, <1>2, <1>4, ModelConstants DEF Whole

-----------------------------------------------------------------------------
(* The filters.                                                            *)

\* The totals of a filter's newest values when x has come in.
Pushed(t, x) == [i \in 0..MA_WINDOW_SIZE |-> IF i = 0 THEN 0 ELSE x + t[i - 1]]

LEMMA PushedFacts ==
  ASSUME NEW t \in [0..MA_WINDOW_SIZE -> Int], NEW x \in Int
  PROVE  /\ Pushed(t, x) \in [0..MA_WINDOW_SIZE -> Int] /\ Pushed(t, x)[0] = 0
         /\ \A i \in 1..MA_WINDOW_SIZE : Pushed(t, x)[i] = x + t[i - 1]
<1>1. MA_WINDOW_SIZE \in Nat \ {0}
  BY ModelConstants
<1>2. \A i \in 0..MA_WINDOW_SIZE : i # 0 => i - 1 \in 0..MA_WINDOW_SIZE
  BY <1>1
<1>3. ASSUME NEW i \in 0..MA_WINDOW_SIZE PROVE (IF i = 0 THEN 0 ELSE x + t[i - 1]) \in Int
  <2>1. CASE i = 0
    BY <2>1
  <2>2. CASE i # 0
    <3>1. t[i - 1] \in Int
      BY <1>2, <2>2
    <3> QED BY <2>2, <3>1
  <2> QED BY <2>1, <2>2
<1>4. 0 \in 0..MA_WINDOW_SIZE /\ \A i \in 1..MA_WINDOW_SIZE : i \in 0..MA_WINDOW_SIZE /\ i # 0
  BY <1>1
<1> QED BY <1>3, <1>4 DEF Pushed

LEMMA FilterFacts ==
  ASSUME NEW m \in MovingAverage
  PROVE  /\ m.buffer \in [0..MA_WINDOW_SIZE-1 -> Int] /\ m.index \in 0..MA_WINDOW_SIZE-1
         /\ m.count \in 0..MA_WINDOW_SIZE /\ m.sum \in Int /\ m.buffer[m.index] \in Int
<1>1. /\ m.buffer \in [0..MA_WINDOW_SIZE-1 -> Int] /\ m.index \in 0..MA_WINDOW_SIZE-1
      /\ m.count \in 0..MA_WINDOW_SIZE /\ m.sum \in Int
  BY DEF MovingAverage
<1> QED BY <1>1

LEMMA UpdateFacts ==
  ASSUME NEW m \in MovingAverage, NEW x \in Int
  PROVE  /\ updateMovingAverage(m, x) \in MovingAverage
         /\ updateMovingAverage(m, x).count \in 1..MA_WINDOW_SIZE
         /\ updateMovingAverage(m, x).sum \in Int
<1> DEFINE u == updateMovingAverage(m, x)
<1>1. /\ m.buffer \in [0..MA_WINDOW_SIZE-1 -> Int] /\ m.index \in 0..MA_WINDOW_SIZE-1
      /\ m.count \in 0..MA_WINDOW_SIZE /\ m.sum \in Int /\ m.buffer[m.index] \in Int
      /\ MA_WINDOW_SIZE \in Nat \ {0}
  BY FilterFacts, ModelConstants
<1>2. [m.buffer EXCEPT ![m.index] = x] \in [0..MA_WINDOW_SIZE-1 -> Int]
  BY <1>1
<1>3. (m.index + 1) % MA_WINDOW_SIZE \in 0..MA_WINDOW_SIZE-1
  <2>1. m.index + 1 \in Int
    BY <1>1
  <2> QED BY <1>1, <2>1, DivisionFacts
<1>4. (IF m.count < MA_WINDOW_SIZE THEN m.count + 1 ELSE m.count) \in 1..MA_WINDOW_SIZE
  BY <1>1
<1>5. m.sum - m.buffer[m.index] + x \in Int
  BY <1>1
<1>6. \A i \in 1..MA_WINDOW_SIZE : i \in 0..MA_WINDOW_SIZE
  BY <1>1
<1> QED BY <1>2, <1>3, <1>4, <1>5, <1>6 DEF updateMovingAverage, MovingAverage

\* A value moves every total up by one place and each place of the buffer one
\* further from the index; what leaves the sum is the oldest value, or nothing.
LEMMA FilterMoves ==
  ASSUME NEW m \in MovingAverage, NEW t \in [0..MA_WINDOW_SIZE -> Int], HasTotals(m, t),
         NEW x \in Int
  PROVE  HasTotals(updateMovingAverage(m, x), Pushed(t, x))
<1> DEFINE u == updateMovingAverage(m, x)
           s == Pushed(t, x)
           W == MA_WINDOW_SIZE
<1>1. /\ m.buffer \in [0..W-1 -> Int] /\ m.index \in 0..W-1
      /\ m.count \in 0..W /\ m.sum \in Int /\ m.buffer[m.index] \in Int
      /\ W \in Nat \ {0}
  BY FilterFacts, ModelConstants
<1>2. /\ s \in [0..W -> Int] /\ s[0] = 0
      /\ \A i \in 1..W : s[i] = x + t[i - 1]
  BY PushedFacts
<1>3. /\ t[0] = 0 /\ m.sum = t[W]
      /\ \A j \in 0..W-1 : m.buffer[j] = t[AgeIn(m, j)] - t[AgeIn(m, j) - 1]
      /\ \A i \in m.count..W : t[i] = t[m.count]
  BY DEF HasTotals
<1>4. /\ u.buffer = [m.buffer EXCEPT ![m.index] = x]
      /\ u.index = (m.index + 1) % W
      /\ u.count = IF m.count < W THEN m.count + 1 ELSE m.count
      /\ u.sum = m.sum - m.buffer[m.index] + x
  BY DEF updateMovingAverage
<1> HIDE DEF u, s
<1>5. /\ m.index + 1 < W => u.index = m.index + 1
      /\ m.index + 1 = W => u.index = 0
  <2> PICK n \in 0..W-1 : n = m.index
    BY <1>1
  <2>1. W \in Nat \ {0} /\ (n + 1 < W => n + 1 \in 0..W-1)
    <3>1. W \in Nat \ {0} /\ n \in 0..W-1
      BY <1>1
    <3> QED BY <3>1
  <2>2. n + 1 < W => (n + 1) % W = n + 1
    BY <2>1, SmallRemainder
  <2>3. W % W = 0
    <3>1. W * 1 = W
      BY <1>1
    <3> QED BY <1>1, <3>1, MultipleRemainder
  <2> QED BY <1>4, <2>2, <2>3
<1>6. m.buffer[m.index] = t[W] - t[W - 1]
  <2>1. AgeIn(m, m.index) = W
    BY <1>1 DEF AgeIn
  <2> QED BY <1>1, <1>3, <2>1
<1>7. t[W] \in Int /\ t[W - 1] \in Int /\ s[W] = x + t[W - 1]
  <2>1. W \in 0..W /\ W - 1 \in 0..W /\ W \in 1..W
    BY ModelConstants
  <2> QED BY <1>2, <2>1
<1>8. u.sum = s[W]
  BY <1>3, <1>4, <1>6, <1>7
<1>9. ASSUME NEW j \in 0..W-1 PROVE u.buffer[j] = s[AgeIn(u, j)] - s[AgeIn(u, j) - 1]
  <2>1. CASE j = m.index
    <3>1. AgeIn(u, j) = 1
      <4>1. W \in Nat \ {0} /\ (j + 1 < W \/ j + 1 = W)
        BY ModelConstants
      <4>2. /\ j + 1 < W => u.index = j + 1
            /\ j + 1 = W => u.index = 0
        BY <1>5, <2>1
      <4> QED BY <4>1, <4>2 DEF AgeIn
    <3>2. s[1] = x + t[0]
      <4>1. 1 \in 1..W /\ 1 - 1 = 0
        BY ModelConstants
      <4> QED BY <1>2, <4>1
    <3>3. u.buffer[j] = x
      BY <1>1, <1>4, <2>1
    <3> QED BY <1>2, <1>3, <3>1, <3>2, <3>3
  <2>2. CASE j # m.index
    <3> DEFINE k == AgeIn(m, j)
    <3>1. k \in 1..W-1 /\ AgeIn(u, j) = k + 1
      <4>1. k = IF j < m.index THEN m.index - j ELSE m.index - j + W
        BY DEF AgeIn
      <4>2. AgeIn(u, j) = IF j < u.index THEN u.index - j ELSE u.index - j + W
        BY DEF AgeIn
      <4>3. PICK n \in 0..W-1 : n = m.index
        BY <1>1
      <4>4. n + 1 < W \/ n + 1 = W
        BY <4>3, ModelConstants
      <4>5. PICK v : v = u.index
        OBVIOUS
      <4>6. /\ n + 1 < W => v = n + 1
            /\ n + 1 = W => v = 0
        BY <1>5, <4>3, <4>5
      <4>7. j # n
        BY <2>2, <4>3
      <4>8. k = IF j < n THEN n - j ELSE n - j + W
        BY <4>1, <4>3
      <4>9. AgeIn(u, j) = IF j < v THEN v - j ELSE v - j + W
        BY <4>2, <4>5
      <4> HIDE DEF k
      <4>10. W \in Nat \ {0} /\ j \in Int /\ n \in Int /\ 0 <= j /\ j < W /\ 0 <= n /\ n < W
        BY <4>3, ModelConstants
      <4>11. k \in 1..W-1
        BY <4>7, <4>8, <4>10
      <4>12. CASE n + 1 < W
        BY <4>6, <4>7, <4>8, <4>9, <4>10, <4>12
      <4>13. CASE n + 1 = W
        BY <4>6, <4>7, <4>8, <4>9, <4>10, <4>13
      <4> QED BY <4>4, <4>11, <4>12, <4>13
    <3>2. m.buffer[j] = t[k] - t[k - 1]
      BY <1>3
    <3>3. u.buffer[j] = m.buffer[j]
      BY <1>1, <1>4, <2>2
    <3> HIDE DEF k
    <3>4. /\ k + 1 \in 1..W /\ k \in 1..W /\ k + 1 - 1 = k
          /\ k \in 0..W /\ k - 1 \in 0..W
      BY <3>1, ModelConstants
    <3>5. s[k + 1] = x + t[k] /\ s[k] = x + t[k - 1] /\ t[k] \in Int /\ t[k - 1] \in Int
      BY <1>2, <3>4
    <3> QED BY <3>1, <3>2, <3>3, <3>4, <3>5
  <2> QED BY <2>1, <2>2
<1>10. ASSUME NEW i \in u.count..W PROVE s[i] = s[u.count]
  <2>1. CASE m.count < W
    <3>1. /\ u.count \in 1..W /\ i \in 1..W
          /\ i - 1 \in m.count..W /\ u.count - 1 = m.count
      <4>1. PICK n \in 0..W : n = m.count
        BY <1>1
      <4>2. PICK v : v = u.count
        OBVIOUS
      <4>3. v = n + 1 /\ n < W
        BY <1>4, <2>1, <4>1, <4>2
      <4>4. i \in v..W
        BY <4>2
      <4>5. v \in 1..W /\ i \in 1..W /\ i - 1 \in n..W /\ v - 1 = n
        <5>1. W \in Nat /\ n \in Nat /\ n <= W /\ v = n + 1 /\ n < W /\ i \in n + 1 .. W
          BY <1>1, <4>1, <4>3, <4>4
        <5> QED BY <5>1
      <4> QED BY <4>1, <4>2, <4>5
    <3>2. t[i - 1] = t[m.count] /\ s[i] = x + t[i - 1] /\ s[u.count] = x + t[u.count - 1]
      BY <1>2, <1>3, <3>1
    <3> QED BY <3>1, <3>2
  <2>2. CASE ~(m.count < W)
    <3>1. PICK n \in 0..W : n = m.count
      BY <1>1
    <3>2. PICK v : v = u.count
      OBVIOUS
    <3>3. v = n /\ ~(n < W) /\ W \in Nat /\ i \in v..W
      BY <1>1, <1>4, <2>2, <3>1, <3>2
    <3>4. v = W /\ i = W
      BY <3>3
    <3> QED BY <3>2, <3>4
  <2> QED BY <2>1, <2>2
<1>11. HasTotals(u, s)
  BY <1>2, <1>8, <1>9, <1>10 DEF HasTotals
<1> QED BY <1>11 DEF u, s

\* An empty filter has totals of zero.
LEMMA EmptyFilter ==
  /\ initMovingAverage \in MovingAverage /\ initMovingAverage.count = 0
  /\ [i \in 0..MA_WINDOW_SIZE |-> 0] \in [0..MA_WINDOW_SIZE -> Int]
  /\ HasTotals(initMovingAverage, [i \in 0..MA_WINDOW_SIZE |-> 0])
<1> DEFINE m == initMovingAverage
           W == MA_WINDOW_SIZE
           t == [i \in 0..W |-> 0]
<1>1. /\ m.buffer = [i \in 0..W-1 |-> 0] /\ m.index = 0 /\ m.count = 0 /\ m.sum = 0
      /\ W \in Nat \ {0}
  BY ModelConstants DEF initMovingAverage
<1>2. m \in MovingAverage
  BY <1>1 DEF initMovingAverage, MovingAverage
<1>3. \A i \in 0..W : t[i] = 0
  OBVIOUS
<1>4. 0 \in 0..W /\ W \in 0..W
  BY <1>1
<1>5. ASSUME NEW j \in 0..W-1 PROVE AgeIn(m, j) \in 0..W /\ AgeIn(m, j) - 1 \in 0..W
  BY <1>1 DEF AgeIn
<1> HIDE DEF m, t
<1>6. \A j \in 0..W-1 : m.buffer[j] = t[AgeIn(m, j)] - t[AgeIn(m, j) - 1]
  <2>1. \A j \in 0..W-1 : m.buffer[j] = 0
    BY <1>1
  <2> QED BY <1>3, <1>5, <2>1
<1>7. \A i \in m.count..W : t[i] = t[m.count]
  BY <1>1, <1>3, <1>4
<1>8. HasTotals(m, t)
  BY <1>1, <1>3, <1>4, <1>6, <1>7 DEF HasTotals
<1>9. t \in [0..W -> Int]
  BY DEF t
<1> QED BY <1>1, <1>2, <1>8, <1>9 DEF m, t

-----------------------------------------------------------------------------
(* One sample.                                                             *)

\* A step of the reference model, whatever the action: the sample g comes in.
Sampled(g) ==
  /\ ModelInv
  /\ g \in -MaxVoltage..MaxVoltage /\ ModelSample(g)
  /\ samples > 0 => g - voltage \in -MaxRise..MaxRise

LEMMA SampledFacts ==
  ASSUME NEW g, Sampled(g)
  PROVE  /\ g \in Int /\ voltage \in Int /\ voltage' = g
         /\ order \in 1..3 /\ order \in Orders /\ order' = order /\ order \in Nat
         /\ Settled \in Nat /\ Settled' = Settled /\ Settled >= order * (MA_WINDOW_SIZE + 1)
         /\ samples \in Nat /\ samples' \in Nat /\ samples' <= samples + 1 /\ samples <= samples'
         /\ samples' > 0 /\ samples' \in 0..Settled /\ samples \in 0..Settled
         /\ samples < MA_WINDOW_SIZE => samples' = samples + 1
<1> DEFINE W == MA_WINDOW_SIZE
<1>1. /\ order \in Orders /\ samples \in 0..Settled /\ voltage \in -MaxVoltage..MaxVoltage
      /\ g \in -MaxVoltage..MaxVoltage
  BY DEF Sampled, ModelInv, ModelTypeOK
<1>2. /\ voltage' = g /\ order' = order
      /\ samples' = IF samples < Settled THEN samples + 1 ELSE samples
  BY DEF Sampled, ModelSample, top
<1>3. order \in 1..3 /\ order \in Nat /\ W \in Nat \ {0} /\ MaxVoltage \in Nat
  BY <1>1, OrderCases, ModelConstants
<1>4. Settled = order * (W + 1)
  BY DEF Settled
<1>5. Settled' = Settled
  BY <1>2 DEF Settled
<1>6. order * (W + 1) \in Nat /\ order * (W + 1) > W
  <2>1. CASE order = 1
    BY <1>3, <2>1
  <2>2. CASE order = 2
    BY <1>3, <2>2
  <2>3. CASE order = 3
    BY <1>3, <2>3
  <2> QED BY <1>3, <2>1, <2>2, <2>3
<1> DEFINE n == order * (W + 1)
<1> HIDE DEF n
<1>7. n \in Nat /\ n > W /\ Settled = n
  BY <1>4, <1>6 DEF n
<1>8. /\ Settled \in Nat
      /\ samples \in Nat /\ samples' \in Nat /\ samples' <= samples + 1 /\ samples <= samples'
      /\ samples' > 0 /\ samples' \in 0..Settled
      /\ samples < W => samples' = samples + 1
  BY <1>1, <1>2, <1>3, <1>7
<1>9. g \in Int /\ voltage \in Int
  BY <1>1, <1>3
<1> QED BY <1>1, <1>2, <1>3, <1>5, <1>7, <1>8, <1>9 DEF n

\* Every total moves up by one place and takes the newest folds in.
LEMMA FoldsMove ==
  ASSUME NEW g, Sampled(g)
  PROVE  /\ fold_totals \in [0..MA_WINDOW_SIZE+2 -> Int]
         /\ fold_totals' \in [0..MA_WINDOW_SIZE+2 -> Int]
         /\ fold_totals[0] = 0 /\ fold_totals'[0] = 0
         /\ \A i \in 1..MA_WINDOW_SIZE+2 :
              fold_totals'[i] = g - FoldVoltage(g) + fold_totals[i - 1]
         /\ g - FoldVoltage(g) \in Int
         /\ LastFolds(1)' = g - FoldVoltage(g)
         /\ \A i \in 1..MA_WINDOW_SIZE+1 : LastFolds(i + 1)' = LastFolds(i)
         /\ \A i \in 1..MA_WINDOW_SIZE+2 : LastFolds(i) \in Int /\ LastFolds(i)' \in Int
<1> DEFINE N == MA_WINDOW_SIZE + 2
           f == g - FoldVoltage(g)
           t == fold_totals
           s == fold_totals'
<1>1. N \in Nat /\ N >= 3 /\ MA_WINDOW_SIZE + 1 = N - 1
  BY ModelConstants
<1>2. t \in [0..N -> Int] /\ t[0] = 0
  BY DEF Sampled, ModelInv, ModelTypeOK, FoldsNear
<1>3. f \in Int
  BY SampledFacts, FoldVoltageFacts, WholeFacts
<1>4. s = [i \in 0..N |-> IF i = 0 THEN 0 ELSE f + t[i - 1]]
  BY DEF Sampled, ModelSample
<1>5. \A i \in 1..N : i \in 0..N /\ i - 1 \in 0..N /\ i # 0
  BY <1>1
<1>6. 0 \in 0..N
  BY <1>1
<1>7. \A i \in 1..MA_WINDOW_SIZE+1 : i + 1 \in 1..N /\ i \in 1..N /\ i + 1 - 1 = i
  BY <1>1
<1>8. LastFolds(1) = t[1] - t[1 - 1] /\ LastFolds(1)' = s[1] - s[1 - 1]
  BY DEF LastFolds
<1>9. \A i \in 1..N : LastFolds(i) = t[i] - t[i - 1] /\ LastFolds(i)' = s[i] - s[i - 1]
  BY DEF LastFolds
<1>10. \A i \in 1..MA_WINDOW_SIZE+1 : LastFolds(i + 1)' = s[i + 1] - s[i + 1 - 1]
  BY DEF LastFolds
<1> HIDE DEF f, t, s, N
<1>11. s[0] = 0 /\ \A i \in 1..N : s[i] = f + t[i - 1]
  BY <1>4, <1>5, <1>6
<1>12. s \in [0..N -> Int]
  <2>1. ASSUME NEW i \in 0..N PROVE (IF i = 0 THEN 0 ELSE f + t[i - 1]) \in Int
    <3>1. CASE i = 0
      BY <3>1
    <3>2. CASE i # 0
      <4>1. i - 1 \in 0..N
        BY <1>1, <3>2
      <4>2. t[i - 1] \in Int
        BY <1>2, <4>1
      <4> QED BY <1>3, <3>2, <4>2
    <3> QED BY <3>1, <3>2
  <2> QED BY <1>4, <2>1
<1>13. LastFolds(1)' = f
  <2>1. 1 \in 1..N /\ 1 - 1 = 0
    BY <1>1
  <2>2. s[1] = f + t[0]
    BY <1>11, <2>1
  <2> QED BY <1>2, <1>3, <1>8, <1>11, <2>1, <2>2
<1>14. ASSUME NEW i \in 1..MA_WINDOW_SIZE+1 PROVE LastFolds(i + 1)' = LastFolds(i)
  <2>1. s[i + 1] = f + t[i] /\ s[i] = f + t[i - 1] /\ t[i] \in Int /\ t[i - 1] \in Int
    BY <1>2, <1>5, <1>7, <1>11
  <2>2. LastFolds(i) = t[i] - t[i - 1] /\ LastFolds(i + 1)' = s[i + 1] - s[i]
    BY <1>7, <1>9, <1>10
  <2> QED BY <1>3, <2>1, <2>2
<1>15. ASSUME NEW i \in 1..N PROVE LastFolds(i) \in Int /\ LastFolds(i)' \in Int
  <2>1. t[i] \in Int /\ t[i - 1] \in Int /\ s[i] \in Int /\ s[i - 1] \in Int
    BY <1>2, <1>5, <1>12
  <2> QED BY <1>9, <2>1
<1> QED BY <1>2, <1>3, <1>11, <1>12, <1>13, <1>14, <1>15 DEF f, t, s, N

\* How much the folds grew moves up with them.
LEMMA GrowthMoves ==
  ASSUME NEW g, Sampled(g)
  PROVE  /\ \A i \in 1..MA_WINDOW_SIZE+1 : Growth(i) \in Int /\ Growth(i)' \in Int
         /\ Growth(1)' = LastFolds(1)' - LastFolds(1)
         /\ \A i \in 1..MA_WINDOW_SIZE : Growth(i + 1)' = Growth(i)
<1>1. MA_WINDOW_SIZE \in Nat \ {0}
  BY ModelConstants
<1>2. ASSUME NEW i \in 1..MA_WINDOW_SIZE+1 PROVE Growth(i) \in Int /\ Growth(i)' \in Int
  <2>1. i \in 1..MA_WINDOW_SIZE+2 /\ i + 1 \in 1..MA_WINDOW_SIZE+2
    BY <1>1
  <2>2. /\ LastFolds(i) \in Int /\ LastFolds(i + 1) \in Int
        /\ LastFolds(i)' \in Int /\ LastFolds(i + 1)' \in Int
    BY <2>1, FoldsMove
  <2> QED BY <2>2 DEF Growth
<1>3. Growth(1)' = LastFolds(1)' - LastFolds(1)
  <2>1. Growth(1)' = LastFolds(1)' - LastFolds(1 + 1)' /\ 1 \in 1..MA_WINDOW_SIZE+1
    BY <1>1 DEF Growth
  <2>2. LastFolds(1 + 1)' = LastFolds(1)
    BY <2>1, FoldsMove
  <2> QED BY <2>1, <2>2
<1>4. ASSUME NEW i \in 1..MA_WINDOW_SIZE PROVE Growth(i + 1)' = Growth(i)
  <2>1. i \in 1..MA_WINDOW_SIZE+1 /\ i + 1 \in 1..MA_WINDOW_SIZE+1
    BY <1>1
  <2>2. LastFolds(i + 1)' = LastFolds(i) /\ LastFolds(i + 1 + 1)' = LastFolds(i + 1)
    BY <2>1, FoldsMove
  <2>3. Growth(i + 1)' = LastFolds(i + 1)' - LastFolds(i + 1 + 1)'
        /\ Growth(i) = LastFolds(i) - LastFolds(i + 1)
    BY DEF Growth
  <2> QED BY <2>2, <2>3
<1> QED BY <1>2, <1>3, <1>4

\* The folds stay near the signal: the new ones by the circuit, those before by
\* one step of the signal more.
LEMMA FoldsNearMoves ==
  ASSUME NEW g, Sampled(g)
  PROVE  /\ FoldsNear'
         /\ \A i \in 1..MA_WINDOW_SIZE+2 : Whole(LastFolds(i)) /\ Whole(LastFolds(i)')
<1> DEFINE W == MA_WINDOW_SIZE
<1>1. /\ W \in Nat \ {0} /\ lam \in Nat \ {0} /\ MaxRise \in Nat /\ two_lam = 2 * lam
      /\ g \in Int /\ voltage \in Int /\ voltage' = g /\ samples \in Nat /\ samples' \in Nat
      /\ samples' <= samples + 1 /\ order \in Orders
      /\ samples > 0 => g - voltage \in -MaxRise..MaxRise
  BY ModelConstants, SampledFacts DEF Sampled
<1>2. FoldsNear
  BY DEF Sampled, ModelInv
<1>3. /\ fold_totals'[0] = 0
      /\ LastFolds(1)' = g - FoldVoltage(g)
      /\ \A i \in 1..W+1 : LastFolds(i + 1)' = LastFolds(i)
      /\ \A i \in 1..W+2 : LastFolds(i) \in Int /\ LastFolds(i)' \in Int
  BY FoldsMove
<1>4. FoldVoltage(g) \in -lam .. lam - 1 /\ Whole(LastFolds(1)')
  BY <1>1, <1>3, FoldVoltageFacts
<1>5. \A i \in 1..W+2 : Whole(LastFolds(i))
  BY <1>2, <1>3, WholeFacts DEF FoldsNear
<1>6. ASSUME NEW i \in 1..W+2
      PROVE  /\ Whole(LastFolds(i)')
             /\ i <= samples' =>
                  g - LastFolds(i)'
                    \in -(lam + (i - 1) * MaxRise) .. lam - 1 + (i - 1) * MaxRise
  <2>1. CASE i = 1
    <3>1. (i - 1) * MaxRise = 0
      BY <1>1, <2>1
    <3>2. g - LastFolds(1)' \in -lam .. lam - 1
      BY <1>1, <1>3, <1>4
    <3> QED BY <1>1, <1>4, <2>1, <3>1, <3>2
  <2>2. CASE i # 1
    <3> DEFINE j == i - 1
    <3>1. j \in 1..W+1 /\ j + 1 = i /\ j \in 1..W+2 /\ j \in Int
      BY <1>1, <2>2
    <3>2. LastFolds(i)' = LastFolds(j)
      BY <1>3, <3>1
    <3>3. ASSUME i <= samples'
          PROVE  g - LastFolds(i)'
                   \in -(lam + (i - 1) * MaxRise) .. lam - 1 + (i - 1) * MaxRise
      <4>1. j <= samples /\ samples > 0
        BY <1>1, <3>1, <3>3
      <4>2. voltage - LastFolds(j) \in -(lam + (j - 1) * MaxRise) .. lam - 1 + (j - 1) * MaxRise
        BY <1>2, <3>1, <4>1 DEF FoldsNear
      <4> DEFINE p == (j - 1) * MaxRise
      <4>3. (i - 1) * MaxRise = p + MaxRise /\ p \in Int
        <5>1. (j - 1) * MaxRise = j * MaxRise - MaxRise /\ j * MaxRise \in Int
          BY <1>1, <3>1
        <5> QED BY <1>1, <3>1, <5>1
      <4>4. LastFolds(j) \in Int
        BY <1>3, <3>1
      <4>5. g - voltage \in -MaxRise..MaxRise
        BY <1>1, <4>1
      <4> HIDE DEF p, j
      <4>6. voltage - LastFolds(j) \in -(lam + p) .. lam - 1 + p
        BY <4>2 DEF p
      <4>7. g - LastFolds(j) \in -(lam + (p + MaxRise)) .. lam - 1 + (p + MaxRise)
        BY <1>1, <4>3, <4>4, <4>5, <4>6
      <4> QED BY <3>2, <4>3, <4>7
    <3> QED BY <1>5, <3>1, <3>2, <3>3
  <2> QED BY <2>1, <2>2
<1>7. ASSUME NEW i \in 1..W+1, i < samples' PROVE Growth(i)' \in -two_lam..two_lam
  <2>1. CASE i = 1
    <3>1. samples > 0 /\ 1 <= samples /\ 1 \in 1..W+2
      BY <1>1, <1>7, <2>1
    <3>2. voltage - LastFolds(1) \in -(lam + (1 - 1) * MaxRise) .. lam - 1 + (1 - 1) * MaxRise
      BY <1>2, <3>1 DEF FoldsNear
    <3>3. (1 - 1) * MaxRise = 0
      BY <1>1
    <3>4. voltage - LastFolds(1) \in -lam .. lam - 1 /\ LastFolds(1) \in Int
      BY <1>1, <1>3, <3>1, <3>2, <3>3
    <3>5. g - LastFolds(1)' \in -lam .. lam - 1 /\ LastFolds(1)' \in Int
      BY <1>1, <1>3, <1>4, <3>1
    <3>6. MaxRise < lam /\ g - voltage \in -MaxRise..MaxRise
      <4>1. MaxRise < lam
        BY <1>1, OrderCases
      <4> QED BY <1>1, <3>1, <4>1
    <3> DEFINE x == LastFolds(1)' - LastFolds(1)
    <3>7. Whole(x)
      BY <1>4, <1>5, <3>1, WholeFacts
    <3>8. -(2 * two_lam) < x /\ x < 2 * two_lam
      BY <1>1, <3>4, <3>5, <3>6
    <3> HIDE DEF x
    <3>9. x \in -two_lam..two_lam
      BY <3>7, <3>8, OneFold
    <3> QED BY <2>1, <3>9, GrowthMoves DEF x
  <2>2. CASE i # 1
    <3> DEFINE j == i - 1
    <3>1. j \in 1..W /\ j + 1 = i /\ j \in 1..W+1 /\ j < samples
      BY <1>1, <1>7, <2>2
    <3>2. Growth(i)' = Growth(j)
      BY <3>1, GrowthMoves
    <3>3. Growth(j) \in -two_lam..two_lam
      BY <1>2, <3>1 DEF FoldsNear
    <3> QED BY <3>2, <3>3
  <2> QED BY <2>1, <2>2
<1>8. \A i \in 1..W+2 : LastFolds(i)' % two_lam' = 0
  <2>1. two_lam' = two_lam
    BY DEF two_lam
  <2> QED BY <1>6, <2>1, WholeFacts
<1>9. FoldsNear'
  BY <1>1, <1>3, <1>6, <1>7, <1>8 DEF FoldsNear, two_lam
<1> QED BY <1>5, <1>6, <1>9

\* The differences that are taken.
LEMMA DifferencesAre ==
  ASSUME NEW g, Sampled(g), NEW dy, dy = nth_order_difference(AdcValue(g))
  PROVE  /\ diff_buffer' = dy /\ dy \in [0..MaxOrder -> Int]
         /\ diff_buffer \in [0..MaxOrder -> Int]
         /\ dy[0] = FoldVoltage(g) + AdcBias
         /\ dy[1] = dy[0] - diff_buffer[0]
         /\ order > 1 => dy[2] = dy[1] - diff_buffer[1]
         /\ order > 2 => dy[3] = dy[2] - diff_buffer[2]
<1> DEFINE new == AdcValue(g)
           one == new - diff_buffer[0]
           two == one - diff_buffer[1]
           three == two - diff_buffer[2]
           x == <<new, one, two, three>>
<1>1. diff_buffer' = dy
  BY DEF Sampled, ModelSample, top
<1>2. diff_buffer \in [0..MaxOrder -> Int]
  BY DEF Sampled, ModelInv, ModelTypeOK
<1>3. 0 \in 0..MaxOrder /\ 1 \in 0..MaxOrder /\ 2 \in 0..MaxOrder /\ 3 \in 0..MaxOrder
      /\ 0..MaxOrder = {0, 1, 2, 3}
  BY DEF MaxOrder
<1>4. new = FoldVoltage(g) + AdcBias /\ new \in Int
  <2>1. FoldVoltage(g) \in Int /\ AdcBias \in Int
    BY SampledFacts, FoldVoltageFacts, ModelConstants
  <2> QED BY <2>1 DEF AdcValue
<1>5. diff_buffer[0] \in Int /\ diff_buffer[1] \in Int /\ diff_buffer[2] \in Int
      /\ diff_buffer[3] \in Int
  BY <1>2, <1>3
<1> HIDE DEF new
<1>6. one \in Int /\ two \in Int /\ three \in Int
  BY <1>4, <1>5
<1>7. dy = [i \in 0..MaxOrder |-> IF i <= order THEN x[i + 1] ELSE diff_buffer[i]]
  BY DEF nth_order_difference, new
<1> HIDE DEF one, two, three
<1>8. x[1] = new /\ x[2] = one /\ x[3] = two /\ x[4] = three
  OBVIOUS
<1> HIDE DEF x
<1>9. /\ dy[0] = IF 0 <= order THEN x[1] ELSE diff_buffer[0]
      /\ dy[1] = IF 1 <= order THEN x[2] ELSE diff_buffer[1]
      /\ dy[2] = IF 2 <= order THEN x[3] ELSE diff_buffer[2]
      /\ dy[3] = IF 3 <= order THEN x[4] ELSE diff_buffer[3]
  <2>1. 0 + 1 = 1 /\ 1 + 1 = 2 /\ 2 + 1 = 3 /\ 3 + 1 = 4
    OBVIOUS
  <2> QED BY <1>3, <1>7, <2>1
<1>10. order \in 1..3
  BY SampledFacts
<1>11. /\ dy[0] = new /\ dy[1] = one
       /\ order > 1 => dy[2] = two
       /\ order > 2 => dy[3] = three
  BY <1>8, <1>9, <1>10
<1>12. dy[0] \in Int /\ dy[1] \in Int /\ dy[2] \in Int /\ dy[3] \in Int
  BY <1>4, <1>5, <1>6, <1>8, <1>9
<1>13. dy \in [0..MaxOrder -> Int]
  <2>1. \A i \in 0..MaxOrder : dy[i] \in Int
    BY <1>3, <1>12
  <2> QED BY <1>7, <2>1
<1>14. one = new - diff_buffer[0] /\ two = one - diff_buffer[1] /\ three = two - diff_buffer[2]
  BY DEF one, two, three
<1> QED BY <1>1, <1>2, <1>4, <1>10, <1>11, <1>13, <1>14

\* With the folds they make the differences of the signal.
LEMMA DifferencesMove ==
  ASSUME NEW g, Sampled(g), NEW dy, dy = nth_order_difference(AdcValue(g))
  PROVE  /\ DifferencesNear'
         /\ order = 1 /\ samples > 0 => dy[1] + Growth(1)' \in -MaxRise..MaxRise
         /\ order = 2 /\ samples > 1 =>
              dy[2] + (Growth(1)' - Growth(1)) \in -(2 * MaxRise) .. 2 * MaxRise
         /\ order = 3 /\ samples > 2 =>
              dy[3] + ((Growth(1)' - Growth(1)) - (Growth(1) - Growth(2)))
                \in -(4 * MaxRise) .. 4 * MaxRise
<1>1. /\ MaxRise \in Nat /\ AdcBias \in Nat /\ MA_WINDOW_SIZE \in Nat \ {0}
      /\ g \in Int /\ voltage \in Int /\ voltage' = g /\ samples \in Nat /\ samples' \in Nat
      /\ samples' <= samples + 1 /\ order \in 1..3 /\ order' = order
      /\ samples > 0 => g - voltage \in -MaxRise..MaxRise
  BY ModelConstants, SampledFacts DEF Sampled
<1>2. /\ diff_buffer' = dy
      /\ dy[0] \in Int /\ dy[1] \in Int /\ dy[2] \in Int /\ dy[3] \in Int
      /\ diff_buffer[0] \in Int /\ diff_buffer[1] \in Int /\ diff_buffer[2] \in Int
      /\ dy[0] = FoldVoltage(g) + AdcBias
      /\ dy[1] = dy[0] - diff_buffer[0]
      /\ order > 1 => dy[2] = dy[1] - diff_buffer[1]
      /\ order > 2 => dy[3] = dy[2] - diff_buffer[2]
  <2>1. 0 \in 0..MaxOrder /\ 1 \in 0..MaxOrder /\ 2 \in 0..MaxOrder /\ 3 \in 0..MaxOrder
    BY DEF MaxOrder
  <2>2. /\ diff_buffer' = dy /\ dy \in [0..MaxOrder -> Int]
        /\ diff_buffer \in [0..MaxOrder -> Int]
        /\ dy[0] = FoldVoltage(g) + AdcBias
        /\ dy[1] = dy[0] - diff_buffer[0]
        /\ order > 1 => dy[2] = dy[1] - diff_buffer[1]
        /\ order > 2 => dy[3] = dy[2] - diff_buffer[2]
    BY DifferencesAre
  <2>3. /\ dy[0] \in Int /\ dy[1] \in Int /\ dy[2] \in Int /\ dy[3] \in Int
        /\ diff_buffer[0] \in Int /\ diff_buffer[1] \in Int /\ diff_buffer[2] \in Int
    BY <2>1, <2>2
  <2> QED BY <2>2, <2>3
<1>3. /\ LastFolds(1)' = g - FoldVoltage(g) /\ LastFolds(1)' \in Int /\ LastFolds(1) \in Int
      /\ Growth(1)' = LastFolds(1)' - LastFolds(1)
      /\ Growth(1) \in Int /\ Growth(1)' \in Int /\ Growth(2)' = Growth(1) /\ Growth(2) \in Int
      /\ FoldVoltage(g) \in Int
  <2>1. 1 \in 1..MA_WINDOW_SIZE /\ 1 \in 1..MA_WINDOW_SIZE+1 /\ 2 \in 1..MA_WINDOW_SIZE+1
        /\ 1 \in 1..MA_WINDOW_SIZE+2 /\ 1 + 1 = 2
    BY <1>1
  <2>2. FoldVoltage(g) \in Int
    BY <1>1, FoldVoltageFacts, ModelConstants
  <2> QED BY <2>1, <2>2, FoldsMove, GrowthMoves
<1>4. /\ samples > 0 => diff_buffer[0] + LastFolds(1) = voltage + AdcBias
      /\ samples > 1 => diff_buffer[1] + Growth(1) \in -MaxRise..MaxRise
      /\ samples > 2 /\ order > 1 =>
           diff_buffer[2] + Growth(1) - Growth(2) \in -(2 * MaxRise) .. 2 * MaxRise
  BY DEF Sampled, ModelInv, DifferencesNear
<1>5. dy[0] + LastFolds(1)' = g + AdcBias
  BY <1>1, <1>2, <1>3
<1>6. samples > 0 => dy[1] + Growth(1)' \in -MaxRise..MaxRise
  <2> SUFFICES ASSUME samples > 0 PROVE dy[1] + Growth(1)' \in -MaxRise..MaxRise
    OBVIOUS
  <2>1. diff_buffer[0] + LastFolds(1) = voltage + AdcBias
    BY <1>4
  <2>2. dy[1] = dy[0] - diff_buffer[0] /\ Growth(1)' = LastFolds(1)' - LastFolds(1)
    BY <1>2, <1>3
  <2>3. /\ dy[0] \in Int /\ diff_buffer[0] \in Int /\ LastFolds(1) \in Int
        /\ LastFolds(1)' \in Int /\ g \in Int /\ voltage \in Int /\ AdcBias \in Int
    BY <1>1, <1>2, <1>3
  <2>4. dy[1] + Growth(1)' = g - voltage
    BY <1>5, <2>1, <2>2, <2>3
  <2> QED BY <1>1, <2>4
<1>7. samples > 1 /\ order > 1 =>
        dy[2] + Growth(1)' - Growth(1) \in -(2 * MaxRise) .. 2 * MaxRise
  BY <1>1, <1>2, <1>3, <1>4, <1>6
<1>8. samples > 2 /\ order > 2 =>
        dy[3] + ((Growth(1)' - Growth(1)) - (Growth(1) - Growth(2)))
          \in -(4 * MaxRise) .. 4 * MaxRise
  BY <1>1, <1>2, <1>3, <1>4, <1>7
<1>9. DifferencesNear'
  <2>1. samples' > 0 => diff_buffer'[0] + LastFolds(1)' = voltage' + AdcBias
    BY <1>1, <1>2, <1>5
  <2>2. samples' > 1 => diff_buffer'[1] + Growth(1)' \in -MaxRise..MaxRise
    BY <1>1, <1>2, <1>6
  <2>3. samples' > 2 /\ order' > 1 =>
          diff_buffer'[2] + Growth(1)' - Growth(2)' \in -(2 * MaxRise) .. 2 * MaxRise
    BY <1>1, <1>2, <1>3, <1>7
  <2> QED BY <2>1, <2>2, <2>3 DEF DifferencesNear
<1>10. /\ order = 2 => order > 1
       /\ order = 3 => order > 2
       /\ dy[2] + (Growth(1)' - Growth(1)) = dy[2] + Growth(1)' - Growth(1)
  BY <1>2, <1>3
<1> QED BY <1>6, <1>7, <1>8, <1>9, <1>10

\* What a stage ought to have moves up likewise, and what a stage ought to add is
\* what the one before ought to have.
LEMMA ExactMoves ==
  ASSUME NEW g, Sampled(g), NEW i \in 1..order
  PROVE  /\ Exact(i, 0)' = 0
         /\ \A k \in 0..MA_WINDOW_SIZE : Exact(i, k) \in Int /\ Exact(i, k)' \in Int
         /\ \A k \in 1..MA_WINDOW_SIZE : Exact(i, k)' = Exact(i, 1)' + Exact(i, k - 1)
         /\ Whole(Exact(i, 1)' - Exact(i, 1))
         /\ i > 1 => Exact(i - 1, 1)' = Exact(i, 1)' - Exact(i, 1)
<1> DEFINE W == MA_WINDOW_SIZE
<1>1. W \in Nat \ {0} /\ order \in 1..3 /\ order' = order /\ i \in 1..3 /\ i <= order
  BY ModelConstants, SampledFacts
<1>2. /\ fold_totals \in [0..W+2 -> Int] /\ fold_totals' \in [0..W+2 -> Int]
      /\ fold_totals[0] = 0 /\ fold_totals'[0] = 0
      /\ \A k \in 1..W+2 : fold_totals'[k] = g - FoldVoltage(g) + fold_totals[k - 1]
      /\ g - FoldVoltage(g) \in Int
      /\ \A k \in 1..W+1 : LastFolds(k + 1)' = LastFolds(k)
      /\ \A k \in 1..W+2 : LastFolds(k) \in Int /\ LastFolds(k)' \in Int
  BY FoldsMove
<1>3. /\ \A k \in 1..W+1 : Growth(k) \in Int /\ Growth(k)' \in Int
      /\ Growth(1)' = LastFolds(1)' - LastFolds(1)
      /\ \A k \in 1..W : Growth(k + 1)' = Growth(k)
  BY GrowthMoves
<1>4. \A k \in 1..W+2 : Whole(LastFolds(k)) /\ Whole(LastFolds(k)')
  BY FoldsNearMoves
<1>5. /\ \A k \in 0..W : k \in 0..W+2 /\ k + 1 \in 1..W+2 /\ k + 1 \in 1..W+1
      /\ \A k \in 1..W : /\ k \in 1..W+2 /\ k - 1 + 1 = k /\ k \in 1..W+1 /\ k - 1 \in 0..W
                         /\ k - 1 \in 0..W+2
      /\ 0 \in 0..W /\ 0 + 1 = 1 /\ 1 \in 1..W /\ 1 - 1 = 0 /\ 1 \in 1..W+2 /\ 2 \in 1..W+2
      /\ 1 + 1 = 2 /\ 1 \in 1..W+1 /\ 2 \in 1..W+1
  BY <1>1
<1>6. order - i \in {0, 1, 2}
  BY <1>1
<1>7. CASE order - i = 0
  <2>1. \A k \in 0..W : Exact(i, k) = fold_totals[k] /\ Exact(i, k)' = fold_totals'[k]
    BY <1>1, <1>7 DEF Exact
  <2>2. Exact(i, 0)' = 0
    BY <1>2, <1>5, <2>1
  <2>3. \A k \in 0..W : Exact(i, k) \in Int /\ Exact(i, k)' \in Int
    BY <1>2, <1>5, <2>1
  <2>4. ASSUME NEW k \in 1..W PROVE Exact(i, k)' = Exact(i, 1)' + Exact(i, k - 1)
    <3>1. /\ fold_totals'[k] = g - FoldVoltage(g) + fold_totals[k - 1]
          /\ fold_totals'[1] = g - FoldVoltage(g) + fold_totals[0]
          /\ fold_totals[k - 1] \in Int
      BY <1>2, <1>5
    <3>2. k \in 0..W /\ k - 1 \in 0..W /\ 1 \in 0..W
      BY <1>1
    <3>3. /\ Exact(i, k)' = fold_totals'[k] /\ Exact(i, 1)' = fold_totals'[1]
          /\ Exact(i, k - 1) = fold_totals[k - 1]
      BY <2>1, <3>2
    <3> QED BY <1>2, <3>1, <3>3
  <2>5. /\ LastFolds(1) = fold_totals[1] - fold_totals[0]
        /\ LastFolds(1)' = fold_totals'[1] - fold_totals'[0]
    BY <1>5 DEF LastFolds
  <2>6. fold_totals[1] \in Int /\ fold_totals'[1] \in Int /\ 1 \in 0..W
    <3>1. 1 \in 0..W /\ 1 \in 0..W+2
      BY <1>1
    <3> QED BY <1>2, <3>1
  <2>7. Exact(i, 1)' - Exact(i, 1) = LastFolds(1)' - LastFolds(1)
    BY <1>2, <2>1, <2>5, <2>6
  <2>8. Whole(Exact(i, 1)' - Exact(i, 1))
    BY <1>4, <1>5, <2>7, WholeFacts
  <2>9. i > 1 => Exact(i - 1, 1)' = Exact(i, 1)' - Exact(i, 1)
    <3>1. order - (i - 1) = 1
      BY <1>1, <1>7
    <3>2. Exact(i - 1, 1)' = LastFolds(1)' - LastFolds(2)'
      BY <1>1, <1>5, <3>1 DEF Exact
    <3>3. LastFolds(2)' = LastFolds(1)
      BY <1>2, <1>5
    <3> QED BY <2>7, <3>2, <3>3
  <2> QED BY <2>2, <2>3, <2>4, <2>8, <2>9
<1>8. CASE order - i = 1
  <2>1. \A k \in 0..W : /\ Exact(i, k) = LastFolds(1) - LastFolds(k + 1)
                        /\ Exact(i, k)' = LastFolds(1)' - LastFolds(k + 1)'
    BY <1>1, <1>8 DEF Exact
  <2>2. Exact(i, 0)' = 0
    BY <1>2, <1>5, <2>1
  <2>3. \A k \in 0..W : Exact(i, k) \in Int /\ Exact(i, k)' \in Int
    BY <1>2, <1>5, <2>1
  <2>4. ASSUME NEW k \in 1..W PROVE Exact(i, k)' = Exact(i, 1)' + Exact(i, k - 1)
    <3>1. k \in 0..W /\ k - 1 \in 0..W /\ 1 \in 0..W
      BY <1>1
    <3>2. LastFolds(k + 1)' = LastFolds(k) /\ LastFolds(2)' = LastFolds(1)
      BY <1>2, <1>5
    <3>3. /\ Exact(i, k)' = LastFolds(1)' - LastFolds(k)
          /\ Exact(i, 1)' = LastFolds(1)' - LastFolds(1)
          /\ Exact(i, k - 1) = LastFolds(1) - LastFolds(k)
      BY <1>5, <2>1, <3>1, <3>2
    <3>4. LastFolds(1)' \in Int /\ LastFolds(1) \in Int /\ LastFolds(k) \in Int
      BY <1>2, <1>5
    <3> QED BY <3>3, <3>4
  <2>5. /\ Exact(i, 1)' = LastFolds(1)' - LastFolds(1) /\ Exact(i, 1) = LastFolds(1) - LastFolds(2)
        /\ Exact(i, 1)' = Growth(1)' /\ Exact(i, 1) = Growth(1)
    <3>1. 1 \in 0..W /\ LastFolds(2)' = LastFolds(1)
      BY <1>1, <1>2, <1>5
    <3>2. Growth(1) = LastFolds(1) - LastFolds(2)
      BY <1>5 DEF Growth
    <3> QED BY <1>3, <1>5, <2>1, <3>1, <3>2
  <2>6. Whole(Exact(i, 1)' - Exact(i, 1))
    BY <1>4, <1>5, <2>5, WholeFacts
  <2>7. i > 1 => Exact(i - 1, 1)' = Exact(i, 1)' - Exact(i, 1)
    <3>1. order - (i - 1) = 2
      BY <1>1, <1>8
    <3>2. Exact(i - 1, 1)' = Growth(1)' - Growth(2)'
      BY <1>1, <1>5, <3>1 DEF Exact
    <3>3. Growth(2)' = Growth(1)
      BY <1>3, <1>5
    <3> QED BY <2>5, <3>2, <3>3
  <2> QED BY <2>2, <2>3, <2>4, <2>6, <2>7
<1>9. CASE order - i = 2
  <2>1. \A k \in 0..W : /\ Exact(i, k) = Growth(1) - Growth(k + 1)
                        /\ Exact(i, k)' = Growth(1)' - Growth(k + 1)'
    BY <1>1, <1>9 DEF Exact
  <2>2. Exact(i, 0)' = 0
    BY <1>3, <1>5, <2>1
  <2>3. \A k \in 0..W : Exact(i, k) \in Int /\ Exact(i, k)' \in Int
    BY <1>3, <1>5, <2>1
  <2>4. ASSUME NEW k \in 1..W PROVE Exact(i, k)' = Exact(i, 1)' + Exact(i, k - 1)
    <3>1. k \in 0..W /\ k - 1 \in 0..W /\ 1 \in 0..W
      BY <1>1
    <3>2. Growth(k + 1)' = Growth(k) /\ Growth(2)' = Growth(1)
      BY <1>3, <1>5
    <3>3. /\ Exact(i, k)' = Growth(1)' - Growth(k)
          /\ Exact(i, 1)' = Growth(1)' - Growth(1)
          /\ Exact(i, k - 1) = Growth(1) - Growth(k)
      BY <1>5, <2>1, <3>1, <3>2
    <3>4. Growth(1)' \in Int /\ Growth(1) \in Int /\ Growth(k) \in Int
      BY <1>3, <1>5
    <3> QED BY <3>3, <3>4
  <2>5. Exact(i, 1)' = Growth(1)' - Growth(1) /\ Exact(i, 1) = Growth(1) - Growth(2)
    <3>1. 1 \in 0..W /\ Growth(2)' = Growth(1)
      BY <1>1, <1>3, <1>5
    <3> QED BY <1>5, <2>1, <3>1
  <2>6. Whole(Exact(i, 1)' - Exact(i, 1))
    <3>1. /\ Growth(1)' = LastFolds(1)' - LastFolds(1) /\ Growth(1) = LastFolds(1) - LastFolds(2)
          /\ Growth(2) = LastFolds(2) - LastFolds(3) /\ 3 \in 1..W+2
      <4>1. 2 + 1 = 3 /\ 3 \in 1..W+2
        BY <1>1
      <4> QED BY <1>3, <1>5, <4>1 DEF Growth
    <3>2. Whole(Growth(1)') /\ Whole(Growth(1)) /\ Whole(Growth(2))
      BY <1>4, <1>5, <3>1, WholeFacts
    <3>3. Whole(Growth(1)' - Growth(1)) /\ Whole(Growth(1) - Growth(2))
      BY <3>2, WholeFacts
    <3> QED BY <2>5, <3>3, WholeFacts
  <2>7. ~(i > 1)
    BY <1>1, <1>9
  <2> QED BY <2>2, <2>3, <2>4, <2>6, <2>7
<1> QED BY <1>6, <1>7, <1>8, <1>9

\* The modulo residual is a whole number of folds, and after the first samples it
\* is what the first stage ought to add.
LEMMA ResidualExact ==
  ASSUME NEW g, Sampled(g), NEW dy, dy = nth_order_difference(AdcValue(g))
  PROVE  /\ Whole(modulo(dy[order]) - dy[order])
         /\ samples >= order =>
              modulo(dy[order]) - dy[order] = Exact(1, 1)' - Exact(1, 1)
<1> DEFINE d == Exact(1, 1)' - Exact(1, 1)
<1>1. /\ order \in 1..3 /\ order \in Orders /\ order' = order /\ samples \in Nat
      /\ lam \in Nat \ {0} /\ MaxRise \in Nat /\ MA_WINDOW_SIZE \in Nat \ {0}
  BY ModelConstants, SampledFacts
<1>2. dy[order] \in Int
  <2>1. dy \in [0..MaxOrder -> Int] /\ order \in 0..MaxOrder
    BY <1>1, DifferencesAre DEF MaxOrder
  <2> QED BY <2>1
<1>3. Whole(d)
  <2>1. 1 \in 1..order
    BY <1>1
  <2> QED BY <2>1, ExactMoves
<1>4. /\ Growth(1) = LastFolds(1) - LastFolds(2)
      /\ Growth(1)' = LastFolds(1)' - LastFolds(1)
      /\ Growth(2)' = Growth(1) /\ Growth(1) \in Int /\ Growth(1)' \in Int /\ Growth(2) \in Int
      /\ LastFolds(2)' = LastFolds(1) /\ LastFolds(1) \in Int /\ LastFolds(1)' \in Int
  <2>1. 1 \in 1..MA_WINDOW_SIZE /\ 1 \in 1..MA_WINDOW_SIZE+1 /\ 2 \in 1..MA_WINDOW_SIZE+1
        /\ 1 \in 1..MA_WINDOW_SIZE+2 /\ 1 + 1 = 2
    BY <1>1
  <2>2. Growth(1) = LastFolds(1) - LastFolds(2)
    BY <2>1 DEF Growth
  <2> QED BY <2>1, <2>2, FoldsMove, GrowthMoves
<1>5. ASSUME samples >= order PROVE dy[order] + d \in -lam .. lam - 1
  <2>1. CASE order = 1
    <3>1. /\ Exact(1, 1) = fold_totals[1] /\ Exact(1, 1)' = fold_totals'[1]
          /\ LastFolds(1) = fold_totals[1] - fold_totals[1 - 1]
          /\ LastFolds(1)' = fold_totals'[1] - fold_totals'[1 - 1]
      BY <1>1, <2>1 DEF Exact, LastFolds
    <3>2. fold_totals[0] = 0 /\ fold_totals'[0] = 0 /\ 1 - 1 = 0
          /\ fold_totals[1] \in Int /\ fold_totals'[1] \in Int
      <4>1. 1 \in 0..MA_WINDOW_SIZE+2 /\ 1 - 1 = 0
        BY <1>1
      <4>2. /\ fold_totals \in [0..MA_WINDOW_SIZE+2 -> Int]
            /\ fold_totals' \in [0..MA_WINDOW_SIZE+2 -> Int]
            /\ fold_totals[0] = 0 /\ fold_totals'[0] = 0
        BY FoldsMove
      <4> QED BY <4>1, <4>2
    <3>3. d = Growth(1)'
      BY <1>4, <3>1, <3>2
    <3>4. dy[1] + Growth(1)' \in -MaxRise..MaxRise
      BY <1>1, <1>5, <2>1, DifferencesMove
    <3>5. MaxRise < lam
      BY <1>1, <2>1, OrderCases
    <3> QED BY <1>1, <1>2, <2>1, <3>3, <3>4, <3>5
  <2>2. CASE order = 2
    <3>1. /\ Exact(1, 1) = LastFolds(1) - LastFolds(1 + 1)
          /\ Exact(1, 1)' = LastFolds(1)' - LastFolds(1 + 1)' /\ 1 + 1 = 2
      BY <1>1, <2>2 DEF Exact
    <3>2. d = Growth(1)' - Growth(1)
      BY <1>4, <3>1
    <3>3. dy[2] + (Growth(1)' - Growth(1)) \in -(2 * MaxRise) .. 2 * MaxRise
      BY <1>1, <1>5, <2>2, DifferencesMove
    <3>4. 2 * MaxRise < lam
      BY <1>1, <2>2, OrderCases
    <3>5. dy[2] + d \in -(2 * MaxRise) .. 2 * MaxRise /\ d \in Int
      BY <1>4, <3>2, <3>3
    <3> HIDE DEF d
    <3> QED BY <1>1, <1>2, <2>2, <3>4, <3>5
  <2>3. CASE order = 3
    <3>1. /\ Exact(1, 1) = Growth(1) - Growth(1 + 1)
          /\ Exact(1, 1)' = Growth(1)' - Growth(1 + 1)' /\ 1 + 1 = 2
      BY <1>1, <2>3 DEF Exact
    <3>2. d = (Growth(1)' - Growth(1)) - (Growth(1) - Growth(2))
      BY <1>4, <3>1
    <3>3. dy[3] + ((Growth(1)' - Growth(1)) - (Growth(1) - Growth(2)))
            \in -(4 * MaxRise) .. 4 * MaxRise
      BY <1>1, <1>5, <2>3, DifferencesMove
    <3>4. 4 * MaxRise < lam
      BY <1>1, <2>3, OrderCases
    <3>5. dy[3] + d \in -(4 * MaxRise) .. 4 * MaxRise /\ d \in Int
      BY <1>4, <3>2, <3>3
    <3> HIDE DEF d
    <3> QED BY <1>1, <1>2, <2>3, <3>4, <3>5
  <2> QED BY <1>1, <2>1, <2>2, <2>3
<1> HIDE DEF d
<1>6. samples >= order => modulo(dy[order]) - dy[order] = d
  BY <1>2, <1>3, <1>5, ModuloFacts
<1> QED BY <1>2, <1>6, ModuloFacts DEF d

-----------------------------------------------------------------------------
(* The stages.                                                             *)

\* An integrator makes a whole number of folds, and of an input that is less than
\* half a fold away from x it adds x.
LEMMA IntegratorFacts ==
  ASSUME NEW i, Whole(anti_diff_buffer[i]), NEW p \in Int, NEW q \in Nat \ {0}
  PROVE  /\ Whole(Integrator(i, p, q))
         /\ \A x, e \in Int :
              Whole(x) /\ p = q * x + e /\ -(q * two_lam) < 2 * e /\ 2 * e < q * two_lam
                => Integrator(i, p, q) = anti_diff_buffer[i] + x
<1> DEFINE b == anti_diff_buffer[i]
<1>1. b \in Int /\ Whole(b)
  BY WholeFacts
<1>2. \/ Integrator(i, p, q) = b + RoundToFolds(p, q)
      \/ Integrator(i, p, q) = RoundToFolds(q * b + p, q)
  BY DEF Integrator, SumRounded
<1> HIDE DEF b
<1>3. q * b \in Int /\ q * b + p \in Int
  BY <1>1
<1>4. Whole(RoundToFolds(p, q)) /\ Whole(RoundToFolds(q * b + p, q))
  BY <1>3, RoundedWholeFolds
<1>5. Whole(Integrator(i, p, q))
  BY <1>1, <1>2, <1>4, WholeFacts
<1>6. ASSUME NEW x \in Int, NEW e \in Int, Whole(x), p = q * x + e,
             -(q * two_lam) < 2 * e, 2 * e < q * two_lam
      PROVE  Integrator(i, p, q) = b + x
  <2>1. RoundToFolds(p, q) = x
    BY <1>6, RoundedNear
  <2>2. Whole(b + x)
    BY <1>1, <1>6, WholeFacts
  <2>3. q * b + p = q * (b + x) + e
    <3>1. q * (b + x) = q * b + q * x /\ q * x \in Int
      BY <1>1
    <3> QED BY <1>3, <1>6, <3>1
  <2>4. RoundToFolds(q * b + p, q) = b + x
    <3> DEFINE y == b + x
               r == q * b + p
    <3>1. Whole(y) /\ r = q * y + e
      BY <2>2, <2>3
    <3> HIDE DEF y, r
    <3>2. RoundToFolds(r, q) = y
      BY <1>6, <3>1, RoundedNear
    <3> QED BY <3>2 DEF y, r
  <2> QED BY <1>2, <2>1, <2>4
<1> QED BY <1>5, <1>6 DEF b

\* What a stage makes of p/q.
Makes(i, p, q, r) ==
  /\ r.sum = Integrator(i, p, q) /\ r.sum \in Int
  /\ r.ma = updateMovingAverage(ma[Filter(i)], r.sum) /\ r.ma \in MovingAverage
  /\ r.q = r.ma.count /\ r.q \in Nat \ {0}
  /\ r.p = r.ma.count * r.sum - r.ma.sum /\ r.p \in Int

LEMMA StageFacts ==
  ASSUME ModelTypeOK, NEW i \in 1..MaxOrder, NEW p \in Int, NEW q \in Nat \ {0},
         NEW r, r = Stage(i, p, q)
  PROVE  Makes(i, p, q, r)
<1>1. r.sum = Integrator(i, p, q)
  BY DEF Stage
<1>2. anti_diff_buffer[i] \in Int /\ MA_WINDOW_SIZE \in Nat \ {0}
  BY ModelConstants DEF ModelTypeOK
<1>3. r.sum \in Int
  <2> DEFINE b == anti_diff_buffer[i]
  <2>1. \/ Integrator(i, p, q) = b + RoundToFolds(p, q)
        \/ Integrator(i, p, q) = RoundToFolds(q * b + p, q)
    BY DEF Integrator, SumRounded
  <2>2. b \in Int
    BY <1>2
  <2> HIDE DEF b
  <2>3. q * b + p \in Int
    BY <2>2
  <2>4. RoundToFolds(p, q) \in Int /\ RoundToFolds(q * b + p, q) \in Int
    BY <2>3, RoundedWholeFolds, WholeFacts
  <2> QED BY <1>1, <2>1, <2>2, <2>4
<1>4. ma[Filter(i)] \in MovingAverage
  <2>1. Filter(i) \in 1..MaxOrder
    BY DEF Filter, MaxOrder
  <2> QED BY <2>1 DEF ModelTypeOK
<1>5. /\ r.ma = updateMovingAverage(ma[Filter(i)], r.sum)
      /\ r.q = r.ma.count /\ r.p = r.ma.count * r.sum - r.ma.sum
  BY DEF Stage
<1>6. r.ma \in MovingAverage /\ r.ma.count \in 1..MA_WINDOW_SIZE /\ r.ma.sum \in Int
  BY <1>3, <1>4, <1>5, UpdateFacts
<1>7. r.ma.count \in Nat \ {0}
  BY <1>2, <1>6
<1>8. r.ma.count * r.sum - r.ma.sum \in Int
  BY <1>3, <1>6, <1>7
<1> QED BY <1>1, <1>3, <1>5, <1>6, <1>7, <1>8 DEF Makes

\* Totals that move up, as those of the filters do, and totals that are E and a
\* constant as far as n.
Moved(E, F) == F[0] = 0 /\ \A k \in 1..MA_WINDOW_SIZE : F[k] = F[1] + E[k - 1]

OffBy(t, c, E, n) == \A k \in 0..MA_WINDOW_SIZE : k <= n => t[k] = k * c + E[k]

\* A stage whose constant is c keeps it, whatever it was given before its start.
LEMMA StageTotalsMove ==
  ASSUME NEW E \in [0..MA_WINDOW_SIZE -> Int], NEW F \in [0..MA_WINDOW_SIZE -> Int], Moved(E, F),
         NEW t \in [0..MA_WINDOW_SIZE -> Int], t[0] = 0, NEW c \in Int, NEW n \in Int,
         OffBy(t, c, E, n),
         NEW x \in Int, n >= 1 => x = t[1] + (F[1] - E[1]),
         NEW m \in Int, m <= n + 1
  PROVE  \E d \in Int : OffBy(Pushed(t, x), d, F, m)
<1> DEFINE W == MA_WINDOW_SIZE
           s == Pushed(t, x)
<1>1. s[0] = 0 /\ \A k \in 1..W : s[k] = x + t[k - 1]
  BY PushedFacts
<1>2. F[0] = 0 /\ \A k \in 1..W : F[k] = F[1] + E[k - 1]
  BY DEF Moved
<1>3. \A k \in 0..W : k <= n => t[k] = k * c + E[k]
  BY DEF OffBy
<1>4. W \in Nat \ {0} /\ 1 \in 0..W /\ 0 \in 0..W /\ 1 \in 1..W
  BY ModelConstants
<1> HIDE DEF s
<1>5. F[1] \in Int /\ E[1] \in Int /\ t[1] \in Int
  BY <1>4
<1>6. CASE n >= 1
  <2>1. x = c + F[1]
    <3>1. t[1] = 1 * c + E[1]
      BY <1>3, <1>4, <1>6
    <3> QED BY <1>5, <1>6, <3>1
  <2>2. ASSUME NEW k \in 0..W, k <= m PROVE s[k] = k * c + F[k]
    <3>1. CASE k = 0
      <4>1. k * c = 0 /\ s[k] = 0 /\ F[k] = 0
        BY <1>1, <1>2, <3>1
      <4> QED BY <4>1
    <3>2. CASE k # 0
      <4>1. k \in 1..W /\ k - 1 \in 0..W /\ k - 1 <= n /\ k \in Int
        BY <1>4, <2>2, <3>2
      <4>2. s[k] = x + t[k - 1] /\ t[k - 1] = (k - 1) * c + E[k - 1] /\ E[k - 1] \in Int
            /\ F[k] = F[1] + E[k - 1]
        BY <1>1, <1>2, <1>3, <4>1
      <4>3. (k - 1) * c = k * c - c /\ k * c \in Int
        BY <4>1
      <4> DEFINE z == k * c
      <4>4. z \in Int /\ (k - 1) * c = z - c
        BY <4>3
      <4> HIDE DEF z
      <4>5. t[k - 1] = (z - c) + E[k - 1]
        BY <4>2, <4>4
      <4>6. s[k] = (c + F[1]) + ((z - c) + E[k - 1])
        BY <2>1, <4>2, <4>5
      <4>7. \A f, e \in Int : (c + f) + ((z - c) + e) = z + (f + e)
        BY <4>4
      <4>8. (c + F[1]) + ((z - c) + E[k - 1]) = z + (F[1] + E[k - 1])
        BY <1>5, <4>2, <4>7
      <4>9. s[k] = z + F[k]
        BY <4>2, <4>6, <4>8, Zenon
      <4> QED BY <4>9 DEF z
    <3> QED BY <3>1, <3>2
  <2> QED BY <2>2 DEF OffBy, s
<1>7. CASE ~(n >= 1)
  <2> DEFINE d == x - F[1]
  <2>1. d \in Int
    BY <1>5
  <2>2. ASSUME NEW k \in 0..W, k <= m PROVE s[k] = k * d + F[k]
    <3>1. k = 0 \/ k = 1
      BY <1>4, <1>7, <2>2
    <3>2. CASE k = 0
      <4>1. k * d = 0 /\ s[k] = 0 /\ F[k] = 0
        BY <1>1, <1>2, <2>1, <3>2
      <4> QED BY <4>1
    <3>3. CASE k = 1
      <4>1. s[1] = x
        <5>1. s[1] = x + t[0]
          <6>1. 1 - 1 = 0
            OBVIOUS
          <6> QED BY <1>1, <1>4, <6>1
        <5> QED BY <5>1
      <4>2. 1 * d = d /\ d + F[1] = x
        BY <1>5, <2>1
      <4> QED BY <3>3, <4>1, <4>2
    <3> QED BY <3>1, <3>2, <3>3
  <2> QED BY <2>1, <2>2 DEF OffBy, s
<1> QED BY <1>6, <1>7

\* The start of a stage: a window after that of the stage before.
LEMMA StartFacts ==
  ASSUME order \in 1..3, NEW i \in 1..order
  PROVE  /\ Start(i) \in Nat \ {0} /\ Start(1) = order
         /\ i < order => Start(i + 1) = Start(i) + MA_WINDOW_SIZE
         /\ Settled = Start(order) + MA_WINDOW_SIZE
<1> DEFINE W == MA_WINDOW_SIZE
<1>1. W \in Nat \ {0} /\ i \in 1..3 /\ i <= order
  BY ModelConstants
<1>2. /\ Start(i) = order + (i - 1) * W /\ Start(i + 1) = order + (i + 1 - 1) * W
      /\ Start(1) = order + (1 - 1) * W /\ Start(order) = order + (order - 1) * W
      /\ Settled = order * (W + 1)
  BY DEF Start, Settled
<1>3. (1 - 1) * W = 0 /\ (2 - 1) * W = W /\ (3 - 1) * W = 2 * W /\ 2 * W = W + W
      /\ 1 * (W + 1) = W + 1 /\ 2 * (W + 1) = W + W + 2 /\ 3 * (W + 1) = W + W + W + 3
  BY <1>1
<1>4. /\ i = 1 => (i - 1) * W = 0 /\ (i + 1 - 1) * W = W
      /\ i = 2 => (i - 1) * W = W /\ (i + 1 - 1) * W = W + W
      /\ i = 3 => (i - 1) * W = W + W
  BY <1>1
<1>5. /\ order = 1 => (order - 1) * W = 0 /\ order * (W + 1) = W + 1
      /\ order = 2 => (order - 1) * W = W /\ order * (W + 1) = W + W + 2
      /\ order = 3 => (order - 1) * W = W + W /\ order * (W + 1) = W + W + W + 3
  BY <1>1
<1>6. Start(i) \in Nat \ {0}
  BY <1>1, <1>2, <1>4
<1>7. i < order => Start(i + 1) = Start(i) + W
  BY <1>1, <1>2, <1>4
<1>8. Settled = Start(order) + W
  BY <1>1, <1>2, <1>5
<1>9. Start(1) = order
  BY <1>1, <1>2, <1>3
<1> QED BY <1>6, <1>7, <1>8, <1>9

\* In a window the stages before the last integrate less than two folds each way.
LEMMA ExactBound ==
  ASSUME NEW g, Sampled(g), NEW i \in 1..order, i < order, samples >= Start(i + 1)
  PROVE  /\ Exact(i, MA_WINDOW_SIZE)' \in -(2 * two_lam) .. 2 * two_lam
         /\ MA_WINDOW_SIZE > 4
<1> DEFINE W == MA_WINDOW_SIZE
<1>1. /\ W \in Nat \ {0} /\ order \in 1..3 /\ order \in Orders /\ order' = order
      /\ i \in 1..3 /\ i + 1 \in 1..order
      /\ samples \in Nat /\ samples' \in Nat /\ samples <= samples' /\ g \in Int /\ voltage' = g
      /\ lam \in Nat \ {0} /\ two_lam = 2 * lam /\ MaxRise \in Nat
  BY ModelConstants, SampledFacts
<1>2. MaxRise * W <= two_lam /\ W > 4
  BY <1>1, OrderCases
<1>3. Start(i) \in Nat \ {0} /\ Start(i + 1) = Start(i) + W
  BY <1>1, StartFacts
<1>4. Start(1) = order /\ (i # 1 => Start(i) = Start(1) + W \/ Start(i) = Start(2) + W)
  <2>1. 1 \in 1..order /\ (order >= 2 => 2 \in 1..order)
    BY <1>1
  <2>2. Start(1) = order
    BY <1>1, <2>1, StartFacts
  <2>3. i = 2 => Start(2) = Start(1) + W
    <3>1. 1 < order => Start(1 + 1) = Start(1) + W
      BY <1>1, <2>1, StartFacts
    <3>2. 1 + 1 = 2 /\ 1 < order
      BY <1>1
    <3> QED BY <3>1, <3>2
  <2>4. ~(i = 3)
    BY <1>1
  <2> QED BY <1>1, <2>2, <2>3, <2>4
<1>5. W + 1 < samples'
  <2>1. i = 1 => samples >= order + W /\ order > 1
    BY <1>1, <1>3, <1>4
  <2>2. i # 1 => samples >= Start(i) + W /\ i = 2 /\ order = 3
    BY <1>1, <1>3
  <2>3. i = 2 => Start(2) = Start(1) + W /\ Start(1) = order
    <3>1. 1 \in 1..order /\ 1 < order /\ 1 + 1 = 2
      BY <1>1
    <3> QED BY <1>1, <1>4, <3>1, StartFacts
  <2> QED BY <1>1, <2>1, <2>2, <2>3
<1>6. order - i = 1 \/ order - i = 2
  BY <1>1
<1>7. CASE order - i = 1
  <2>1. Exact(i, W)' = LastFolds(1)' - LastFolds(W + 1)'
    BY <1>1, <1>7 DEF Exact
  <2>2. /\ \A k \in 1..W+2 : k <= samples' =>
             g - LastFolds(k)' \in -(lam + (k - 1) * MaxRise) .. lam - 1 + (k - 1) * MaxRise
        /\ \A k \in 1..W+2 : Whole(LastFolds(k)') /\ LastFolds(k)' \in Int
    BY <1>1, FoldsNearMoves, FoldsMove DEF FoldsNear
  <2>3. 1 \in 1..W+2 /\ W + 1 \in 1..W+2 /\ 1 <= samples' /\ W + 1 <= samples'
    BY <1>1, <1>5
  <2>4. g - LastFolds(1)' \in -(lam + (1 - 1) * MaxRise) .. lam - 1 + (1 - 1) * MaxRise
    BY <2>2, <2>3
  <2>5. g - LastFolds(W + 1)'
          \in -(lam + (W + 1 - 1) * MaxRise) .. lam - 1 + (W + 1 - 1) * MaxRise
    <3>1. PICK k : k = W + 1
      OBVIOUS
    <3>2. k \in 1..W+2 /\ k <= samples'
      BY <2>3, <3>1
    <3>3. g - LastFolds(k)' \in -(lam + (k - 1) * MaxRise) .. lam - 1 + (k - 1) * MaxRise
      BY <2>2, <3>2
    <3>4. LastFolds(k)' = LastFolds(W + 1)'
      BY <3>1 DEF LastFolds
    <3>5. k - 1 = W + 1 - 1
      BY <1>1, <3>1
    <3> QED BY <3>3, <3>4, <3>5
  <2>6. (1 - 1) * MaxRise = 0 /\ (W + 1 - 1) * MaxRise = MaxRise * W /\ MaxRise * W \in Nat
    BY <1>1
  <2> DEFINE x == LastFolds(1)' - LastFolds(W + 1)'
             z == MaxRise * W
  <2>7. Whole(x) /\ x \in Int
    BY <2>2, <2>3, WholeFacts
  <2>8. z \in Nat /\ z <= two_lam
    BY <1>2, <2>6
  <2>9. g - LastFolds(1)' \in -lam .. lam - 1
    BY <2>4, <2>6, <1>1
  <2>10. g - LastFolds(W + 1)' \in -(lam + z) .. lam - 1 + z
    BY <2>5, <2>6
  <2> HIDE DEF z
  <2>11. -(2 * two_lam) < x /\ x < 2 * two_lam
    <3>1. LastFolds(1)' \in Int /\ LastFolds(W + 1)' \in Int
      BY <2>2, <2>3
    <3> QED BY <1>1, <2>8, <2>9, <2>10, <3>1
  <2> HIDE DEF x
  <2>12. x \in -two_lam..two_lam
    BY <2>7, <2>11, OneFold
  <2>13. x \in -(2 * two_lam) .. 2 * two_lam
    BY <1>1, <2>12
  <2> QED BY <1>2, <2>1, <2>13 DEF x
<1>8. CASE order - i = 2
  <2>1. Exact(i, W)' = Growth(1)' - Growth(W + 1)'
    BY <1>1, <1>8 DEF Exact
  <2>2. /\ \A k \in 1..W+1 : k < samples' => Growth(k)' \in -two_lam..two_lam
        /\ \A k \in 1..W+1 : Growth(k)' \in Int
    BY <1>1, FoldsNearMoves, GrowthMoves DEF FoldsNear, two_lam
  <2>3. 1 \in 1..W+1 /\ W + 1 \in 1..W+1 /\ 1 < samples'
    BY <1>1, <1>5
  <2>4. Growth(1)' \in -two_lam..two_lam /\ Growth(W + 1)' \in -two_lam..two_lam
    BY <1>5, <2>2, <2>3
  <2> QED BY <1>1, <1>2, <2>1, <2>4
<1> QED BY <1>6, <1>7, <1>8

\* A stage that adds what it ought to since its start has what it ought to have,
\* and a constant.
LEMMA StageMoves ==
  ASSUME NEW g, Sampled(g), NEW i \in 1..order,
         NEW t \in [0..MA_WINDOW_SIZE -> Int], NEW c \in Int, StageHas(i, t, c),
         NEW x, Whole(x), anti_diff_buffer'[i] = x,
         ma'[Filter(i)] = updateMovingAverage(ma[Filter(i)], x),
         samples >= Start(i) =>
           x = anti_diff_buffer[i] + (Exact(i, 1)' - Exact(i, 1))
  PROVE  \E s \in [0..MA_WINDOW_SIZE -> Int], d \in Int : StageHas(i, s, d)'
<1> DEFINE W == MA_WINDOW_SIZE
           m == ma[Filter(i)]
           u == updateMovingAverage(m, x)
           s == Pushed(t, x)
<1>1. /\ W \in Nat \ {0} /\ order \in 1..3 /\ order' = order /\ x \in Int
      /\ samples \in Nat /\ samples' \in Nat /\ samples' <= samples + 1
      /\ samples < W => samples' = samples + 1
      /\ samples <= samples'
  BY ModelConstants, SampledFacts, WholeFacts
<1>2. m \in MovingAverage
  <2>1. Filter(i) \in 1..MaxOrder
    BY <1>1 DEF Filter, MaxOrder
  <2> QED BY <2>1 DEF Sampled, ModelInv, ModelTypeOK
<1>3. /\ HasTotals(m, t)
      /\ m.count = IF samples < W THEN samples ELSE W
      /\ anti_diff_buffer[i] = t[1]
      /\ \A k \in 0..W : k <= samples + 1 - Start(i) => t[k] = k * c + Exact(i, k)
  BY DEF StageHas
<1>4. HasTotals(u, s)
  BY <1>1, <1>2, <1>3, FilterMoves
<1>5. /\ s \in [0..W -> Int] /\ s[0] = 0
      /\ \A k \in 1..W : s[k] = x + t[k - 1]
  BY <1>1, PushedFacts
<1>6. ma'[Filter(i)'] = u
  <2>1. Filter(i)' = Filter(i)
    BY <1>1 DEF Filter
  <2> QED BY <2>1
<1>7. u.count = IF samples' < W THEN samples' ELSE W
  <2>1. u.count = IF m.count < W THEN m.count + 1 ELSE m.count
    BY DEF updateMovingAverage
  <2>2. PICK n : n = m.count
    OBVIOUS
  <2>3. n = IF samples < W THEN samples ELSE W
    BY <1>3, <2>2
  <2>4. u.count = IF n < W THEN n + 1 ELSE n
    BY <2>1, <2>2
  <2> HIDE DEF u
  <2> QED BY <1>1, <2>3, <2>4
<1>8. t[0] = 0
  BY <1>3 DEF HasTotals
<1>9. PICK E : E = [k \in 0..W |-> Exact(i, k)]
  OBVIOUS
<1>10. PICK F : F = [k \in 0..W |-> Exact(i, k)']
  OBVIOUS
<1>11. \A k \in 0..W : E[k] = Exact(i, k) /\ F[k] = Exact(i, k)'
  BY <1>9, <1>10
<1>12. /\ E \in [0..W -> Int] /\ F \in [0..W -> Int]
  <2>1. \A k \in 0..W : Exact(i, k) \in Int /\ Exact(i, k)' \in Int
    BY ExactMoves
  <2> QED BY <1>9, <1>10, <2>1
<1>13. 0 \in 0..W /\ 1 \in 0..W /\ 1 \in 1..W /\ 1 - 1 = 0
       /\ \A k \in 1..W : k \in 0..W /\ k - 1 \in 0..W
  BY <1>1
<1>14. F[0] = 0 /\ \A k \in 1..W : F[k] = F[1] + E[k - 1]
  BY <1>11, <1>13, ExactMoves
<1>15. Start(i) \in Nat \ {0} /\ Start(i)' = Start(i)
  <2>1. Start(i)' = Start(i)
    BY <1>1 DEF Start
  <2> QED BY <1>1, <2>1, StartFacts
<1> DEFINE n == samples + 1 - Start(i)
           v == samples' + 1 - Start(i)
<1>16. n \in Int /\ v \in Int /\ v <= n + 1 /\ (n >= 1 <=> samples >= Start(i))
  BY <1>1, <1>15
<1>17. n >= 1 => x = t[1] + (F[1] - E[1])
  BY <1>3, <1>11, <1>13, <1>16
<1>18. \A k \in 0..W : k <= n => t[k] = k * c + E[k]
  BY <1>3, <1>11
<1>19. \E d \in Int : OffBy(Pushed(t, x), d, F, v)
  <2>1. Moved(E, F) /\ OffBy(t, c, E, n)
    BY <1>14, <1>18 DEF Moved, OffBy
  <2> HIDE DEF n, v
  <2> QED BY <1>1, <1>8, <1>12, <1>16, <1>17, <2>1, StageTotalsMove
<1>20. PICK d \in Int : \A k \in 0..W : k <= v => s[k] = k * d + F[k]
  BY <1>19 DEF OffBy
<1>21. s[1] = x
  <2>1. s[1] = x + t[0]
    BY <1>5, <1>13
  <2> QED BY <1>1, <1>8, <2>1
<1>22. \A k \in 0..W : k <= samples' + 1 - Start(i)' => s[k] = k * d + Exact(i, k)'
  BY <1>11, <1>15, <1>20
<1>23. x % two_lam = 0
  BY WholeFacts
<1>24. HasTotals(ma'[Filter(i)'], s) /\ ma'[Filter(i)'].count = u.count
  BY <1>4, <1>6
<1> HIDE DEF s, u
<1>25. StageHas(i, s, d)'
  BY <1>7, <1>21, <1>22, <1>23, <1>24 DEF StageHas, HasTotals, AgeIn, two_lam
<1> QED BY <1>5, <1>25

\* What it hands on once its window is full: its constant is gone, and what is
\* left is near what the next stage ought to add.
LEMMA HandedOn ==
  ASSUME NEW g, Sampled(g), NEW i \in 1..order, i < order, samples >= Start(i + 1),
         NEW s \in [0..MA_WINDOW_SIZE -> Int], NEW d \in Int, StageHas(i, s, d)'
  PROVE  \E e \in Int :
           /\ anti_diff_buffer'[i] \in Int
           /\ ma'[Filter(i)].count = MA_WINDOW_SIZE
           /\ MA_WINDOW_SIZE * anti_diff_buffer'[i] - ma'[Filter(i)].sum
                = MA_WINDOW_SIZE * Exact(i, 1)' + e
           /\ -(MA_WINDOW_SIZE * two_lam) < 2 * e /\ 2 * e < MA_WINDOW_SIZE * two_lam
<1> DEFINE W == MA_WINDOW_SIZE
           x == Exact(i, 1)'
           e == -(Exact(i, MA_WINDOW_SIZE)')
<1>1. /\ W \in Nat \ {0} /\ order \in 1..3 /\ order' = order /\ two_lam \in Nat \ {0}
      /\ samples \in Nat /\ samples' \in Nat /\ samples <= samples'
  BY ModelConstants, SampledFacts
<1>2. Start(i) \in Nat \ {0} /\ Start(i + 1) = Start(i) + W /\ Start(i)' = Start(i)
  <2>1. Start(i)' = Start(i)
    BY <1>1 DEF Start
  <2> QED BY <1>1, <2>1, StartFacts
<1>3. Filter(i)' = Filter(i) /\ two_lam' = two_lam
  BY <1>1 DEF Filter, two_lam
<1>4. /\ ma'[Filter(i)].sum = s[W]
      /\ ma'[Filter(i)].count = IF samples' < W THEN samples' ELSE W
      /\ anti_diff_buffer'[i] = s[1]
      /\ \A k \in 0..W : k <= samples' + 1 - Start(i) => s[k] = k * d + Exact(i, k)'
  BY <1>2, <1>3 DEF StageHas, HasTotals
<1>5. 1 \in 0..W /\ W \in 0..W /\ 1 <= samples' + 1 - Start(i) /\ W <= samples' + 1 - Start(i)
      /\ ~(samples' < W)
  BY <1>1, <1>2
<1>6. s[1] = 1 * d + Exact(i, 1)' /\ s[W] = W * d + Exact(i, W)'
  BY <1>4, <1>5
<1>7. x \in Int /\ Exact(i, W)' \in Int
  BY <1>5, ExactMoves
<1>8. e \in -(2 * two_lam) .. 2 * two_lam /\ W > 4
  <2>1. Exact(i, W)' \in -(2 * two_lam) .. 2 * two_lam /\ W > 4
    BY ExactBound
  <2> DEFINE y == Exact(i, W)'
  <2>2. y \in -(2 * two_lam) .. 2 * two_lam /\ y \in Int
    BY <1>7, <2>1
  <2> HIDE DEF y
  <2>3. -y \in -(2 * two_lam) .. 2 * two_lam
    BY <1>1, <2>2
  <2> QED BY <2>1, <2>3 DEF y
<1>9. W * two_lam >= 5 * two_lam /\ W * two_lam \in Int
  <2>1. W >= 5
    BY <1>1, <1>8
  <2> QED BY <1>1, <2>1
<1>10. W * s[1] - s[W] = W * x + e
  <2> DEFINE y == Exact(i, W)'
             z == W * d
  <2>1. s[1] = d + x /\ s[W] = z + y /\ y \in Int /\ z \in Int /\ e = -y
    BY <1>1, <1>6, <1>7
  <2> HIDE DEF x, y, e
  <2>2. W * (d + x) = W * d + W * x /\ W * x \in Int
    BY <1>1, <1>7 DEF x
  <2>3. W * s[1] = z + W * x
    BY <2>1, <2>2 DEF z
  <2> HIDE DEF z
  <2> QED BY <2>1, <2>2, <2>3
<1>11. s[1] \in Int
  BY <1>5
<1> HIDE DEF e, x
<1>12. -(W * two_lam) < 2 * e /\ 2 * e < W * two_lam /\ e \in Int
  <2> DEFINE p == W * two_lam
  <2>1. p >= 5 * two_lam /\ p \in Int
    BY <1>9
  <2> HIDE DEF p
  <2>2. -p < 2 * e /\ 2 * e < p /\ e \in Int
    BY <1>1, <1>8, <2>1
  <2> QED BY <2>2 DEF p
<1> QED BY <1>4, <1>5, <1>10, <1>11, <1>12 DEF x

-----------------------------------------------------------------------------
(* top().                                                                  *)

\* The byte is one.
LEMMA DacInRange ==
  ASSUME NEW p \in Int, NEW q \in Nat \ {0}
  PROVE  float_to_dac(p, q) \in 0..DAC_MAX_VALUE
<1> DEFINE V == q * V_REF
           M == DAC_MAX_VALUE
           b == p + q * OFFSET
           z == IF b < 0 THEN 0 ELSE IF b > V THEN V ELSE b
<1>1. V \in Nat \ {0} /\ M \in Nat /\ b \in Int
  BY ModelConstants
<1>2. float_to_dac(p, q) = (z * M) \div V
  BY DEF float_to_dac
<1> HIDE DEF b, V, M
<1>3. z \in Int /\ 0 <= z /\ z <= V
  BY <1>1
<1> HIDE DEF z
<1>4. z * M \in Int /\ 0 <= z * M /\ z * M <= V * M
  BY <1>1, <1>3
<1>5. V * 0 <= z * M /\ V * M \in Int
  BY <1>1, <1>4
<1> DEFINE n == z * M
<1>6. n \in Int /\ V * 0 <= n /\ n <= V * M
  BY <1>4, <1>5
<1> HIDE DEF n
<1>7. 0 <= n \div V /\ n \div V <= M /\ n \div V \in Int
  BY <1>1, <1>6, QuotientBounds, DivisionFacts
<1> QED BY <1>1, <1>2, <1>7 DEF n, M

\* The stages top() runs are those of the order, and each has its filter.
LEMMA TopFacts ==
  ASSUME NEW g, Sampled(g), NEW dy, dy = nth_order_difference(AdcValue(g)),
         NEW d, d = modulo(dy[order]) - dy[order],
         NEW one, one = Stage(1, d, 1), NEW two, two = Stage(2, one.p, one.q),
         NEW three, three = Stage(3, two.p, two.q)
  PROVE  /\ anti_diff_buffer'[1] = one.sum /\ ma'[Filter(1)] = one.ma
         /\ order >= 2 => anti_diff_buffer'[2] = two.sum /\ ma'[Filter(2)] = two.ma
         /\ order = 3 => anti_diff_buffer'[3] = three.sum /\ ma'[Filter(3)] = three.ma
         /\ anti_diff_buffer' \in [1..MaxOrder -> Int]
         /\ ma' \in [1..MaxOrder -> MovingAverage]
         /\ dac_value' \in 0..DAC_MAX_VALUE
<1> DEFINE st == <<one, two, three>>
           eps == st[order]
<1>1. /\ anti_diff_buffer' = [i \in 1..MaxOrder |->
           IF i <= order THEN st[i].sum ELSE anti_diff_buffer[i]]
      /\ ma' = [f \in 1..MaxOrder |->
           IF StageOf(f) \in 1..order THEN st[StageOf(f)].ma ELSE ma[f]]
      /\ dac_value' = float_to_dac(AdcValue(g) * eps.q + eps.p, a * eps.q)
  BY DEF Sampled, ModelSample, top, anti_diff
<1>2. order \in 1..3 /\ 1..MaxOrder = {1, 2, 3} /\ ModelTypeOK
  BY SampledFacts DEF MaxOrder, Sampled, ModelInv
<1>3. d \in Int
  <2>1. Whole(d)
    BY ResidualExact
  <2> QED BY <2>1, WholeFacts
<1>4. one.sum \in Int /\ one.ma \in MovingAverage /\ one.q \in Nat \ {0} /\ one.p \in Int
  <2>1. 1 \in 1..MaxOrder /\ 1 \in Nat \ {0}
    BY DEF MaxOrder
  <2> QED BY <1>2, <1>3, <2>1, StageFacts DEF Makes
<1>5. two.sum \in Int /\ two.ma \in MovingAverage /\ two.q \in Nat \ {0} /\ two.p \in Int
  <2>1. 2 \in 1..MaxOrder
    BY DEF MaxOrder
  <2> QED BY <1>2, <1>4, <2>1, StageFacts DEF Makes
<1>6. three.sum \in Int /\ three.ma \in MovingAverage /\ three.q \in Nat \ {0} /\ three.p \in Int
  <2>1. 3 \in 1..MaxOrder
    BY DEF MaxOrder
  <2> QED BY <1>2, <1>5, <2>1, StageFacts DEF Makes
<1>7. st[1] = one /\ st[2] = two /\ st[3] = three
  OBVIOUS
<1> HIDE DEF st
<1>8. \A i \in 1..3 : st[i].sum \in Int /\ st[i].ma \in MovingAverage
  <2>1. ASSUME NEW i \in 1..3 PROVE st[i].sum \in Int /\ st[i].ma \in MovingAverage
    <3>1. CASE i = 1
      BY <1>4, <1>7, <3>1
    <3>2. CASE i = 2
      BY <1>5, <1>7, <3>2
    <3>3. CASE i = 3
      BY <1>6, <1>7, <3>3
    <3> QED BY <3>1, <3>2, <3>3
  <2> QED BY <2>1
<1>9. /\ anti_diff_buffer \in [1..MaxOrder -> Int] /\ ma \in [1..MaxOrder -> MovingAverage]
      /\ MaxOrder = 3
  BY <1>2 DEF ModelTypeOK, MaxOrder
<1>10. anti_diff_buffer' \in [1..MaxOrder -> Int]
  <2>1. ASSUME NEW i \in 1..MaxOrder
        PROVE  (IF i <= order THEN st[i].sum ELSE anti_diff_buffer[i]) \in Int
    <3>1. anti_diff_buffer[i] \in Int /\ st[i].sum \in Int
      BY <1>8, <1>9
    <3> QED BY <3>1
  <2> QED BY <1>1, <2>1
<1>11. ma' \in [1..MaxOrder -> MovingAverage]
  <2>1. ASSUME NEW f \in 1..MaxOrder
        PROVE  (IF StageOf(f) \in 1..order THEN st[StageOf(f)].ma ELSE ma[f]) \in MovingAverage
    <3>1. CASE StageOf(f) \in 1..order
      <4>1. StageOf(f) \in 1..3
        BY <1>2, <3>1
      <4> QED BY <1>8, <3>1, <4>1
    <3>2. CASE StageOf(f) \notin 1..order
      BY <1>9, <3>2
    <3> QED BY <3>1, <3>2
  <2> QED BY <1>1, <2>1
<1>12. dac_value' \in 0..DAC_MAX_VALUE
  <2>1. eps.q \in Nat \ {0} /\ eps.p \in Int
    <3>1. CASE order = 1
      BY <1>4, <1>7, <3>1
    <3>2. CASE order = 2
      BY <1>5, <1>7, <3>2
    <3>3. CASE order = 3
      BY <1>6, <1>7, <3>3
    <3> QED BY <1>2, <3>1, <3>2, <3>3
  <2>2. AdcValue(g) \in Int
    <3>1. FoldVoltage(g) \in Int
      BY SampledFacts, FoldVoltageFacts, ModelConstants
    <3> QED BY <3>1, ModelConstants DEF AdcValue
  <2> HIDE DEF eps
  <2>3. PICK q \in Nat \ {0} : q = eps.q
    BY <2>1
  <2>4. PICK p \in Int : p = eps.p
    BY <2>1
  <2>5. AdcValue(g) * q + p \in Int /\ a * q \in Nat \ {0}
    BY <2>2, ModelConstants
  <2>6. float_to_dac(AdcValue(g) * q + p, a * q) \in 0..DAC_MAX_VALUE
    BY <2>5, DacInRange
  <2> QED BY <1>1, <2>3, <2>4, <2>6
<1>13. /\ order = 1 => Filter(1) = 2 /\ StageOf(2) = 1 /\ 2 \in 1..MaxOrder
       /\ order # 1 => \A i \in 1..3 : Filter(i) = i /\ StageOf(i) = i /\ i \in 1..MaxOrder
  BY <1>2 DEF Filter, StageOf
<1>14. ASSUME NEW i \in 1..order
       PROVE  anti_diff_buffer'[i] = st[i].sum /\ ma'[Filter(i)] = st[i].ma
  <2>1. i \in 1..3 /\ i \in 1..MaxOrder /\ i <= order
    BY <1>2, <1>9
  <2>2. anti_diff_buffer'[i] = st[i].sum
    BY <1>1, <2>1
  <2>3. Filter(i) \in 1..MaxOrder /\ StageOf(Filter(i)) = i
    <3>1. CASE order = 1
      <4>1. i = 1
        BY <2>1, <3>1
      <4> QED BY <1>13, <3>1, <4>1
    <3>2. CASE order # 1
      BY <1>13, <2>1, <3>2
    <3> QED BY <3>1, <3>2
  <2>4. ma'[Filter(i)] = st[i].ma
    BY <1>1, <2>3
  <2> QED BY <2>2, <2>4
<1>15. 1 \in 1..order /\ (order >= 2 => 2 \in 1..order) /\ (order = 3 => 3 \in 1..order)
  BY <1>2
<1>16. /\ anti_diff_buffer'[1] = one.sum /\ ma'[Filter(1)] = one.ma
       /\ order >= 2 => anti_diff_buffer'[2] = two.sum /\ ma'[Filter(2)] = two.ma
       /\ order = 3 => anti_diff_buffer'[3] = three.sum /\ ma'[Filter(3)] = three.ma
  BY <1>7, <1>14, <1>15
<1> QED BY <1>10, <1>11, <1>12, <1>16

\* An input p/q that is less than half a fold away from x.
Near(p, q, x) ==
  \E e \in Int : p = q * x + e /\ -(q * two_lam) < 2 * e /\ 2 * e < q * two_lam

\* A stage whose input is near what it ought to add adds that, and what it hands on
\* is near what the next ought to.
LEMMA OneStage ==
  ASSUME NEW g, Sampled(g), NEW i \in 1..order, NEW p \in Int, NEW q \in Nat \ {0},
         NEW r, r = Stage(i, p, q), anti_diff_buffer'[i] = r.sum, ma'[Filter(i)] = r.ma,
         samples >= Start(i) => Near(p, q, Exact(i, 1)' - Exact(i, 1))
  PROVE  /\ samples >= Start(i) =>
              anti_diff_buffer'[i] = anti_diff_buffer[i] + (Exact(i, 1)' - Exact(i, 1))
         /\ \E s \in [0..MA_WINDOW_SIZE -> Int], c \in Int : StageHas(i, s, c)'
         /\ i < order /\ samples >= Start(i + 1) =>
              Near(r.p, r.q, Exact(i + 1, 1)' - Exact(i + 1, 1))
         /\ r.p \in Int /\ r.q \in Nat \ {0}
<1> DEFINE W == MA_WINDOW_SIZE
           x == Exact(i, 1)' - Exact(i, 1)
<1>1. order \in 1..3 /\ i \in 1..MaxOrder /\ ModelTypeOK /\ W \in Nat \ {0}
  <2>1. order \in 1..3
    BY SampledFacts
  <2>2. i \in 1..MaxOrder
    BY <2>1 DEF MaxOrder
  <2> QED BY <2>1, <2>2, ModelConstants DEF Sampled, ModelInv
<1>2. /\ r.sum = Integrator(i, p, q) /\ r.sum \in Int
      /\ r.ma = updateMovingAverage(ma[Filter(i)], r.sum)
      /\ r.q = r.ma.count /\ r.q \in Nat \ {0}
      /\ r.p = r.ma.count * r.sum - r.ma.sum /\ r.p \in Int
  <2>1. Makes(i, p, q, r)
    BY <1>1, StageFacts
  <2> QED BY <2>1 DEF Makes
<1>3. PICK t \in [0..W -> Int], c \in Int : StageHas(i, t, c)
  BY DEF Sampled, ModelInv
<1>4. Whole(anti_diff_buffer[i])
  <2>1. anti_diff_buffer[i] \in Int /\ anti_diff_buffer[i] % two_lam = 0
    BY <1>1, <1>3 DEF StageHas, ModelTypeOK
  <2> QED BY <2>1, WholeFacts
<1>5. Whole(r.sum)
  <2>1. Whole(Integrator(i, p, q))
    BY <1>4, IntegratorFacts
  <2> QED BY <1>2, <2>1
<1>6. Whole(x) /\ x \in Int
  BY ExactMoves, WholeFacts
<1> HIDE DEF x
<1>7. ASSUME samples >= Start(i) PROVE r.sum = anti_diff_buffer[i] + x
  <2>1. PICK e \in Int : p = q * x + e /\ -(q * two_lam) < 2 * e /\ 2 * e < q * two_lam
    BY <1>7 DEF Near, x
  <2>2. Integrator(i, p, q) = anti_diff_buffer[i] + x
    BY <1>4, <1>6, <2>1, IntegratorFacts
  <2> QED BY <1>2, <2>2
<1>8. \E s \in [0..W -> Int], d \in Int : StageHas(i, s, d)'
  <2>1. samples >= Start(i) => r.sum = anti_diff_buffer[i] + (Exact(i, 1)' - Exact(i, 1))
    BY <1>7 DEF x
  <2>2. ma'[Filter(i)] = updateMovingAverage(ma[Filter(i)], r.sum)
    BY <1>2
  <2> QED BY <1>3, <1>5, <2>1, <2>2, StageMoves
<1>9. PICK s \in [0..W -> Int], d \in Int : StageHas(i, s, d)'
  BY <1>8
<1>10. ASSUME i < order, samples >= Start(i + 1)
       PROVE  Near(r.p, r.q, Exact(i + 1, 1)' - Exact(i + 1, 1))
  <2>1. PICK e \in Int :
          /\ ma'[Filter(i)].count = W
          /\ W * anti_diff_buffer'[i] - ma'[Filter(i)].sum = W * Exact(i, 1)' + e
          /\ -(W * two_lam) < 2 * e /\ 2 * e < W * two_lam
    BY <1>9, <1>10, HandedOn
  <2>2. Exact(i, 1)' = Exact(i + 1, 1)' - Exact(i + 1, 1)
    <3>1. i + 1 \in 1..order /\ i + 1 > 1 /\ i + 1 - 1 = i
      BY <1>1, <1>10
    <3>2. PICK j : j = i + 1
      OBVIOUS
    <3>3. j \in 1..order /\ j > 1 /\ j - 1 = i
      BY <3>1, <3>2
    <3>4. Exact(j - 1, 1)' = Exact(j, 1)' - Exact(j, 1)
      BY <3>3, ExactMoves
    <3>5. /\ Exact(j - 1, 1)' = Exact(i, 1)' /\ Exact(j, 1)' = Exact(i + 1, 1)'
          /\ Exact(j, 1) = Exact(i + 1, 1)
      BY <3>2, <3>3 DEF Exact
    <3> QED BY <3>4, <3>5
  <2>3. r.ma.count = W /\ r.q = W
    BY <1>2, <2>1
  <2>4. r.p = W * Exact(i, 1)' + e
    BY <1>2, <2>1, <2>3
  <2> QED BY <2>1, <2>2, <2>3, <2>4 DEF Near
<1> QED BY <1>2, <1>7, <1>8, <1>10 DEF x

\* Every stage of a chain does.
LEMMA StagesFollow ==
  ASSUME NEW g, Sampled(g), NEW i \in 1..order
  PROVE  /\ samples >= Start(i) =>
              anti_diff_buffer'[i] = anti_diff_buffer[i] + (Exact(i, 1)' - Exact(i, 1))
         /\ \E s \in [0..MA_WINDOW_SIZE -> Int], c \in Int : StageHas(i, s, c)'
<1>1. order \in 1..3 /\ order \in Nat
  BY SampledFacts
<1>2. PICK dy : dy = nth_order_difference(AdcValue(g))
  OBVIOUS
<1>3. PICK d : d = modulo(dy[order]) - dy[order]
  OBVIOUS
<1>4. PICK one : one = Stage(1, d, 1)
  OBVIOUS
<1>5. PICK two : two = Stage(2, one.p, one.q)
  OBVIOUS
<1>6. PICK three : three = Stage(3, two.p, two.q)
  OBVIOUS
<1>7. /\ anti_diff_buffer'[1] = one.sum /\ ma'[Filter(1)] = one.ma
      /\ order >= 2 => anti_diff_buffer'[2] = two.sum /\ ma'[Filter(2)] = two.ma
      /\ order = 3 => anti_diff_buffer'[3] = three.sum /\ ma'[Filter(3)] = three.ma
  BY <1>2, <1>3, <1>4, <1>5, <1>6, TopFacts
<1>8. d \in Int /\ (samples >= order => d = Exact(1, 1)' - Exact(1, 1))
  <2>1. Whole(d) /\ (samples >= order => d = Exact(1, 1)' - Exact(1, 1))
    BY <1>2, <1>3, ResidualExact
  <2> QED BY <2>1, WholeFacts
<1>9. 1 \in 1..order /\ (order >= 2 => 2 \in 1..order) /\ (order = 3 => 3 \in 1..order)
      /\ 1 + 1 = 2 /\ 2 + 1 = 3
  BY <1>1
<1>10. samples >= Start(1) => Near(d, 1, Exact(1, 1)' - Exact(1, 1))
  <2> SUFFICES ASSUME samples >= Start(1) PROVE Near(d, 1, Exact(1, 1)' - Exact(1, 1))
    OBVIOUS
  <2>1. Start(1) = order
    BY <1>1, <1>9, StartFacts
  <2>2. PICK x : x = Exact(1, 1)' - Exact(1, 1)
    OBVIOUS
  <2>3. d = x
    BY <1>8, <2>1, <2>2
  <2>4. d = 1 * x + 0 /\ -(1 * two_lam) < 2 * 0 /\ 2 * 0 < 1 * two_lam
    BY <1>8, <2>3, ModelConstants
  <2>5. Near(d, 1, x)
    BY <2>4 DEF Near
  <2> QED BY <2>2, <2>5
<1>11. /\ samples >= Start(1) =>
            anti_diff_buffer'[1] = anti_diff_buffer[1] + (Exact(1, 1)' - Exact(1, 1))
       /\ \E s \in [0..MA_WINDOW_SIZE -> Int], c \in Int : StageHas(1, s, c)'
       /\ 1 < order /\ samples >= Start(2) => Near(one.p, one.q, Exact(2, 1)' - Exact(2, 1))
       /\ one.p \in Int /\ one.q \in Nat \ {0}
  <2>1. 1 \in Nat \ {0}
    OBVIOUS
  <2>2. /\ samples >= Start(1) =>
             anti_diff_buffer'[1] = anti_diff_buffer[1] + (Exact(1, 1)' - Exact(1, 1))
        /\ \E s \in [0..MA_WINDOW_SIZE -> Int], c \in Int : StageHas(1, s, c)'
        /\ 1 < order /\ samples >= Start(1 + 1) =>
             Near(one.p, one.q, Exact(1 + 1, 1)' - Exact(1 + 1, 1))
        /\ one.p \in Int /\ one.q \in Nat \ {0}
    BY <1>4, <1>7, <1>8, <1>9, <1>10, <2>1, OneStage
  <2>3. /\ Start(1 + 1) = Start(2) /\ Exact(1 + 1, 1)' = Exact(2, 1)'
        /\ Exact(1 + 1, 1) = Exact(2, 1)
    BY <1>9 DEF Exact
  <2> QED BY <2>2, <2>3
<1>12. ASSUME order >= 2
       PROVE  /\ samples >= Start(2) =>
                   anti_diff_buffer'[2] = anti_diff_buffer[2] + (Exact(2, 1)' - Exact(2, 1))
              /\ \E s \in [0..MA_WINDOW_SIZE -> Int], c \in Int : StageHas(2, s, c)'
              /\ 2 < order /\ samples >= Start(3) =>
                   Near(two.p, two.q, Exact(3, 1)' - Exact(3, 1))
              /\ two.p \in Int /\ two.q \in Nat \ {0}
  <2>1. 1 < order /\ 2 \in 1..order
    BY <1>1, <1>12
  <2>2. /\ samples >= Start(2) =>
             anti_diff_buffer'[2] = anti_diff_buffer[2] + (Exact(2, 1)' - Exact(2, 1))
        /\ \E s \in [0..MA_WINDOW_SIZE -> Int], c \in Int : StageHas(2, s, c)'
        /\ 2 < order /\ samples >= Start(2 + 1) =>
             Near(two.p, two.q, Exact(2 + 1, 1)' - Exact(2 + 1, 1))
        /\ two.p \in Int /\ two.q \in Nat \ {0}
    <3>1. anti_diff_buffer'[2] = two.sum /\ ma'[Filter(2)] = two.ma
      BY <1>7, <1>12
    <3>2. /\ samples >= Start(2) => Near(one.p, one.q, Exact(2, 1)' - Exact(2, 1))
          /\ one.p \in Int /\ one.q \in Nat \ {0}
      BY <1>11, <2>1
    <3>3. PICK p \in Int : p = one.p
      BY <3>2
    <3>4. PICK q \in Nat \ {0} : q = one.q
      BY <3>2
    <3>5. two = Stage(2, p, q) /\ (samples >= Start(2) => Near(p, q, Exact(2, 1)' - Exact(2, 1)))
      BY <1>5, <3>2, <3>3, <3>4
    <3> QED BY <2>1, <3>1, <3>5, OneStage
  <2>3. /\ Start(2 + 1) = Start(3) /\ Exact(2 + 1, 1)' = Exact(3, 1)'
        /\ Exact(2 + 1, 1) = Exact(3, 1)
    BY <1>9 DEF Exact
  <2> QED BY <2>2, <2>3
<1>13. ASSUME order = 3
       PROVE  /\ samples >= Start(3) =>
                   anti_diff_buffer'[3] = anti_diff_buffer[3] + (Exact(3, 1)' - Exact(3, 1))
              /\ \E s \in [0..MA_WINDOW_SIZE -> Int], c \in Int : StageHas(3, s, c)'
  <2>1. order >= 2 /\ 2 < order /\ 3 \in 1..order
    BY <1>13
  <2>2. anti_diff_buffer'[3] = three.sum /\ ma'[Filter(3)] = three.ma
    BY <1>7, <1>13
  <2>3. /\ samples >= Start(3) => Near(two.p, two.q, Exact(3, 1)' - Exact(3, 1))
        /\ two.p \in Int /\ two.q \in Nat \ {0}
    BY <1>12, <2>1
  <2>4. PICK p \in Int : p = two.p
    BY <2>3
  <2>5. PICK q \in Nat \ {0} : q = two.q
    BY <2>3
  <2>6. three = Stage(3, p, q) /\ (samples >= Start(3) => Near(p, q, Exact(3, 1)' - Exact(3, 1)))
    BY <1>6, <2>3, <2>4, <2>5
  <2> QED BY <2>1, <2>2, <2>6, OneStage
<1>14. i = 1 \/ (i = 2 /\ order >= 2) \/ (i = 3 /\ order = 3)
  BY <1>1
<1>15. CASE i = 1
  BY <1>11, <1>15
<1>16. CASE i = 2 /\ order >= 2
  BY <1>12, <1>16
<1>17. CASE i = 3 /\ order = 3
  BY <1>13, <1>17
<1> QED BY <1>14, <1>15, <1>16, <1>17

-----------------------------------------------------------------------------
(* The invariant, and the theorems.                                        *)

LEMMA InitModel ==
  ASSUME ModelInit
  PROVE  ModelInv
<1> DEFINE W == MA_WINDOW_SIZE
           N == MA_WINDOW_SIZE + 2
           t == [k \in 0..MA_WINDOW_SIZE |-> 0]
<1>1. /\ program \in Programs /\ order \in Orders
      /\ diff_buffer = [i \in 0..MaxOrder |-> 0] /\ anti_diff_buffer = [i \in 1..MaxOrder |-> 0]
      /\ ma = [f \in 1..MaxOrder |-> initMovingAverage]
      /\ dac_value = 0 /\ voltage = 0 /\ samples = 0
      /\ fold_totals = [i \in 0..N |-> 0]
  BY DEF ModelInit
<1>2. /\ order \in 1..3 /\ order \in Nat /\ W \in Nat \ {0} /\ two_lam \in Nat \ {0}
      /\ MaxVoltage \in Nat /\ DAC_MAX_VALUE \in Nat
  BY <1>1, OrderCases, ModelConstants
<1>3. ModelTypeOK
  <2>1. Settled \in Nat
    BY <1>2 DEF Settled
  <2>2. ma \in [1..MaxOrder -> MovingAverage]
    BY <1>1, EmptyFilter
  <2>3. 0 \in 0..Settled /\ 0 \in 0..DAC_MAX_VALUE /\ 0 \in -MaxVoltage..MaxVoltage
    BY <1>2, <2>1
  <2> QED BY <1>1, <2>2, <2>3 DEF ModelTypeOK
<1>4. 0 % two_lam = 0
  <2>1. Whole(0)
    BY WholeFacts
  <2> QED BY <2>1, WholeFacts
<1>5. \A i \in 1..N : i \in 0..N /\ i - 1 \in 0..N
  BY <1>2
<1>6. \A i \in 1..N : LastFolds(i) = 0
  BY <1>1, <1>5 DEF LastFolds
<1>7. FoldsNear
  <2>1. fold_totals[0] = 0
    BY <1>1, <1>2
  <2>2. /\ \A i \in 1..N : ~(i <= samples)
        /\ \A i \in 1..W+1 : ~(i < samples)
    BY <1>1, <1>2
  <2> QED BY <1>4, <1>6, <2>1, <2>2 DEF FoldsNear
<1>8. DifferencesNear
  BY <1>1 DEF DifferencesNear
<1>9. ASSUME NEW i \in 1..order
      PROVE  StageHas(i, t, 0)
  <2>1. Filter(i) \in 1..MaxOrder /\ i \in 1..MaxOrder
    BY <1>2 DEF Filter, MaxOrder
  <2>2. ma[Filter(i)] = initMovingAverage /\ anti_diff_buffer[i] = 0
    BY <1>1, <2>1
  <2>3. HasTotals(ma[Filter(i)], t) /\ ma[Filter(i)].count = 0
    BY <2>2, EmptyFilter
  <2>4. t[1] = 0 /\ t[0] = 0
    BY <1>2
  <2>5. Start(i) \in Nat \ {0}
    BY <1>2, StartFacts
  <2>6. Exact(i, 0) = 0
    <3>1. 1 \in 1..N /\ 0 + 1 = 1 /\ 2 \in 1..N /\ 1 + 1 = 2 /\ 0 \in 0..N
      BY <1>2
    <3>2. LastFolds(1) = 0 /\ LastFolds(2) = 0 /\ fold_totals[0] = 0
      BY <1>1, <1>6, <3>1
    <3>3. Growth(1) = 0
      BY <3>1, <3>2 DEF Growth
    <3>4. order - i \in {0, 1, 2}
      BY <1>2
    <3> QED BY <3>1, <3>2, <3>3, <3>4 DEF Exact
  <2>7. ASSUME NEW k \in 0..W, k <= samples + 1 - Start(i) PROVE t[k] = k * 0 + Exact(i, k)
    <3>1. k = 0
      BY <1>1, <1>2, <2>5, <2>7
    <3>2. t[k] = 0 /\ k * 0 = 0 /\ Exact(i, k) = 0
      BY <2>4, <2>6, <3>1
    <3> QED BY <3>2
  <2>8. 0 = IF samples < W THEN samples ELSE W
    BY <1>1, <1>2
  <2> HIDE DEF t
  <2> QED BY <1>4, <2>2, <2>3, <2>4, <2>7, <2>8 DEF StageHas
<1>10. t \in [0..W -> Int] /\ 0 \in Int
  OBVIOUS
<1> HIDE DEF t
<1>11. \A i \in 1..order : \E s \in [0..W -> Int], c \in Int : StageHas(i, s, c)
  BY <1>9, <1>10
<1> QED BY <1>3, <1>7, <1>8, <1>11 DEF ModelInv

LEMMA SampledStep ==
  ASSUME NEW g, Sampled(g)
  PROVE  ModelInv'
<1>1. /\ order \in Orders /\ order' = order /\ samples' \in 0..Settled /\ Settled' = Settled
      /\ voltage' = g
  BY SampledFacts
<1>2. PICK dy : dy = nth_order_difference(AdcValue(g))
  OBVIOUS
<1>3. diff_buffer' \in [0..MaxOrder -> Int] /\ DifferencesNear'
  BY <1>2, DifferencesAre, DifferencesMove
<1>4. /\ anti_diff_buffer' \in [1..MaxOrder -> Int] /\ ma' \in [1..MaxOrder -> MovingAverage]
      /\ dac_value' \in 0..DAC_MAX_VALUE
  <2>1. PICK d : d = modulo(dy[order]) - dy[order]
    OBVIOUS
  <2>2. PICK one : one = Stage(1, d, 1)
    OBVIOUS
  <2>3. PICK two : two = Stage(2, one.p, one.q)
    OBVIOUS
  <2>4. PICK three : three = Stage(3, two.p, two.q)
    OBVIOUS
  <2> QED BY <1>2, <2>1, <2>2, <2>3, <2>4, TopFacts
<1>5. voltage' \in -MaxVoltage..MaxVoltage /\ fold_totals' \in [0..MA_WINDOW_SIZE+2 -> Int]
  <2>1. g \in -MaxVoltage..MaxVoltage
    BY DEF Sampled
  <2> QED BY <1>1, <2>1, FoldsMove
<1>6. ModelTypeOK'
  <2>1. program' \in Programs
    BY DEF Sampled, ModelInv, ModelTypeOK, ModelSample, top
  <2> QED BY <1>1, <1>3, <1>4, <1>5, <2>1 DEF ModelTypeOK, MovingAverage
<1>7. FoldsNear'
  BY FoldsNearMoves
<1>8. \A i \in 1..order :
        \E s \in [0..MA_WINDOW_SIZE -> Int], c \in Int : StageHas(i, s, c)'
  BY StagesFollow
<1> QED BY <1>1, <1>3, <1>6, <1>7, <1>8 DEF ModelInv

\* A step of the reference model is a sample.
LEMMA NextIsSampled ==
  ASSUME ModelInv, ModelNext
  PROVE  \E g : Sampled(g)
<1>1. CASE FirstModelSample
  <2>1. PICK g \in -MaxVoltage..MaxVoltage : ModelSample(g)
    BY <1>1 DEF FirstModelSample
  <2>2. samples = 0
    BY <1>1 DEF FirstModelSample
  <2>3. Sampled(g)
    BY <2>1, <2>2 DEF Sampled
  <2> QED BY <2>3
<1>2. CASE NextModelSample
  <2>1. PICK step \in -MaxRise..MaxRise :
          voltage + step \in -MaxVoltage..MaxVoltage /\ ModelSample(voltage + step)
    BY <1>2 DEF NextModelSample
  <2>2. voltage \in Int /\ step \in Int
    BY ModelConstants DEF ModelInv, ModelTypeOK
  <2>3. (voltage + step) - voltage = step
    BY <2>2
  <2>4. Sampled(voltage + step)
    BY <2>1, <2>3 DEF Sampled
  <2> QED BY <2>4
<1> QED BY <1>1, <1>2 DEF ModelNext

LEMMA StepModel ==
  ASSUME ModelInv, [ModelNext]_modelvars
  PROVE  ModelInv'
<1>1. CASE ModelNext
  BY <1>1, NextIsSampled, SampledStep
<1>2. CASE UNCHANGED modelvars
  <2>1. /\ order' = order /\ diff_buffer' = diff_buffer /\ anti_diff_buffer' = anti_diff_buffer
        /\ ma' = ma /\ dac_value' = dac_value /\ voltage' = voltage
        /\ fold_totals' = fold_totals /\ samples' = samples /\ program' = program
    BY <1>2 DEF modelvars
  <2>2. ModelTypeOK'
    BY <2>1 DEF ModelInv, ModelTypeOK, MovingAverage, Settled
  <2>3. FoldsNear' /\ DifferencesNear'
    BY <2>1 DEF ModelInv, FoldsNear, DifferencesNear, Growth, LastFolds, two_lam
  <2>4. \A i \in 1..order : \E t \in [0..MA_WINDOW_SIZE -> Int], c \in Int : StageHas(i, t, c)'
    BY <2>1 DEF ModelInv, StageHas, HasTotals, AgeIn, Filter, Start, Exact, Growth,
                LastFolds, two_lam
  <2> QED BY <2>1, <2>2, <2>3, <2>4 DEF ModelInv
<1> QED BY <1>1, <1>2

LEMMA AlwaysModel == ModelSpec => []ModelInv
<1>1. ModelInit => ModelInv
  BY InitModel
<1>2. ModelInv /\ [ModelNext]_modelvars => ModelInv'
  BY StepModel
<1> QED BY <1>1, <1>2, PTL DEF ModelSpec

\* The values of the reference model stay in their ranges: what top() returns is a
\* byte, whatever the stages made of the samples.
THEOREM ModelTypeCorrect == ModelSpec => []ModelTypeOK
<1>1. ModelInv => ModelTypeOK
  BY DEF ModelInv
<1> QED BY <1>1, AlwaysModel, PTL

\* The constants that the first samples left in the stages do not reach the
\* output: in a full window the residual is that of the window's folds alone.
THEOREM StartForgottenHolds == ModelSpec => []StartForgotten
<1>1. ASSUME ModelInv, samples = Settled
      PROVE  MA_WINDOW_SIZE * anti_diff_buffer[order] - ma[Filter(order)].sum
               = MA_WINDOW_SIZE * LastFolds(1) - fold_totals[MA_WINDOW_SIZE]
  <2> DEFINE W == MA_WINDOW_SIZE
  <2>1. order \in 1..3 /\ W \in Nat \ {0} /\ order \in 1..order /\ order - order = 0
    <3>1. order \in Orders
      BY <1>1 DEF ModelInv, ModelTypeOK
    <3>2. order \in 1..3
      BY <3>1, OrderCases
    <3> QED BY <3>2, ModelConstants
  <2>2. PICK t \in [0..W -> Int], c \in Int : StageHas(order, t, c)
    BY <1>1, <2>1 DEF ModelInv
  <2>3. /\ ma[Filter(order)].sum = t[W] /\ anti_diff_buffer[order] = t[1]
        /\ \A k \in 0..W : k <= samples + 1 - Start(order) => t[k] = k * c + Exact(order, k)
    BY <2>2 DEF StageHas, HasTotals
  <2>4. \A k \in 0..W : Exact(order, k) = fold_totals[k]
    BY <2>1 DEF Exact
  <2>5. samples + 1 - Start(order) = W + 1
    <3>1. Start(order) \in Nat /\ Settled = Start(order) + W
      BY <2>1, StartFacts
    <3> QED BY <1>1, <2>1, <3>1
  <2>6. t[1] = 1 * c + fold_totals[1] /\ t[W] = W * c + fold_totals[W]
    <3>1. 1 \in 0..W /\ W \in 0..W /\ 1 <= W + 1 /\ W <= W + 1
      BY <2>1
    <3> QED BY <2>3, <2>4, <2>5, <3>1
  <2>7. /\ fold_totals[1] \in Int /\ fold_totals[W] \in Int /\ fold_totals[0] = 0
        /\ LastFolds(1) = fold_totals[1] - fold_totals[1 - 1]
    <3>1. 1 \in 0..W+2 /\ W \in 0..W+2
      BY <2>1
    <3>2. fold_totals \in [0..W+2 -> Int] /\ fold_totals[0] = 0
      BY <1>1 DEF ModelInv, ModelTypeOK, FoldsNear
    <3> QED BY <3>1, <3>2 DEF LastFolds
  <2>8. LastFolds(1) = fold_totals[1]
    BY <2>7
  <2> DEFINE f == fold_totals[1]
             h == fold_totals[W]
  <2>9. W * (c + f) = W * c + W * f /\ W * c \in Int /\ W * f \in Int /\ 1 * c = c
    BY <2>1, <2>7
  <2>10. W * t[1] - t[W] = W * f - h
    <3>1. W * t[1] = W * c + W * f
      BY <2>6, <2>9
    <3>2. t[W] = W * c + h /\ h \in Int
      BY <2>6, <2>7
    <3> HIDE DEF f, h
    <3> DEFINE y == W * c
               z == W * f
    <3>3. y \in Int /\ z \in Int /\ W * t[1] = y + z /\ t[W] = y + h /\ h \in Int
      BY <2>9, <3>1, <3>2
    <3> HIDE DEF y, z
    <3>4. W * t[1] - t[W] = z - h
      BY <3>3
    <3> QED BY <3>4 DEF z
  <2> QED BY <2>3, <2>8, <2>10
<1>2. ModelInv => StartForgotten
  BY <1>1 DEF StartForgotten
<1> QED BY <1>2, AlwaysModel, PTL

\* Once the filters are full, whatever the order, each sample adds to the last
\* integrator of the reference model exactly what the signal's folds changed by.
THEOREM FollowsFoldsHolds == ModelSpec => FollowsFolds
<1>1. ASSUME ModelInv, ModelNext, samples = Settled
      PROVE  anti_diff_buffer'[order] - anti_diff_buffer[order] = LastFolds(1)' - LastFolds(1)
  <2>1. PICK g : Sampled(g)
    BY <1>1, NextIsSampled
  <2>2. order \in 1..3 /\ order \in 1..order /\ order' = order /\ MA_WINDOW_SIZE \in Nat \ {0}
    <3>1. order \in 1..3 /\ order' = order
      BY <2>1, SampledFacts
    <3> QED BY <3>1, ModelConstants
  <2>3. samples >= Start(order)
    <3>1. Start(order) \in Nat /\ Settled = Start(order) + MA_WINDOW_SIZE
      BY <2>2, StartFacts
    <3> QED BY <1>1, <2>2, <3>1
  <2>4. anti_diff_buffer'[order]
          = anti_diff_buffer[order] + (Exact(order, 1)' - Exact(order, 1))
    <3>1. PICK i : i = order
      OBVIOUS
    <3>2. i \in 1..order /\ samples >= Start(i)
      BY <2>2, <2>3, <3>1
    <3>3. anti_diff_buffer'[i] = anti_diff_buffer[i] + (Exact(i, 1)' - Exact(i, 1))
      BY <2>1, <3>2, StagesFollow
    <3>4. Exact(i, 1) = Exact(order, 1) /\ Exact(i, 1)' = Exact(order, 1)'
      BY <2>2, <3>1 DEF Exact
    <3> QED BY <3>1, <3>3, <3>4
  <2>5. Exact(order, 1) = fold_totals[1] /\ Exact(order, 1)' = fold_totals'[1]
    BY <2>2 DEF Exact
  <2>6. /\ LastFolds(1) = fold_totals[1] - fold_totals[1 - 1]
        /\ LastFolds(1)' = fold_totals'[1] - fold_totals'[1 - 1]
    BY DEF LastFolds
  <2>7. /\ fold_totals[0] = 0 /\ fold_totals'[0] = 0
        /\ fold_totals[1] \in Int /\ fold_totals'[1] \in Int
    <3>1. 1 \in 0..MA_WINDOW_SIZE+2
      BY <2>2
    <3>2. /\ fold_totals \in [0..MA_WINDOW_SIZE+2 -> Int]
          /\ fold_totals' \in [0..MA_WINDOW_SIZE+2 -> Int]
          /\ fold_totals[0] = 0 /\ fold_totals'[0] = 0
      BY <2>1, FoldsMove
    <3> QED BY <3>1, <3>2
  <2>8. anti_diff_buffer[order] \in Int
    <3>1. order \in 1..MaxOrder
      BY <2>2 DEF MaxOrder
    <3> QED BY <1>1, <3>1 DEF ModelInv, ModelTypeOK
  <2> QED BY <2>4, <2>5, <2>6, <2>7, <2>8
<1>2. ModelInv /\ [ModelNext]_modelvars =>
        [samples = Settled =>
           anti_diff_buffer'[order] - anti_diff_buffer[order]
             = LastFolds(1)' - LastFolds(1)]_modelvars
  BY <1>1
<1> QED BY <1>2, AlwaysModel, PTL DEF ModelSpec, FollowsFolds

-----------------------------------------------------------------------------
(* The hardware beside the reference model, with order 1.                  *)

\* Rounding, down or to the nearest, leaves a whole number of folds as it is.
LEMMA RoundingWhole ==
  ASSUME NEW x, Whole(x)
  PROVE  (x \div two_lam) * two_lam = x /\ RoundToFolds(x, 1) = x
<1>1. x \in Int /\ x % two_lam = 0 /\ two_lam \in Nat \ {0}
  BY WholeFacts, ModelConstants
<1>2. (x \div two_lam) * two_lam = x
  <2>1. x \div two_lam \in Int /\ x = two_lam * (x \div two_lam) + (x % two_lam)
    BY <1>1, DivisionFacts
  <2> QED BY <1>1, <2>1
<1>3. RoundToFolds(x, 1) = x
  <2>1. x = 1 * x + 0 /\ -(1 * two_lam) < 2 * 0 /\ 2 * 0 < 1 * two_lam /\ 1 \in Nat \ {0}
    BY <1>1
  <2> QED BY <2>1, RoundedNear
<1> QED BY <1>2, <1>3

LEMMA InitFirstOrder ==
  ASSUME HardwareInit
  PROVE  FirstOrderInv
<1>1. ModelInv
  BY InitModel DEF HardwareInit
<1>2. 1 \in 1..MaxOrder /\ (order = 1 => Filter(1) \in 1..MaxOrder)
  BY DEF MaxOrder, Filter
<1> QED BY <1>1, <1>2 DEF HardwareInit, ModelInit, FirstOrderInv

\* Both take the same whole number of folds in, into the same whole number.
LEMMA BothTake ==
  ASSUME FirstOrderInv, BothSample, order = 1
  PROVE  /\ stage_residual'[1] = anti_diff_buffer'[1] /\ residual_out'[1] = anti_diff_buffer'[1]
         /\ mov_avg'[1] = ma'[Filter(1)] /\ apart' = 0
<1>1. PICK g : Sampled(g)
  BY NextIsSampled DEF FirstOrderInv, BothSample
<1>2. PICK dy : dy = nth_order_difference(AdcValue(g))
  OBVIOUS
<1>3. PICK d : d = modulo(dy[order]) - dy[order]
  OBVIOUS
<1>4. Whole(d)
  BY <1>1, <1>2, <1>3, ResidualExact
<1> DEFINE b == anti_diff_buffer[1]
<1>5. Whole(b) /\ b \in Int
  <2>1. 1 \in 1..order /\ 1 \in 1..MaxOrder
    BY DEF MaxOrder
  <2>2. b % two_lam = 0 /\ b \in Int
    BY <2>1 DEF FirstOrderInv, ModelInv, ModelTypeOK, StageHas
  <2> QED BY <2>2, WholeFacts
<1>6. Whole(b + d) /\ d \in Int /\ 1 * b = b
  BY <1>4, <1>5, WholeFacts
<1>7. anti_diff_buffer'[1] = b + d /\ ma'[Filter(1)] = updateMovingAverage(ma[Filter(1)], b + d)
  <2>1. PICK one : one = Stage(1, d, 1)
    OBVIOUS
  <2>2. PICK two : two = Stage(2, one.p, one.q)
    OBVIOUS
  <2>3. PICK three : three = Stage(3, two.p, two.q)
    OBVIOUS
  <2>4. anti_diff_buffer'[1] = one.sum /\ ma'[Filter(1)] = one.ma
    BY <1>1, <1>2, <1>3, <2>1, <2>2, <2>3, TopFacts
  <2>5. Integrator(1, d, 1) = RoundToFolds(b + d, 1)
    BY <1>6 DEF Integrator, SumRounded
  <2>6. one.sum = b + d
    BY <1>6, <2>1, <2>5, RoundingWhole DEF Stage
  <2>7. one.ma = updateMovingAverage(ma[Filter(1)], one.sum)
    BY <2>1 DEF Stage
  <2> QED BY <2>4, <2>6, <2>7
<1>8. /\ stage_residual'[1] = b + d /\ residual_out'[1] = b + d
      /\ mov_avg'[1] = updateMovingAverage(ma[Filter(1)], b + d)
  <2>1. diff_buffer' = dy /\ order' = order
    BY <1>1, <1>2 DEF Sampled, ModelSample, top
  <2>2. PICK one : one = HardwareStage(1, d)
    OBVIOUS
  <2>3. one = HardwareStage(1, modulo(diff_buffer'[order]) - diff_buffer'[order])
    BY <1>3, <2>1, <2>2
  <2>4. /\ stage_residual'[1] = one.residual /\ residual_out'[1] = one.residual_out
        /\ mov_avg'[1] = one.mov_avg
    BY <2>3 DEF BothSample, HardwareSample, MaxOrder
  <2>5. stage_residual[1] = b /\ mov_avg[1] = ma[Filter(1)]
    BY DEF FirstOrderInv
  <2>6. /\ one.residual = b + d /\ one.residual_out = ((b + d) \div two_lam) * two_lam
        /\ one.mov_avg = updateMovingAverage(ma[Filter(1)], one.residual_out)
    BY <2>2, <2>5 DEF HardwareStage
  <2>7. one.residual_out = b + d
    BY <1>6, <2>6, RoundingWhole
  <2> QED BY <2>4, <2>6, <2>7
<1>9. apart' = 0
  <2>1. apart' = IF samples < Settled THEN residual_out'[1] - anti_diff_buffer'[1] ELSE apart
    BY DEF BothSample
  <2>2. apart = 0 /\ b + d \in Int
    BY <1>5, <1>6 DEF FirstOrderInv
  <2>3. residual_out'[1] - anti_diff_buffer'[1] = 0
    BY <1>7, <1>8, <2>2
  <2> QED BY <2>1, <2>2, <2>3
<1> QED BY <1>7, <1>8, <1>9

LEMMA StepFirstOrder ==
  ASSUME FirstOrderInv, [BothSample]_nvars
  PROVE  FirstOrderInv'
<1>1. [ModelNext]_modelvars /\ order' = order
  <2>1. CASE BothSample
    <3>1. PICK g : Sampled(g)
      BY <2>1, NextIsSampled DEF FirstOrderInv, BothSample
    <3> QED BY <2>1, <3>1, SampledFacts DEF BothSample
  <2>2. CASE UNCHANGED nvars
    BY <2>2 DEF nvars, modelvars
  <2> QED BY <2>1, <2>2
<1>2. ModelInv'
  BY <1>1, StepModel DEF FirstOrderInv
<1>3. CASE BothSample
  <2>1. Filter(1)' = Filter(1)
    BY <1>1 DEF Filter
  <2> QED BY <1>1, <1>2, <1>3, <2>1, BothTake DEF FirstOrderInv, Filter
<1>4. CASE UNCHANGED nvars
  BY <1>2, <1>4 DEF FirstOrderInv, Filter, nvars, modelvars
<1> QED BY <1>3, <1>4

\* With order 1 the hardware makes the folds of the C model from the first sample
\* on, and averages the same sums, although the two round differently.
THEOREM FirstOrderMatchesHolds == HardwareSpec => []FirstOrderMatches
<1>1. HardwareInit => FirstOrderInv
  BY InitFirstOrder
<1>2. FirstOrderInv /\ [BothSample]_nvars => FirstOrderInv'
  BY StepFirstOrder
<1>3. FirstOrderInv => FirstOrderMatches
  <2>1. ASSUME FirstOrderInv, order = 1
        PROVE  residual_out[order] - anti_diff_buffer[order] = apart
    <3>1. anti_diff_buffer[1] \in Int
      BY <2>1 DEF FirstOrderInv, ModelInv, ModelTypeOK, MaxOrder
    <3> QED BY <2>1, <3>1 DEF FirstOrderInv
  <2> QED BY <2>1 DEF FirstOrderInv, FirstOrderMatches, MatchesCModel
<1> QED BY <1>1, <1>2, <1>3, PTL DEF HardwareSpec
=============================================================================
