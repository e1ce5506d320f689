---------------------------- MODULE Reconstruct ----------------------------
(***************************************************************************)
(* What the order-1 datapath computes, one step per sample: from the       *)
(* modulo-folded code of the ADC to the byte for the DAC.  Pipeline shows  *)
(* which data meet; here are their values, in the word widths of           *)
(* ip/recon/*.sv, for a bounded slowly changing signal folded by the       *)
(* external modulo circuit.                                                *)
(***************************************************************************)
EXTENDS Integers

CONSTANTS
  Half,         \* half the words of the datapath (2^23 with WIDTH = 24)
  SumHalf,      \* half the words of the moving average's sum (2^31)
  Lambda,       \* folding threshold, fixed point (72090)
  WINDOW_SIZE,  \* samples averaged (100)
  AdcGain,      \* fixed-point value of one ADC code (64)
  AdcOffset,    \* voltage the folding circuit adds, fixed point
  one_over_a,   \* scaling of the result (6554), over
  Fraction,     \* one, in fixed point (65536)
  DacShift,     \* fixed point to the DAC's format (256)
  dac_offset, vref,               \* of fixed_to_dac (512, 1280)
  dac_max_over_vref, DacFraction, \* its gain (13056) over its unit (65536)
  MaxStep,      \* largest change of the signal between two samples
  MaxSignal     \* bound: the signal's range

ASSUME ReconstructAssumption ==
  /\ Half \in Nat \ {0} /\ SumHalf \in Nat \ {0}
  /\ Lambda \in Nat \ {0}
  /\ WINDOW_SIZE \in 1..127      \* sample_count is a signed byte
  /\ AdcGain \in Nat \ {0} /\ AdcOffset \in Nat /\ AdcOffset >= Lambda
  /\ one_over_a \in Nat /\ Fraction \in Nat \ {0} /\ DacShift \in Nat \ {0}
  /\ dac_offset \in Nat /\ vref \in Nat
  /\ dac_max_over_vref \in Nat /\ DacFraction \in Nat \ {0}
  /\ MaxStep \in Nat /\ MaxSignal \in Nat

\* The sampling condition of the method: two codes of neighbouring samples
\* differ by less than the threshold, but for a fold.
ASSUME SamplingAssumption == MaxStep + AdcGain <= Lambda

\* The accumulator has room for twice the signal's range: it starts wherever in
\* the range the first sample is.
ASSUME RangeAssumption == 2 * MaxSignal + 2 * AdcOffset + 8 * Lambda < Half

\* And the moving average's sum for a window of any words (100 of 24 bits in 32).
ASSUME SumAssumption == WINDOW_SIZE * Half <= SumHalf

\* A number that is none of the 2h words keeps its low bits, read in two's
\* complement.
Wrap(x, h) == ((x + h) % (2 * h)) - h
Word(h) == -h .. h - 1

\* The sign of x and the low bits below it, which is how the blocks narrow a word.
Narrow(x, h) == (x % h) - (IF x < 0 THEN h ELSE 0)

two_lambda == 2 * Lambda

VARIABLES
  signal,        \* the voltage before folding (history)
  base,          \* its distance to the first reconstructed sample (history)
  prev_in,       \* of higher_order_difference
  residual,      \* the accumulator of anti_difference_rounding
  reconstructed, \* the sum that enters the moving average
  buffer, index, sample_count, sum, out_avg,   \* of moving_average
  dac_out,       \* the byte for the DAC, and (history) the
  signal_in,     \* number it was made from
  totals         \* history: the total of the i newest sums, for each i

avgvars == <<buffer, index, sample_count, sum, out_avg, totals>>
vars == <<signal, base, prev_in, residual, reconstructed, avgvars, dac_out, signal_in>>

-----------------------------------------------------------------------------
(* The folding circuit and the ADC (external).                             *)

Fold(g) == ((g + Lambda) % two_lambda) - Lambda
Code(g) == (Fold(g) + AdcOffset) \div AdcGain

-----------------------------------------------------------------------------
(* The blocks, as functions of their inputs.                               *)

\* adc_to_fixed.
Fixed(code) == Narrow(code * AdcGain, Half)

\* The remainder of mod_divide is never negative.
ResidualOfSignedRemainder(d) ==
  LET numer == Wrap(d + Lambda, Half)
      remain == IF numer < 0 /\ numer % two_lambda # 0
                  THEN (numer % two_lambda) - two_lambda
                  ELSE numer % two_lambda
  IN  Wrap(remain - Lambda - d, Half)

ResidualUncentred(d) == Wrap((Wrap(d + Lambda, Half) % two_lambda) - d, Half)

ModuloResidual(d) ==
  Wrap((Wrap(d + Lambda, Half) % two_lambda) - Lambda - d, Half)

\* anti_diff_div and the product with its denominator: the multiple of two
\* lambda at or below x.
Rounded(x) == Wrap((x \div two_lambda) * two_lambda, Half)

\* The difference of a sum and the mean, scaled back.
Converted(x, mean) == Narrow((Wrap(x - mean, Half) * one_over_a) \div Fraction, Half)

\* fixed_to_dac.  The parameter offset has no sign, so the comparison with
\* zero is one of unsigned numbers and its branch is never taken.
Dac(s) ==
  LET u == ((s \div DacShift) + dac_offset) % (2 * Half)
      clamped == IF u > vref THEN vref ELSE u
  IN  ((clamped * dac_max_over_vref) \div DacFraction) % 256

-----------------------------------------------------------------------------
\* moving_average.  While the window fills, nothing leaves it; from then on the
\* new sample takes the oldest one's place.
NothingReplaced == 0
Replaced == IF sample_count = WINDOW_SIZE THEN buffer[index] ELSE 0

IndexPastEnd == IF index < WINDOW_SIZE THEN index + 1 ELSE 0
NextIndex == (index + 1) % WINDOW_SIZE

MeanOfFullWindow(total, count) == Narrow(total \div WINDOW_SIZE, Half)
Mean(total, count) == Narrow(total \div count, Half)

Average(x) ==
  /\ sum' = Wrap(sum + x - Replaced, SumHalf)
  /\ buffer' = [buffer EXCEPT ![index] = x]
  /\ index' = NextIndex
  /\ sample_count' = IF sample_count < WINDOW_SIZE THEN sample_count + 1
                                                   ELSE sample_count
  /\ out_avg' = Mean(sum', sample_count')
  /\ totals' = [i \in 0..WINDOW_SIZE |-> IF i = 0 THEN 0 ELSE x + totals[i - 1]]

\* A sample of the signal g goes through the datapath.  The mean taken off it
\* is that of the window before it entered: reconstructed_piped is a place
\* shorter than the moving average's latency (Pipeline, MeanOfWindowBefore).
Sample(g) ==
  LET y == Fixed(Code(g))
      d == Wrap(y - prev_in, Half)
  IN  /\ signal' = g
      /\ prev_in' = y
      /\ residual' = Wrap(residual + ModuloResidual(d), Half)
      /\ reconstructed' = Wrap(y + Rounded(residual'), Half)
      /\ Average(reconstructed')

FirstSample ==
  /\ sample_count = 0
  /\ \E g \in -MaxSignal..MaxSignal : Sample(g)
  /\ base' = reconstructed' - signal'
  /\ UNCHANGED <<dac_out, signal_in>>

NextSample ==
  /\ sample_count > 0
  /\ \E step \in -MaxStep..MaxStep :
       /\ signal + step \in -MaxSignal..MaxSignal
       /\ Sample(signal + step)
  /\ signal_in' = Converted(reconstructed', out_avg)
  /\ dac_out' = Dac(signal_in')
  /\ UNCHANGED base

Init ==
  /\ signal = 0 /\ base = 0 /\ signal_in = 0
  /\ prev_in = 0 /\ residual = 0 /\ reconstructed = 0
  /\ buffer = [i \in 0..WINDOW_SIZE-1 |-> 0] /\ index = 0
  /\ sample_count = 0 /\ sum = 0 /\ out_avg = 0
  /\ dac_out = 0
  /\ totals = [i \in 0..WINDOW_SIZE |-> 0]

Next == FirstSample \/ NextSample

Spec == Init /\ [][Next]_vars

-----------------------------------------------------------------------------
(* Properties.                                                             *)

TypeOK ==
  /\ signal \in -MaxSignal..MaxSignal /\ base \in Int
  /\ prev_in \in Word(Half) /\ residual \in Word(Half)
  /\ reconstructed \in Word(Half)
  /\ buffer \in [0..WINDOW_SIZE-1 -> Word(Half)] /\ index \in 0..WINDOW_SIZE-1
  /\ sample_count \in 0..WINDOW_SIZE
  /\ sum \in Word(SumHalf) /\ out_avg \in Word(Half)
  /\ dac_out \in 0..255 /\ signal_in \in Word(Half)
  /\ totals \in [0..WINDOW_SIZE -> Int]

\* Unlimited sensing: through all the folds the reconstruction follows the
\* signal at one constant distance, to within the resolution of the ADC.
TracksSignal ==
  sample_count > 0 =>
    reconstructed - signal - base \in -(AdcGain - 1) .. AdcGain - 1

\* What has accumulated is a whole number of folds, so the division that only
\* rounds down changes nothing.
WholeFolds == Rounded(residual) = residual

\* The running sum is the total of the last WINDOW_SIZE reconstructions, whatever
\* was taken off it and added since the start.
WindowSum == sum = totals[WINDOW_SIZE]

\* The mean lies between the least and the greatest of the samples averaged.
Past(i) == totals[i] - totals[i - 1]
MeanWithin ==
  sample_count > 0 =>
    \E i, j \in 1..sample_count : Past(i) <= out_avg /\ out_avg <= Past(j)

\* The C model's "Clamp to DAC range": an output below the range is sent as 0.
ClampsLow == (signal_in \div DacShift) + dac_offset < 0 => dac_out = 0

-----------------------------------------------------------------------------
(* The inductive invariant.                                                *)

\* Before the first sample nothing has accumulated; from then on the difference
\* unit holds the code of the signal, and what has accumulated is the signal's
\* folds and a constant, which the first sample left.
FoldsAccumulated ==
  /\ residual % two_lambda = 0
  /\ sample_count = 0 => prev_in = 0 /\ residual = 0
  /\ sample_count > 0 =>
       /\ prev_in = Fixed(Code(signal))
       /\ residual - (signal - Fold(signal)) + AdcOffset - base \in 0..AdcGain-1
       /\ residual - (signal - Fold(signal))
            \in -(MaxSignal + AdcOffset + 3 * Lambda) .. MaxSignal + 2 * Lambda
       /\ reconstructed = prev_in + residual

IInv == TypeOK /\ FoldsAccumulated

\* How many samples ago the place j of the buffer was written.
Age(j) == IF j < index THEN index - j ELSE index - j + WINDOW_SIZE

\* Totals of words all on one side of a bound are on that side of its multiple.
TotalsBounded ==
  \A i \in 0..WINDOW_SIZE, b \in -Half-1 .. Half :
    /\ (\A j \in 1..i : b <= Past(j)) => i * b <= totals[i]
    /\ (\A j \in 1..i : Past(j) <= b) => totals[i] <= i * b

\* The buffer is the window, each place as old as its distance to the index
\* says; before the window is full what is older than the first sample is zero.
WindowInv ==
  /\ TypeOK /\ totals[0] = 0
  /\ \A i \in 1..WINDOW_SIZE : Past(i) \in Word(Half)
  /\ \A j \in 0..WINDOW_SIZE-1 : buffer[j] = Past(Age(j))
  /\ \A i \in sample_count..WINDOW_SIZE : totals[i] = totals[sample_count]
  /\ WindowSum /\ TotalsBounded
  /\ sample_count > 0 => out_avg = Mean(sum, sample_count)

=============================================================================
