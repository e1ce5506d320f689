------------------------------- MODULE CModel -------------------------------
(***************************************************************************)
(* The reference model: top() and what it calls in hello_world.c of        *)
(* software/streaming_reconstruct, for orders 1 to 3, one step per sample; *)
(* and the copy in hello_world.c of software/test_valid, which prints it   *)
(* beside the hardware's answers.  That one's order is always 2, and where *)
(* it rounds is the one difference; its constants are others (below).      *)
(*                                                                         *)
(* The program computes in single precision.  Here numbers are exact: a    *)
(* voltage is an integer number of ADC codes, and a value from which a     *)
(* mean was taken is a pair of a numerator and a denominator.  Left out    *)
(* are max_in and prev_y, which nothing reads, and diff_reset, which       *)
(* nothing sets.  anti_diff_buffer is numbered from 1 as the filters are.   *)
(***************************************************************************)
EXTENDS Integers

CONSTANTS
  Programs,        \* whose copy ("streaming_reconstruct", "test_valid")
  Orders,          \* orders asked for (1..3)
  lam,             \* folding threshold in codes (1100; of test_valid 750)
  MA_WINDOW_SIZE,  \* samples averaged (100)
  a,               \* the scaling of the result is 1/a (10; of test_valid 1)
  DAC_MAX_VALUE, V_REF, OFFSET,  \* of float_to_dac (255, 5000, 1500; of test_valid 2000)
  AdcBias,         \* voltage the folding circuit adds
  MaxRise,         \* largest change of the signal between two samples
  MaxVoltage       \* bound: the signal's range

MaxOrder == 3
two_lam == 2 * lam

ASSUME ModelAssumption ==
  /\ Programs \subseteq {"streaming_reconstruct", "test_valid"}
  /\ Orders \subseteq 1..MaxOrder
  /\ lam \in Nat \ {0} /\ MA_WINDOW_SIZE \in Nat \ {0} /\ a \in Nat \ {0}
  /\ DAC_MAX_VALUE \in Nat /\ V_REF \in Nat \ {0} /\ OFFSET \in Nat
  /\ AdcBias \in Nat /\ AdcBias >= lam
  /\ MaxRise \in Nat /\ MaxVoltage \in Nat

\* The sampling condition for every order asked for: the order-n difference of
\* the signal stays below the threshold.
Doublings == <<1, 2, 4>>
ASSUME RiseAssumption == \A o \in Orders : MaxRise * Doublings[o] < lam

\* And for the filters of the higher orders: within a window the signal makes
\* one fold at most and the window outweighs two, one out and one in.
ASSUME WindowAssumption ==
  \A o \in Orders : o > 1 =>
    MaxRise * MA_WINDOW_SIZE <= two_lam /\ MA_WINDOW_SIZE > 4

VARIABLES
  program,           \* the program that runs
  order,             \* an argument of top() it keeps constant, or always 2
  diff_buffer, anti_diff_buffer,  \* of UnlimitedSamplerReconstructor
  ma,                \* the three MovingAverages
  dac_value,         \* what top() returned
  voltage,           \* history: the signal,
  fold_totals,       \* the total of the folds in its i newest samples, for each i,
  samples            \* and the samples taken, up to Settled

modelvars ==
  <<program, order, diff_buffer, anti_diff_buffer, ma, dac_value, voltage, fold_totals,
    samples>>

MovingAverage ==
  [buffer : [0..MA_WINDOW_SIZE-1 -> Int], index : 0..MA_WINDOW_SIZE-1,
   count : 0..MA_WINDOW_SIZE, sum : Int]

-----------------------------------------------------------------------------
(* The folding circuit and the ADC (external).                             *)

FoldVoltage(g) == ((g + lam) % two_lam) - lam
AdcValue(g) == FoldVoltage(g) + AdcBias

-----------------------------------------------------------------------------
initMovingAverage ==
  [buffer |-> [i \in 0..MA_WINDOW_SIZE-1 |-> 0], index |-> 0, count |-> 0, sum |-> 0]

\* The mean that is returned is sum over count of the result.
updateKeepsOldest(m, new_sample) ==
  LET full == m.count = MA_WINDOW_SIZE
  IN [buffer |-> [m.buffer EXCEPT ![m.index] = new_sample],
      index  |-> (m.index + 1) % MA_WINDOW_SIZE,
      count  |-> IF full THEN m.count ELSE m.count + 1,
      sum    |-> m.sum + new_sample]

updateMovingAverage(m, new_sample) ==
  [buffer |-> [m.buffer EXCEPT ![m.index] = new_sample],
   index  |-> (m.index + 1) % MA_WINDOW_SIZE,
   count  |-> IF m.count < MA_WINDOW_SIZE THEN m.count + 1 ELSE m.count,
   sum    |-> m.sum - m.buffer[m.index] + new_sample]

\* 2 lam round(x / 2 lam) of x = p/q: the nearest multiple, a tie away from zero.
RoundToFolds(p, q) ==
  LET size == IF p < 0 THEN -p ELSE p
      multiple == ((2 * size + q * two_lam) \div (2 * q * two_lam)) * two_lam
  IN  IF p < 0 THEN -multiple ELSE multiple

\* Each difference is taken with the sample before in the buffer of its order;
\* the last one is what the caller gets.
nth_order_difference(new_sample) ==
  LET one == new_sample - diff_buffer[0]
      two == one - diff_buffer[1]
      x == <<new_sample, one, two, two - diff_buffer[2]>>
  IN  [i \in 0..MaxOrder |-> IF i <= order THEN x[i + 1] ELSE diff_buffer[i]]

\* Centred modulo.
modulo(x) == ((x + lam) % two_lam) - lam

\* The integrator of stage i, for an input p/q: the second order rounds what it
\* adds, the others the sum, as the second order of test_valid does.
SumRounded(i, p, q) == RoundToFolds(q * anti_diff_buffer[i] + p, q)

IntegratorFloored(i, p, q) == anti_diff_buffer[i] + (p \div (q * two_lam)) * two_lam

Integrator(i, p, q) ==
  IF order = 2 /\ program = "streaming_reconstruct"
    THEN anti_diff_buffer[i] + RoundToFolds(p, q)
    ELSE SumRounded(i, p, q)

\* The filter of stage i, and the stage of a filter if it has one: anti_diff_1st
\* uses ma2.
Filter(i) == IF order = 1 THEN 2 ELSE i
StageOf(f) == IF order = 1 THEN f - 1 ELSE f

\* A stage hands on its sum less the mean of its sums.
Stage(i, p, q) ==
  LET sum == Integrator(i, p, q)
      mean == updateMovingAverage(ma[Filter(i)], sum)
  IN  [sum |-> sum, ma |-> mean, p |-> mean.count * sum - mean.sum, q |-> mean.count]

\* anti_diff_1st, _2nd, _3rd: the stages, of which top() runs as many as the order says.
anti_diff(delta) ==
  LET one == Stage(1, delta, 1)
      two == Stage(2, one.p, one.q)
      three == Stage(3, two.p, two.q)
  IN  <<one, two, three>>

\* The signal p/q with the offset, clamped, as a byte.
float_to_dacUnclamped(p, q) == ((p + q * OFFSET) * DAC_MAX_VALUE) \div (q * V_REF)

float_to_dac(p, q) ==
  LET dac_voltage == p + q * OFFSET
      clamped == IF dac_voltage < 0 THEN 0
                 ELSE IF dac_voltage > q * V_REF THEN q * V_REF ELSE dac_voltage
  IN  (clamped * DAC_MAX_VALUE) \div (q * V_REF)

\* top() for an ADC value.
top(adc_value) ==
  LET dy == nth_order_difference(adc_value)
      delta_eps == modulo(dy[order]) - dy[order]
      stage == anti_diff(delta_eps)
      eps_k == stage[order]
  IN  /\ diff_buffer' = dy
      /\ anti_diff_buffer' = [i \in 1..MaxOrder |->
           IF i <= order THEN stage[i].sum ELSE anti_diff_buffer[i]]
      /\ ma' = [f \in 1..MaxOrder |->
           IF StageOf(f) \in 1..order THEN stage[StageOf(f)].ma ELSE ma[f]]
      /\ dac_value' = float_to_dac(adc_value * eps_k.q + eps_k.p, a * eps_k.q)
      /\ UNCHANGED <<program, order>>

Settled == order * (MA_WINDOW_SIZE + 1)

ModelSample(g) ==
  /\ voltage' = g
  /\ top(AdcValue(g))
  /\ fold_totals' = [i \in 0..MA_WINDOW_SIZE+2 |->
       IF i = 0 THEN 0 ELSE g - FoldVoltage(g) + fold_totals[i - 1]]
  /\ samples' = IF samples < Settled THEN samples + 1 ELSE samples

FirstModelSample ==
  /\ samples = 0
  /\ \E g \in -MaxVoltage..MaxVoltage : ModelSample(g)

NextModelSample ==
  /\ samples > 0
  /\ \E step \in -MaxRise..MaxRise :
       /\ voltage + step \in -MaxVoltage..MaxVoltage
       /\ ModelSample(voltage + step)

\* initReconstructor and initMovingAverage.
ModelInit ==
  /\ program \in Programs /\ order \in Orders
  /\ program = "test_valid" => order = 2
  /\ diff_buffer = [i \in 0..MaxOrder |-> 0]
  /\ anti_diff_buffer = [i \in 1..MaxOrder |-> 0]
  /\ ma = [f \in 1..MaxOrder |-> initMovingAverage]
  /\ dac_value = 0
  /\ voltage = 0 /\ fold_totals = [i \in 0..MA_WINDOW_SIZE+2 |-> 0] /\ samples = 0

ModelNext == FirstModelSample \/ NextModelSample

ModelSpec == ModelInit /\ [][ModelNext]_modelvars

-----------------------------------------------------------------------------
(* Properties.                                                             *)

ModelTypeOK ==
  /\ program \in Programs /\ order \in Orders
  /\ diff_buffer \in [0..MaxOrder -> Int]
  /\ anti_diff_buffer \in [1..MaxOrder -> Int]
  /\ ma \in [1..MaxOrder -> MovingAverage]
  /\ dac_value \in 0..DAC_MAX_VALUE
  /\ voltage \in -MaxVoltage..MaxVoltage
  /\ fold_totals \in [0..MA_WINDOW_SIZE+2 -> Int] /\ samples \in 0..Settled

\* The folds of the signal in the sample i places ago.
LastFolds(i) == fold_totals[i] - fold_totals[i - 1]

\* Unlimited sensing in the reference model: once the filters of a chain of
\* order n are full, the last integrator makes exactly the folds of the signal,
\* although each stage before it integrates a value the mean has been taken from
\* and the first samples have left an arbitrary constant in every stage.
FollowsFolds ==
  [][samples = Settled =>
       anti_diff_buffer'[order] - anti_diff_buffer[order]
         = LastFolds(1)' - LastFolds(1)]_modelvars

\* The constants that the first samples left in the stages are taken out by the
\* mean: the residual handed on is that of the last window's folds alone.
StartForgotten ==
  samples = Settled =>
    MA_WINDOW_SIZE * anti_diff_buffer[order] - ma[Filter(order)].sum
      = MA_WINDOW_SIZE * LastFolds(1) - fold_totals[MA_WINDOW_SIZE]

-----------------------------------------------------------------------------
(* The inductive invariant.                                                *)

\* How much the folds grew in the sample i places ago.
Growth(i) == LastFolds(i) - LastFolds(i + 1)

\* Each sample made a whole number of folds, at most one more or less than the
\* one before; and since the signal is slow its folds are near it.
FoldsNear ==
  /\ fold_totals[0] = 0
  /\ \A i \in 1..MA_WINDOW_SIZE+2 :
       /\ LastFolds(i) % two_lam = 0
       /\ i <= samples =>
            voltage - LastFolds(i)
              \in -(lam + (i - 1) * MaxRise) .. lam - 1 + (i - 1) * MaxRise
  /\ \A i \in 1..MA_WINDOW_SIZE+1 : i < samples => Growth(i) \in -two_lam..two_lam

\* A difference of the folded signal and that of its folds make one of the signal.
DifferencesNear ==
  /\ samples > 0 => diff_buffer[0] + LastFolds(1) = voltage + AdcBias
  /\ samples > 1 => diff_buffer[1] + Growth(1) \in -MaxRise..MaxRise
  /\ samples > 2 /\ order > 1 =>
       diff_buffer[2] + Growth(1) - Growth(2) \in -(2 * MaxRise) .. 2 * MaxRise

\* How many samples ago the place j of a filter's buffer was written, and that t
\* has the total of its i newest values for each i.
AgeIn(m, j) == IF j < m.index THEN m.index - j ELSE m.index - j + MA_WINDOW_SIZE

HasTotals(m, t) ==
  /\ t[0] = 0 /\ m.sum = t[MA_WINDOW_SIZE]
  /\ \A j \in 0..MA_WINDOW_SIZE-1 : m.buffer[j] = t[AgeIn(m, j)] - t[AgeIn(m, j) - 1]
  /\ \A i \in m.count..MA_WINDOW_SIZE : t[i] = t[m.count]

\* The samples it takes until stage i has good input.
Start(i) == order + (i - 1) * MA_WINDOW_SIZE

\* The total of the last k values that stage i ought to have: the last stage has the
\* folds, the one before how much they grew, the one before how much that did.
Exact(i, k) == CASE order - i = 0 -> fold_totals[k]
                 [] order - i = 1 -> LastFolds(1) - LastFolds(k + 1)
                 [] order - i = 2 -> Growth(1) - Growth(k + 1)
                 [] OTHER -> 0

\* What stage i has: since its start that, and a constant.
StageHas(i, t, c) ==
  /\ HasTotals(ma[Filter(i)], t)
  /\ ma[Filter(i)].count = IF samples < MA_WINDOW_SIZE THEN samples ELSE MA_WINDOW_SIZE
  /\ anti_diff_buffer[i] = t[1] /\ anti_diff_buffer[i] % two_lam = 0
  /\ \A k \in 0..MA_WINDOW_SIZE : k <= samples + 1 - Start(i) => t[k] = k * c + Exact(i, k)

ModelInv ==
  /\ ModelTypeOK /\ FoldsNear /\ DifferencesNear
  /\ \A i \in 1..order :
       \E t \in [0..MA_WINDOW_SIZE -> Int], c \in Int : StageHas(i, t, c)
=============================================================================
