---------------------------- MODULE ReconstructN ----------------------------
(***************************************************************************)
(* What the stages of the order-n pipeline compute (ip/Higher_orders,      *)
(* ip/recon), beside the C model and from the same samples.  The           *)
(* differences and the modulo residual have the values of the C model's;   *)
(* that they come later, and each datum once, is the matter of PipelineN.  *)
(* Words are not wrapped here: the signals are small.                      *)
(***************************************************************************)
EXTENDS CModel

VARIABLES
  stage_residual,  \* accumulator of each stage's anti_difference_rounding
  residual_out,    \* what the stage rounded it to
  mov_avg,         \* its moving_average
  apart            \* history: distance from the C model as its filters filled

nvars == <<modelvars, stage_residual, residual_out, mov_avg, apart>>

\* anti_difference_stage i for an input x: the input is summed as it comes and the
\* sum rounded down, the mean is a whole number.
HardwareStage(i, x) ==
  LET sum == stage_residual[i] + x
      out == (sum \div two_lam) * two_lam
      mean == updateMovingAverage(mov_avg[i], out)
  IN  [residual |-> sum, residual_out |-> out, mov_avg |-> mean,
       anti_diff_out |-> out - (mean.sum \div mean.count)]

\* The three stages take every sample, whatever the order.
HardwareSample ==
  LET dy == diff_buffer'[order]
      one == HardwareStage(1, modulo(dy) - dy)
      two == HardwareStage(2, one.anti_diff_out)
      stage == <<one, two, HardwareStage(3, two.anti_diff_out)>>
  IN  /\ stage_residual' = [i \in 1..MaxOrder |-> stage[i].residual]
      /\ residual_out' = [i \in 1..MaxOrder |-> stage[i].residual_out]
      /\ mov_avg' = [i \in 1..MaxOrder |-> stage[i].mov_avg]

HardwareInit ==
  /\ ModelInit
  /\ stage_residual = [i \in 1..MaxOrder |-> 0]
  /\ residual_out = [i \in 1..MaxOrder |-> 0]
  /\ mov_avg = [i \in 1..MaxOrder |-> initMovingAverage]
  /\ apart = 0

BothSample ==
  /\ ModelNext /\ HardwareSample
  /\ apart' = IF samples < Settled THEN residual_out'[order] - anti_diff_buffer'[order]
                                   ELSE apart

HardwareSpec == HardwareInit /\ [][BothSample]_nvars

-----------------------------------------------------------------------------
\* The header of test_valid, "to test if the ip output matches c-model results":
\* once its filters are full the C model and the hardware make the same folds.
MatchesCModel ==
  samples = Settled => residual_out[order] - anti_diff_buffer[order] = apart

\* With order 1 they do from the first sample on, and average the same sums: the
\* hardware rounds down what it accumulates and the C model to the nearest, yet both
\* have accumulated whole folds.
FirstOrderMatches ==
  order = 1 =>
    residual_out[1] = anti_diff_buffer[1] /\ mov_avg[1] = ma[Filter(1)] /\ MatchesCModel

\* The inductive invariant: the accumulator, before the rounding, is the C model's too.
FirstOrderInv ==
  /\ ModelInv
  /\ order = 1 =>
       /\ stage_residual[1] = anti_diff_buffer[1] /\ residual_out[1] = anti_diff_buffer[1]
       /\ mov_avg[1] = ma[Filter(1)] /\ apart = 0
=============================================================================
