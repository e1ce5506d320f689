------------------------------ MODULE Pipeline ------------------------------
(***************************************************************************)
(* reconstruction_top_pipelined (ip/recon/top_pipelined.sv), the custom    *)
(* instruction the streaming program calls once per sample, and the        *)
(* processor that calls it.                                                *)
(*                                                                         *)
(* The processor side is a multi-cycle custom instruction: clk_en is high  *)
(* for the cycles of a call and low between calls, start is high in the    *)
(* first.  Whether the processor spends one or two enabled cycles on a     *)
(* call is not in the repository (the core is encrypted; the testbench     *)
(* tb_pipe.sv drives two), so it is a parameter.  A step is one clock      *)
(* cycle: the falling edge in its middle and the rising edge at its end,   *)
(* both under the cycle's clk_en.                                          *)
(***************************************************************************)
EXTENDS ReconBlocks

CONSTANTS
  adc_pipe_len,            \* length of adc_out_piped (30)
  reconstructed_pipe_len,  \* length of reconstructed_piped (28)
  CallCycles,  \* numbers of enabled cycles a call may take
  Starts,      \* values of start as a call begins; FALSE is a call of the
               \* other instruction, which shares clk_en
  MinGap,      \* idle cycles between two calls, at least
  MaxGap,      \* and at most; a gap longer than AntiDelay + 1 is no different
  MaxSamples   \* bound: samples sent

ASSUME CallAssumption ==
  /\ adc_pipe_len \in Nat \ {0}
  /\ reconstructed_pipe_len \in Nat \ {0}
  /\ CallCycles \subseteq Nat \ {0} /\ CallCycles # {}
  /\ Starts \subseteq BOOLEAN /\ TRUE \in Starts
  /\ MaxGap \in Nat /\ MinGap \in 0..MaxGap
  /\ MaxSamples \in Nat

VARIABLES
  adc, diff_calc, mod_residual, anti_diff, mov_avg, dac,   \* the blocks
  adc_out_piped, reconstructed_piped, valid_avg_in,        \* falling edge
  conversion_intermediate, conversion_in,
  valid_convert_intermediate, valid_convert, dac_out, valid_out,
  valid_avg,                                               \* not reset
  left,        \* enabled cycles the current call still takes
  idle,        \* idle cycles since the last call
  n            \* samples sent

blocks == <<adc, diff_calc, mod_residual, anti_diff, mov_avg, dac, valid_avg>>
regs == <<adc_out_piped, reconstructed_piped, valid_avg_in,
          conversion_intermediate, conversion_in,
          valid_convert_intermediate, valid_convert, dac_out, valid_out>>
cpu  == <<left, idle, n>>
vars == <<blocks, regs, cpu>>

Sample == [residual : Nat, y : Nat]
Result == [x : Sample, mean : Nat]
NoSample == [residual |-> 0, y |-> 0]
NoResult == [x |-> NoSample, mean |-> 0]

-----------------------------------------------------------------------------
\* The samples on their way past the blocks that recover their residual.
PipeSamples(en) ==
  adc_out_piped' = IF en THEN Shift(adc_out_piped, adc.fixed_in) ELSE adc_out_piped

\* The sum of a sample and its residual, and the sums on their way past the
\* moving average.
ReconstructionShort == [residual |-> anti_diff.residual_out,
                        y |-> Last(adc_out_piped, adc_pipe_len - 1)]

Reconstruction == [residual |-> anti_diff.residual_out,
                   y |-> Last(adc_out_piped, adc_pipe_len)]

Reconstruct(en) ==
  IF en
    THEN /\ reconstructed_piped' = Shift(reconstructed_piped, Reconstruction)
         /\ valid_avg_in' = anti_diff.valid_out
    ELSE UNCHANGED <<reconstructed_piped, valid_avg_in>>

\* The difference of a sum and the mean, scaled.
FilteredShort == [x |-> Last(reconstructed_piped, reconstructed_pipe_len - 1),
                  mean |-> mov_avg.out_avg]

Filtered == [x |-> Last(reconstructed_piped, reconstructed_pipe_len),
             mean |-> mov_avg.out_avg]

ConvertUngated(en) ==
  /\ conversion_intermediate' = Filtered
  /\ conversion_in' = conversion_intermediate
  /\ valid_convert_intermediate' = valid_avg
  /\ valid_convert' = valid_convert_intermediate

Convert(en) ==
  IF en
    THEN /\ conversion_intermediate' = Filtered
         /\ conversion_in' = conversion_intermediate
         /\ valid_convert_intermediate' = valid_avg
         /\ valid_convert' = valid_convert_intermediate
    ELSE UNCHANGED <<conversion_intermediate, conversion_in,
                     valid_convert_intermediate, valid_convert>>

\* The instruction's result and its done.
Respond(en, start) ==
  IF en THEN dac_out' = dac.dac_value /\ valid_out' = start
        ELSE UNCHANGED <<dac_out, valid_out>>

\* The rising-edge blocks; those fed by a falling-edge register see its new
\* value.
RisingEdge(en, start, adc_in) ==
  /\ adc' = AdcEdge(adc, en, start, adc_in)
  /\ diff_calc' = DiffEdge(diff_calc, en, adc.valid_out, adc.fixed_in)
  /\ mod_residual' = ModEdge(mod_residual, en, diff_calc.valid_out,
                             diff_calc.diff_out.new)
  /\ anti_diff' = AntiEdge(anti_diff, en, mod_residual.valid_out,
                           mod_residual.residual_out.remain)
  /\ mov_avg' = AvgEdge(mov_avg, en, valid_avg_in', reconstructed_piped'[0].y)
  /\ valid_avg' = IF en THEN Last(mov_avg.v, AvgDelay) ELSE valid_avg
  /\ dac' = DacEdge(dac, en, valid_convert', conversion_in')

Cycle(en, start, adc_in) ==
  /\ PipeSamples(en) /\ Reconstruct(en) /\ Convert(en) /\ Respond(en, start)
  /\ RisingEdge(en, start, adc_in)

-----------------------------------------------------------------------------
\* The first cycle of a call, of this instruction or of the other.
BeginCall ==
  /\ left = 0 /\ idle >= MinGap
  /\ \E len \in CallCycles, start \in Starts :
       /\ start => n < MaxSamples
       /\ n' = IF start THEN n + 1 ELSE n
       /\ left' = len - 1
       /\ idle' = 0
       /\ Cycle(TRUE, start, n')

\* A further cycle of the call.
ContinueCall ==
  /\ left > 0
  /\ left' = left - 1
  /\ Cycle(TRUE, FALSE, n)
  /\ UNCHANGED <<idle, n>>

\* A cycle between calls.
IdleCycle ==
  /\ left = 0 /\ idle < MaxGap
  /\ idle' = idle + 1
  /\ Cycle(FALSE, FALSE, n)
  /\ UNCHANGED <<left, n>>

\* After a reset.  valid_avg and valid_convert_intermediate have none and keep
\* what they held; what the other unreset registers hold is from no sample.
Init ==
  /\ adc = AdcReset /\ diff_calc = DiffReset /\ mod_residual = ModReset
  /\ anti_diff = AntiReset /\ mov_avg = AvgReset /\ dac = DacReset(NoResult)
  /\ adc_out_piped = Filled(adc_pipe_len, 0)
  /\ reconstructed_piped = Filled(reconstructed_pipe_len, NoSample)
  /\ valid_avg_in = FALSE
  /\ conversion_intermediate = NoResult /\ conversion_in = NoResult
  /\ valid_convert_intermediate \in BOOLEAN /\ valid_convert = FALSE
  /\ dac_out = NoResult /\ valid_out = FALSE
  /\ valid_avg \in BOOLEAN
  /\ left = 0 /\ idle = MinGap /\ n = 0

Next == BeginCall \/ ContinueCall \/ IdleCycle

Spec == Init /\ [][Next]_vars

-----------------------------------------------------------------------------
(* Properties.                                                             *)

TypeOK ==
  /\ adc \in AdcRegs /\ diff_calc \in DiffRegs /\ mod_residual \in ModRegs
  /\ anti_diff \in AntiRegs /\ mov_avg \in AvgRegs /\ dac \in DacRegs(Result)
  /\ adc_out_piped \in Places(adc_pipe_len, Nat)
  /\ reconstructed_piped \in Places(reconstructed_pipe_len, Sample)
  /\ valid_avg_in \in BOOLEAN /\ valid_avg \in BOOLEAN
  /\ conversion_intermediate \in Result /\ conversion_in \in Result
  /\ valid_convert_intermediate \in BOOLEAN /\ valid_convert \in BOOLEAN
  /\ dac_out \in Result /\ valid_out \in BOOLEAN
  /\ left \in Nat /\ idle \in 0..MaxGap /\ n \in 0..MaxSamples

\* The subtraction that gives a residual meets the remainder and the difference
\* of the same sample, however calls and other instructions' calls are spaced.
ResidualAligned ==
  mod_residual.residual_out.remain = mod_residual.residual_out.diff

\* The accumulator has added the residual of every sample up to its last one,
\* each once and in order: what it lost or added twice it would never recover.
AccumulatesOnce == anti_diff.residual.exact

\* So has the moving average, but for what it took before the first sample.
AveragesOnce == mov_avg.sum.exact

\* The sum taken for a reconstruction joins a sample and its own residual.
ReconstructionAligned ==
  LET r == reconstructed_piped[0] IN r.residual > 0 => r.residual = r.y

\* Once the first sample has reached the DAC register every later one does,
\* in order, each when its successor enters the pipeline's end.
DacInOrder ==
  [][dac_out.x.y > 0 => dac_out'.x.y \in {dac_out.x.y, dac_out.x.y + 1}]_vars

\* The mean taken off a sample is that of the window that ended just before it:
\* reconstructed_piped is a place shorter than the moving average's latency.
MeanOfWindowBefore ==
  conversion_in.mean > 0 => conversion_in.x.y = conversion_in.mean + 1

-----------------------------------------------------------------------------
(* The inductive invariant: from the input to the accumulator each register *)
(* is one sample behind the one before it if the valid bit between them is  *)
(* set, and level with it if not; and the difference in the shift register  *)
(* is the one under division in the same place.                             *)

Lag(v) == IF v THEN 1 ELSE 0

AdcInStep ==
  /\ adc.signal_with_offset = n
  /\ adc.signal_with_offset = adc.scaled_signal + Lag(adc.v[0])
  /\ adc.scaled_signal = adc.fixed_in + Lag(adc.v[1])
  /\ adc.fixed_in = diff_calc.diff_out.new + Lag(adc.valid_out)

ModInStep ==
  /\ diff_calc.diff_out.new = mod_residual.mod_numer + Lag(diff_calc.valid_out)
  /\ mod_residual.mod_numer = mod_residual.div[0] + Lag(mod_residual.v[0])
  /\ \A i \in 1..ModStages-1 :
       mod_residual.div[i-1] = mod_residual.div[i] + Lag(mod_residual.v[i])
  /\ mod_residual.div[ModStages-1] =
       mod_residual.residual_out.remain + Lag(mod_residual.v[ModStages])

DiffCarried ==
  /\ mod_residual.v[0] => mod_residual.diff_in_shift[0] = mod_residual.mod_numer
  /\ \A i \in 1..ModStages :
       mod_residual.v[i] => mod_residual.diff_in_shift[i] = mod_residual.div[i-1]

AntiInStep ==
  /\ mod_residual.residual_out.remain =
       anti_diff.residual.last + Lag(mod_residual.valid_out)
  /\ anti_diff.residual.exact

IInv == TypeOK /\ AdcInStep /\ ModInStep /\ DiffCarried /\ ResidualAligned /\ AntiInStep

-----------------------------------------------------------------------------
(* Calls of one cycle, each of which starts a sample, with the lines as    *)
(* long as the blocks they pass: a register is a fixed number of samples   *)
(* behind the last one sent, however the calls are spaced.                 *)

OneCycleCalls == CallCycles = {1} /\ Starts = {TRUE}

LinesMatch == /\ adc_pipe_len = ModStages + AntiStages + 6
              /\ reconstructed_pipe_len = AvgDelay

\* The sample d before sample m.
Before(m) == [d \in Nat |-> IF m > d THEN m - d ELSE 0]

\* How far behind the accumulator is, the sum of a sample and its residual, and the
\* difference of a sum and the mean.
AntiLag == ModStages + 6
SumLag  == AntiLag + AntiDelay + 1
MeanLag == SumLag + AvgDelay + 1

InputBehind ==
  /\ AdcKeeps(adc, Before(n))
  /\ diff_calc.diff_out.new = Before(n)[3] /\ Brings(diff_calc.valid_out, Before(n), 3)
  /\ Line(adc_out_piped, adc_pipe_len, Before(n), 3)
  /\ ModKeeps(mod_residual, Before(n), 4)
  /\ AntiKeeps(anti_diff, Before(n), AntiLag)

\* A sample joined to its own residual.
Joined(g) == [d \in Nat |-> [residual |-> g[d], y |-> g[d]]]

SumBehind ==
  /\ Line(reconstructed_piped, reconstructed_pipe_len, Joined(Before(n)), SumLag)
  /\ Brings(valid_avg_in, Before(n), SumLag)
  /\ AvgKeeps(mov_avg, Before(n), SumLag)

MeanBehind ==
  /\ conversion_intermediate.x.y = Before(n)[MeanLag - 1]
  /\ conversion_intermediate.mean = Before(n)[MeanLag]
  /\ conversion_in.x.y = Before(n)[MeanLag]
  /\ conversion_in.mean = Before(n)[MeanLag + 1]

\* The mean's valid bit comes a sample late, so the first difference may be missed.
FromSecond(x, g, d) == x = g[d] \/ (x = 0 /\ g[d + 1] = 0)

DacBehind ==
  /\ Brings(valid_avg, Before(n), MeanLag - 1)
  /\ Brings(valid_convert_intermediate, Before(n), MeanLag)
  /\ Brings(valid_convert, Before(n), MeanLag + 1)
  /\ Valids(dac.v, 2, Before(n), MeanLag + 1)
  /\ FromSecond(dac.signal_with_offset.x.y, Before(n), MeanLag)
  /\ FromSecond(dac.scaled_signal.x.y, Before(n), MeanLag + 1)
  /\ FromSecond(dac.dac_value.x.y, Before(n), MeanLag + 2)
  /\ FromSecond(dac_out.x.y, Before(n), MeanLag + 3)

CallsInv == /\ TypeOK /\ left = 0 /\ InputBehind /\ SumBehind /\ MeanBehind /\ DacBehind

=============================================================================
