------------------------------ MODULE PipelineN ------------------------------
(***************************************************************************)
(* reconstruction_top_pipelined_n (ip/Higher_orders), the custom           *)
(* instruction that recovers a signal from differences of a selectable     *)
(* order: the difference, the modulo residual, then one stage of summing,  *)
(* rounding and subtracting the running mean for each order, all three     *)
(* stages always running.                                                  *)
(*                                                                         *)
(* As in Pipeline a datum is the number of the sample it stems from and a  *)
(* step is one clock cycle.  The enabled cycles of a call are the same for *)
(* every call: one, as the instruction answers in its first cycle, or as   *)
(* many as tb_piped_n.sv drives (201), in which a sample gets through the  *)
(* whole pipeline.  The order is an operand the programs keep constant.    *)
(***************************************************************************)
EXTENDS ReconBlocks

CONSTANTS
  Max_N,             \* stages (3)
  adc_pipe_len,      \* length of adc_out_piped (150)
  filter_pipe_len,   \* length of a stage's filter_piped (28)
  first_two_delay,   \* places a sample waits for difference and residual (16)
  stage_delay,       \* and for each stage (44)
  Orders,            \* orders asked for
  CallCycles,        \* enabled cycles of a call
  MaxGap,            \* idle cycles between two calls, at most
  MaxSamples, MaxEnabled  \* bounds: samples sent, enabled cycles begun

ASSUME OrderAssumption ==
  /\ Max_N \in Nat \ {0} /\ Orders \subseteq 1..Max_N
  /\ adc_pipe_len \in Nat \ {0} /\ filter_pipe_len \in Nat \ {0}
  /\ first_two_delay \in Nat /\ stage_delay \in Nat
  /\ first_two_delay + Max_N * stage_delay < adc_pipe_len
  /\ CallCycles \subseteq Nat \ {0} /\ MaxGap \in Nat
  /\ MaxSamples \in Nat /\ MaxEnabled \in Nat

VARIABLES
  adc, diff_calc, mod_residual, stage, dac,    \* the blocks
  adc_out_piped,                               \* falling edge
  conversion_in_intermediate, conversion_in,
  valid_convert_intermediate, valid_convert, dac_out,
  n,           \* the order
  cycles,      \* enabled cycles of a call
  left, idle,  \* enabled cycles the call still takes; idle ones since the last
  k            \* samples sent

regs == <<adc_out_piped, conversion_in_intermediate, conversion_in,
          valid_convert_intermediate, valid_convert, dac_out>>
vars == <<adc, diff_calc, mod_residual, stage, dac, regs, n, cycles, left, idle, k>>

Result == [y : Nat, x : Nat, mean : Nat]
NoResult == [y |-> 0, x |-> 0, mean |-> 0]
Recovered == [x : Nat, mean : Nat]

-----------------------------------------------------------------------------
\* higher_order_difference_n: every order's difference is of the old value of
\* the order below, so each lags a sample behind it.
DiffNRegs ==
  [v : BOOLEAN, valid_out : BOOLEAN, diff_out : [new : Nat, old : Nat],
   differences : [1..Max_N -> [new : Nat, old : Nat]], prev : [1..Max_N -> Nat]]

DiffNReset ==
  LET d == [new |-> 0, old |-> 0]
  IN [v |-> FALSE, valid_out |-> FALSE, diff_out |-> d,
      differences |-> [i \in 1..Max_N |-> d], prev |-> [i \in 1..Max_N |-> 0]]

DiffNEdge(b, en, valid_in, y_in) ==
  LET input(i) == IF i = 1 THEN y_in ELSE b.differences[i - 1].new
      taken(i) == valid_in /\ i <= n
  IN IF ~en THEN b ELSE
     [v |-> valid_in, valid_out |-> b.v,
      differences |-> [i \in 1..Max_N |->
        IF taken(i) THEN [new |-> input(i), old |-> b.prev[i]] ELSE b.differences[i]],
      prev |-> [i \in 1..Max_N |-> IF taken(i) THEN input(i) ELSE b.prev[i]],
      diff_out |-> IF b.v THEN b.differences[n] ELSE b.diff_out]

-----------------------------------------------------------------------------
\* anti_difference_stage: the falling edge, then the rising edge.
StageRegs ==
  [anti_diff : AntiRegs, mov_avg : AvgRegs, valid_avg : BOOLEAN, valid_avg_in : BOOLEAN,
   filter_piped : Places(filter_pipe_len, Nat),
   anti_diff_out : Recovered, valid_out : BOOLEAN]

StageReset ==
  [anti_diff |-> AntiReset, mov_avg |-> AvgReset, valid_avg |-> FALSE,
   valid_avg_in |-> FALSE, filter_piped |-> Filled(filter_pipe_len, 0),
   anti_diff_out |-> [x |-> 0, mean |-> 0], valid_out |-> FALSE]

StageFallsShort(s, en) ==
  IF ~en THEN s ELSE
  [s EXCEPT !.filter_piped = Shift(s.filter_piped, s.anti_diff.residual_out),
            !.valid_avg_in = s.anti_diff.valid_out,
            !.anti_diff_out = [x |-> Last(s.filter_piped, filter_pipe_len - 1),
                               mean |-> s.mov_avg.out_avg],
            !.valid_out = s.valid_avg]

StageFalls(s, en) ==
  IF ~en THEN s ELSE
  [s EXCEPT !.filter_piped = Shift(s.filter_piped, s.anti_diff.residual_out),
            !.valid_avg_in = s.anti_diff.valid_out,
            !.anti_diff_out = [x |-> Last(s.filter_piped, filter_pipe_len),
                               mean |-> s.mov_avg.out_avg],
            !.valid_out = s.valid_avg]

StageRises(s, en, valid_in, residue_in) ==
  [s EXCEPT !.anti_diff = AntiEdge(s.anti_diff, en, valid_in, residue_in),
            !.mov_avg = AvgEdge(s.mov_avg, en, s.valid_avg_in, s.filter_piped[0]),
            !.valid_avg = IF en THEN Last(s.mov_avg.v, AvgDelay) ELSE s.valid_avg]

\* A stage takes the falling-edge output of the one before it.
Stages(en) ==
  LET fallen == [i \in 1..Max_N |-> StageFalls(stage[i], en)]
  IN stage' = [i \in 1..Max_N |->
       IF i = 1
         THEN StageRises(fallen[1], en, mod_residual.valid_out,
                         mod_residual.residual_out.remain)
         ELSE StageRises(fallen[i], en, fallen[i - 1].valid_out,
                         fallen[i - 1].anti_diff_out.x)]

-----------------------------------------------------------------------------
\* The sum of the delayed sample and the output of the last stage in use.
SelectedShort == [y |-> adc_out_piped[first_two_delay + (n - 1) * stage_delay],
                  x |-> stage[n].anti_diff_out.x, mean |-> stage[n].anti_diff_out.mean]

Selected == [y |-> adc_out_piped[first_two_delay + n * stage_delay],
             x |-> stage[n].anti_diff_out.x, mean |-> stage[n].anti_diff_out.mean]

FallingEdgeFirstValid(en) ==
  IF en
    THEN /\ adc_out_piped' = Shift(adc_out_piped, adc.fixed_in)
         /\ conversion_in_intermediate' = Selected
         /\ conversion_in' = conversion_in_intermediate
         /\ valid_convert_intermediate' = stage[1].valid_out
         /\ valid_convert' = valid_convert_intermediate
         /\ dac_out' = dac.dac_value
    ELSE UNCHANGED regs

FallingEdge(en) ==
  IF en
    THEN /\ adc_out_piped' = Shift(adc_out_piped, adc.fixed_in)
         /\ conversion_in_intermediate' = Selected
         /\ conversion_in' = conversion_in_intermediate
         /\ valid_convert_intermediate' = stage[n].valid_out
         /\ valid_convert' = valid_convert_intermediate
         /\ dac_out' = dac.dac_value
    ELSE UNCHANGED regs

RisingEdge(en, valid_in, adc_in) ==
  /\ adc' = AdcEdge(adc, en, valid_in, adc_in)
  /\ diff_calc' = DiffNEdge(diff_calc, en, adc.valid_out, adc.fixed_in)
  /\ mod_residual' = ModEdge(mod_residual, en, diff_calc.valid_out,
                             diff_calc.diff_out.new)
  /\ dac' = DacEdge(dac, en, valid_convert', conversion_in')

Cycle(en, start, adc_in) ==
  FallingEdge(en) /\ Stages(en) /\ RisingEdge(en, en /\ start, adc_in)

-----------------------------------------------------------------------------
BeginCall ==
  /\ left = 0 /\ k < MaxSamples /\ k * cycles < MaxEnabled
  /\ k' = k + 1 /\ left' = cycles - 1 /\ idle' = 0
  /\ Cycle(TRUE, TRUE, k')
  /\ UNCHANGED <<n, cycles>>

ContinueCall ==
  /\ left > 0
  /\ left' = left - 1
  /\ Cycle(TRUE, FALSE, k)
  /\ UNCHANGED <<n, cycles, idle, k>>

IdleCycle ==
  /\ left = 0 /\ k > 0 /\ idle < MaxGap
  /\ idle' = idle + 1
  /\ Cycle(FALSE, FALSE, k)
  /\ UNCHANGED <<n, cycles, left, k>>

\* After a reset, before the first call.  valid_avg of each stage has no reset
\* and adc_out_piped none either: what they hold comes from no sample.
Init ==
  /\ adc = AdcReset /\ diff_calc = DiffNReset /\ mod_residual = ModReset
  /\ \E b \in BOOLEAN :
       stage = [i \in 1..Max_N |-> [StageReset EXCEPT !.valid_avg = b]]
  /\ dac = DacReset(NoResult)
  /\ adc_out_piped = Filled(adc_pipe_len, 0)
  /\ conversion_in_intermediate = NoResult /\ conversion_in = NoResult
  /\ valid_convert_intermediate = FALSE /\ valid_convert = FALSE
  /\ dac_out = NoResult
  /\ n \in Orders /\ cycles \in CallCycles /\ left = 0 /\ idle = 0 /\ k = 0

Next == BeginCall \/ ContinueCall \/ IdleCycle

Spec == Init /\ [][Next]_vars

-----------------------------------------------------------------------------
(* Properties.                                                             *)

TypeOK ==
  /\ adc \in AdcRegs /\ diff_calc \in DiffNRegs /\ mod_residual \in ModRegs
  /\ stage \in [1..Max_N -> StageRegs] /\ dac \in DacRegs(Result)
  /\ adc_out_piped \in Places(adc_pipe_len, Nat)
  /\ conversion_in_intermediate \in Result /\ conversion_in \in Result
  /\ valid_convert_intermediate \in BOOLEAN /\ valid_convert \in BOOLEAN
  /\ dac_out \in Result
  /\ n \in Orders /\ cycles \in CallCycles /\ left \in Nat /\ idle \in 0..MaxGap
  /\ k \in 0..MaxSamples

\* In every stage the order uses, the accumulator and the running mean have
\* taken every sample once and in order, though a stage's valid bit is not that
\* of its datum: they never forget, so one lost or doubled would stay.
StagesOnce ==
  \A i \in 1..n : stage[i].anti_diff.residual.exact /\ stage[i].mov_avg.sum.exact

\* How far apart are the sample and the residual that are added and handed on as
\* valid: with calls of one cycle the residual is that of the next sample, with
\* long ones the differences' lag shows, a sample for each order above the first.
SumApart ==
  LET c == conversion_in_intermediate
  IN valid_convert_intermediate /\ c.x > 0 =>
       c.x = IF cycles = 1 THEN c.y + 1 ELSE c.y - (n - 1)

\* In a long call the window's mean is taken off the sample that entered it
\* last, in calls of one cycle off the sample after that.
MeanApart ==
  LET c == conversion_in_intermediate
  IN valid_convert_intermediate /\ c.mean > 0 =>
       c.x = IF cycles = 1 THEN c.mean + 1 ELSE c.mean

\* A long call's answer is that of its own sample, in every order.
LongCallAnswers == cycles > 1 /\ left = 0 /\ k > 0 => dac_out.y = k

-----------------------------------------------------------------------------
(* Why: every register is a fixed number of enabled cycles behind the      *)
(* input, its datum as well as its valid bit, though not the same number.  *)

\* Enabled cycles begun since the reset, and the call that the cycle d before
\* the last belongs to.
Clock == k * cycles - left
Sent(e, len) == [d \in Nat |-> IF e > d THEN (e - d - 1) \div len + 1 ELSE 0]

\* What a valid bit d cycles behind may be: set if that cycle was the first of a call.
\* A bit from before the first call may be anything.
Firsts(e, len) ==
  [d \in Nat |-> IF e > d THEN {(e - d - 1) % len = 0}
                 ELSE IF e = d /\ len > 1 THEN {FALSE} ELSE BOOLEAN]

\* The differences of an order lag a sample for each order below.
Less(g, s) == [d \in Nat |-> IF g[d] > s THEN g[d] - s ELSE 0]

\* How far behind are the valid bits and the data a stage takes; in calls of one cycle
\* each stage takes its datum a cycle before the valid bit it belongs to.
StageLag    == AntiDelay + AvgDelay + 2
ValidLag(i) == ModStages + 7 + (i - 1) * StageLag
DataLag(i, len) == ValidLag(i) - (IF len = 1 THEN i - 1 ELSE 0)

DelaysMatch == /\ filter_pipe_len = AvgDelay
               /\ first_two_delay = ModStages + 4 /\ stage_delay = StageLag

\* A call of more than one cycle is long enough for its own answer.
Latency(i) == ValidLag(i + 1) + 5
OneOrLong == \A len \in CallCycles, i \in Orders : len = 1 \/ len > Latency(i)

ResidualBehind(g, q, u) ==
  /\ AdcKeeps(adc, g) /\ Among(adc.v, 2, q, 0) /\ adc.valid_out \in q[2]
  /\ Line(adc_out_piped, adc_pipe_len, g, 3)
  /\ diff_calc.v \in q[3] /\ diff_calc.valid_out \in q[4]
  /\ \A i \in 1..n : diff_calc.differences[i].new = Less(g, i - 1)[3]
  /\ diff_calc.diff_out.new = u[4]
  /\ ModKeeps(mod_residual, u, 5)
  /\ Among(mod_residual.v, ModDelay, q, 5) /\ mod_residual.valid_out \in q[ModStages + 6]

StageKeeps(s, q, v, u, d) ==
  /\ AntiKeeps(s.anti_diff, u, d)
  /\ Among(s.anti_diff.v, AntiDelay, q, v) /\ s.anti_diff.valid_out \in q[v + AntiDelay]
  /\ Line(s.filter_piped, filter_pipe_len, u, d + AntiDelay + 1)
  /\ s.valid_avg_in \in q[v + AntiDelay + 1]
  /\ AvgKeeps(s.mov_avg, u, d + AntiDelay + 1)
  /\ Among(s.mov_avg.v, AvgDelay, q, v + AntiDelay + 1)
  /\ s.valid_avg \in q[v + StageLag - 1] /\ s.valid_out \in q[v + StageLag]
  /\ s.anti_diff_out.x = u[d + StageLag - 1] /\ s.anti_diff_out.mean = u[d + StageLag]

ResultBehind(g, q, u, w, d) ==
  /\ conversion_in_intermediate.y = g[w]
  /\ conversion_in_intermediate.x = u[d] /\ conversion_in_intermediate.mean = u[d + 1]
  /\ conversion_in.y = g[w + 1]
  /\ valid_convert_intermediate \in q[w] /\ valid_convert \in q[w + 1]
  /\ Among(dac.v, 2, q, w + 1)
  /\ dac.signal_with_offset.y = g[w + 1] /\ dac.scaled_signal.y = g[w + 2]
  /\ dac.dac_value.y = g[w + 3] /\ dac_out.y = g[w + 4]

Behind(g, q, u) ==
  /\ ResidualBehind(g, q, u)
  /\ \A i \in 1..n : StageKeeps(stage[i], q, ValidLag(i), u, DataLag(i, cycles))
  /\ ResultBehind(g, q, u, ValidLag(n + 1) + 1, DataLag(n, cycles) + StageLag)

NInv == /\ TypeOK /\ left < cycles /\ (k = 0 => left = 0)
        /\ Behind(Sent(Clock, cycles), Firsts(Clock, cycles),
                  Less(Sent(Clock, cycles), n - 1))
=============================================================================
