--------------------------- MODULE PipelineProofs ---------------------------
(***************************************************************************)
(* Proofs about Pipeline, for every depth of the dividers, every spacing   *)
(* of the calls and any mix of one- and two-cycle calls of either          *)
(* instruction: the datapath never pairs data of two samples in the        *)
(* residual, and the accumulator never loses or repeats one.               *)
(***************************************************************************)
EXTENDS Pipeline, ReconBlocksProofs

-----------------------------------------------------------------------------
(* Type correctness.                                                       *)

LEMMA Zeros ==
  /\ EmptySum \in Sum /\ NoSample \in Sample /\ NoResult \in Result
  /\ DiffReset \in DiffRegs
  BY DEF EmptySum, Sum, NoSample, Sample, NoResult, Result, DiffReset, DiffRegs

LEMMA InitType == Init => TypeOK
  <1> SUFFICES ASSUME Init PROVE TypeOK
    OBVIOUS
  <1>1. /\ Filled(2, FALSE) \in Places(2, BOOLEAN)
        /\ Filled(ModDelay, FALSE) \in Places(ModDelay, BOOLEAN)
        /\ Filled(AntiDelay, FALSE) \in Places(AntiDelay, BOOLEAN)
        /\ Filled(AvgDelay, FALSE) \in Places(AvgDelay, BOOLEAN)
    BY FilledFacts, Depths
  <1>2. /\ Filled(ModDelay, 0) \in Places(ModDelay, Nat)
        /\ Filled(ModStages, 0) \in Places(ModStages, Nat)
        /\ Filled(AntiStages, 0) \in Places(AntiStages, Nat)
        /\ Filled(AvgStages, 0) \in Places(AvgStages, Nat)
    BY FilledFacts, Depths
  <1>3. /\ adc_out_piped \in Places(adc_pipe_len, Nat)
        /\ reconstructed_piped \in Places(reconstructed_pipe_len, Sample)
    BY FilledFacts, CallAssumption, Zeros DEF Init
  <1>4. adc \in AdcRegs /\ mod_residual \in ModRegs
    BY <1>1, <1>2 DEF Init, AdcReset, AdcRegs, ModReset, ModRegs
  <1>5. anti_diff \in AntiRegs /\ mov_avg \in AvgRegs
    BY <1>1, <1>2, Zeros DEF Init, AntiReset, AntiRegs, AvgReset, AvgRegs
  <1>6. dac \in DacRegs(Result)
    BY <1>1, Zeros DEF Init, DacReset, DacRegs
  <1>7. left \in Nat /\ idle \in 0..MaxGap /\ n \in 0..MaxSamples
    BY CallAssumption DEF Init
  <1> QED BY <1>3, <1>4, <1>5, <1>6, <1>7, Zeros DEF Init, TypeOK

\* A clock cycle keeps the type of every register.
LEMMA CycleType ==
  ASSUME TypeOK, NEW en \in BOOLEAN, NEW start \in BOOLEAN, NEW x \in Nat,
         Cycle(en, start, x)
  PROVE  /\ adc' \in AdcRegs /\ diff_calc' \in DiffRegs /\ mod_residual' \in ModRegs
         /\ anti_diff' \in AntiRegs /\ mov_avg' \in AvgRegs /\ dac' \in DacRegs(Result)
         /\ adc_out_piped' \in Places(adc_pipe_len, Nat)
         /\ reconstructed_piped' \in Places(reconstructed_pipe_len, Sample)
         /\ valid_avg_in' \in BOOLEAN /\ valid_avg' \in BOOLEAN
         /\ conversion_intermediate' \in Result /\ conversion_in' \in Result
         /\ valid_convert_intermediate' \in BOOLEAN /\ valid_convert' \in BOOLEAN
         /\ dac_out' \in Result /\ valid_out' \in BOOLEAN
  <1>1. /\ adc.valid_out \in BOOLEAN /\ adc.fixed_in \in Nat
        /\ diff_calc.valid_out \in BOOLEAN /\ diff_calc.diff_out.new \in Nat
        /\ mod_residual.valid_out \in BOOLEAN
        /\ mod_residual.residual_out.remain \in Nat
    BY DEF TypeOK, AdcRegs, DiffRegs, ModRegs
  <1>2. /\ anti_diff.valid_out \in BOOLEAN /\ anti_diff.residual_out \in Nat
        /\ mov_avg.out_avg \in Nat
    BY DEF TypeOK, AntiRegs, AvgRegs
  <1>3. adc_out_piped' \in Places(adc_pipe_len, Nat)
    BY <1>1, ShiftFacts, CallAssumption DEF TypeOK, Cycle, PipeSamples
  <1>4. Reconstruction \in Sample
    <2>1. Last(adc_out_piped, adc_pipe_len) \in Nat
      <3>1. adc_out_piped \in Places(adc_pipe_len, Nat) /\ 0 \in Nat
        BY DEF TypeOK
      <3> QED BY <3>1, ShiftFacts, CallAssumption
    <2> QED BY <1>2, <2>1 DEF Reconstruction, Sample
  <1>5. /\ reconstructed_piped' \in Places(reconstructed_pipe_len, Sample)
        /\ valid_avg_in' \in BOOLEAN
        /\ Last(reconstructed_piped, reconstructed_pipe_len) \in Sample
    <2>1. reconstructed_piped \in Places(reconstructed_pipe_len, Sample)
          /\ valid_avg_in \in BOOLEAN
      BY DEF TypeOK
    <2>2. /\ Shift(reconstructed_piped, Reconstruction)
               \in Places(reconstructed_pipe_len, Sample)
          /\ Last(reconstructed_piped, reconstructed_pipe_len) \in Sample
      BY <2>1, <1>4, ShiftFacts, CallAssumption
    <2> QED BY <1>2, <2>1, <2>2 DEF Cycle, Reconstruct
  <1>6. reconstructed_piped'[0].y \in Nat
    BY <1>5, CallAssumption DEF Places, Sample
  <1>7. /\ conversion_intermediate' \in Result /\ conversion_in' \in Result
        /\ valid_convert_intermediate' \in BOOLEAN /\ valid_convert' \in BOOLEAN
    BY <1>2, <1>5 DEF TypeOK, Cycle, Convert, Filtered, Result
  <1>8. dac_out' \in Result /\ valid_out' \in BOOLEAN /\ dac' \in DacRegs(Result)
    <2>1. dac \in DacRegs(Result)
      BY DEF TypeOK
    <2>2. dac' \in DacRegs(Result) /\ dac.dac_value \in Result
      BY <1>7, <2>1, DacTyped DEF Cycle, RisingEdge
    <2> QED BY <2>2 DEF TypeOK, Cycle, Respond
  <1>9. adc' \in AdcRegs /\ diff_calc' \in DiffRegs /\ mod_residual' \in ModRegs
    BY <1>1, AdcTyped, DiffTyped, ModTyped DEF TypeOK, Cycle, RisingEdge
  <1>10. anti_diff' \in AntiRegs
    BY <1>1, AntiTyped DEF TypeOK, Cycle, RisingEdge
  <1>11. mov_avg' \in AvgRegs /\ valid_avg' \in BOOLEAN
    BY <1>5, <1>6, AvgTyped DEF TypeOK, Cycle, RisingEdge
  <1> QED BY <1>3, <1>5, <1>7, <1>8, <1>9, <1>10, <1>11

\* Every step is a clock cycle, on the sample n' if it starts one.
LEMMA StepIsCycle ==
  ASSUME TypeOK, Next
  PROVE  \E en, start \in BOOLEAN :
           /\ Cycle(en, start, n')
           /\ start => en
           /\ n' = IF start THEN n + 1 ELSE n
           /\ left' \in Nat /\ idle' \in 0..MaxGap /\ n' \in 0..MaxSamples
  <1>1. CASE BeginCall
    <2>1. PICK len \in CallCycles, start \in Starts :
            /\ start => n < MaxSamples
            /\ n' = IF start THEN n + 1 ELSE n
            /\ left' = len - 1 /\ idle' = 0
            /\ Cycle(TRUE, start, n')
      BY <1>1 DEF BeginCall
    <2>2. start \in BOOLEAN /\ left' \in Nat /\ idle' \in 0..MaxGap
      BY <2>1, CallAssumption
    <2>3. n' \in 0..MaxSamples
      BY <2>1, <2>2, CallAssumption DEF TypeOK
    <2> QED BY <2>1, <2>2, <2>3
  <1>2. CASE ContinueCall
    <2>1. left' \in Nat /\ idle' \in 0..MaxGap /\ n' \in 0..MaxSamples /\ n' = n
      BY <1>2 DEF ContinueCall, TypeOK
    <2> QED BY <1>2, <2>1 DEF ContinueCall
  <1>3. CASE IdleCycle
    <2>1. left' \in Nat /\ idle' \in 0..MaxGap /\ n' \in 0..MaxSamples /\ n' = n
      BY <1>3, CallAssumption DEF IdleCycle, TypeOK
    <2> QED BY <1>3, <2>1 DEF IdleCycle
  <1> QED BY <1>1, <1>2, <1>3 DEF Next

LEMMA StepType == TypeOK /\ [Next]_vars => TypeOK'
  <1> SUFFICES ASSUME TypeOK, [Next]_vars PROVE TypeOK'
    OBVIOUS
  <1>1. CASE Next
    <2>1. PICK en \in BOOLEAN, start \in BOOLEAN :
            /\ Cycle(en, start, n')
            /\ left' \in Nat /\ idle' \in 0..MaxGap /\ n' \in 0..MaxSamples
      BY <1>1, StepIsCycle
    <2>2. n' \in Nat
      BY <2>1, CallAssumption
    <2> QED BY <2>1, <2>2, CycleType DEF TypeOK
  <1>2. CASE UNCHANGED vars
    BY <1>2 DEF vars, blocks, regs, cpu, TypeOK
  <1> QED BY <1>1, <1>2

\* Every register stays in its type, whatever the calls.
THEOREM TypeCorrect == Spec => []TypeOK
  BY InitType, StepType, PTL DEF Spec

-----------------------------------------------------------------------------
(* The datapath in step.                                                   *)

LEMMA InitInStep == Init => IInv
  <1> SUFFICES ASSUME Init PROVE IInv
    OBVIOUS
  <1>1. AdcInStep
    <2>1. Filled(2, FALSE)[0] = FALSE /\ Filled(2, FALSE)[1] = FALSE
      BY DEF Filled
    <2>2. adc.v[0] = FALSE /\ adc.v[1] = FALSE /\ adc.valid_out = FALSE
      BY <2>1 DEF Init, AdcReset
    <2>3. /\ n = 0 /\ adc.signal_with_offset = 0 /\ adc.scaled_signal = 0
          /\ adc.fixed_in = 0 /\ diff_calc.diff_out.new = 0
      BY DEF Init, AdcReset, DiffReset
    <2> QED BY <2>2, <2>3 DEF AdcInStep, Lag
  <1>2. /\ \A i \in 0..ModDelay-1 : mod_residual.v[i] = FALSE
        /\ \A i \in 0..ModStages-1 : mod_residual.div[i] = 0
    BY FilledFacts, Depths DEF Init, ModReset
  <1>3. \A i \in 0..ModStages : mod_residual.v[i] = FALSE
    BY <1>2, Depths
  <1>4. ModInStep
    <2>1. 0 \in 0..ModStages /\ ModStages \in 0..ModStages
          /\ 0 \in 0..ModStages-1 /\ ModStages-1 \in 0..ModStages-1
      BY Depths
    <2>2. /\ mod_residual.mod_numer = 0 /\ mod_residual.residual_out.remain = 0
          /\ diff_calc.diff_out.new = 0 /\ diff_calc.valid_out = FALSE
      BY DEF Init, ModReset, DiffReset
    <2>3. \A i \in 1..ModStages-1 :
            /\ mod_residual.div[i-1] = 0 /\ mod_residual.div[i] = 0
            /\ mod_residual.v[i] = FALSE
      BY <1>2, <1>3, Depths
    <2> QED BY <1>2, <1>3, <2>1, <2>2, <2>3 DEF ModInStep, Lag
  <1>5. DiffCarried
    BY <1>3, Depths DEF DiffCarried
  <1>6. ResidualAligned /\ AntiInStep
    BY DEF Init, ModReset, AntiReset, EmptySum, ResidualAligned, AntiInStep, Lag
  <1> QED BY <1>1, <1>4, <1>5, <1>6, InitType DEF IInv

\* What an enabled cycle loads into the registers from the input to the
\* accumulator.
AdcLoads(start, x) ==
  /\ adc'.v[0] = start /\ adc'.v[1] = adc.v[0] /\ adc'.valid_out = adc.v[1]
  /\ adc'.signal_with_offset = IF start THEN x ELSE adc.signal_with_offset
  /\ adc'.scaled_signal = IF adc.v[0] THEN adc.signal_with_offset
                                      ELSE adc.scaled_signal
  /\ adc'.fixed_in = IF adc.v[1] THEN adc.scaled_signal ELSE adc.fixed_in
  /\ diff_calc'.valid_out = adc.valid_out
  /\ diff_calc'.diff_out.new = IF adc.valid_out THEN adc.fixed_in
                                                ELSE diff_calc.diff_out.new

ModLoads ==
  /\ mod_residual'.v[0] = diff_calc.valid_out
  /\ \A i \in 1..ModStages : mod_residual'.v[i] = mod_residual.v[i-1]
  /\ mod_residual'.valid_out = mod_residual.v[ModStages]
  /\ mod_residual'.mod_numer = IF diff_calc.valid_out
       THEN diff_calc.diff_out.new ELSE mod_residual.mod_numer
  /\ mod_residual'.div[0] = mod_residual.mod_numer
  /\ \A i \in 1..ModStages-1 : mod_residual'.div[i] = mod_residual.div[i-1]
  /\ mod_residual'.diff_in_shift[0] = diff_calc.diff_out.new
  /\ \A i \in 1..ModStages :
       mod_residual'.diff_in_shift[i] = mod_residual.diff_in_shift[i-1]
  /\ mod_residual'.residual_out = IF mod_residual.v[ModStages]
       THEN [remain |-> mod_residual.div[ModStages-1],
             diff |-> mod_residual.diff_in_shift[ModStages]]
       ELSE mod_residual.residual_out

LEMMA EnabledAdc ==
  ASSUME TypeOK, NEW start \in BOOLEAN, NEW x \in Nat, Cycle(TRUE, start, x)
  PROVE  AdcLoads(start, x)
  <1>1. adc.v \in Places(2, BOOLEAN)
    BY DEF TypeOK, AdcRegs
  <1>2. Shift(adc.v, start)[0] = start /\ Shift(adc.v, start)[1] = adc.v[0]
    BY <1>1 DEF Shift, Places
  <1>3. adc' = AdcEdge(adc, TRUE, start, x)
        /\ diff_calc' = DiffEdge(diff_calc, TRUE, adc.valid_out, adc.fixed_in)
    BY DEF Cycle, RisingEdge
  <1> QED BY <1>2, <1>3 DEF AdcEdge, DiffEdge, AdcLoads

LEMMA EnabledMod ==
  ASSUME TypeOK, NEW start \in BOOLEAN, NEW x \in Nat, Cycle(TRUE, start, x)
  PROVE  ModLoads
  <1> DEFINE b == mod_residual
             v == diff_calc.valid_out
             d == diff_calc.diff_out.new
  <1>1. /\ b.v \in Places(ModDelay, BOOLEAN) /\ b.div \in Places(ModStages, Nat)
        /\ b.diff_in_shift \in Places(ModDelay, Nat) /\ b.mod_numer \in Nat
    BY DEF TypeOK, ModRegs
  <1>2. v \in BOOLEAN /\ d \in Nat
    BY DEF TypeOK, DiffRegs
  <1>3. ModDelay - 1 = ModStages
    BY Depths
  <1>4. /\ Shift(b.v, v)[0] = v
        /\ \A i \in 1..ModDelay-1 : Shift(b.v, v)[i] = b.v[i-1]
    BY <1>1, Depths DEF Shift, Places
  <1>5. /\ Shift(b.div, b.mod_numer)[0] = b.mod_numer
        /\ \A i \in 1..ModStages-1 : Shift(b.div, b.mod_numer)[i] = b.div[i-1]
    BY <1>1, Depths DEF Shift, Places
  <1>6. /\ Shift(b.diff_in_shift, d)[0] = d
        /\ \A i \in 1..ModDelay-1 : Shift(b.diff_in_shift, d)[i] = b.diff_in_shift[i-1]
    BY <1>1, Depths DEF Shift, Places
  <1>7. mod_residual' = ModEdge(b, TRUE, v, d)
    BY DEF Cycle, RisingEdge
  <1> QED BY <1>3, <1>4, <1>5, <1>6, <1>7 DEF ModEdge, Last, ModLoads

LEMMA EnabledAnti ==
  ASSUME TypeOK, NEW start \in BOOLEAN, NEW x \in Nat, Cycle(TRUE, start, x)
  PROVE  anti_diff'.residual =
           IF mod_residual.valid_out
             THEN Add(anti_diff.residual, mod_residual.residual_out.remain)
             ELSE anti_diff.residual
  <1>1. anti_diff' = AntiData(anti_diff, mod_residual.valid_out,
                              mod_residual.residual_out.remain)
    BY DEF Cycle, RisingEdge, AntiEdge
  <1>2. AntiValid(anti_diff, mod_residual.valid_out) \in
          [v : Places(AntiDelay, BOOLEAN), valid_out : BOOLEAN, residual : Sum,
           numer : Nat, div : Places(AntiStages, Nat), residual_out : Nat]
    <2>1. anti_diff \in AntiRegs /\ mod_residual.valid_out \in BOOLEAN
      BY DEF TypeOK, ModRegs
    <2>2. AntiEdge(anti_diff, FALSE, mod_residual.valid_out, 0) \in AntiRegs
      BY <2>1, AntiTyped
    <2> QED BY <2>2 DEF AntiEdge, AntiRegs
  <1> QED BY <1>1, <1>2 DEF AntiData

\* A cycle that is not enabled moves nothing on that way.
LEMMA DisabledHolds ==
  ASSUME TypeOK, NEW start, NEW x, Cycle(FALSE, start, x)
  PROVE  /\ adc' = adc /\ diff_calc' = diff_calc /\ mod_residual' = mod_residual
         /\ anti_diff'.residual = anti_diff.residual
  <1>1. adc' = adc /\ diff_calc' = diff_calc /\ mod_residual' = mod_residual
    BY DEF Cycle, RisingEdge, AdcEdge, DiffEdge, ModEdge
  <1>2. anti_diff' = AntiValid(anti_diff, mod_residual.valid_out)
    BY DEF Cycle, RisingEdge, AntiEdge
  <1>3. anti_diff \in AntiRegs
    BY DEF TypeOK
  <1> QED BY <1>1, <1>2, <1>3 DEF AntiValid, AntiRegs

\* One sample behind or level, one register further on.
LEMMA StepAdc ==
  ASSUME IInv, NEW start \in BOOLEAN, Cycle(TRUE, start, n'),
         n' = (IF start THEN n + 1 ELSE n), n' \in Nat
  PROVE  AdcInStep'
  <1>1. /\ n \in Nat /\ adc.signal_with_offset \in Nat /\ adc.scaled_signal \in Nat
        /\ adc.fixed_in \in Nat /\ diff_calc.diff_out.new \in Nat
    BY CallAssumption DEF IInv, TypeOK, AdcRegs, DiffRegs
  <1>2. adc.v[0] \in BOOLEAN /\ adc.v[1] \in BOOLEAN /\ adc.valid_out \in BOOLEAN
    BY DEF IInv, TypeOK, AdcRegs, Places
  <1>3. AdcInStep /\ TypeOK
    BY DEF IInv
  <1>4. /\ adc'.signal_with_offset = n'
        /\ adc'.scaled_signal = n
        /\ adc'.fixed_in = adc.scaled_signal
        /\ diff_calc'.diff_out.new = adc.fixed_in
    <2>1. AdcLoads(start, n')
      BY <1>3, EnabledAdc
    <2>2. adc.signal_with_offset = n
      BY <1>3 DEF AdcInStep
    <2>3. adc'.signal_with_offset = n'
      BY <2>1, <2>2 DEF AdcLoads
    <2>4. adc'.scaled_signal = n
      <3>1. ~adc.v[0] => adc.scaled_signal = n
        BY <1>1, <1>3 DEF AdcInStep, Lag
      <3> QED BY <2>1, <2>2, <3>1 DEF AdcLoads
    <2>5. adc'.fixed_in = adc.scaled_signal
      <3>1. ~adc.v[1] => adc.fixed_in = adc.scaled_signal
        BY <1>1, <1>3 DEF AdcInStep, Lag
      <3> QED BY <2>1, <3>1 DEF AdcLoads
    <2>6. diff_calc'.diff_out.new = adc.fixed_in
      <3>1. ~adc.valid_out => diff_calc.diff_out.new = adc.fixed_in
        BY <1>1, <1>3 DEF AdcInStep, Lag
      <3> QED BY <2>1, <3>1 DEF AdcLoads
    <2> QED BY <2>3, <2>4, <2>5, <2>6
  <1>5. adc'.v[0] = start /\ adc'.v[1] = adc.v[0] /\ adc'.valid_out = adc.v[1]
    BY <1>3, EnabledAdc DEF AdcLoads
  <1>6. n' = n + Lag(start)
    BY <1>1 DEF Lag
  <1>7. n = adc.scaled_signal + Lag(adc.v[0])
        /\ adc.scaled_signal = adc.fixed_in + Lag(adc.v[1])
    BY <1>3 DEF AdcInStep
  <1> QED BY <1>4, <1>5, <1>6, <1>7 DEF AdcInStep

LEMMA StepMod ==
  ASSUME IInv, NEW start \in BOOLEAN, NEW x \in Nat, Cycle(TRUE, start, x)
  PROVE  ModInStep' /\ DiffCarried' /\ ResidualAligned' /\ AntiInStep'
  <1>1. TypeOK /\ AdcInStep /\ ModInStep /\ DiffCarried /\ ResidualAligned /\ AntiInStep
    BY DEF IInv
  <1>2. /\ mod_residual.mod_numer \in Nat /\ diff_calc.diff_out.new \in Nat
        /\ adc.fixed_in \in Nat /\ mod_residual.residual_out.remain \in Nat
        /\ anti_diff.residual.last \in Nat
        /\ \A i \in 0..ModStages-1 : mod_residual.div[i] \in Nat
    BY <1>1 DEF TypeOK, AdcRegs, DiffRegs, ModRegs, AntiRegs, Sum, Places
  <1>3. ModLoads /\ AdcLoads(start, x)
    BY <1>1, EnabledMod, EnabledAdc
  <1>4. ModStages \in Nat \ {0}
    BY Depths
  <1>5. mod_residual'.mod_numer = diff_calc.diff_out.new
    <2>1. ~diff_calc.valid_out => mod_residual.mod_numer = diff_calc.diff_out.new
      BY <1>1, <1>2 DEF ModInStep, Lag
    <2> QED BY <1>3, <2>1 DEF ModLoads
  <1>6. diff_calc'.diff_out.new = adc.fixed_in /\ diff_calc'.valid_out = adc.valid_out
    <2>1. ~adc.valid_out => diff_calc.diff_out.new = adc.fixed_in
      BY <1>1, <1>2 DEF AdcInStep, Lag
    <2> QED BY <1>3, <2>1 DEF AdcLoads
  <1>7. mod_residual'.residual_out.remain = mod_residual.div[ModStages-1]
        /\ ResidualAligned'
    <2>1. CASE mod_residual.v[ModStages]
      <3>1. mod_residual.diff_in_shift[ModStages] = mod_residual.div[ModStages-1]
        BY <1>1, <1>4, <2>1 DEF DiffCarried
      <3>2. mod_residual'.residual_out = [remain |-> mod_residual.div[ModStages-1],
                                          diff |-> mod_residual.diff_in_shift[ModStages]]
        BY <1>1, <2>1, <1>3 DEF ModLoads
      <3> QED BY <3>1, <3>2 DEF ResidualAligned
    <2>2. CASE ~mod_residual.v[ModStages]
      <3>1. mod_residual'.residual_out = mod_residual.residual_out
        BY <1>1, <2>2, <1>3 DEF ModLoads
      <3>2. Lag(mod_residual.v[ModStages]) = 0
        BY <2>2 DEF Lag
      <3>3. mod_residual.div[ModStages-1] = mod_residual.residual_out.remain
        BY <1>1, <1>2, <3>2 DEF ModInStep
      <3> QED BY <1>1, <3>1, <3>3 DEF ResidualAligned
    <2> QED BY <2>1, <2>2
  <1>8. ModInStep'
    <2>1. diff_calc'.diff_out.new
            = mod_residual'.mod_numer + Lag(diff_calc'.valid_out)
      BY <1>1, <1>5, <1>6 DEF AdcInStep
    <2>2. mod_residual'.mod_numer = mod_residual'.div[0] + Lag(mod_residual'.v[0])
      BY <1>1, <1>5, <1>3 DEF ModLoads, ModInStep
    <2>3. ASSUME NEW i \in 1..ModStages-1
          PROVE  mod_residual'.div[i-1] = mod_residual'.div[i] + Lag(mod_residual'.v[i])
      <3>1. /\ mod_residual'.div[i] = mod_residual.div[i-1]
            /\ mod_residual'.v[i] = mod_residual.v[i-1]
        BY <1>1, <1>4, <1>3 DEF ModLoads
      <3>2. CASE i = 1
        <4>1. mod_residual'.div[i-1] = mod_residual.mod_numer
          BY <1>1, <3>2, <1>3 DEF ModLoads
        <4>2. mod_residual.mod_numer = mod_residual.div[0] + Lag(mod_residual.v[0])
          BY <1>1 DEF ModInStep
        <4> QED BY <3>1, <3>2, <4>1, <4>2
      <3>3. CASE i # 1
        <4>1. i - 1 \in 1..ModStages-1 /\ i - 1 - 1 = i - 2
          BY <1>4, <3>3
        <4>2. mod_residual'.div[i-1] = mod_residual.div[i-2]
          BY <1>1, <4>1, <1>3 DEF ModLoads
        <4>3. mod_residual.div[i-2] = mod_residual.div[i-1] + Lag(mod_residual.v[i-1])
          BY <1>1, <4>1 DEF ModInStep
        <4> QED BY <3>1, <4>2, <4>3
      <3> QED BY <3>2, <3>3
    <2>4. mod_residual'.div[ModStages-1]
            = mod_residual'.residual_out.remain + Lag(mod_residual'.v[ModStages])
      <3>1. mod_residual'.v[ModStages] = mod_residual.v[ModStages-1]
        BY <1>1, <1>4, <1>3 DEF ModLoads
      <3>2. CASE ModStages = 1
        <4>1. mod_residual'.div[ModStages-1] = mod_residual.mod_numer
          BY <1>1, <3>2, <1>3 DEF ModLoads
        <4>2. mod_residual.mod_numer = mod_residual.div[0] + Lag(mod_residual.v[0])
          BY <1>1 DEF ModInStep
        <4> QED BY <1>7, <3>1, <3>2, <4>1, <4>2
      <3>3. CASE ModStages # 1
        <4>1. ModStages - 1 \in 1..ModStages-1 /\ ModStages - 1 - 1 = ModStages - 2
          BY <1>4, <3>3
        <4>2. mod_residual'.div[ModStages-1] = mod_residual.div[ModStages-2]
          BY <1>1, <4>1, <1>3 DEF ModLoads
        <4>3. mod_residual.div[ModStages-2]
                = mod_residual.div[ModStages-1] + Lag(mod_residual.v[ModStages-1])
          BY <1>1, <4>1 DEF ModInStep
        <4> QED BY <1>7, <3>1, <4>2, <4>3
      <3> QED BY <3>2, <3>3
    <2> QED BY <2>1, <2>2, <2>3, <2>4 DEF ModInStep
  <1>9. DiffCarried'
    <2>1. mod_residual'.v[0] => mod_residual'.diff_in_shift[0] = mod_residual'.mod_numer
      BY <1>1, <1>5, <1>3 DEF ModLoads
    <2>2. ASSUME NEW i \in 1..ModStages, mod_residual'.v[i]
          PROVE  mod_residual'.diff_in_shift[i] = mod_residual'.div[i-1]
      <3>1. /\ mod_residual'.diff_in_shift[i] = mod_residual.diff_in_shift[i-1]
            /\ mod_residual.v[i-1]
        BY <1>1, <2>2, <1>3 DEF ModLoads
      <3>2. CASE i = 1
        <4>1. mod_residual'.div[i-1] = mod_residual.mod_numer
          BY <1>1, <3>2, <1>3 DEF ModLoads
        <4>2. mod_residual.v[0] /\ i - 1 = 0
          BY <3>1, <3>2
        <4>3. mod_residual.diff_in_shift[0] = mod_residual.mod_numer
          BY <1>1, <4>2 DEF DiffCarried
        <4> QED BY <3>1, <4>1, <4>2, <4>3
      <3>3. CASE i # 1
        <4>1. i - 1 \in 1..ModStages-1 /\ i - 1 \in 1..ModStages /\ i - 1 - 1 = i - 2
          BY <1>4, <3>3
        <4>2. mod_residual'.div[i-1] = mod_residual.div[i-2]
          BY <1>1, <4>1, <1>3 DEF ModLoads
        <4>3. mod_residual.diff_in_shift[i-1] = mod_residual.div[i-2]
          BY <1>1, <3>1, <4>1 DEF DiffCarried
        <4> QED BY <3>1, <4>2, <4>3
      <3> QED BY <3>2, <3>3
    <2> QED BY <2>1, <2>2 DEF DiffCarried
  <1>10. AntiInStep'
    <2>1. mod_residual'.valid_out = mod_residual.v[ModStages]
      BY <1>1, <1>3 DEF ModLoads
    <2>2. mod_residual.div[ModStages-1]
            = mod_residual.residual_out.remain + Lag(mod_residual.v[ModStages])
      BY <1>1 DEF ModInStep
    <2>3. anti_diff'.residual.last = mod_residual.residual_out.remain
          /\ anti_diff'.residual.exact
      <3>1. CASE mod_residual.valid_out
        <4>1. mod_residual.residual_out.remain = anti_diff.residual.last + 1
              /\ anti_diff.residual.exact
          BY <1>1, <3>1 DEF AntiInStep, Lag
        <4>2. anti_diff'.residual = Add(anti_diff.residual,
                                        mod_residual.residual_out.remain)
          BY <1>1, <3>1, EnabledAnti
        <4>3. anti_diff'.residual.last = mod_residual.residual_out.remain
          BY <4>2 DEF Add
        <4>4. Follows(anti_diff.residual, mod_residual.residual_out.remain)
          BY <4>1 DEF Follows
        <4>5. anti_diff'.residual.exact = anti_diff.residual.exact
          BY <4>2, <4>4 DEF Add
        <4> QED BY <4>1, <4>3, <4>5
      <3>2. CASE ~mod_residual.valid_out
        <4>1. anti_diff'.residual = anti_diff.residual
          BY <1>1, <3>2, EnabledAnti
        <4>2. Lag(mod_residual.valid_out) = 0
          BY <3>2 DEF Lag
        <4> QED BY <1>1, <1>2, <4>1, <4>2 DEF AntiInStep
      <3> QED BY <3>1, <3>2
    <2> QED BY <1>7, <2>1, <2>2, <2>3 DEF AntiInStep
  <1> QED BY <1>7, <1>8, <1>9, <1>10

LEMMA StepIInv == IInv /\ [Next]_vars => IInv'
  <1> SUFFICES ASSUME IInv, [Next]_vars PROVE IInv'
    OBVIOUS
  <1>1. TypeOK /\ TypeOK'
    BY StepType DEF IInv
  <1>2. CASE Next
    <2>1. PICK en \in BOOLEAN, start \in BOOLEAN :
            /\ Cycle(en, start, n') /\ (start => en)
            /\ n' = (IF start THEN n + 1 ELSE n) /\ n' \in 0..MaxSamples
      BY <1>1, <1>2, StepIsCycle
    <2>2. n' \in Nat
      BY <2>1, CallAssumption
    <2>3. CASE en
      <3>1. Cycle(TRUE, start, n')
        BY <2>1, <2>3
      <3> QED BY <1>1, <2>1, <2>2, <3>1, StepAdc, StepMod DEF IInv
    <2>4. CASE ~en
      <3>1. Cycle(FALSE, start, n') /\ n' = n
        BY <2>1, <2>4
      <3>2. /\ adc' = adc /\ diff_calc' = diff_calc /\ mod_residual' = mod_residual
            /\ anti_diff'.residual = anti_diff.residual
        BY <1>1, <3>1, DisabledHolds
      <3> QED BY <1>1, <3>1, <3>2
              DEF IInv, AdcInStep, ModInStep, DiffCarried, ResidualAligned, AntiInStep
    <2> QED BY <2>3, <2>4
  <1>3. CASE UNCHANGED vars
    BY <1>1, <1>3 DEF vars, blocks, cpu, IInv, AdcInStep, ModInStep, DiffCarried,
                      ResidualAligned, AntiInStep
  <1> QED BY <1>2, <1>3

\* No residual is ever formed from data of two samples, for every depth of the
\* pipeline and every spacing and length of the calls.
THEOREM ResidualAlignedHolds == Spec => []ResidualAligned
  <1>1. IInv => ResidualAligned
    BY DEF IInv
  <1> QED BY <1>1, InitInStep, StepIInv, PTL DEF Spec

\* Nor is a sample's residual lost on its way into the accumulator, or added
\* twice.
THEOREM AccumulatesOnceHolds == Spec => []AccumulatesOnce
  <1>1. IInv => AccumulatesOnce
    BY DEF IInv, AntiInStep, AccumulatesOnce
  <1> QED BY <1>1, InitInStep, StepIInv, PTL DEF Spec

-----------------------------------------------------------------------------
(* Calls of one cycle: every register is a fixed number of samples behind  *)
(* the last one sent.                                                      *)

LEMMA BeforeMoves ==
  ASSUME NEW m \in Nat
  PROVE  Moves(Before(m), Before(m + 1)) /\ Before(m + 1)[0] = m + 1
  BY DEF Moves, Before

LEMMA BeforeNat ==
  ASSUME NEW m \in Nat, NEW d \in Nat
  PROVE  /\ Before(m)[d] \in Nat
         /\ Before(m)[d] = IF Before(m)[d + 1] = Before(m)[d] THEN 0
                                                            ELSE Before(m)[d + 1] + 1
  BY DEF Before

LEMMA BeforeDrifts ==
  ASSUME NEW m \in Nat, NEW d \in Nat, NEW k \in Nat
  PROVE  Drifts(Before(m), d, k)
  <1>1. ASSUME NEW e \in d..d+k, NEW v \in BOOLEAN, Brings(v, Before(m), e)
        PROVE  Brings(v, Before(m), e + 1)
    <2>1. e \in Nat /\ e + 1 \in Nat /\ e + 1 + 1 \in Nat
      OBVIOUS
    <2>2. CASE v
      BY <2>1, <2>2 DEF Brings, Before
    <2>3. CASE ~v
      <3>1. Before(m)[e] = Before(m)[e + 1]
        BY <1>1, <2>3 DEF Brings
      <3>2. Before(m)[e + 1] = Before(m)[e + 1 + 1]
        BY <2>1, <3>1 DEF Before
      <3> QED BY <2>3, <3>2 DEF Brings
    <2> QED BY <2>2, <2>3
  <1> QED BY <1>1 DEF Drifts

LEMMA BeforeFirst ==
  ASSUME NEW e \in Nat
  PROVE  Before(0)[e] = 0 /\ Joined(Before(0))[e] = NoSample
  BY DEF Before, Joined, NoSample

LEMMA JoinedMoves ==
  ASSUME NEW m \in Nat
  PROVE  Moves(Joined(Before(m)), Joined(Before(m + 1)))
  BY BeforeMoves DEF Moves, Joined

\* A value that may have missed the first sample, loaded by a valid bit a sample late.
LEMMA SecondStep ==
  ASSUME NEW m \in Nat, NEW d \in Nat, NEW v \in BOOLEAN, NEW x, NEW r,
         Brings(v, Before(m + 1), d + 1),
         v => FromSecond(x, Before(m + 1), d), FromSecond(r, Before(m), d)
  PROVE  FromSecond(IF v THEN x ELSE r, Before(m + 1), d)
  <1> DEFINE h == Before(m + 1)
  <1>1. h[d + 1] = Before(m)[d] /\ h[d + 1 + 1] = Before(m)[d + 1]
    BY BeforeMoves DEF Moves
  <1>2. CASE v
    BY <1>2
  <1>3. CASE ~v
    <2>1. h[d + 1] = h[d + 1 + 1] /\ d + 1 \in Nat /\ m + 1 \in Nat
      BY <1>3 DEF Brings
    <2>2. h[d + 1] = 0
      BY <2>1, BeforeNat
    <2>3. r = 0
      BY <1>1, <2>1, <2>2 DEF FromSecond
    <2> QED BY <1>3, <2>2, <2>3 DEF FromSecond
  <1> QED BY <1>2, <1>3

\* Nor does it lag more a cycle later.
LEMMA SecondMoves ==
  ASSUME NEW m \in Nat, NEW d \in Nat, NEW x, FromSecond(x, Before(m), d)
  PROVE  FromSecond(x, Before(m + 1), d + 1)
  <1>1. Before(m + 1)[d + 1] = Before(m)[d]
        /\ Before(m + 1)[d + 1 + 1] = Before(m)[d + 1]
    BY BeforeMoves DEF Moves
  <1> QED BY <1>1 DEF FromSecond

LEMMA InitCalls == Init => CallsInv
  <1> SUFFICES ASSUME Init PROVE CallsInv
    OBVIOUS
  <1> DEFINE g == Before(0)
  <1>1. n = 0
    BY DEF Init
  <1>2. \A e \in Nat : g[e] = 0 /\ Joined(g)[e] = NoSample
    BY BeforeFirst
  <1>3. \A e \in Nat, v \in BOOLEAN : Brings(v, g, e)
    BY <1>2, ZeroBrings
  <1>4. /\ AntiLag \in Nat /\ SumLag \in Nat /\ MeanLag \in Nat /\ MeanLag - 1 \in Nat
        /\ MeanLag + 1 \in Nat
    BY Depths DEF AntiLag, SumLag, MeanLag
  <1> HIDE DEF g
  <1>5. /\ AdcKeeps(AdcReset, g) /\ ModKeeps(ModReset, g, 4)
        /\ AntiKeeps(AntiReset, g, AntiLag) /\ AvgKeeps(AvgReset, g, SumLag)
    BY <1>2, <1>4, ZeroKeeps
  <1>6. /\ Line(Filled(adc_pipe_len, 0), adc_pipe_len, g, 3)
        /\ Valids(Filled(2, FALSE), 2, g, MeanLag + 1)
    BY <1>2, <1>4, ZeroLine, CallAssumption, Depths
  <1>7. Line(Filled(reconstructed_pipe_len, NoSample), reconstructed_pipe_len,
             Joined(g), SumLag)
    <2>1. \A i \in 0..reconstructed_pipe_len-1 : SumLag + i \in Nat
      BY <1>4, CallAssumption
    <2> QED BY <1>2, <2>1 DEF Line, Filled
  <1>8. InputBehind
    <2>1. g[3] = 0 /\ Brings(FALSE, g, 3)
      BY <1>2, <1>3
    <2> QED BY <1>1, <1>5, <1>6, <2>1 DEF g, Init, DiffReset, InputBehind
  <1>9. SumBehind
    <2>1. Brings(FALSE, g, SumLag)
      BY <1>3, <1>4
    <2> QED BY <1>1, <1>5, <1>7, <2>1 DEF g, Init, SumBehind
  <1>10. MeanBehind
    BY <1>1, <1>2, <1>4 DEF g, Init, NoResult, NoSample, MeanBehind
  <1>11. DacBehind
    <2>1. /\ Brings(valid_avg, g, MeanLag - 1) /\ Brings(FALSE, g, MeanLag + 1)
          /\ Brings(valid_convert_intermediate, g, MeanLag)
      BY <1>3, <1>4 DEF Init
    <2>2. \A e \in Nat : FromSecond(0, g, e)
      BY <1>2 DEF FromSecond
    <2>3. /\ FromSecond(0, g, MeanLag) /\ FromSecond(0, g, MeanLag + 1)
          /\ FromSecond(0, g, MeanLag + 2) /\ FromSecond(0, g, MeanLag + 3)
      BY <1>4, <2>2
    <2> QED BY <1>1, <1>6, <2>1, <2>3
            DEF g, Init, DacReset, NoResult, NoSample, DacBehind
  <1>12. TypeOK /\ left = 0
    BY InitType DEF Init
  <1> QED BY <1>8, <1>9, <1>10, <1>11, <1>12 DEF CallsInv

\* With calls of one cycle every step is a sample's cycle or an idle one.
LEMMA CallsCycle ==
  ASSUME OneCycleCalls, left = 0, Next, n \in Nat
  PROVE  /\ left' = 0
         /\ \/ n' = n + 1 /\ Cycle(TRUE, TRUE, n')
            \/ n' = n /\ Cycle(FALSE, FALSE, n)
  <1>1. CASE BeginCall
    <2>1. PICK len \in CallCycles, start \in Starts :
            /\ n' = IF start THEN n + 1 ELSE n
            /\ left' = len - 1
            /\ Cycle(TRUE, start, n')
      BY <1>1 DEF BeginCall
    <2>2. len = 1 /\ start = TRUE
      BY DEF OneCycleCalls
    <2>3. n' = n + 1 /\ left' = 0
      BY <2>1, <2>2
    <2>4. Cycle(TRUE, TRUE, n')
      BY <2>1, <2>2
    <2> QED BY <2>3, <2>4
  <1>2. CASE ContinueCall
    BY <1>2 DEF ContinueCall
  <1>3. CASE IdleCycle
    BY <1>3 DEF IdleCycle
  <1> QED BY <1>1, <1>2, <1>3 DEF Next

\* A sample's cycle, from the input to the accumulator.
LEMMA CallsInput ==
  ASSUME CallsInv, n' = n + 1, Cycle(TRUE, TRUE, n')
  PROVE  /\ InputBehind'
         /\ Last(adc_out_piped, adc_pipe_len) = Before(n')[adc_pipe_len + 3]
         /\ anti_diff.residual_out = Before(n')[SumLag]
         /\ Brings(anti_diff.valid_out, Before(n'), SumLag)
  <1> DEFINE g == Before(n)
             h == Before(n + 1)
  <1>1. n \in Nat /\ TypeOK /\ InputBehind
    BY CallAssumption DEF CallsInv, TypeOK
  <1>2. Moves(g, h) /\ h[0] = n + 1
    BY <1>1, BeforeMoves
  <1>3. \A e \in Nat : h[e + 1] = g[e]
    BY <1>2 DEF Moves
  <1>4. Brings(TRUE, h, 0)
    BY <1>1 DEF Brings, Before
  <1>5. /\ AdcKeeps(adc, g) /\ diff_calc.diff_out.new = g[3]
        /\ Brings(diff_calc.valid_out, g, 3) /\ Line(adc_out_piped, adc_pipe_len, g, 3)
        /\ ModKeeps(mod_residual, g, 4) /\ AntiKeeps(anti_diff, g, AntiLag)
    BY <1>1 DEF InputBehind
  <1>6. /\ adc \in AdcRegs /\ mod_residual \in ModRegs /\ anti_diff \in AntiRegs
        /\ adc_out_piped \in Places(adc_pipe_len, Nat)
        /\ adc.valid_out \in BOOLEAN /\ adc.fixed_in \in Nat
        /\ diff_calc.valid_out \in BOOLEAN /\ diff_calc.diff_out.new \in Nat
        /\ mod_residual.valid_out \in BOOLEAN /\ mod_residual.residual_out.remain \in Nat
        /\ anti_diff.valid_out \in BOOLEAN
    BY <1>1 DEF TypeOK, AdcRegs, DiffRegs, ModRegs, AntiRegs
  <1>7. AntiLag \in Nat /\ 4 + ModDelay \in Nat /\ 4 + ModDelay + 1 = AntiLag
        /\ AntiLag + AntiDelay \in Nat /\ AntiLag + AntiDelay + 1 = SumLag
    BY Depths DEF AntiLag, SumLag
  <1> HIDE DEF g, h
  <1>8. AdcKeeps(adc', h)
    <2>1. adc' = AdcEdge(adc, TRUE, TRUE, n + 1)
      BY DEF Cycle, RisingEdge
    <2>2. n + 1 \in Nat /\ TRUE \in BOOLEAN
      BY <1>1
    <2>3. AdcKeeps(AdcEdge(adc, TRUE, TRUE, n + 1), h)
      BY <1>2, <1>4, <1>5, <1>6, <2>2, AdcStep
    <2> QED BY <2>1, <2>3
  <1>9. adc.fixed_in = h[3] /\ Brings(adc.valid_out, h, 3)
    <2>1. adc.fixed_in = g[2] /\ Brings(adc.valid_out, g, 2)
      BY <1>5 DEF AdcKeeps
    <2>2. g[2] = h[2 + 1] /\ 2 + 1 = 3
      BY <1>3
    <2>3. Brings(adc.valid_out, h, 2 + 1)
      BY <1>2, <1>6, <2>1, BringsStep
    <2> QED BY <2>1, <2>2, <2>3
  <1>10. diff_calc'.diff_out.new = h[3] /\ diff_calc'.valid_out = adc.valid_out
    <2>1. diff_calc' = DiffEdge(diff_calc, TRUE, adc.valid_out, adc.fixed_in)
      BY DEF Cycle, RisingEdge
    <2>2. /\ diff_calc'.diff_out.new =
               (IF adc.valid_out THEN adc.fixed_in ELSE diff_calc.diff_out.new)
          /\ diff_calc'.valid_out = adc.valid_out
      BY <2>1 DEF DiffEdge
    <2>3. (IF adc.valid_out THEN adc.fixed_in ELSE diff_calc.diff_out.new) = h[3]
      BY <1>2, <1>5, <1>6, <1>9, LoadStep
    <2> QED BY <2>2, <2>3
  <1>11. /\ Line(adc_out_piped', adc_pipe_len, h, 3)
         /\ Last(adc_out_piped, adc_pipe_len) = h[adc_pipe_len + 3]
    <2>1. adc_out_piped' = Shift(adc_out_piped, adc.fixed_in)
      BY DEF Cycle, PipeSamples
    <2>2. /\ Line(Shift(adc_out_piped, adc.fixed_in), adc_pipe_len, h, 3)
          /\ Last(adc_out_piped, adc_pipe_len) = h[3 + adc_pipe_len]
      BY <1>2, <1>5, <1>6, <1>9, LineStep, CallAssumption
    <2>3. 3 + adc_pipe_len = adc_pipe_len + 3
      BY CallAssumption
    <2> QED BY <2>1, <2>2, <2>3
  <1>12. ModKeeps(mod_residual', h, 4)
    <2>1. diff_calc.diff_out.new = h[4] /\ Brings(diff_calc.valid_out, h, 4)
      <3>1. g[3] = h[3 + 1] /\ 3 + 1 = 4
        BY <1>3
      <3>2. Brings(diff_calc.valid_out, h, 3 + 1)
        BY <1>2, <1>5, <1>6, BringsStep
      <3> QED BY <1>5, <3>1, <3>2
    <2>2. mod_residual' = ModEdge(mod_residual, TRUE, diff_calc.valid_out,
                                  diff_calc.diff_out.new)
      BY DEF Cycle, RisingEdge
    <2>3. ModKeeps(ModEdge(mod_residual, TRUE, diff_calc.valid_out,
                           diff_calc.diff_out.new), h, 4)
      BY <1>2, <1>5, <1>6, <2>1, ModStep
    <2> QED BY <2>2, <2>3
  <1>13. AntiKeeps(anti_diff', h, AntiLag)
    <2>1. mod_residual.residual_out.remain = g[4 + ModDelay]
          /\ Brings(mod_residual.valid_out, g, 4 + ModDelay)
      BY <1>5 DEF ModKeeps
    <2>2. mod_residual.residual_out.remain = h[AntiLag]
          /\ Brings(mod_residual.valid_out, h, AntiLag)
      <3>1. Brings(mod_residual.valid_out, h, 4 + ModDelay + 1)
        BY <1>2, <1>6, <1>7, <2>1, BringsStep
      <3>2. g[4 + ModDelay] = h[4 + ModDelay + 1]
        BY <1>3, <1>7
      <3> QED BY <1>7, <2>1, <3>1, <3>2
    <2>3. anti_diff' = AntiEdge(anti_diff, TRUE, mod_residual.valid_out,
                                mod_residual.residual_out.remain)
      BY DEF Cycle, RisingEdge
    <2>4. AntiKeeps(AntiEdge(anti_diff, TRUE, mod_residual.valid_out,
                             mod_residual.residual_out.remain), h, AntiLag)
      BY <1>2, <1>5, <1>6, <1>7, <2>2, AntiStep
    <2> QED BY <2>3, <2>4
  <1>14. /\ anti_diff.residual_out = h[SumLag]
         /\ Brings(anti_diff.valid_out, h, SumLag)
    <2>1. anti_diff.residual_out = g[AntiLag + AntiDelay]
          /\ Brings(anti_diff.valid_out, g, AntiLag + AntiDelay)
      BY <1>5 DEF AntiKeeps
    <2>2. Brings(anti_diff.valid_out, h, AntiLag + AntiDelay + 1)
      BY <1>2, <1>6, <1>7, <2>1, BringsStep
    <2>3. g[AntiLag + AntiDelay] = h[AntiLag + AntiDelay + 1]
      BY <1>3, <1>7
    <2> QED BY <1>7, <2>1, <2>2, <2>3
  <1>15. InputBehind'
    <2>1. Brings(diff_calc'.valid_out, h, 3)
      BY <1>9, <1>10
    <2> QED BY <1>8, <1>10, <1>11, <1>12, <1>13, <2>1 DEF h, InputBehind, AntiLag
  <1> QED BY <1>11, <1>14, <1>15 DEF h

\* The same, to the moving average.
LEMMA CallsSum ==
  ASSUME CallsInv, LinesMatch, n' = n + 1, Cycle(TRUE, TRUE, n')
  PROVE  /\ SumBehind'
         /\ Last(reconstructed_piped, reconstructed_pipe_len).y = Before(n')[MeanLag - 1]
         /\ Brings(valid_avg', Before(n'), MeanLag - 1)
  <1> DEFINE g == Before(n)
             h == Before(n + 1)
             x == Reconstruction
             f == reconstructed_piped
             k == reconstructed_pipe_len
  <1>1. n \in Nat /\ TypeOK /\ SumBehind
    BY CallAssumption DEF CallsInv, TypeOK
  <1>2. Moves(g, h) /\ Moves(Joined(g), Joined(h))
    BY <1>1, BeforeMoves, JoinedMoves
  <1>3. /\ SumLag \in Nat /\ SumLag + k = MeanLag - 1 /\ SumLag + AvgDelay = MeanLag - 1
        /\ adc_pipe_len + 3 = SumLag /\ MeanLag - 1 \in Nat /\ k \in Nat \ {0}
    BY Depths, DelayAssumption, CallAssumption DEF SumLag, MeanLag, AntiLag, LinesMatch
  <1>4. /\ f \in Places(k, Sample) /\ mov_avg \in AvgRegs
        /\ anti_diff.valid_out \in BOOLEAN
    BY <1>1 DEF TypeOK, AntiRegs
  <1>5. /\ Line(f, k, Joined(g), SumLag) /\ AvgKeeps(mov_avg, g, SumLag)
    BY <1>1 DEF SumBehind
  <1>6. /\ Last(adc_out_piped, adc_pipe_len) = h[SumLag]
        /\ anti_diff.residual_out = h[SumLag]
        /\ Brings(anti_diff.valid_out, h, SumLag)
    BY <1>3, CallsInput
  <1>7. h[SumLag] \in Nat /\ \A e \in Nat : Joined(h)[e] = [residual |-> h[e], y |-> h[e]]
    <2>1. h[SumLag] \in Nat
      BY <1>1, <1>3, BeforeNat
    <2> QED BY <2>1 DEF Joined
  <1>8. x = Joined(h)[SumLag] /\ x \in Sample /\ x.y = h[SumLag]
    BY <1>3, <1>6, <1>7 DEF Reconstruction, Sample
  <1>9. f' = Shift(f, x) /\ valid_avg_in' = anti_diff.valid_out
    BY DEF Cycle, Reconstruct
  <1> HIDE DEF g, h, x
  <1>10. /\ Line(Shift(f, x), k, Joined(h), SumLag)
         /\ Last(f, k) = Joined(h)[SumLag + k]
    BY <1>2, <1>3, <1>4, <1>5, <1>8, LineStep
  <1>11. f'[0].y = h[SumLag]
    <2>1. 0 \in 0..k-1 /\ SumLag + 0 = SumLag
      BY <1>3
    <2>2. Shift(f, x)[0] = Joined(h)[SumLag + 0]
      BY <1>10, <2>1 DEF Line
    <2> QED BY <1>8, <1>9, <2>1, <2>2
  <1>12. AvgKeeps(mov_avg', h, SumLag) /\ Brings(valid_avg', h, MeanLag - 1)
    <2>1. mov_avg' = AvgEdge(mov_avg, TRUE, anti_diff.valid_out, f'[0].y)
          /\ valid_avg' = Last(mov_avg.v, AvgDelay)
      BY <1>9 DEF Cycle, RisingEdge
    <2>2. mov_avg' = AvgEdge(mov_avg, TRUE, anti_diff.valid_out, h[SumLag])
      BY <1>11, <2>1
    <2>3. /\ AvgKeeps(AvgEdge(mov_avg, TRUE, anti_diff.valid_out, h[SumLag]), h, SumLag)
          /\ Brings(Last(mov_avg.v, AvgDelay), h, SumLag + AvgDelay)
      BY <1>2, <1>3, <1>4, <1>5, <1>6, <1>7, AvgStep
    <2> QED BY <1>3, <2>1, <2>2, <2>3
  <1>13. SumBehind'
    <2>1. Line(f', k, Joined(h), SumLag) /\ Brings(valid_avg_in', h, SumLag)
      BY <1>6, <1>9, <1>10
    <2> QED BY <1>12, <2>1 DEF h, SumBehind, SumLag, AntiLag
  <1>14. Last(f, k).y = h[MeanLag - 1]
    <2>1. Last(f, k) = Joined(h)[MeanLag - 1]
      BY <1>3, <1>10
    <2>2. Joined(h)[MeanLag - 1] = [residual |-> h[MeanLag - 1], y |-> h[MeanLag - 1]]
      BY <1>3, <1>7
    <2>3. Last(f, k).y = [residual |-> h[MeanLag - 1], y |-> h[MeanLag - 1]].y
      BY <2>1, <2>2
    <2> QED BY <2>3
  <1> QED BY <1>12, <1>13, <1>14 DEF h

\* And to the result.
LEMMA CallsResult ==
  ASSUME CallsInv, LinesMatch, n' = n + 1, Cycle(TRUE, TRUE, n')
  PROVE  MeanBehind' /\ DacBehind'
  <1> DEFINE g == Before(n)
             h == Before(n + 1)
             M == MeanLag
  <1>1. n \in Nat /\ TypeOK /\ MeanBehind /\ DacBehind
    BY CallAssumption DEF CallsInv, TypeOK
  <1>2. Moves(g, h) /\ \A e \in Nat : h[e + 1] = g[e]
    BY <1>1, BeforeMoves DEF Moves
  <1>3. /\ M - 1 \in Nat /\ M \in Nat /\ M + 1 \in Nat /\ M + 2 \in Nat /\ M + 3 \in Nat
        /\ M - 1 + 1 = M /\ M + 1 + 1 = M + 2 /\ M + 2 + 1 = M + 3
        /\ SumLag + AvgDelay = M - 1
    BY Depths DEF SumLag, MeanLag, AntiLag
  <1>4. /\ dac \in DacRegs(Result) /\ dac.v \in Places(2, BOOLEAN)
        /\ dac.v[0] \in BOOLEAN /\ dac.v[1] \in BOOLEAN
        /\ valid_avg \in BOOLEAN /\ valid_convert_intermediate \in BOOLEAN
    BY <1>1 DEF TypeOK, DacRegs, Places
  <1>5. /\ Last(reconstructed_piped, reconstructed_pipe_len).y = h[M - 1]
        /\ Brings(valid_avg', h, M - 1)
    BY CallsSum
  <1>6. mov_avg.out_avg = h[M]
    <2>1. mov_avg.out_avg = g[SumLag + AvgDelay]
      BY DEF CallsInv, SumBehind, AvgKeeps
    <2> QED BY <1>2, <1>3, <2>1
  <1>7. /\ conversion_intermediate'.x = Last(reconstructed_piped, reconstructed_pipe_len)
        /\ conversion_intermediate'.mean = mov_avg.out_avg
        /\ conversion_in' = conversion_intermediate
        /\ valid_convert_intermediate' = valid_avg
        /\ valid_convert' = valid_convert_intermediate
    BY DEF Cycle, Convert, Filtered
  <1>8. /\ conversion_intermediate.x.y = h[M] /\ conversion_intermediate.mean = h[M + 1]
    BY <1>1, <1>2, <1>3 DEF MeanBehind
  <1>9. /\ Brings(valid_avg, h, M) /\ Brings(valid_convert_intermediate, h, M + 1)
    <2>1. Brings(valid_avg, g, M - 1) /\ Brings(valid_convert_intermediate, g, M)
      BY <1>1 DEF DacBehind
    <2> HIDE DEF M, g, h
    <2>2. Brings(valid_avg, h, M - 1 + 1) /\ Brings(valid_convert_intermediate, h, M + 1)
      BY <1>2, <1>3, <1>4, <2>1, BringsStep
    <2> QED BY <1>3, <2>2
  <1>10. /\ dac' = DacEdge(dac, TRUE, valid_convert', conversion_in')
         /\ dac_out' = dac.dac_value
    BY DEF Cycle, RisingEdge, Respond
  <1> DEFINE vc == valid_convert_intermediate
  <1>11. /\ dac'.v = Shift(dac.v, vc)
         /\ dac'.signal_with_offset =
              (IF vc THEN conversion_intermediate ELSE dac.signal_with_offset)
         /\ dac'.scaled_signal =
              (IF dac.v[0] THEN dac.signal_with_offset ELSE dac.scaled_signal)
         /\ dac'.dac_value = (IF dac.v[1] THEN dac.scaled_signal ELSE dac.dac_value)
    BY <1>7, <1>10 DEF DacEdge
  <1>12. /\ Valids(dac.v, 2, g, M + 1)
         /\ FromSecond(dac.signal_with_offset.x.y, g, M)
         /\ FromSecond(dac.scaled_signal.x.y, g, M + 1)
         /\ FromSecond(dac.dac_value.x.y, g, M + 2)
    BY <1>1 DEF DacBehind
  <1>13. Brings(dac.v[0], h, M + 2) /\ Brings(dac.v[1], h, M + 3)
    <2>1. Brings(dac.v[0], g, M + 1) /\ Brings(dac.v[1], g, M + 2)
      <3>1. M + 1 + 0 = M + 1 /\ 0 \in 0..2-1 /\ 1 \in 0..2-1
        BY <1>3
      <3>2. Brings(dac.v[0], g, M + 1 + 0) /\ Brings(dac.v[1], g, M + 1 + 1)
        BY <1>12, <3>1 DEF Valids
      <3> QED BY <1>3, <3>1, <3>2
    <2> HIDE DEF M, g, h
    <2>2. Brings(dac.v[0], h, M + 1 + 1) /\ Brings(dac.v[1], h, M + 2 + 1)
      BY <1>2, <1>3, <1>4, <2>1, BringsStep
    <2> QED BY <1>3, <2>2
  <1>14. Valids(dac'.v, 2, h, M + 1)
    <2> HIDE DEF M, g, h, vc
    <2>1. Valids(Shift(dac.v, vc), 2, h, M + 1)
      BY <1>2, <1>3, <1>4, <1>9, <1>12, ValidsStep DEF vc
    <2> QED BY <1>11, <2>1
  <1>15. FromSecond(dac'.signal_with_offset.x.y, h, M)
    <2> DEFINE y == conversion_intermediate.x.y
               r == dac.signal_with_offset.x.y
    <2>1. dac'.signal_with_offset.x.y = (IF vc THEN y ELSE r)
      BY <1>11
    <2>2. vc => FromSecond(y, h, M)
      BY <1>8 DEF FromSecond
    <2> HIDE DEF M, y, r, vc
    <2>3. FromSecond(IF vc THEN y ELSE r, h, M)
      BY <1>1, <1>3, <1>4, <1>9, <1>12, <2>2, SecondStep DEF vc, r
    <2> QED BY <2>1, <2>3
  <1>16. FromSecond(dac'.scaled_signal.x.y, h, M + 1)
    <2> DEFINE y == dac.signal_with_offset.x.y
               r == dac.scaled_signal.x.y
    <2>1. dac'.scaled_signal.x.y = (IF dac.v[0] THEN y ELSE r)
      BY <1>11
    <2>2. FromSecond(y, h, M + 1)
      BY <1>1, <1>3, <1>12, SecondMoves
    <2> HIDE DEF M, y, r
    <2>3. Brings(dac.v[0], h, M + 1 + 1) /\ M + 1 \in Nat
      BY <1>3, <1>13
    <2>4. FromSecond(IF dac.v[0] THEN y ELSE r, h, M + 1)
      BY <1>1, <1>4, <1>12, <2>2, <2>3, SecondStep DEF r
    <2> QED BY <2>1, <2>4
  <1>17. FromSecond(dac'.dac_value.x.y, h, M + 2)
    <2> DEFINE y == dac.scaled_signal.x.y
               r == dac.dac_value.x.y
    <2>1. dac'.dac_value.x.y = (IF dac.v[1] THEN y ELSE r)
      BY <1>11
    <2>2. FromSecond(y, h, M + 2)
      <3>1. FromSecond(y, h, M + 1 + 1)
        BY <1>1, <1>3, <1>12, SecondMoves
      <3> QED BY <1>3, <3>1
    <2> HIDE DEF M, y, r
    <2>3. Brings(dac.v[1], h, M + 2 + 1) /\ M + 2 \in Nat
      BY <1>3, <1>13
    <2>4. FromSecond(IF dac.v[1] THEN y ELSE r, h, M + 2)
      BY <1>1, <1>4, <1>12, <2>2, <2>3, SecondStep DEF r
    <2> QED BY <2>1, <2>4
  <1>18. FromSecond(dac_out'.x.y, h, M + 3)
    <2>1. FromSecond(dac.dac_value.x.y, h, M + 2 + 1)
      BY <1>1, <1>3, <1>12, SecondMoves
    <2> QED BY <1>3, <1>10, <2>1
  <1>19. MeanBehind'
    BY <1>5, <1>6, <1>7, <1>8 DEF MeanBehind, MeanLag, SumLag, AntiLag
  <1>20. Brings(valid_convert_intermediate', h, M) /\ Brings(valid_convert', h, M + 1)
    BY <1>7, <1>9
  <1>21. DacBehind'
    BY <1>5, <1>14, <1>15, <1>16, <1>17, <1>18, <1>20
       DEF DacBehind, MeanLag, SumLag, AntiLag
  <1> QED BY <1>19, <1>21

\* Between two calls nothing moves but the accumulator's valid bits.
LEMMA CallsIdle ==
  ASSUME CallsInv, n' = n, Cycle(FALSE, FALSE, n)
  PROVE  InputBehind' /\ SumBehind' /\ MeanBehind' /\ DacBehind'
  <1> DEFINE g == Before(n)
             v == mod_residual.valid_out
             x == mod_residual.residual_out.remain
  <1>1. n \in Nat /\ TypeOK /\ InputBehind /\ SumBehind /\ MeanBehind /\ DacBehind
    BY CallAssumption DEF CallsInv, TypeOK
  <1>2. AntiKeeps(anti_diff', g, AntiLag)
    <2>1. /\ AntiLag \in Nat /\ 4 + ModDelay \in Nat /\ 4 + ModDelay + 1 = AntiLag
          /\ AntiDelay \in Nat /\ 0 \in Nat
      BY Depths DEF AntiLag
    <2>2. v \in BOOLEAN /\ anti_diff \in AntiRegs
      BY <1>1 DEF TypeOK, ModRegs
    <2>3. Brings(v, g, 4 + ModDelay) /\ AntiKeeps(anti_diff, g, AntiLag)
      BY <1>1 DEF InputBehind, ModKeeps
    <2>4. Drifts(g, 4 + ModDelay, 0) /\ Drifts(g, AntiLag, AntiDelay)
      BY <1>1, <2>1, BeforeDrifts
    <2>5. anti_diff' = AntiEdge(anti_diff, FALSE, v, x)
      BY DEF Cycle, RisingEdge
    <2> HIDE DEF g, v, x
    <2>6. Brings(v, g, AntiLag)
      <3>1. 4 + ModDelay \in (4 + ModDelay)..(4 + ModDelay + 0)
        BY <2>1
      <3>2. Brings(v, g, 4 + ModDelay + 1)
        BY <2>2, <2>3, <2>4, <3>1 DEF Drifts
      <3> QED BY <2>1, <3>2
    <2>7. AntiKeeps(AntiEdge(anti_diff, FALSE, v, x), g, AntiLag)
      BY <2>1, <2>2, <2>3, <2>4, <2>6, AntiIdle
    <2> QED BY <2>5, <2>7
  <1>3. /\ adc' = adc /\ diff_calc' = diff_calc /\ mod_residual' = mod_residual
        /\ mov_avg' = mov_avg /\ valid_avg' = valid_avg /\ dac' = dac
        /\ adc_out_piped' = adc_out_piped
    BY DEF Cycle, RisingEdge, AdcEdge, DiffEdge, ModEdge, AvgEdge, DacEdge, PipeSamples
  <1>4. /\ reconstructed_piped' = reconstructed_piped /\ valid_avg_in' = valid_avg_in
        /\ conversion_intermediate' = conversion_intermediate
        /\ conversion_in' = conversion_in
        /\ valid_convert_intermediate' = valid_convert_intermediate
        /\ valid_convert' = valid_convert /\ dac_out' = dac_out
    BY DEF Cycle, Reconstruct, Convert, Respond
  <1> HIDE DEF v, x
  <1>5. InputBehind'
    BY <1>1, <1>2, <1>3 DEF InputBehind, AntiLag
  <1>6. SumBehind' /\ MeanBehind' /\ DacBehind'
    BY <1>1, <1>3, <1>4 DEF SumBehind, MeanBehind, DacBehind, MeanLag, SumLag, AntiLag
  <1> QED BY <1>5, <1>6

LEMMA StepCalls ==
  ASSUME OneCycleCalls, LinesMatch, CallsInv, [Next]_vars
  PROVE  CallsInv'
  <1>1. TypeOK /\ TypeOK' /\ left = 0 /\ n \in Nat
    BY StepType, CallAssumption DEF CallsInv, TypeOK
  <1>2. CASE Next
    <2>1. /\ left' = 0
          /\ \/ n' = n + 1 /\ Cycle(TRUE, TRUE, n')
             \/ n' = n /\ Cycle(FALSE, FALSE, n)
      BY <1>1, <1>2, CallsCycle
    <2>2. CASE n' = n + 1 /\ Cycle(TRUE, TRUE, n')
      <3>1. InputBehind' /\ SumBehind' /\ MeanBehind' /\ DacBehind'
        BY <2>2, CallsInput, CallsSum, CallsResult
      <3> QED BY <1>1, <2>1, <3>1 DEF CallsInv
    <2>3. CASE n' = n /\ Cycle(FALSE, FALSE, n)
      <3>1. InputBehind' /\ SumBehind' /\ MeanBehind' /\ DacBehind'
        BY <2>3, CallsIdle
      <3> QED BY <1>1, <2>1, <3>1 DEF CallsInv
    <2> QED BY <2>1, <2>2, <2>3
  <1>3. CASE UNCHANGED vars
    BY <1>1, <1>3 DEF vars, blocks, regs, cpu, CallsInv, InputBehind, SumBehind,
                      MeanBehind, DacBehind, MeanLag, SumLag, AntiLag
  <1> QED BY <1>2, <1>3

\* With calls of one cycle the moving average too adds every sample once, in order.
THEOREM AveragesOnceHolds ==
  ASSUME OneCycleCalls, LinesMatch
  PROVE  Spec => []AveragesOnce
  <1>1. CallsInv => AveragesOnce
    BY DEF CallsInv, SumBehind, AvgKeeps, AveragesOnce
  <1>2. CallsInv /\ [Next]_vars => CallsInv'
    BY StepCalls
  <1> QED BY <1>1, <1>2, InitCalls, PTL DEF Spec

\* Every sample is summed with its own residual.
THEOREM ReconstructionAlignedHolds ==
  ASSUME OneCycleCalls, LinesMatch
  PROVE  Spec => []ReconstructionAligned
  <1>1. CallsInv => ReconstructionAligned
    <2> SUFFICES ASSUME CallsInv PROVE ReconstructionAligned
      OBVIOUS
    <2>1. Line(reconstructed_piped, reconstructed_pipe_len, Joined(Before(n)), SumLag)
      BY DEF CallsInv, SumBehind
    <2>2. 0 \in 0..reconstructed_pipe_len-1 /\ SumLag + 0 \in Nat
      BY CallAssumption, Depths DEF SumLag, AntiLag
    <2>3. reconstructed_piped[0] = Joined(Before(n))[SumLag + 0]
      BY <2>1, <2>2 DEF Line
    <2> QED BY <2>2, <2>3 DEF Joined, ReconstructionAligned
  <1>2. CallsInv /\ [Next]_vars => CallsInv'
    BY StepCalls
  <1> QED BY <1>1, <1>2, InitCalls, PTL DEF Spec

\* The mean taken off a sample is that of the window that ended just before it.
THEOREM MeanOfWindowBeforeHolds ==
  ASSUME OneCycleCalls, LinesMatch
  PROVE  Spec => []MeanOfWindowBefore
  <1>1. CallsInv => MeanOfWindowBefore
    <2> SUFFICES ASSUME CallsInv PROVE MeanOfWindowBefore
      OBVIOUS
    <2>1. conversion_in.x.y = Before(n)[MeanLag]
          /\ conversion_in.mean = Before(n)[MeanLag + 1]
      BY DEF CallsInv, MeanBehind
    <2>2. n \in Nat /\ MeanLag \in Nat
      BY CallAssumption, Depths DEF CallsInv, TypeOK, MeanLag, SumLag, AntiLag
    <2> QED BY <2>1, <2>2 DEF Before, MeanOfWindowBefore
  <1>2. CallsInv /\ [Next]_vars => CallsInv'
    BY StepCalls
  <1> QED BY <1>1, <1>2, InitCalls, PTL DEF Spec

\* The results leave in order, none lost and none repeated, from the first on.
THEOREM DacInOrderHolds ==
  ASSUME OneCycleCalls, LinesMatch
  PROVE  Spec => DacInOrder
  <1>1. CallsInv /\ CallsInv' /\ [Next]_vars =>
          [dac_out.x.y > 0 => dac_out'.x.y \in {dac_out.x.y, dac_out.x.y + 1}]_vars
    <2> DEFINE y == dac_out.x.y
    <2> SUFFICES ASSUME CallsInv, CallsInv', Next
                 PROVE  y > 0 => y' \in {y, y + 1}
      OBVIOUS
    <2>1. SUFFICES ASSUME y > 0 PROVE y' \in {y, y + 1}
      OBVIOUS
    <2>2. n \in Nat /\ left = 0 /\ MeanLag + 3 \in Nat
      BY CallAssumption, Depths DEF CallsInv, TypeOK, MeanLag, SumLag, AntiLag
    <2>3. \/ n' = n + 1 /\ Cycle(TRUE, TRUE, n')
          \/ n' = n /\ Cycle(FALSE, FALSE, n)
      BY <2>2, CallsCycle
    <2>4. FromSecond(y, Before(n), MeanLag + 3)
      BY DEF CallsInv, DacBehind
    <2>5. CASE n' = n + 1
      <3>1. FromSecond(y', Before(n + 1), MeanLag + 3)
        BY <2>5 DEF CallsInv, DacBehind, MeanLag, SumLag, AntiLag
      <3> QED BY <2>1, <2>2, <2>4, <3>1 DEF FromSecond, Before
    <2>6. CASE Cycle(FALSE, FALSE, n)
      BY <2>6 DEF Cycle, Respond
    <2> QED BY <2>3, <2>5, <2>6
  <1>2. CallsInv /\ [Next]_vars => CallsInv'
    BY StepCalls
  <1> QED BY <1>1, <1>2, InitCalls, PTL DEF Spec, DacInOrder
=============================================================================
