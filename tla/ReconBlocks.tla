---------------------------- MODULE ReconBlocks ----------------------------
(***************************************************************************)
(* The register-transfer blocks of the reconstruction datapath             *)
(* (ip/recon/*.sv, ip/Higher_orders/*.sv), each as a record of registers   *)
(* with its reset value and its positive clock edge.  A datum is named by  *)
(* the input sample it was computed from, counted from 1 since the reset;  *)
(* 0 is a value that comes from no sample.  What the blocks compute is     *)
(* left out: this is the question of what meets what, and when.            *)
(***************************************************************************)
EXTENDS Integers

CONSTANTS
  ModDelay,    \* block_delay of modulo_residual_piped (13)
  ModStages,   \* stages of its divider mod_divide (12)
  AntiDelay,   \* block_delay of anti_difference_rounding (14)
  AntiStages,  \* stages of its divider anti_diff_div (12)
  AvgDelay,    \* BLOCK_DELAY of moving_average (28)
  AvgStages    \* stages of its divider avg_div (26)

ASSUME DelayAssumption ==
  /\ ModStages \in Nat \ {0} /\ ModDelay = ModStages + 1
  /\ AntiStages \in Nat \ {0} /\ AntiDelay = AntiStages + 2
  /\ AvgStages \in Nat \ {0} /\ AvgDelay = AvgStages + 2

\* A shift register of n places holding x, and its step on input x.
Filled(n, x) == [i \in 0..n-1 |-> x]
ShiftPastEnd(f, x) ==
  [i \in DOMAIN f \cup {j + 1 : j \in DOMAIN f} |-> IF i = 0 THEN x ELSE f[i - 1]]
Shift(f, x)  == [i \in DOMAIN f |-> IF i = 0 THEN x ELSE f[i - 1]]
Last(f, n)   == f[n - 1]

\* The shift registers of n places of T.
Places(n, T) == [0..n-1 -> T]

-----------------------------------------------------------------------------
\* adc_to_fixed: three registers in a row, each loaded when its datum is valid.
AdcRegs == [v : Places(2, BOOLEAN), valid_out : BOOLEAN,
            signal_with_offset : Nat, scaled_signal : Nat, fixed_in : Nat]

AdcReset ==
  [v |-> Filled(2, FALSE), valid_out |-> FALSE,
   signal_with_offset |-> 0, scaled_signal |-> 0, fixed_in |-> 0]

AdcEdge(b, en, valid_in, adc_in) ==
  IF ~en THEN b ELSE
  [v |-> Shift(b.v, valid_in),
   valid_out |-> b.v[1],
   signal_with_offset |-> IF valid_in THEN adc_in ELSE b.signal_with_offset,
   scaled_signal |-> IF b.v[0] THEN b.signal_with_offset ELSE b.scaled_signal,
   fixed_in |-> IF b.v[1] THEN b.scaled_signal ELSE b.fixed_in]

-----------------------------------------------------------------------------
\* higher_order_difference: the difference of a sample and the one before.
DiffRegs == [valid_out : BOOLEAN, prev_in : Nat, diff_out : [new : Nat, old : Nat]]

DiffReset == [valid_out |-> FALSE, prev_in |-> 0, diff_out |-> [new |-> 0, old |-> 0]]

DiffEdge(b, en, valid_in, y_in) ==
  IF ~en THEN b ELSE
  [valid_out |-> valid_in,
   prev_in   |-> IF valid_in THEN y_in ELSE b.prev_in,
   diff_out  |-> IF valid_in THEN [new |-> y_in, old |-> b.prev_in] ELSE b.diff_out]

-----------------------------------------------------------------------------
\* modulo_residual_piped: the divider computes the remainder of a difference
\* while the shift register carries the difference that is taken from it.
ModRegs ==
  [v : Places(ModDelay, BOOLEAN), valid_out : BOOLEAN, mod_numer : Nat,
   div : Places(ModStages, Nat), diff_in_shift : Places(ModDelay, Nat),
   residual_out : [remain : Nat, diff : Nat]]

ModReset ==
  [v |-> Filled(ModDelay, FALSE), valid_out |-> FALSE, mod_numer |-> 0,
   div |-> Filled(ModStages, 0), diff_in_shift |-> Filled(ModDelay, 0),
   residual_out |-> [remain |-> 0, diff |-> 0]]

ModEdgeShort(b, en, valid_in, diff_in) ==
  IF ~en THEN b ELSE
  [v |-> Shift(b.v, valid_in),
   valid_out |-> Last(b.v, ModDelay),
   mod_numer |-> IF valid_in THEN diff_in ELSE b.mod_numer,
   div |-> Shift(b.div, b.mod_numer),
   diff_in_shift |-> Shift(b.diff_in_shift, diff_in),
   residual_out |-> IF Last(b.v, ModDelay)
                      THEN [remain |-> Last(b.div, ModStages),
                            diff |-> Last(b.diff_in_shift, ModStages)]
                      ELSE b.residual_out]

ModEdge(b, en, valid_in, diff_in) ==
  IF ~en THEN b ELSE
  [v |-> Shift(b.v, valid_in),
   valid_out |-> Last(b.v, ModDelay),
   mod_numer |-> IF valid_in THEN diff_in ELSE b.mod_numer,
   div |-> Shift(b.div, b.mod_numer),
   diff_in_shift |-> Shift(b.diff_in_shift, diff_in),
   residual_out |-> IF Last(b.v, ModDelay)
                      THEN [remain |-> Last(b.div, ModStages),
                            diff |-> Last(b.diff_in_shift, ModDelay)]
                      ELSE b.residual_out]

-----------------------------------------------------------------------------
\* What has been summed: the last sample, and (history) whether every sample
\* up to it was added exactly once and in order.
Sum == [last : Nat, exact : BOOLEAN]
EmptySum == [last |-> 0, exact |-> TRUE]
Follows(s, x) == x = s.last + 1 \/ (x = 0 /\ s.last = 0)
Add(s, x) == [last |-> x, exact |-> IF Follows(s, x) THEN s.exact ELSE FALSE]

\* anti_difference_rounding: accumulate, divide, round.  Its valid bits move at
\* every clock, the data only when enabled.
AntiRegs ==
  [v : Places(AntiDelay, BOOLEAN), valid_out : BOOLEAN, residual : Sum,
   numer : Nat, div : Places(AntiStages, Nat), residual_out : Nat]

AntiReset ==
  [v |-> Filled(AntiDelay, FALSE), valid_out |-> FALSE, residual |-> EmptySum,
   numer |-> 0, div |-> Filled(AntiStages, 0), residual_out |-> 0]

AntiValid(b, valid_in) ==
  [b EXCEPT !.v = Shift(b.v, valid_in), !.valid_out = Last(b.v, AntiDelay)]

AntiData(b, valid_in, residual_diff_in) ==
  [AntiValid(b, valid_in) EXCEPT
     !.residual = IF valid_in THEN Add(b.residual, residual_diff_in) ELSE b.residual,
     !.numer = IF b.v[0] THEN b.residual.last ELSE b.numer,
     !.div = Shift(b.div, b.numer),
     !.residual_out = IF Last(b.v, AntiDelay) THEN Last(b.div, AntiStages)
                                              ELSE b.residual_out]

AntiEdgeUngated(b, en, valid_in, residual_diff_in) ==
  AntiData(b, valid_in, residual_diff_in)

AntiEdge(b, en, valid_in, residual_diff_in) ==
  IF en THEN AntiData(b, valid_in, residual_diff_in) ELSE AntiValid(b, valid_in)

-----------------------------------------------------------------------------
\* moving_average: the sum of the window, divided by its length.
AvgRegs ==
  [v : Places(AvgDelay, BOOLEAN), sum : Sum, div_numer : Nat,
   div : Places(AvgStages, Nat), out_avg : Nat]

AvgReset ==
  [v |-> Filled(AvgDelay, FALSE), sum |-> EmptySum, div_numer |-> 0,
   div |-> Filled(AvgStages, 0), out_avg |-> 0]

AvgData(b, valid_in, in_sample) ==
  [v |-> Shift(b.v, valid_in),
   sum |-> IF valid_in THEN Add(b.sum, in_sample) ELSE b.sum,
   div_numer |-> IF b.v[0] THEN b.sum.last ELSE b.div_numer,
   div |-> Shift(b.div, b.div_numer),
   out_avg |-> IF Last(b.v, AvgDelay) THEN Last(b.div, AvgStages) ELSE b.out_avg]

AvgEdgeUngated(b, en, valid_in, in_sample) == AvgData(b, valid_in, in_sample)

AvgEdge(b, en, valid_in, in_sample) ==
  IF en THEN AvgData(b, valid_in, in_sample) ELSE b

-----------------------------------------------------------------------------
\* fixed_to_dac: offset and clamp, scale, take the byte.
DacRegs(T) ==
  [v : Places(2, BOOLEAN), signal_with_offset : T, scaled_signal : T, dac_value : T]

DacReset(x) ==
  [v |-> Filled(2, FALSE), signal_with_offset |-> x, scaled_signal |-> x,
   dac_value |-> x]

DacEdge(b, en, valid_in, signal_in) ==
  IF ~en THEN b ELSE
  [v |-> Shift(b.v, valid_in),
   signal_with_offset |-> IF valid_in THEN signal_in ELSE b.signal_with_offset,
   scaled_signal |-> IF b.v[0] THEN b.signal_with_offset ELSE b.scaled_signal,
   dac_value |-> IF b.v[1] THEN b.scaled_signal ELSE b.dac_value]

-----------------------------------------------------------------------------
(* Which datum a register holds: g[d] is the one the input had d enabled   *)
(* cycles ago.                                                             *)

\* One enabled cycle.
Moves(g, h) == \A d \in Nat : h[d + 1] = g[d]

\* A line of k registers, the first of them d cycles behind.
Line(f, k, g, d) == \A i \in 0..k-1 : f[i] = g[d + i]

\* The valid bit of a register d cycles behind: unless it is set nothing new has come,
\* and if it is, the next sample has (or none yet).
Brings(v, g, d) ==
  IF v THEN g[d] = g[d + 1] + 1 \/ (g[d] = 0 /\ g[d + 1] = 0) ELSE g[d] = g[d + 1]

Valids(f, k, g, d) == \A i \in 0..k-1 : Brings(f[i], g, d + i)

\* Nothing changes for k valid bits if they move on between two enabled cycles.
Drifts(g, d, k) ==
  \A e \in d..d+k, v \in BOOLEAN : Brings(v, g, e) => Brings(v, g, e + 1)

AdcKeeps(b, g) ==
  /\ b.signal_with_offset = g[0] /\ b.scaled_signal = g[1] /\ b.fixed_in = g[2]
  /\ Valids(b.v, 2, g, 0) /\ Brings(b.valid_out, g, 2)

ModKeeps(b, g, d) ==
  /\ b.mod_numer = g[d] /\ Line(b.div, ModStages, g, d + 1)
  /\ b.residual_out.remain = g[d + ModDelay]
  /\ Valids(b.v, ModDelay, g, d) /\ Brings(b.valid_out, g, d + ModDelay)

AntiKeeps(b, g, d) ==
  /\ b.residual.last = g[d] /\ b.residual.exact
  /\ b.numer = g[d + 1] /\ Line(b.div, AntiStages, g, d + 2)
  /\ b.residual_out = g[d + AntiDelay]
  /\ Valids(b.v, AntiDelay, g, d) /\ Brings(b.valid_out, g, d + AntiDelay)

AvgKeeps(b, g, d) ==
  /\ b.sum.last = g[d] /\ b.sum.exact
  /\ b.div_numer = g[d + 1] /\ Line(b.div, AvgStages, g, d + 2)
  /\ b.out_avg = g[d + AvgDelay]
  /\ Valids(b.v, AvgDelay, g, d)

\* A line of valid bits, each among those q allows so many cycles behind.
Among(f, k, q, d) == \A i \in 0..k-1 : f[i] \in q[d + i]
=============================================================================
