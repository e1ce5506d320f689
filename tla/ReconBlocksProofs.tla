-------------------------- MODULE ReconBlocksProofs --------------------------
(***************************************************************************)
(* Lemmas about the blocks of the reconstruction datapath: that an edge    *)
(* keeps the type of their registers, and that it keeps each of them a     *)
(* fixed number of enabled cycles behind the input.                        *)
(***************************************************************************)
EXTENDS ReconBlocks, TLAPS

-----------------------------------------------------------------------------
(* Shift registers.                                                        *)

\* A shift register keeps its type; its first place takes the input and every
\* other one the place before.
LEMMA ShiftFacts ==
  ASSUME NEW k \in Nat \ {0}, NEW T, NEW f \in Places(k, T), NEW x \in T
  PROVE  /\ Shift(f, x) \in Places(k, T)
         /\ Shift(f, x)[0] = x
         /\ \A i \in 1..k-1 : Shift(f, x)[i] = f[i - 1]
         /\ Last(f, k) \in T
  <1>1. DOMAIN f = 0..k-1 /\ 0 \in 0..k-1 /\ k - 1 \in 0..k-1
    BY DEF Places
  <1>2. \A i \in 0..k-1 : i # 0 => i - 1 \in 0..k-1
    OBVIOUS
  <1>3. \A i \in 0..k-1 : f[i] \in T
    BY DEF Places
  <1>4. \A i \in 1..k-1 : i \in 0..k-1 /\ i # 0
    OBVIOUS
  <1>5. \A i \in 0..k-1 : (IF i = 0 THEN x ELSE f[i - 1]) \in T
    BY <1>2, <1>3
  <1> QED BY <1>1, <1>3, <1>4, <1>5 DEF Shift, Last, Places

\* So does one filled with a value of the type.
LEMMA FilledFacts ==
  ASSUME NEW k \in Nat \ {0}, NEW T, NEW x \in T
  PROVE  /\ Filled(k, x) \in Places(k, T)
         /\ \A i \in 0..k-1 : Filled(k, x)[i] = x
  BY DEF Filled, Places

\* Every delay is at least one.
LEMMA Depths ==
  /\ ModDelay \in Nat \ {0} /\ ModStages \in Nat \ {0} /\ ModDelay = ModStages + 1
  /\ AntiDelay \in Nat \ {0} /\ AntiStages \in Nat \ {0}
  /\ AvgDelay \in Nat \ {0} /\ AvgStages \in Nat \ {0}
  /\ 2 \in Nat \ {0}
  BY DelayAssumption

-----------------------------------------------------------------------------
(* The blocks keep their types.                                            *)

LEMMA AdcTyped ==
  ASSUME NEW b \in AdcRegs, NEW en \in BOOLEAN, NEW v \in BOOLEAN, NEW x \in Nat
  PROVE  AdcEdge(b, en, v, x) \in AdcRegs
  <1>1. b.v \in Places(2, BOOLEAN) /\ b.valid_out \in BOOLEAN
        /\ b.signal_with_offset \in Nat /\ b.scaled_signal \in Nat /\ b.fixed_in \in Nat
    BY DEF AdcRegs
  <1>2. Shift(b.v, v) \in Places(2, BOOLEAN)
    BY <1>1, ShiftFacts, Depths
  <1>3. b.v[1] \in BOOLEAN
    BY <1>1 DEF Places
  <1> QED BY <1>1, <1>2, <1>3 DEF AdcEdge, AdcRegs

LEMMA DiffTyped ==
  ASSUME NEW b \in DiffRegs, NEW en \in BOOLEAN, NEW v \in BOOLEAN, NEW x \in Nat
  PROVE  DiffEdge(b, en, v, x) \in DiffRegs
  BY DEF DiffEdge, DiffRegs

LEMMA ModTyped ==
  ASSUME NEW b \in ModRegs, NEW en \in BOOLEAN, NEW v \in BOOLEAN, NEW x \in Nat
  PROVE  ModEdge(b, en, v, x) \in ModRegs
  <1>1. /\ b.v \in Places(ModDelay, BOOLEAN) /\ b.valid_out \in BOOLEAN
        /\ b.mod_numer \in Nat /\ b.div \in Places(ModStages, Nat)
        /\ b.diff_in_shift \in Places(ModDelay, Nat)
        /\ b.residual_out \in [remain : Nat, diff : Nat]
    BY DEF ModRegs
  <1>2. Shift(b.v, v) \in Places(ModDelay, BOOLEAN) /\ Last(b.v, ModDelay) \in BOOLEAN
    BY <1>1, ShiftFacts, Depths
  <1>3. Shift(b.div, b.mod_numer) \in Places(ModStages, Nat)
        /\ Last(b.div, ModStages) \in Nat
    BY <1>1, ShiftFacts, Depths
  <1>4. Shift(b.diff_in_shift, x) \in Places(ModDelay, Nat)
        /\ Last(b.diff_in_shift, ModDelay) \in Nat
    BY <1>1, ShiftFacts, Depths
  <1> QED BY <1>1, <1>2, <1>3, <1>4 DEF ModEdge, ModRegs

LEMMA AddTyped ==
  ASSUME NEW s \in Sum, NEW x \in Nat
  PROVE  Add(s, x) \in Sum
  BY DEF Add, Sum

LEMMA AntiTyped ==
  ASSUME NEW b \in AntiRegs, NEW en \in BOOLEAN, NEW v \in BOOLEAN, NEW x \in Nat
  PROVE  AntiEdge(b, en, v, x) \in AntiRegs
  <1>1. /\ b.v \in Places(AntiDelay, BOOLEAN) /\ b.valid_out \in BOOLEAN
        /\ b.residual \in Sum /\ b.residual.last \in Nat /\ b.numer \in Nat
        /\ b.div \in Places(AntiStages, Nat) /\ b.residual_out \in Nat
    BY DEF AntiRegs, Sum
  <1>2. Shift(b.v, v) \in Places(AntiDelay, BOOLEAN) /\ Last(b.v, AntiDelay) \in BOOLEAN
    BY <1>1, ShiftFacts, Depths
  <1>3. Shift(b.div, b.numer) \in Places(AntiStages, Nat) /\ Last(b.div, AntiStages) \in Nat
    BY <1>1, ShiftFacts, Depths
  <1>4. Add(b.residual, x) \in Sum
    BY <1>1, AddTyped
  <1>5. AntiValid(b, v) \in AntiRegs
    BY <1>1, <1>2 DEF AntiValid, AntiRegs
  <1>6. AntiData(b, v, x) \in AntiRegs
    BY <1>1, <1>3, <1>4, <1>5 DEF AntiData, AntiRegs
  <1> QED BY <1>5, <1>6 DEF AntiEdge

LEMMA AvgTyped ==
  ASSUME NEW b \in AvgRegs, NEW en \in BOOLEAN, NEW v \in BOOLEAN, NEW x \in Nat
  PROVE  AvgEdge(b, en, v, x) \in AvgRegs /\ Last(b.v, AvgDelay) \in BOOLEAN
  <1>1. /\ b.v \in Places(AvgDelay, BOOLEAN) /\ b.sum \in Sum /\ b.sum.last \in Nat
        /\ b.div_numer \in Nat /\ b.div \in Places(AvgStages, Nat) /\ b.out_avg \in Nat
    BY DEF AvgRegs, Sum
  <1>2. Shift(b.v, v) \in Places(AvgDelay, BOOLEAN) /\ Last(b.v, AvgDelay) \in BOOLEAN
    BY <1>1, ShiftFacts, Depths
  <1>3. Shift(b.div, b.div_numer) \in Places(AvgStages, Nat) /\ Last(b.div, AvgStages) \in Nat
    BY <1>1, ShiftFacts, Depths
  <1>4. Add(b.sum, x) \in Sum
    BY <1>1, AddTyped
  <1>5. AvgData(b, v, x) \in AvgRegs
    BY <1>1, <1>2, <1>3, <1>4 DEF AvgData, AvgRegs
  <1> QED BY <1>2, <1>5 DEF AvgEdge

LEMMA DacTyped ==
  ASSUME NEW T, NEW b \in DacRegs(T), NEW en \in BOOLEAN, NEW v \in BOOLEAN, NEW x \in T
  PROVE  DacEdge(b, en, v, x) \in DacRegs(T) /\ b.dac_value \in T
  <1>1. /\ b.v \in Places(2, BOOLEAN) /\ b.signal_with_offset \in T
        /\ b.scaled_signal \in T /\ b.dac_value \in T
    BY DEF DacRegs
  <1>2. Shift(b.v, v) \in Places(2, BOOLEAN)
    BY <1>1, ShiftFacts, Depths
  <1> QED BY <1>1, <1>2 DEF DacEdge, DacRegs

-----------------------------------------------------------------------------
(* The blocks stay behind their input: h is g one enabled cycle later.     *)

\* A register d cycles behind that loads its input when it is valid.
LEMMA LoadStep ==
  ASSUME NEW g, NEW h, Moves(g, h), NEW d \in Nat, NEW v \in BOOLEAN, NEW x, NEW r,
         v => x = h[d], Brings(v, h, d), r = g[d]
  PROVE  (IF v THEN x ELSE r) = h[d]
  <1>1. h[d + 1] = g[d]
    BY DEF Moves
  <1>2. CASE v
    BY <1>2
  <1>3. CASE ~v
    <2>1. h[d] = h[d + 1]
      BY <1>3 DEF Brings
    <2> QED BY <1>1, <1>3, <2>1
  <1> QED BY <1>2, <1>3

\* What a valid bit says of a register holds of the next one a cycle later.
LEMMA BringsStep ==
  ASSUME NEW g, NEW h, Moves(g, h), NEW d \in Nat, NEW v \in BOOLEAN
  PROVE  Brings(v, g, d) <=> Brings(v, h, d + 1)
  <1>1. h[d + 1] = g[d] /\ h[d + 1 + 1] = g[d + 1]
    BY DEF Moves
  <1> QED BY <1>1 DEF Brings

LEMMA LineStep ==
  ASSUME NEW g, NEW h, Moves(g, h), NEW d \in Nat, NEW k \in Nat \ {0}, NEW T,
         NEW f \in Places(k, T), NEW x \in T, x = h[d], Line(f, k, g, d)
  PROVE  Line(Shift(f, x), k, h, d) /\ Last(f, k) = h[d + k]
  <1>1. /\ Shift(f, x)[0] = x
        /\ \A i \in 1..k-1 : Shift(f, x)[i] = f[i - 1]
    BY DEF Shift, Places
  <1>2. ASSUME NEW i \in 0..k-1 PROVE f[i] = h[d + i + 1]
    <2>1. f[i] = g[d + i] /\ d + i \in Nat
      BY DEF Line
    <2> QED BY <2>1 DEF Moves
  <1>3. ASSUME NEW i \in 0..k-1 PROVE Shift(f, x)[i] = h[d + i]
    <2>1. CASE i = 0
      BY <1>1, <2>1
    <2>2. CASE i # 0
      <3>1. i \in 1..k-1 /\ i - 1 \in 0..k-1 /\ d + (i - 1) + 1 = d + i
        BY <2>2
      <3>2. f[i - 1] = h[d + (i - 1) + 1]
        BY <1>2, <3>1
      <3> QED BY <1>1, <3>1, <3>2
    <2> QED BY <2>1, <2>2
  <1>4. k - 1 \in 0..k-1 /\ d + (k - 1) + 1 = d + k
    OBVIOUS
  <1>5. f[k - 1] = h[d + (k - 1) + 1]
    BY <1>2, <1>4
  <1> QED BY <1>3, <1>4, <1>5 DEF Line, Last

LEMMA ValidsStep ==
  ASSUME NEW g, NEW h, Moves(g, h), NEW d \in Nat, NEW k \in Nat \ {0},
         NEW f \in Places(k, BOOLEAN), NEW v \in BOOLEAN, Brings(v, h, d),
         Valids(f, k, g, d)
  PROVE  Valids(Shift(f, v), k, h, d) /\ Brings(Last(f, k), h, d + k)
  <1>1. /\ Shift(f, v)[0] = v
        /\ \A i \in 1..k-1 : Shift(f, v)[i] = f[i - 1]
    BY ShiftFacts
  <1>2. ASSUME NEW i \in 0..k-1 PROVE Brings(f[i], h, d + i + 1)
    <2>1. Brings(f[i], g, d + i) /\ d + i \in Nat /\ f[i] \in BOOLEAN
      BY DEF Valids, Places
    <2> QED BY <2>1, BringsStep
  <1>3. ASSUME NEW i \in 0..k-1 PROVE Brings(Shift(f, v)[i], h, d + i)
    <2>1. CASE i = 0
      <3>1. Shift(f, v)[i] = v /\ d + i = d
        BY <1>1, <2>1
      <3> QED BY <3>1
    <2>2. CASE i # 0
      <3>1. i \in 1..k-1 /\ i - 1 \in 0..k-1 /\ d + (i - 1) + 1 = d + i
        BY <2>2
      <3>2. Brings(f[i - 1], h, d + i)
        <4>1. Brings(f[i - 1], h, d + (i - 1) + 1)
          BY <1>2, <3>1
        <4> QED BY <4>1, <3>1
      <3>3. Shift(f, v)[i] = f[i - 1]
        BY <1>1, <3>1
      <3> QED BY <3>2, <3>3
    <2> QED BY <2>1, <2>2
  <1>4. k - 1 \in 0..k-1 /\ d + (k - 1) + 1 = d + k
    OBVIOUS
  <1>5. Brings(f[k - 1], h, d + k)
    <2>1. Brings(f[k - 1], h, d + (k - 1) + 1)
      BY <1>2, <1>4
    <2> QED BY <2>1, <1>4
  <1> QED BY <1>3, <1>5 DEF Valids, Last

LEMMA AdcStep ==
  ASSUME NEW g, NEW h, Moves(g, h), NEW b \in AdcRegs, AdcKeeps(b, g),
         NEW v \in BOOLEAN, NEW x \in Nat, v => x = h[0], Brings(v, h, 0)
  PROVE  AdcKeeps(AdcEdge(b, TRUE, v, x), h)
  <1>1. /\ b.v \in Places(2, BOOLEAN) /\ b.v[0] \in BOOLEAN /\ b.v[1] \in BOOLEAN
    BY DEF AdcRegs, Places
  <1>2. /\ b.signal_with_offset = g[0] /\ b.scaled_signal = g[1] /\ b.fixed_in = g[2]
        /\ Valids(b.v, 2, g, 0)
    BY DEF AdcKeeps
  <1>3. /\ h[1] = g[0] /\ h[2] = g[1]
    <2>1. 0 + 1 = 1 /\ 1 + 1 = 2
      OBVIOUS
    <2> QED BY <2>1 DEF Moves
  <1>4. Brings(b.v[0], h, 1) /\ Brings(b.v[1], h, 2)
    <2>1. Brings(b.v[0], g, 0) /\ Brings(b.v[1], g, 1)
      BY <1>2 DEF Valids
    <2>2. Brings(b.v[0], h, 0 + 1) /\ Brings(b.v[1], h, 1 + 1)
      BY <1>1, <2>1, BringsStep
    <2> QED BY <2>2
  <1>5. Valids(Shift(b.v, v), 2, h, 0)
    BY <1>1, <1>2, ValidsStep
  <1>6. (IF v THEN x ELSE b.signal_with_offset) = h[0]
    BY <1>2, LoadStep
  <1>7. (IF b.v[0] THEN b.signal_with_offset ELSE b.scaled_signal) = h[1]
    BY <1>1, <1>2, <1>3, <1>4, LoadStep
  <1>8. (IF b.v[1] THEN b.scaled_signal ELSE b.fixed_in) = h[2]
    BY <1>1, <1>2, <1>3, <1>4, LoadStep
  <1> QED BY <1>4, <1>5, <1>6, <1>7, <1>8 DEF AdcEdge, AdcKeeps

LEMMA ModStep ==
  ASSUME NEW g, NEW h, Moves(g, h), NEW d \in Nat, NEW b \in ModRegs, ModKeeps(b, g, d),
         NEW v \in BOOLEAN, NEW x \in Nat, v => x = h[d], Brings(v, h, d)
  PROVE  ModKeeps(ModEdge(b, TRUE, v, x), h, d)
  <1>1. /\ b.v \in Places(ModDelay, BOOLEAN) /\ b.div \in Places(ModStages, Nat)
        /\ b.mod_numer \in Nat
    BY DEF ModRegs
  <1>2. /\ b.mod_numer = g[d] /\ Line(b.div, ModStages, g, d + 1)
        /\ b.residual_out.remain = g[d + ModDelay] /\ Valids(b.v, ModDelay, g, d)
    BY DEF ModKeeps
  <1>3. Last(b.v, ModDelay) \in BOOLEAN
    BY <1>1, ShiftFacts, Depths
  <1>4. Valids(Shift(b.v, v), ModDelay, h, d) /\ Brings(Last(b.v, ModDelay), h, d + ModDelay)
    BY <1>1, <1>2, ValidsStep, Depths
  <1>5. /\ Line(Shift(b.div, b.mod_numer), ModStages, h, d + 1)
        /\ Last(b.div, ModStages) = h[d + ModDelay]
    <2>1. b.mod_numer = h[d + 1] /\ d + 1 \in Nat
      BY <1>2 DEF Moves
    <2>2. /\ Line(Shift(b.div, b.mod_numer), ModStages, h, d + 1)
          /\ Last(b.div, ModStages) = h[d + 1 + ModStages]
      BY <1>1, <1>2, <2>1, LineStep, Depths
    <2>3. d + 1 + ModStages = d + ModDelay
      BY Depths
    <2> QED BY <2>2, <2>3
  <1>6. (IF v THEN x ELSE b.mod_numer) = h[d]
    BY <1>2, LoadStep
  <1>7. (IF Last(b.v, ModDelay) THEN Last(b.div, ModStages) ELSE b.residual_out.remain)
          = h[d + ModDelay]
    <2>1. d + ModDelay \in Nat
      BY Depths
    <2> QED BY <1>2, <1>3, <1>4, <1>5, <2>1, LoadStep
  <1>8. ModEdge(b, TRUE, v, x).residual_out.remain
          = IF Last(b.v, ModDelay) THEN Last(b.div, ModStages) ELSE b.residual_out.remain
    BY DEF ModEdge
  <1> QED BY <1>4, <1>5, <1>6, <1>7, <1>8 DEF ModEdge, ModKeeps

\* A sum that has taken every sample up to the one before takes the next.
LEMMA AddStep ==
  ASSUME NEW g, NEW h, Moves(g, h), NEW d \in Nat, NEW s \in Sum,
         s.last = g[d], s.exact,
         NEW v \in BOOLEAN, NEW x, v => x = h[d], Brings(v, h, d),
         NEW t, t = IF v THEN Add(s, x) ELSE s
  PROVE  t.last = h[d] /\ t.exact
  <1>1. h[d + 1] = s.last
    BY DEF Moves
  <1>2. CASE v
    <2>1. Follows(s, x)
      BY <1>1, <1>2 DEF Brings, Follows
    <2> QED BY <1>2, <2>1 DEF Add
  <1>3. CASE ~v
    <2>1. h[d] = s.last
      BY <1>1, <1>3 DEF Brings
    <2> QED BY <1>3, <2>1
  <1> QED BY <1>2, <1>3

LEMMA AntiStep ==
  ASSUME NEW g, NEW h, Moves(g, h), NEW d \in Nat, NEW b \in AntiRegs, AntiKeeps(b, g, d),
         NEW v \in BOOLEAN, NEW x \in Nat, v => x = h[d], Brings(v, h, d)
  PROVE  AntiKeeps(AntiEdge(b, TRUE, v, x), h, d)
  <1> DEFINE c == AntiEdge(b, TRUE, v, x)
             last == b.residual.last
  <1>1. /\ b.v \in Places(AntiDelay, BOOLEAN) /\ b.div \in Places(AntiStages, Nat)
        /\ b.residual \in Sum /\ b.numer \in Nat /\ last \in Nat
    BY DEF AntiRegs, Sum
  <1>2. /\ last = g[d] /\ b.residual.exact
        /\ b.numer = g[d + 1] /\ Line(b.div, AntiStages, g, d + 2)
        /\ b.residual_out = g[d + AntiDelay] /\ Valids(b.v, AntiDelay, g, d)
    BY DEF AntiKeeps
  <1>3. /\ c.v = Shift(b.v, v) /\ c.valid_out = Last(b.v, AntiDelay)
        /\ c.residual = (IF v THEN Add(b.residual, x) ELSE b.residual)
        /\ c.numer = (IF b.v[0] THEN last ELSE b.numer)
        /\ c.div = Shift(b.div, b.numer)
        /\ c.residual_out = (IF Last(b.v, AntiDelay) THEN Last(b.div, AntiStages)
                                                     ELSE b.residual_out)
    BY DEF AntiEdge, AntiData, AntiValid, AntiRegs
  <1> HIDE DEF c, last
  <1>4. Last(b.v, AntiDelay) \in BOOLEAN /\ b.v[0] \in BOOLEAN
    <2>1. Last(b.v, AntiDelay) \in BOOLEAN
      BY <1>1, ShiftFacts, Depths
    <2> QED BY <1>1, <2>1, Depths DEF Places
  <1>5. Valids(c.v, AntiDelay, h, d) /\ Brings(c.valid_out, h, d + AntiDelay)
    BY <1>1, <1>2, <1>3, ValidsStep, Depths
  <1>6. c.residual.last = h[d] /\ c.residual.exact
    <2>1. b.residual.last = g[d]
      BY <1>2 DEF last
    <2> QED BY <1>1, <1>2, <1>3, <2>1, AddStep
  <1>7. c.numer = h[d + 1]
    <2>1. Brings(b.v[0], g, d)
      <3>1. 0 \in 0..AntiDelay-1 /\ d + 0 = d
        BY Depths
      <3>2. Brings(b.v[0], g, d + 0)
        BY <1>2, <3>1 DEF Valids
      <3> QED BY <3>1, <3>2
    <2>2. Brings(b.v[0], h, d + 1) /\ d + 1 \in Nat
      BY <1>4, <2>1, BringsStep
    <2>3. last = h[d + 1]
      BY <1>2 DEF Moves
    <2> QED BY <1>2, <1>3, <1>4, <2>2, <2>3, LoadStep
  <1>8. Line(c.div, AntiStages, h, d + 2) /\ Last(b.div, AntiStages) = h[d + AntiDelay]
    <2>1. b.numer = h[d + 2] /\ d + 2 \in Nat
      <3>1. d + 1 \in Nat /\ d + 1 + 1 = d + 2
        OBVIOUS
      <3> QED BY <1>2, <3>1 DEF Moves
    <2>2. /\ Line(c.div, AntiStages, h, d + 2)
          /\ Last(b.div, AntiStages) = h[d + 2 + AntiStages]
      BY <1>1, <1>2, <1>3, <2>1, LineStep, Depths
    <2>3. d + 2 + AntiStages = d + AntiDelay
      BY DelayAssumption
    <2> QED BY <2>2, <2>3
  <1>9. c.residual_out = h[d + AntiDelay]
    <2>1. d + AntiDelay \in Nat
      BY Depths
    <2>2. Brings(Last(b.v, AntiDelay), h, d + AntiDelay)
      BY <1>3, <1>5
    <2> QED BY <1>2, <1>3, <1>4, <1>8, <2>1, <2>2, LoadStep
  <1>10. AntiKeeps(c, h, d)
    BY <1>5, <1>6, <1>7, <1>8, <1>9 DEF AntiKeeps
  <1> QED BY <1>10 DEF c

\* Between two enabled cycles only its valid bits move.
LEMMA AntiIdle ==
  ASSUME NEW g, NEW d \in Nat, NEW b \in AntiRegs, AntiKeeps(b, g, d),
         Drifts(g, d, AntiDelay), NEW v \in BOOLEAN, NEW x, Brings(v, g, d)
  PROVE  AntiKeeps(AntiEdge(b, FALSE, v, x), g, d)
  <1> DEFINE c == AntiEdge(b, FALSE, v, x)
             k == AntiDelay
  <1>1. /\ c.v = Shift(b.v, v) /\ c.valid_out = Last(b.v, k)
        /\ c.residual = b.residual /\ c.numer = b.numer /\ c.div = b.div
        /\ c.residual_out = b.residual_out
    BY DEF AntiEdge, AntiValid, AntiRegs
  <1>2. b.v \in Places(k, BOOLEAN) /\ \A i \in 0..k-1 : b.v[i] \in BOOLEAN
    BY DEF AntiRegs, Places
  <1>3. /\ Shift(b.v, v)[0] = v
        /\ \A i \in 1..k-1 : Shift(b.v, v)[i] = b.v[i - 1]
    BY <1>2, Depths DEF Shift, Places
  <1>4. ASSUME NEW i \in 0..k-1 PROVE Brings(b.v[i], g, d + i + 1)
    <2>1. Brings(b.v[i], g, d + i) /\ d + i \in d..d+k
      BY Depths DEF AntiKeeps, Valids
    <2> QED BY <1>2, <2>1 DEF Drifts
  <1>5. ASSUME NEW i \in 0..k-1 PROVE Brings(Shift(b.v, v)[i], g, d + i)
    <2>1. CASE i = 0
      <3>1. Shift(b.v, v)[i] = v /\ d + i = d
        BY <1>3, <2>1
      <3> QED BY <3>1
    <2>2. CASE i # 0
      <3>1. i \in 1..k-1 /\ i - 1 \in 0..k-1 /\ d + (i - 1) + 1 = d + i
        BY <2>2, Depths, DelayAssumption
      <3>2. Brings(b.v[i - 1], g, d + i)
        <4>1. Brings(b.v[i - 1], g, d + (i - 1) + 1)
          BY <1>4, <3>1
        <4> QED BY <4>1, <3>1
      <3>3. Shift(b.v, v)[i] = b.v[i - 1]
        BY <1>3, <3>1
      <3> QED BY <3>2, <3>3
    <2> QED BY <2>1, <2>2
  <1>6. Brings(c.valid_out, g, d + k)
    <2>1. k - 1 \in 0..k-1 /\ d + (k - 1) + 1 = d + k
      BY Depths, DelayAssumption
    <2>2. Brings(b.v[k - 1], g, d + (k - 1) + 1)
      BY <1>4, <2>1
    <2>3. c.valid_out = b.v[k - 1]
      BY <1>1 DEF Last
    <2>4. Brings(b.v[k - 1], g, d + k)
      BY <2>1, <2>2
    <2> QED BY <2>3, <2>4
  <1>7. Valids(c.v, k, g, d)
    BY <1>1, <1>5 DEF Valids
  <1> QED BY <1>1, <1>6, <1>7 DEF AntiKeeps

LEMMA AvgStep ==
  ASSUME NEW g, NEW h, Moves(g, h), NEW d \in Nat, NEW b \in AvgRegs, AvgKeeps(b, g, d),
         NEW v \in BOOLEAN, NEW x \in Nat, v => x = h[d], Brings(v, h, d)
  PROVE  AvgKeeps(AvgEdge(b, TRUE, v, x), h, d) /\ Brings(Last(b.v, AvgDelay), h, d + AvgDelay)
  <1> DEFINE c == AvgEdge(b, TRUE, v, x)
             last == b.sum.last
  <1>1. /\ b.v \in Places(AvgDelay, BOOLEAN) /\ b.div \in Places(AvgStages, Nat)
        /\ b.sum \in Sum /\ b.div_numer \in Nat /\ last \in Nat
    BY DEF AvgRegs, Sum
  <1>2. /\ last = g[d] /\ b.sum.exact
        /\ b.div_numer = g[d + 1] /\ Line(b.div, AvgStages, g, d + 2)
        /\ b.out_avg = g[d + AvgDelay] /\ Valids(b.v, AvgDelay, g, d)
    BY DEF AvgKeeps
  <1>3. /\ c.v = Shift(b.v, v)
        /\ c.sum = (IF v THEN Add(b.sum, x) ELSE b.sum)
        /\ c.div_numer = (IF b.v[0] THEN last ELSE b.div_numer)
        /\ c.div = Shift(b.div, b.div_numer)
        /\ c.out_avg = (IF Last(b.v, AvgDelay) THEN Last(b.div, AvgStages) ELSE b.out_avg)
    BY DEF AvgEdge, AvgData
  <1> HIDE DEF c, last
  <1>4. Last(b.v, AvgDelay) \in BOOLEAN /\ b.v[0] \in BOOLEAN
    <2>1. Last(b.v, AvgDelay) \in BOOLEAN
      BY <1>1, ShiftFacts, Depths
    <2> QED BY <1>1, <2>1, Depths DEF Places
  <1>5. Valids(c.v, AvgDelay, h, d) /\ Brings(Last(b.v, AvgDelay), h, d + AvgDelay)
    BY <1>1, <1>2, <1>3, ValidsStep, Depths
  <1>6. c.sum.last = h[d] /\ c.sum.exact
    <2>1. b.sum.last = g[d]
      BY <1>2 DEF last
    <2> QED BY <1>1, <1>2, <1>3, <2>1, AddStep
  <1>7. c.div_numer = h[d + 1]
    <2>1. Brings(b.v[0], g, d)
      <3>1. 0 \in 0..AvgDelay-1 /\ d + 0 = d
        BY Depths
      <3>2. Brings(b.v[0], g, d + 0)
        BY <1>2, <3>1 DEF Valids
      <3> QED BY <3>1, <3>2
    <2>2. Brings(b.v[0], h, d + 1) /\ d + 1 \in Nat
      BY <1>4, <2>1, BringsStep
    <2>3. last = h[d + 1]
      BY <1>2 DEF Moves
    <2> QED BY <1>2, <1>3, <1>4, <2>2, <2>3, LoadStep
  <1>8. Line(c.div, AvgStages, h, d + 2) /\ Last(b.div, AvgStages) = h[d + AvgDelay]
    <2>1. b.div_numer = h[d + 2] /\ d + 2 \in Nat
      <3>1. d + 1 \in Nat /\ d + 1 + 1 = d + 2
        OBVIOUS
      <3> QED BY <1>2, <3>1 DEF Moves
    <2>2. /\ Line(c.div, AvgStages, h, d + 2)
          /\ Last(b.div, AvgStages) = h[d + 2 + AvgStages]
      BY <1>1, <1>2, <1>3, <2>1, LineStep, Depths
    <2>3. d + 2 + AvgStages = d + AvgDelay
      BY DelayAssumption
    <2> QED BY <2>2, <2>3
  <1>9. c.out_avg = h[d + AvgDelay]
    <2>1. d + AvgDelay \in Nat
      BY Depths
    <2> QED BY <1>2, <1>3, <1>4, <1>5, <1>8, <2>1, LoadStep
  <1>10. AvgKeeps(c, h, d)
    BY <1>5, <1>6, <1>7, <1>8, <1>9 DEF AvgKeeps
  <1> QED BY <1>5, <1>10 DEF c

-----------------------------------------------------------------------------
(* After a reset nothing has come.                                         *)

LEMMA ZeroBrings ==
  ASSUME NEW g, \A e \in Nat : g[e] = 0, NEW d \in Nat, NEW v \in BOOLEAN
  PROVE  Brings(v, g, d)
  BY DEF Brings

LEMMA ZeroLine ==
  ASSUME NEW g, \A e \in Nat : g[e] = 0, NEW d \in Nat, NEW k \in Nat \ {0}
  PROVE  Line(Filled(k, 0), k, g, d) /\ Valids(Filled(k, FALSE), k, g, d)
  <1>1. ASSUME NEW i \in 0..k-1
        PROVE  Filled(k, 0)[i] = 0 /\ Filled(k, FALSE)[i] = FALSE /\ d + i \in Nat
    BY DEF Filled
  <1>2. \A i \in 0..k-1 : Brings(FALSE, g, d + i)
    BY <1>1 DEF Brings
  <1> QED BY <1>1, <1>2 DEF Line, Valids

LEMMA ZeroKeeps ==
  ASSUME NEW g, \A e \in Nat : g[e] = 0, NEW d \in Nat
  PROVE  /\ AdcKeeps(AdcReset, g) /\ ModKeeps(ModReset, g, d)
         /\ AntiKeeps(AntiReset, g, d) /\ AvgKeeps(AvgReset, g, d)
  <1>1. /\ d + 1 \in Nat /\ d + 2 \in Nat
        /\ d + ModDelay \in Nat /\ d + AntiDelay \in Nat /\ d + AvgDelay \in Nat
    BY Depths, DelayAssumption
  <1>2. /\ Valids(Filled(2, FALSE), 2, g, 0)
        /\ Valids(Filled(ModDelay, FALSE), ModDelay, g, d)
        /\ Valids(Filled(AntiDelay, FALSE), AntiDelay, g, d)
        /\ Valids(Filled(AvgDelay, FALSE), AvgDelay, g, d)
    BY ZeroLine, Depths
  <1>3. /\ Line(Filled(ModStages, 0), ModStages, g, d + 1)
        /\ Line(Filled(AntiStages, 0), AntiStages, g, d + 2)
        /\ Line(Filled(AvgStages, 0), AvgStages, g, d + 2)
    BY <1>1, ZeroLine, Depths
  <1>4. /\ Brings(FALSE, g, 2) /\ Brings(FALSE, g, d + ModDelay)
        /\ Brings(FALSE, g, d + AntiDelay)
    BY <1>1, ZeroBrings
  <1> QED BY <1>1, <1>2, <1>3, <1>4
          DEF AdcKeeps, AdcReset, ModKeeps, ModReset, AntiKeeps, AntiReset,
              AvgKeeps, AvgReset, EmptySum

-----------------------------------------------------------------------------
(* Lines of valid bits among those allowed.                                *)

LEMMA AmongStep ==
  ASSUME NEW q, NEW r, Moves(q, r), NEW d \in Nat, NEW k \in Nat \ {0},
         NEW f \in Places(k, BOOLEAN), NEW v \in BOOLEAN, v \in r[d], Among(f, k, q, d)
  PROVE  Among(Shift(f, v), k, r, d) /\ Last(f, k) \in r[d + k]
  <1>1. /\ Shift(f, v)[0] = v
        /\ \A i \in 1..k-1 : Shift(f, v)[i] = f[i - 1]
    BY ShiftFacts
  <1>2. ASSUME NEW i \in 0..k-1 PROVE f[i] \in r[d + i + 1]
    <2>1. f[i] \in q[d + i] /\ d + i \in Nat
      BY DEF Among
    <2> QED BY <2>1 DEF Moves
  <1>3. ASSUME NEW i \in 0..k-1 PROVE Shift(f, v)[i] \in r[d + i]
    <2>1. CASE i = 0
      <3>1. Shift(f, v)[i] = v /\ d + i = d
        BY <1>1, <2>1
      <3> QED BY <3>1
    <2>2. CASE i # 0
      <3>1. i \in 1..k-1 /\ i - 1 \in 0..k-1 /\ d + (i - 1) + 1 = d + i
        BY <2>2
      <3>2. f[i - 1] \in r[d + (i - 1) + 1]
        BY <1>2, <3>1
      <3>3. Shift(f, v)[i] = f[i - 1]
        BY <1>1, <3>1
      <3> QED BY <3>1, <3>2, <3>3
    <2> QED BY <2>1, <2>2
  <1>4. k - 1 \in 0..k-1 /\ d + (k - 1) + 1 = d + k
    OBVIOUS
  <1>5. f[k - 1] \in r[d + (k - 1) + 1]
    BY <1>2, <1>4
  <1> QED BY <1>3, <1>4, <1>5 DEF Among, Last

LEMMA AmongIdle ==
  ASSUME NEW q, NEW d \in Nat, NEW k \in Nat \ {0},
         \A e \in d..d+k, b \in BOOLEAN : b \in q[e] => b \in q[e + 1],
         NEW f \in Places(k, BOOLEAN), NEW v \in BOOLEAN, v \in q[d], Among(f, k, q, d)
  PROVE  Among(Shift(f, v), k, q, d) /\ Last(f, k) \in q[d + k]
  <1>1. /\ Shift(f, v)[0] = v
        /\ \A i \in 1..k-1 : Shift(f, v)[i] = f[i - 1]
    BY ShiftFacts
  <1>2. ASSUME NEW i \in 0..k-1 PROVE f[i] \in q[d + i + 1]
    <2>1. f[i] \in q[d + i] /\ d + i \in d..d+k /\ f[i] \in BOOLEAN
      BY DEF Among, Places
    <2> QED BY <2>1
  <1>3. ASSUME NEW i \in 0..k-1 PROVE Shift(f, v)[i] \in q[d + i]
    <2>1. CASE i = 0
      <3>1. Shift(f, v)[i] = v /\ d + i = d
        BY <1>1, <2>1
      <3> QED BY <3>1
    <2>2. CASE i # 0
      <3>1. i \in 1..k-1 /\ i - 1 \in 0..k-1 /\ d + (i - 1) + 1 = d + i
        BY <2>2
      <3>2. f[i - 1] \in q[d + (i - 1) + 1]
        BY <1>2, <3>1
      <3>3. Shift(f, v)[i] = f[i - 1]
        BY <1>1, <3>1
      <3> QED BY <3>1, <3>2, <3>3
    <2> QED BY <2>1, <2>2
  <1>4. k - 1 \in 0..k-1 /\ d + (k - 1) + 1 = d + k
    OBVIOUS
  <1>5. f[k - 1] \in q[d + (k - 1) + 1]
    BY <1>2, <1>4
  <1> QED BY <1>3, <1>4, <1>5 DEF Among, Last
=============================================================================
