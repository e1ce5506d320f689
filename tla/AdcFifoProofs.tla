--------------------------- MODULE AdcFifoProofs ---------------------------
(***************************************************************************)
(* Theorems about the ADC controller of AdcFifo, for every depth of the    *)
(* FIFO, every number of readings, every synchroniser and conversion       *)
(* length, and every bus master.                                           *)
(***************************************************************************)
EXTENDS AdcFifo, TLAPS

(* What a step does to the groups of variables a branch leaves alone.      *)
USE DEF hwvars, bus, rd, ctl, spi, ptrs

LEMMA ZeroEntry == Zero \in Entry
BY DEF Zero, Entry

LEMMA FifoInEntry == TypeOK => fifo_in \in Entry
BY DEF TypeOK, fifo_in, Entry

-----------------------------------------------------------------------------
(* Type correctness.                                                       *)

LEMMA InitType == HwInit => TypeOK
<1> SUFFICES ASSUME HwInit PROVE TypeOK
  OBVIOUS
<1>1. tick \in 0..TDone /\ measure_count \in 0..MaxNum /\ sess \in 0..MaxSess
      /\ measure_fifo_num \in 0..MaxNum /\ rdclk \in 0..2
  BY ConstantsAssumption DEF HwInit
<1>2. ram \in [0..Depth-1 -> Entry] /\ sync \in [1..SyncLag -> Nat]
  BY ZeroEntry DEF HwInit
<1> QED BY <1>1, <1>2, ZeroEntry DEF HwInit, TypeOK

LEMMA FifoEdgeType ==
  ASSUME TypeOK, FifoEdge
  PROVE  /\ ram' \in [0..Depth-1 -> Entry]
         /\ wrptr' \in Nat /\ rdptr' \in Nat /\ ws_rdptr' \in Nat
         /\ sync' \in [1..SyncLag -> Nat]
<1>1. ram' \in [0..Depth-1 -> Entry] /\ wrptr' \in Nat
  BY FifoInEntry DEF FifoEdge, TypeOK
<1>2. rdptr' \in Nat /\ ws_rdptr' \in Nat
  BY DEF FifoEdge, TypeOK
<1>3. sync' \in [1..SyncLag -> Nat]
  <2> SUFFICES ASSUME NEW j \in 1..SyncLag
               PROVE  (IF j = 1 THEN wrptr ELSE sync[j - 1]) \in Nat
    BY DEF FifoEdge
  <2>1. j # 1 => j - 1 \in 1..SyncLag
    BY ConstantsAssumption
  <2> QED BY <2>1 DEF TypeOK
<1> QED BY <1>1, <1>2, <1>3

LEMMA EdgeCommonType ==
  ASSUME TypeOK, EdgeCommon
  PROVE  /\ measure_fifo_start' \in BOOLEAN /\ measure_fifo_num' \in 0..MaxNum
         /\ measure_fifo_ch' \in Channels
         /\ slave_readdata' \in Entry /\ slave_status' \in BOOLEAN /\ rdclk' \in 0..2
         /\ pre_measure_fifo_start' \in BOOLEAN
         /\ ram' \in [0..Depth-1 -> Entry]
         /\ wrptr' \in Nat /\ rdptr' \in Nat /\ ws_rdptr' \in Nat
         /\ sync' \in [1..SyncLag -> Nat]
         /\ DEC' \in BOOLEAN /\ sess' \in 0..MaxSess
BY FifoEdgeType DEF TypeOK, EdgeCommon

LEMMA SpiRunType ==
  ASSUME TypeOK, SpiRun
  PROVE  /\ pre_measure_start' \in BOOLEAN /\ tick' \in 0..TDone
         /\ measure_done' \in BOOLEAN /\ config_cmd' \in Channels
         /\ read_data' \in Entry /\ chip_ch' \in Channels \cup {NoCh}
         /\ samp' \in Entry
<1>1. tick' \in 0..TDone
  BY ConstantsAssumption DEF TypeOK, SpiRun
<1>2. measure_done' \in BOOLEAN
  BY DEF TypeOK, SpiRun
<1> QED BY <1>1, <1>2 DEF TypeOK, SpiRun

LEMMA SpiBeginType ==
  ASSUME TypeOK, SpiBegin
  PROVE  /\ pre_measure_start' \in BOOLEAN /\ tick' \in 0..TDone
         /\ measure_done' \in BOOLEAN /\ config_cmd' \in Channels
         /\ read_data' \in Entry /\ chip_ch' \in Channels \cup {NoCh}
         /\ samp' \in Entry
<1>1. chip_ch' \in Channels \cup {NoCh}
  BY DEF TypeOK, SpiBegin
<1>2. tick' \in 0..TDone
  BY ConstantsAssumption DEF SpiBegin
<1>3. samp' \in Entry
  <2>1. sess \in Nat /\ conv \in Nat /\ DEC \in BOOLEAN
    BY ConstantsAssumption DEF TypeOK
  <2> QED BY <1>1, <2>1 DEF SpiBegin, Entry
<1> QED BY <1>1, <1>2, <1>3, ZeroEntry DEF TypeOK, SpiBegin

LEMMA AdcEdgeType == TypeOK /\ AdcEdge => TypeOK'
<1> SUFFICES ASSUME TypeOK, AdcEdge PROVE TypeOK'
  OBVIOUS
<1>1. CASE HoldReset
  BY <1>1, EdgeCommonType, SpiRunType DEF TypeOK, HoldReset
<1>2. CASE BeginConversion
  BY <1>2, EdgeCommonType, SpiBeginType DEF TypeOK, BeginConversion
<1>3. CASE AwaitConversion
  BY <1>3, EdgeCommonType, SpiRunType DEF TypeOK, AwaitConversion, Waiting
<1>4. CASE DropDummy
  BY <1>4, EdgeCommonType, SpiRunType DEF TypeOK, DropDummy, Waiting
<1>5. CASE CountReading
  <2>1. measure_count' \in 0..MaxNum
    BY <1>5, ConstantsAssumption DEF TypeOK, CountReading, MoreWanted
  <2> QED BY <1>5, <2>1, EdgeCommonType, SpiRunType DEF TypeOK, CountReading, Waiting
<1>6. CASE Finish
  BY <1>6, EdgeCommonType, SpiRunType DEF TypeOK, Finish, Waiting
<1>7. CASE Rest
  BY <1>7, EdgeCommonType, SpiRunType DEF TypeOK, Rest
<1> QED BY <1>1, <1>2, <1>3, <1>4, <1>5, <1>6, <1>7 DEF AdcEdge

LEMMA StepType == TypeOK /\ [Next]_hwvars => TypeOK'
<1> SUFFICES ASSUME TypeOK, [Next]_hwvars PROVE TypeOK'
  OBVIOUS
<1>1. ASSUME NEW c \in Channels, NEW s \in BOOLEAN, WriteStart(c, s) PROVE TypeOK'
  <2>1. CASE s /\ ~measure_fifo_start /\ ~pre_measure_fifo_start
    <3>1. sess' \in 0..MaxSess /\ measure_count' \in 0..MaxNum
      BY <1>1, <2>1, ConstantsAssumption DEF TypeOK, WriteStart, AsyncReset
    <3>2. sync' \in [1..SyncLag -> Nat]
      BY <1>1, <2>1 DEF WriteStart, AsyncReset
    <3>3. /\ measure_start' \in BOOLEAN /\ config_first' \in BOOLEAN
          /\ measure_fifo_done' \in BOOLEAN /\ wait_measure_done' \in BOOLEAN
          /\ DEC_triggered' \in BOOLEAN /\ pre_measure_done' \in BOOLEAN
      BY <1>1, <2>1, Zenon DEF WriteStart, AsyncReset
    <3>4. wrptr' \in Nat /\ rdptr' \in Nat /\ ws_rdptr' \in Nat /\ conv' \in Nat
      BY <1>1, <2>1 DEF WriteStart, AsyncReset
    <3> QED BY <1>1, <3>1, <3>2, <3>3, <3>4 DEF TypeOK, WriteStart
  <2>2. CASE ~(s /\ ~measure_fifo_start /\ ~pre_measure_fifo_start)
    BY <1>1, <2>2 DEF TypeOK, WriteStart
  <2> QED BY <2>1, <2>2
<1>2. ASSUME NEW n \in 0..MaxNum, WriteNum(n) PROVE TypeOK'
  BY <1>2 DEF TypeOK, WriteNum
<1>3. CASE ReadStatus
  BY <1>3 DEF TypeOK, ReadStatus
<1>4. CASE ReadCapture
  <2>1. rdptr % Depth \in 0..Depth-1
    BY ConstantsAssumption DEF TypeOK
  <2> QED BY <1>4, <2>1 DEF TypeOK, ReadCapture, fifo_q
<1>5. CASE ReadPop
  <2>1. rdptr % Depth \in 0..Depth-1
    BY ConstantsAssumption DEF TypeOK
  <2>2. slave_readdata' \in Entry
    BY <1>5, <2>1 DEF TypeOK, ReadPop, fifo_q
  <2> QED BY <1>5, <2>2 DEF TypeOK, ReadPop
<1>6. CASE SlaveReset
  <2>1. measure_fifo_start' \in BOOLEAN
    BY <1>6, Zenon DEF SlaveReset
  <2>2. rdclk' \in 0..2
    BY <1>6 DEF SlaveReset
  <2> QED BY <1>6, <2>1, <2>2 DEF TypeOK, SlaveReset
<1>7. CASE AdcEdge
  BY <1>7, AdcEdgeType
<1>8. CASE DecChange
  <2>1. DEC' \in BOOLEAN
    BY <1>8 DEF DecChange
  <2> QED BY <1>8, <2>1 DEF TypeOK, DecChange
<1>9. CASE UNCHANGED hwvars
  BY <1>9 DEF TypeOK
<1> QED BY <1>1, <1>2, <1>3, <1>4, <1>5, <1>6, <1>7, <1>8, <1>9 DEF Next

\* Every register of the controller keeps its type: in particular the count of
\* readings never passes the largest number a master asks for.
THEOREM TypeCorrect == Spec => []TypeOK
<1>1. HwInit => TypeOK
  BY InitType
<1>2. TypeOK /\ [Next]_hwvars => TypeOK'
  BY StepType
<1> QED BY <1>1, <1>2, PTL DEF Spec

-----------------------------------------------------------------------------
(* The parts of the inductive invariant, one lemma per part.               *)

\* What the bus side leaves alone.
LEMMA BusKeeps ==
  ASSUME \/ \E c \in Channels, s \in BOOLEAN : WriteStart(c, s)
         \/ \E n \in 0..MaxNum : WriteNum(n)
         \/ ReadStatus \/ ReadCapture \/ ReadPop \/ SlaveReset \/ DecChange
         \/ UNCHANGED hwvars
  PROVE  UNCHANGED <<spi, ram>>
BY DEF WriteStart, WriteNum, ReadStatus, ReadCapture, ReadPop, SlaveReset, DecChange

\* ... and, short of a start pulse, the whole session.
LEMMA NoPulseKeeps ==
  ASSUME \/ \E n \in 0..MaxNum : WriteNum(n)
         \/ ReadStatus \/ ReadCapture \/ ReadPop \/ SlaveReset \/ DecChange
         \/ UNCHANGED hwvars
  PROVE  UNCHANGED <<ctl, wrptr, spi, ram, sess, conv>>
BY DEF WriteNum, ReadStatus, ReadCapture, ReadPop, SlaveReset, DecChange

LEMMA PulseOrKeeps ==
  ASSUME NEW c, NEW s, WriteStart(c, s)
  PROVE  \/ /\ sess' = sess + 1 /\ conv' = 0 /\ AsyncReset
         \/ UNCHANGED <<ctl, wrptr, sess, conv>>
BY DEF WriteStart

\* An edge either begins a conversion or lets the engine run.
LEMMA EdgeSpi ==
  ASSUME AdcEdge
  PROVE  BeginConversion \/ SpiRun
BY DEF AdcEdge, HoldReset, AwaitConversion, DropDummy, CountReading, Finish, Rest

LEMMA EdgeHasCommon ==
  ASSUME AdcEdge
  PROVE  EdgeCommon
BY DEF AdcEdge, HoldReset, BeginConversion, AwaitConversion, DropDummy,
       CountReading, Finish, Rest

LEMMA StepResetHeld == TypeOK /\ ResetHeld /\ [Next]_hwvars => ResetHeld'
<1> SUFFICES ASSUME TypeOK, ResetHeld, [Next]_hwvars, AdcReset'
             PROVE  /\ config_first' /\ ~wait_measure_done' /\ ~measure_fifo_done'
                    /\ ~measure_start' /\ ~pre_measure_done' /\ sess' > 0
  BY DEF ResetHeld
<1>1. ASSUME NEW c \in Channels, NEW s \in BOOLEAN, WriteStart(c, s)
      PROVE  /\ config_first' /\ ~wait_measure_done' /\ ~measure_fifo_done'
             /\ ~measure_start' /\ ~pre_measure_done' /\ sess' > 0
  <2>1. CASE s /\ ~measure_fifo_start /\ ~pre_measure_fifo_start
    BY <1>1, <2>1 DEF TypeOK, WriteStart, AsyncReset
  <2>2. CASE ~(s /\ ~measure_fifo_start /\ ~pre_measure_fifo_start)
    BY <1>1, <2>2 DEF WriteStart, AdcReset, ResetHeld
  <2> QED BY <2>1, <2>2
<1>2. ~SlaveReset
  BY DEF SlaveReset, AdcReset
<1>3. ~AdcEdge
  <2> SUFFICES ASSUME AdcEdge PROVE FALSE
    OBVIOUS
  <2>1. pre_measure_fifo_start' = measure_fifo_start
        /\ measure_fifo_start' = measure_fifo_start
    BY EdgeHasCommon DEF EdgeCommon
  <2> QED BY <2>1 DEF AdcReset, TypeOK
<1>4. ASSUME \/ \E n \in 0..MaxNum : WriteNum(n)
             \/ ReadStatus \/ ReadCapture \/ ReadPop \/ DecChange \/ UNCHANGED hwvars
      PROVE  /\ config_first' /\ ~wait_measure_done' /\ ~measure_fifo_done'
             /\ ~measure_start' /\ ~pre_measure_done' /\ sess' > 0
  <2>1. UNCHANGED <<measure_fifo_start, pre_measure_fifo_start>>
    BY <1>4 DEF WriteNum, ReadStatus, ReadCapture, ReadPop, DecChange
  <2>2. UNCHANGED <<ctl, sess>>
    BY <1>4, NoPulseKeeps
  <2> QED BY <2>1, <2>2 DEF AdcReset, ResetHeld
<1> QED BY <1>1, <1>2, <1>3, <1>4 DEF Next

LEMMA StepEngine == TypeOK /\ EngineInv /\ [Next]_hwvars => EngineInv'
<1> SUFFICES ASSUME TypeOK, EngineInv, [Next]_hwvars PROVE EngineInv'
  OBVIOUS
<1>1. CASE AdcEdge
  <2>1. CASE BeginConversion
    BY <2>1, ConstantsAssumption DEF BeginConversion, SpiBegin, EngineInv
  <2>2. CASE SpiRun
    BY <2>2, ConstantsAssumption DEF SpiRun, EngineInv, TypeOK
  <2> QED BY <1>1, <2>1, <2>2, EdgeSpi
<1>2. CASE UNCHANGED <<spi, ram>>
  BY <1>2 DEF EngineInv
<1> QED BY <1>1, <1>2, BusKeeps DEF Next

\* The branches of an edge other than the one that begins a conversion.
LEMMA EdgeKeepsSample ==
  ASSUME AdcEdge, ~BeginConversion
  PROVE  UNCHANGED <<sess, conv, samp, DEC_triggered>>
BY DEF AdcEdge, HoldReset, AwaitConversion, DropDummy, CountReading, Finish, Rest,
       Waiting, SpiRun, EdgeCommon

LEMMA StepSample ==
  TypeOK /\ (sess > 0 => SampleInv) /\ [Next]_hwvars => (sess > 0 => SampleInv)'
<1> SUFFICES ASSUME TypeOK, sess > 0 => SampleInv, [Next]_hwvars, (sess > 0)'
             PROVE  SampleInv'
  OBVIOUS
<1>1. CASE AdcEdge
  <2>1. CASE BeginConversion
    <3>1. samp' = [sess |-> sess, conv |-> conv, ch |-> chip_ch',
                   high |-> DEC, is400 |-> FALSE]
      BY <2>1 DEF BeginConversion, SpiBegin
    <3>2. sess' = sess /\ conv' = conv + 1 /\ DEC_triggered' = DEC
      BY <2>1 DEF BeginConversion, EdgeCommon
    <3> QED BY <3>1, <3>2 DEF SampleInv, TypeOK
  <2>2. CASE ~BeginConversion
    BY <1>1, <2>2, EdgeKeepsSample DEF SampleInv
  <2> QED BY <2>1, <2>2
<1>2. ASSUME NEW c \in Channels, NEW s \in BOOLEAN, WriteStart(c, s)
      PROVE  SampleInv'
  <2>1. samp' = samp
    BY <1>2 DEF WriteStart
  <2> QED BY <1>2, <2>1, PulseOrKeeps DEF SampleInv
<1>3. CASE UNCHANGED <<ctl, wrptr, spi, ram, sess, conv>>
  BY <1>3 DEF SampleInv
<1> QED BY <1>1, <1>2, <1>3, NoPulseKeeps DEF Next

-----------------------------------------------------------------------------
(* Where the controller is in its session, and so how many words it has    *)
(* stored.                                                                 *)

LEMMA SmallMod == ASSUME NEW d \in Nat \ {0}, NEW a \in 0..d-1 PROVE a % d = a
OBVIOUS

\* The word of a real conversion finds room if no more are counted than there is.
LEMMA ReadingStores ==
  ASSUME TypeOK, AllStored, measure_count <= Depth, InReading, measure_done, EdgeCommon
  PROVE  /\ wrptr \in 0..Depth-1
         /\ wrptr' = wrptr + 1
         /\ ram' = [ram EXCEPT ![wrptr] = fifo_in]
<1>1. fifo_wrreq
  BY DEF InReading, fifo_wrreq
<1>2. wrptr \in 0..Depth-1
  BY ConstantsAssumption DEF InReading, AllStored, TypeOK
<1>3. ~wrfull
  BY <1>2, ConstantsAssumption DEF wrfull, TypeOK
<1>4. wrptr % Depth = wrptr
  BY <1>2, SmallMod, ConstantsAssumption
<1> QED BY <1>1, <1>2, <1>3, <1>4 DEF EdgeCommon, FifoEdge

LEMMA AtMostOneStored ==
  ASSUME TypeOK, EdgeCommon
  PROVE  wrptr' \in {wrptr, wrptr + 1}
BY DEF EdgeCommon, FifoEdge

\* In a session that is past its reset, each branch of the controller is taken
\* from the phases that its condition names, and stores a word or not.
LEMMA StepPhasesEdge ==
  ASSUME TypeOK, ResetHeld, EngineInv, sess > 0, Phases, AdcEdge
  PROVE  Phases'
<1>1. CASE HoldReset
  <2>1. Restarted
    BY <1>1 DEF HoldReset, ResetHeld, Phases, Restarted, InDummy, DummyDropped,
                Between, InReading, Finished
  <2>2. wrptr' = wrptr
    BY <1>1, <2>1 DEF HoldReset, EdgeCommon, FifoEdge, fifo_wrreq, Restarted
  <2>3. Restarted'
    BY <1>1, <2>1, <2>2 DEF HoldReset, Restarted
  <2> QED BY <2>3 DEF Phases
<1>2. CASE BeginConversion
  <2>1. Restarted \/ Between
    BY <1>2 DEF BeginConversion, Idle, Phases, Restarted, InDummy, DummyDropped,
                Between, InReading, Finished
  <2>2. wrptr' = wrptr
    BY <1>2, <2>1 DEF BeginConversion, EdgeCommon, FifoEdge, fifo_wrreq,
                      Restarted, Between
  <2>3. Restarted => InDummy'
    BY <1>2, <2>2 DEF BeginConversion, Restarted, InDummy
  <2>4. Between => InReading'
    BY <1>2, <2>2 DEF BeginConversion, SpiBegin, Between, InReading
  <2> QED BY <2>1, <2>3, <2>4 DEF Phases
<1>3. CASE AwaitConversion
  <2>1. InDummy \/ InReading
    BY <1>3 DEF AwaitConversion, Waiting, Phases, Restarted, InDummy, DummyDropped,
                Between, InReading, Finished
  <2>2. wrptr' = wrptr
    BY <1>3 DEF AwaitConversion, EdgeCommon, FifoEdge, fifo_wrreq
  <2>3. InDummy => InDummy'
    BY <1>3, <2>2 DEF AwaitConversion, Waiting, InDummy
  <2>4. InReading => InReading'
    BY <1>3, <2>2 DEF AwaitConversion, Waiting, InReading
  <2> QED BY <2>1, <2>3, <2>4 DEF Phases
<1>4. CASE DropDummy
  <2>1. InDummy
    BY <1>4 DEF DropDummy, Waiting, Phases, Restarted, InDummy, DummyDropped,
                Between, InReading, Finished
  <2>2. wrptr' = wrptr
    BY <1>4 DEF DropDummy, EdgeCommon, FifoEdge, fifo_wrreq
  <2>3. measure_done'
    BY <1>4 DEF DropDummy, SpiRun
  <2>4. DummyDropped'
    BY <1>4, <2>1, <2>2, <2>3 DEF DropDummy, Waiting, InDummy, DummyDropped
  <2> QED BY <2>4 DEF Phases
<1>5. CASE CountReading
  <2>1. DummyDropped \/ InReading \/ Finished
    BY <1>5 DEF CountReading, Waiting, Phases, Restarted, InDummy, DummyDropped,
                Between, InReading, Finished
  <2>2. measure_done' /\ pre_measure_done' /\ ~measure_start'
    BY <1>5 DEF CountReading, Waiting, SpiRun
  <2>3. DummyDropped => Between'
    BY <1>5, <2>2 DEF CountReading, Waiting, EdgeCommon, FifoEdge, fifo_wrreq,
                      DummyDropped, Between
  <2>4. wrptr' \in Nat /\ wrptr' <= wrptr + 1
    BY <1>5, AtMostOneStored DEF CountReading, TypeOK
  <2>5. InReading => Between'
    BY <1>5, <2>2, <2>4 DEF CountReading, Waiting, InReading, Between, TypeOK
  <2>6. Finished => Finished'
    BY <1>5, <2>2 DEF CountReading, Waiting, EdgeCommon, FifoEdge, fifo_wrreq,
                      Finished, TypeOK
  <2> QED BY <2>1, <2>3, <2>5, <2>6 DEF Phases
<1>6. CASE Finish
  <2>1. DummyDropped \/ InReading \/ Finished
    BY <1>6 DEF Finish, Waiting, Phases, Restarted, InDummy, DummyDropped,
                Between, InReading, Finished
  <2>2. measure_done' /\ pre_measure_done' /\ ~measure_start'
    BY <1>6 DEF Finish, Waiting, SpiRun
  <2>3. DummyDropped \/ Finished => wrptr' = wrptr
    BY <1>6 DEF Finish, EdgeCommon, FifoEdge, fifo_wrreq, DummyDropped, Finished
  <2>4. wrptr' \in Nat /\ wrptr' <= wrptr + 1
    BY <1>6, AtMostOneStored DEF Finish, TypeOK
  <2>5. wrptr' <= measure_count'
    BY <1>6, <2>1, <2>3, <2>4 DEF Finish, DummyDropped, InReading, Finished, TypeOK
  <2>6. Finished'
    BY <1>6, <2>2, <2>5 DEF Finish, Finished
  <2> QED BY <2>6 DEF Phases
<1>7. CASE Rest
  <2>1. Finished
    BY <1>7 DEF Rest, Idle, Phases, Restarted, InDummy, DummyDropped,
                Between, InReading, Finished
  <2>2. measure_done' /\ pre_measure_done'
    BY <1>7, <2>1 DEF Rest, SpiRun, Finished
  <2>3. Finished'
    BY <1>7, <2>1, <2>2 DEF Rest, EdgeCommon, FifoEdge, fifo_wrreq, Finished
  <2> QED BY <2>3 DEF Phases
<1> QED BY <1>1, <1>2, <1>3, <1>4, <1>5, <1>6, <1>7 DEF AdcEdge

LEMMA StepStoredEdge ==
  ASSUME TypeOK, ResetHeld, EngineInv, sess > 0, Phases, AllStored, AdcEdge
  PROVE  AllStored'
<1> SUFFICES ASSUME measure_count' \in 1..Depth, ~measure_fifo_done'
             PROVE  wrptr' = measure_count' - 1
  BY DEF AllStored
<1>1. CASE CountReading
  <2>1. measure_count' = measure_count + 1 /\ ~measure_fifo_done /\ measure_done
        /\ EdgeCommon
    BY <1>1 DEF CountReading, Waiting
  <2>2. DummyDropped \/ InReading
    BY <1>1, <2>1 DEF CountReading, Waiting, Phases, Restarted, InDummy, DummyDropped,
                      Between, InReading, Finished
  <2>3. CASE DummyDropped
    <3>1. wrptr' = wrptr
      BY <2>1, <2>3 DEF EdgeCommon, FifoEdge, fifo_wrreq, DummyDropped
    <3> QED BY <2>1, <2>3, <3>1 DEF DummyDropped
  <2>4. CASE InReading
    <3>1. measure_count \in 1..Depth
      BY <2>1, <2>4, ConstantsAssumption DEF InReading, TypeOK
    <3>2. wrptr' = wrptr + 1
      BY <2>1, <2>4, <3>1, ReadingStores
    <3> QED BY <2>1, <3>1, <3>2 DEF AllStored, TypeOK
  <2> QED BY <2>2, <2>3, <2>4
<1>2. CASE ~CountReading
  <2>1. measure_count' = measure_count /\ ~Finish /\ ~measure_fifo_done
    BY <1>2 DEF AdcEdge, HoldReset, BeginConversion, AwaitConversion, DropDummy,
                Finish, Rest
  <2>2. Between \/ InReading
    BY <2>1 DEF Phases, Restarted, InDummy, DummyDropped, Finished
  <2>3. BeginConversion \/ AwaitConversion
    BY <1>2, <2>1, <2>2 DEF AdcEdge, HoldReset, ResetHeld, DropDummy, Rest, Idle, Between,
                            InReading
  <2>4. ~fifo_wrreq /\ EdgeCommon
    BY <2>2, <2>3 DEF BeginConversion, AwaitConversion, Idle, Between, InReading, fifo_wrreq
  <2>5. wrptr' = wrptr
    BY <2>4 DEF EdgeCommon, FifoEdge
  <2> QED BY <2>1, <2>5 DEF AllStored
<1> QED BY <1>1, <1>2

LEMMA StepPhases ==
  ASSUME TypeOK, ResetHeld, EngineInv,
         sess > 0 => Phases /\ AllStored, [Next]_hwvars, sess' > 0
  PROVE  Phases' /\ AllStored'
<1>1. CASE AdcEdge
  <2>1. sess > 0
    BY <1>1, EdgeHasCommon DEF EdgeCommon
  <2> QED BY <1>1, <2>1, StepPhasesEdge, StepStoredEdge
<1>2. ASSUME NEW c \in Channels, NEW s \in BOOLEAN, WriteStart(c, s)
      PROVE  Phases' /\ AllStored'
  <2>1. CASE sess' = sess + 1 /\ conv' = 0 /\ AsyncReset
    <3>1. Restarted'
      BY <2>1 DEF AsyncReset, Restarted
    <3> QED BY <3>1 DEF Phases, Restarted, AllStored
  <2>2. CASE UNCHANGED <<ctl, wrptr, sess, conv>>
    <3>1. measure_done' = measure_done
      BY <1>2 DEF WriteStart
    <3> QED BY <2>2, <3>1, ConstantsAssumption
            DEF Phases, Restarted, InDummy, DummyDropped, Between, InReading, Finished, AllStored
  <2> QED BY <1>2, <2>1, <2>2, PulseOrKeeps
<1>3. CASE UNCHANGED <<ctl, wrptr, spi, ram, sess, conv>>
  BY <1>3 DEF Phases, Restarted, InDummy, DummyDropped, Between, InReading, Finished, AllStored
<1> QED BY <1>1, <1>2, <1>3, NoPulseKeeps DEF Next

-----------------------------------------------------------------------------
(* What the stored words are.                                              *)

\* An edge that stores a word is in a reading, and the word is the chip's for
\* the conversion last begun, marked by the pin as it was then.
LEMMA StoredWord ==
  ASSUME TypeOK, EngineInv, SampleInv, sess > 0, Phases, AdcEdge, fifo_wrreq
  PROVE  /\ InReading /\ measure_done
         /\ fifo_in.sess = sess /\ fifo_in.conv = measure_count
         /\ fifo_in.is400 = fifo_in.high
<1>1. InReading /\ measure_done
  BY DEF fifo_wrreq, Phases, Restarted, InDummy, DummyDropped, Between, InReading,
         Finished
<1>2. read_data = samp
  BY <1>1, ConstantsAssumption DEF EngineInv
<1>3. conv > 0 /\ conv - 1 = measure_count
  BY <1>1 DEF InReading, TypeOK
<1>4. samp \in Entry
  BY DEF TypeOK
<1>5. /\ fifo_in.sess = samp.sess /\ fifo_in.conv = samp.conv
      /\ fifo_in.is400 = DEC_triggered /\ fifo_in.high = samp.high
  BY <1>2, <1>4 DEF fifo_in, Entry
<1> QED BY <1>1, <1>3, <1>5 DEF SampleInv

LEMMA StepWords ==
  ASSUME TypeOK, EngineInv, sess > 0 => SampleInv, sess > 0 => Phases /\ AllStored,
         SessionWords, [Next]_hwvars, sess' > 0, measure_count' <= Depth
  PROVE  \A a \in 0..Depth-1 : a < wrptr' =>
           /\ ram'[a].sess = sess'
           /\ ram'[a].conv = a + 1
           /\ ram'[a].is400 = ram'[a].high
<1>1. CASE AdcEdge
  <2>1. EdgeCommon /\ sess' = sess /\ measure_count <= Depth
    <3>1. measure_count' \in {measure_count, measure_count + 1}
      BY <1>1 DEF AdcEdge, HoldReset, BeginConversion, AwaitConversion, DropDummy,
                  CountReading, Finish, Rest
    <3> QED BY <1>1, <3>1, EdgeHasCommon, ConstantsAssumption DEF EdgeCommon, TypeOK
  <2>2. CASE fifo_wrreq
    <3>1. /\ InReading /\ measure_done
          /\ fifo_in.sess = sess /\ fifo_in.conv = wrptr + 1
          /\ fifo_in.is400 = fifo_in.high
      <4>1. /\ InReading /\ measure_done
            /\ fifo_in.sess = sess /\ fifo_in.conv = measure_count
            /\ fifo_in.is400 = fifo_in.high
        BY <1>1, <2>1, <2>2, StoredWord
      <4>2. measure_count \in 1..Depth /\ ~measure_fifo_done
        BY <2>1, <4>1 DEF InReading, TypeOK
      <4> QED BY <4>1, <4>2, <2>1 DEF AllStored, TypeOK
    <3>2. /\ wrptr \in 0..Depth-1 /\ wrptr' = wrptr + 1
          /\ ram' = [ram EXCEPT ![wrptr] = fifo_in]
      BY <2>1, <3>1, ReadingStores
    <3> SUFFICES ASSUME NEW a \in 0..Depth-1, a < wrptr'
                 PROVE  /\ ram'[a].sess = sess'
                        /\ ram'[a].conv = a + 1
                        /\ ram'[a].is400 = ram'[a].high
      OBVIOUS
    <3>3. CASE a = wrptr
      <4>1. ram'[a] = fifo_in
        BY <3>2, <3>3 DEF TypeOK
      <4> QED BY <2>1, <3>1, <3>3, <4>1
    <3>4. CASE a # wrptr
      <4>1. ram'[a] = ram[a] /\ a < wrptr
        BY <3>2, <3>4 DEF TypeOK
      <4> QED BY <2>1, <4>1 DEF SessionWords
    <3> QED BY <3>3, <3>4
  <2>3. CASE ~fifo_wrreq
    <3>1. ram' = ram /\ wrptr' = wrptr
      BY <2>1, <2>3 DEF EdgeCommon, FifoEdge
    <3> QED BY <2>1, <3>1 DEF SessionWords
  <2> QED BY <2>2, <2>3
<1>2. ASSUME NEW c \in Channels, NEW s \in BOOLEAN, WriteStart(c, s)
      PROVE  \A a \in 0..Depth-1 : a < wrptr' =>
               /\ ram'[a].sess = sess'
               /\ ram'[a].conv = a + 1
               /\ ram'[a].is400 = ram'[a].high
  <2>1. CASE AsyncReset
    BY <2>1, ConstantsAssumption DEF AsyncReset
  <2>2. CASE UNCHANGED <<ctl, wrptr, sess, conv>>
    <3>1. ram' = ram
      BY <1>2 DEF WriteStart
    <3> QED BY <2>2, <3>1 DEF SessionWords
  <2> QED BY <1>2, <2>1, <2>2, PulseOrKeeps
<1>3. CASE UNCHANGED <<ctl, wrptr, spi, ram, sess, conv>>
  BY <1>3 DEF SessionWords
<1> QED BY <1>1, <1>2, <1>3, NoPulseKeeps DEF Next

-----------------------------------------------------------------------------
LEMMA InitIInv == HwInit => IInv
<1> SUFFICES ASSUME HwInit PROVE IInv
  OBVIOUS
<1>1. sess = 0 /\ wrptr = 0
  BY DEF HwInit
<1>2. ResetHeld /\ EngineInv
  BY ConstantsAssumption DEF HwInit, ResetHeld, AdcReset, EngineInv
<1> QED BY <1>1, <1>2, InitType DEF IInv, SessionWords

LEMMA StepIInv == IInv /\ [Next]_hwvars => IInv'
<1> SUFFICES ASSUME IInv, [Next]_hwvars PROVE IInv'
  OBVIOUS
<1>1. TypeOK'
  BY StepType DEF IInv
<1>2. ResetHeld'
  BY StepResetHeld DEF IInv
<1>3. EngineInv'
  BY StepEngine DEF IInv
<1>4. (sess > 0 => SampleInv)'
  BY StepSample DEF IInv
<1>5. (sess > 0 => Phases /\ AllStored)'
  BY StepPhases DEF IInv
<1>6. SessionWords'
  BY StepWords DEF IInv, SessionWords
<1> QED BY <1>1, <1>2, <1>3, <1>4, <1>5, <1>6 DEF IInv

\* The FIFO holds exactly the real readings of the session in progress, in
\* order, each replaced by 400 exactly if the pin was high as it began, for
\* every bus master, every interleaving of the two clocks and every number of
\* readings, as long as those counted are not more than the FIFO's depth.
THEOREM SessionWordsHold == Spec => []SessionWords
<1>1. HwInit => IInv
  BY InitIInv
<1>2. IInv /\ [Next]_hwvars => IInv'
  BY StepIInv
<1>3. IInv => SessionWords
  BY DEF IInv
<1> QED BY <1>1, <1>2, <1>3, PTL DEF Spec

\* Done rises on the edge that stores the session's last word, when the words
\* are as many as were counted and at least as many as are asked for.
THEOREM DoneCountsWordsHolds == Spec => DoneCountsWords
<1> DEFINE Exact == ~measure_fifo_done /\ measure_fifo_done' /\ sess > 0 /\ measure_count <= Depth
                    => wrptr' = measure_count /\ wrptr' >= measure_fifo_num
<1>1. IInv /\ [Next]_hwvars => Exact
  <2> SUFFICES ASSUME IInv, [Next]_hwvars, ~measure_fifo_done, measure_fifo_done',
                      sess > 0, measure_count <= Depth
               PROVE  wrptr' = measure_count /\ wrptr' >= measure_fifo_num
    OBVIOUS
  <2>1. Finish
    <3>1. AdcEdge
      BY NoPulseKeeps, PulseOrKeeps DEF Next, AsyncReset
    <3> QED BY <3>1 DEF AdcEdge, HoldReset, BeginConversion, AwaitConversion,
                        DropDummy, CountReading, Rest
  <2>2. DummyDropped \/ InReading
    BY <2>1 DEF IInv, Finish, Waiting, Phases, Restarted, InDummy, DummyDropped,
                Between, InReading, Finished
  <2>3. DummyDropped => wrptr' = measure_count
    BY <2>1 DEF Finish, EdgeCommon, FifoEdge, fifo_wrreq, DummyDropped
  <2>4. InReading => wrptr' = measure_count
    <3> SUFFICES ASSUME InReading PROVE wrptr' = measure_count
      OBVIOUS
    <3>1. wrptr' = wrptr + 1
      BY <2>1, ReadingStores DEF Finish, IInv
    <3> QED BY <3>1 DEF InReading, AllStored, IInv, TypeOK
  <2>5. measure_count >= measure_fifo_num
    BY <2>1 DEF Finish, MoreWanted, IInv, TypeOK
  <2> QED BY <2>2, <2>3, <2>4, <2>5
<1>2. HwInit => IInv
  BY InitIInv
<1>3. IInv /\ [Next]_hwvars => IInv'
  BY StepIInv
<1>4. IInv /\ [Next]_hwvars => [Exact]_hwvars
  BY <1>1
<1> QED BY <1>2, <1>3, <1>4, PTL DEF Spec, DoneCountsWords

-----------------------------------------------------------------------------
(* The read side of the FIFO.                                              *)

LEMMA DivisionFacts ==
  ASSUME NEW D \in Nat \ {0}, NEW a \in Int
  PROVE  /\ a \div D \in Int /\ a % D \in 0..D-1
         /\ a = D * (a \div D) + (a % D)
BY Z3

\* Two addresses less than the depth apart are different places.
LEMMA DifferentPlaces ==
  ASSUME NEW D \in Nat \ {0}, NEW a \in Nat, NEW b \in Nat, b < a, a < b + D
  PROVE  a % D # b % D
<1> DEFINE p == a \div D
           q == b \div D
<1>1. SUFFICES ASSUME a % D = b % D PROVE FALSE
  OBVIOUS
<1>2. /\ p \in Int /\ q \in Int /\ a % D \in Int
      /\ a = D * p + (a % D) /\ b = D * q + (b % D)
  BY DivisionFacts
<1>3. a - b = D * p - D * q
  BY <1>1, <1>2
<1>4. D * p - D * q = D * (p - q)
  BY <1>2
<1> HIDE DEF p, q
<1>5. 0 < D * (p - q) /\ D * (p - q) < D
  BY <1>2, <1>3, <1>4
<1>6. CASE p - q <= 0
  BY <1>2, <1>5, <1>6
<1>7. CASE p - q >= 1
  <2>1. D * (p - q) >= D * 1
    BY <1>2, <1>7
  <2> QED BY <1>2, <1>5, <2>1
<1> QED BY <1>2, <1>6, <1>7

LEMMA EdgeIsCommon == AdcEdge => EdgeCommon
BY DEF AdcEdge, HoldReset, BeginConversion, AwaitConversion, DropDummy,
       CountReading, Finish, Rest

LEMMA EdgePointers ==
  ASSUME TypeOK, PointersInOrder, FifoEdge
  PROVE  PointersInOrder'
<1>1. /\ 1 \in 1..SyncLag /\ SyncLag \in 2..SyncLag /\ SyncLag - 1 \in 1..SyncLag
      /\ \A j \in 2..SyncLag : j \in 1..SyncLag /\ j - 1 \in 1..SyncLag
  BY ConstantsAssumption
<1>2. wrptr' \in Nat /\ wrptr <= wrptr' /\ rdptr' = rdptr /\ ws_rdptr' = rdptr
  BY DEF TypeOK, FifoEdge
<1>3. \A j \in 1..SyncLag : sync'[j] = IF j = 1 THEN wrptr ELSE sync[j - 1]
  BY DEF FifoEdge
<1>4. \A j \in 1..SyncLag : sync'[j] <= wrptr'
  <2> SUFFICES ASSUME NEW j \in 1..SyncLag PROVE sync'[j] <= wrptr'
    OBVIOUS
  <2>1. CASE j = 1
    BY <2>1, <1>2, <1>3 DEF TypeOK
  <2>2. CASE j # 1
    <3>1. j - 1 \in 1..SyncLag
      BY <2>2, ConstantsAssumption
    <3>2. sync[j - 1] <= wrptr /\ sync[j - 1] \in Nat
      BY <3>1 DEF PointersInOrder, TypeOK
    <3> QED BY <2>2, <3>2, <1>2, <1>3 DEF TypeOK
  <2> QED BY <2>1, <2>2
<1>5. \A j \in 2..SyncLag : sync'[j] <= sync'[j - 1]
  <2> SUFFICES ASSUME NEW j \in 2..SyncLag PROVE sync'[j] <= sync'[j - 1]
    OBVIOUS
  <2>1. j \in 1..SyncLag /\ j - 1 \in 1..SyncLag /\ j # 1
    BY ConstantsAssumption
  <2>2. sync'[j] = sync[j - 1]
    BY <2>1, <1>3
  <2>3. CASE j = 2
    BY <2>1, <2>2, <2>3, <1>3 DEF PointersInOrder
  <2>4. CASE j # 2
    <3>1. j - 1 \in 2..SyncLag /\ j - 1 # 1
      BY <2>4, ConstantsAssumption
    <3>2. sync'[j - 1] = sync[j - 2]
      BY <2>1, <3>1, <1>3
    <3>3. sync[j - 1] <= sync[(j - 1) - 1]
      BY <3>1 DEF PointersInOrder
    <3> QED BY <2>2, <3>2, <3>3
  <2> QED BY <2>3, <2>4
<1>6. rdptr' <= sync'[SyncLag]
  <2>1. sync'[SyncLag] = sync[SyncLag - 1]
    BY <1>1, <1>3, ConstantsAssumption
  <2>2. sync[SyncLag] <= sync[SyncLag - 1] /\ rdptr <= sync[SyncLag]
    BY <1>1 DEF PointersInOrder
  <2>3. sync[SyncLag] \in Nat /\ sync[SyncLag - 1] \in Nat /\ rdptr \in Nat
    BY <1>1 DEF TypeOK
  <2> QED BY <2>1, <2>2, <2>3, <1>2
<1>7. wrptr' <= ws_rdptr' + Depth
  BY <1>2, ConstantsAssumption DEF TypeOK, PointersInOrder, FifoEdge, wrfull
<1> QED BY <1>2, <1>4, <1>5, <1>6, <1>7 DEF PointersInOrder, TypeOK

\* A word that is in the FIFO stays in its place while the edge writes another.
LEMMA EdgeKeepsWord ==
  ASSUME TypeOK, PointersInOrder, FifoEdge, rdptr < wrptr
  PROVE  fifo_q' = fifo_q
<1>1. rdptr' = rdptr /\ rdptr % Depth \in 0..Depth-1
  BY ConstantsAssumption DEF FifoEdge, TypeOK
<1>2. CASE fifo_wrreq /\ ~wrfull
  <2>1. ram' = [ram EXCEPT ![wrptr % Depth] = fifo_in]
    BY <1>2 DEF FifoEdge
  <2>2. wrptr < rdptr + Depth
    BY <1>2, ConstantsAssumption DEF wrfull, PointersInOrder, TypeOK
  <2>3. wrptr % Depth # rdptr % Depth
    BY <2>2, DifferentPlaces, ConstantsAssumption DEF TypeOK
  <2> QED BY <1>1, <2>1, <2>3 DEF fifo_q, TypeOK
<1>3. CASE ~(fifo_wrreq /\ ~wrfull)
  BY <1>1, <1>3 DEF FifoEdge, fifo_q
<1> QED BY <1>2, <1>3

LEMMA EdgeHoldsWord ==
  ASSUME ReadInv, EdgeCommon
  PROVE  WordHeld'
<1>1. TypeOK /\ PointersInOrder /\ FifoEdge
  BY DEF ReadInv, EdgeCommon
<1>2. CASE rdclk = 1
  <2>1. rdclk' = 2 /\ slave_readdata' = slave_readdata
    BY <1>2 DEF EdgeCommon
  <2>2. CASE rdptr < wrptr
    <3>1. fifo_q' = fifo_q
      BY <1>1, <2>2, EdgeKeepsWord
    <3>2. slave_readdata = fifo_q
      BY <1>2, <2>2 DEF ReadInv, WordHeld
    <3> QED BY <2>1, <3>1, <3>2 DEF WordHeld
  <2>3. CASE ~(rdptr < wrptr)
    <3>1. sync'[SyncLag] = sync[SyncLag - 1] /\ rdptr' = rdptr
      BY <1>1, ConstantsAssumption DEF FifoEdge
    <3>2. SyncLag - 1 \in 1..SyncLag
      BY ConstantsAssumption
    <3>3. sync[SyncLag - 1] <= wrptr /\ sync[SyncLag - 1] \in Nat
      BY <1>1, <3>2 DEF PointersInOrder, TypeOK
    <3>4. ~(rdptr' < sync'[SyncLag])
      BY <1>1, <2>3, <3>1, <3>3 DEF TypeOK
    <3> QED BY <2>1, <3>4 DEF WordHeld
  <2> QED BY <2>2, <2>3
<1>3. CASE rdclk # 1
  <2>1. rdclk' = 0
    BY <1>3 DEF EdgeCommon
  <2> QED BY <2>1 DEF WordHeld
<1> QED BY <1>2, <1>3

LEMMA InitReadInv == HwInit => ReadInv
<1> SUFFICES ASSUME HwInit PROVE ReadInv
  OBVIOUS
<1>1. TypeOK
  BY InitType
<1>2. \A j \in 1..SyncLag : sync[j] = 0
  BY DEF HwInit
<1>3. /\ SyncLag \in 1..SyncLag
      /\ \A j \in 2..SyncLag : j \in 1..SyncLag /\ j - 1 \in 1..SyncLag
  BY ConstantsAssumption
<1>4. PointersInOrder
  BY <1>2, <1>3, ConstantsAssumption DEF HwInit, PointersInOrder
<1>5. WordHeld
  BY DEF HwInit, WordHeld
<1> QED BY <1>1, <1>4, <1>5 DEF ReadInv

LEMMA StepReadInv == ReadInv /\ [Next]_hwvars => ReadInv'
<1> SUFFICES ASSUME ReadInv, [Next]_hwvars PROVE ReadInv'
  OBVIOUS
<1>1. TypeOK'
  BY StepType DEF ReadInv
<1> SUFFICES PointersInOrder' /\ WordHeld'
  BY <1>1 DEF ReadInv
<1>2. ASSUME UNCHANGED <<ptrs, ram, slave_readdata, rdclk>>
      PROVE  PointersInOrder' /\ WordHeld'
  <2>1. PointersInOrder'
    BY <1>2 DEF ReadInv, PointersInOrder
  <2>2. WordHeld'
    BY <1>2 DEF ReadInv, WordHeld, fifo_q
  <2> QED BY <2>1, <2>2
<1>3. ASSUME NEW c \in Channels, NEW s \in BOOLEAN, WriteStart(c, s)
      PROVE  PointersInOrder' /\ WordHeld'
  <2>1. CASE s /\ ~measure_fifo_start /\ ~pre_measure_fifo_start
    <3>1. /\ wrptr' = 0 /\ rdptr' = 0 /\ ws_rdptr' = 0
          /\ \A j \in 1..SyncLag : sync'[j] = 0
      BY <1>3, <2>1 DEF WriteStart, AsyncReset
    <3>2. /\ SyncLag \in 1..SyncLag
          /\ \A j \in 2..SyncLag : j \in 1..SyncLag /\ j - 1 \in 1..SyncLag
      BY ConstantsAssumption
    <3>3. PointersInOrder'
      BY <3>1, <3>2, ConstantsAssumption DEF PointersInOrder
    <3>4. WordHeld'
      BY <1>3 DEF WriteStart, WordHeld
    <3> QED BY <3>3, <3>4
  <2>2. CASE ~(s /\ ~measure_fifo_start /\ ~pre_measure_fifo_start)
    BY <1>2, <1>3, <2>2 DEF WriteStart
  <2> QED BY <2>1, <2>2
<1>4. ASSUME NEW n \in 0..MaxNum, WriteNum(n) PROVE PointersInOrder' /\ WordHeld'
  BY <1>2, <1>4 DEF WriteNum
<1>5. CASE ReadStatus
  BY <1>2, <1>5 DEF ReadStatus
<1>6. CASE ReadCapture
  <2>1. PointersInOrder'
    BY <1>6 DEF ReadCapture, ReadInv, PointersInOrder
  <2>2. WordHeld'
    BY <1>6 DEF ReadCapture, WordHeld, fifo_q
  <2> QED BY <2>1, <2>2
<1>7. CASE ReadPop
  <2>1. /\ SyncLag \in 1..SyncLag
        /\ sync' = sync /\ wrptr' = wrptr /\ ws_rdptr' = ws_rdptr
    BY <1>7, ConstantsAssumption DEF ReadPop
  <2>2. /\ sync[SyncLag] \in Nat /\ rdptr \in Nat /\ ws_rdptr \in Nat
        /\ rdptr <= sync[SyncLag] /\ ws_rdptr <= rdptr
    BY <2>1 DEF ReadInv, TypeOK, PointersInOrder
  <2>3. rdptr' <= sync'[SyncLag] /\ ws_rdptr' <= rdptr'
    BY <1>7, <2>1, <2>2 DEF ReadPop, rdempty
  <2>4. PointersInOrder'
    BY <2>1, <2>3 DEF ReadInv, PointersInOrder
  <2>5. WordHeld'
    BY <1>7 DEF ReadPop, WordHeld
  <2> QED BY <2>4, <2>5
<1>8. CASE SlaveReset
  <2>1. PointersInOrder'
    BY <1>8 DEF SlaveReset, ReadInv, PointersInOrder
  <2>2. WordHeld'
    BY <1>8 DEF SlaveReset, WordHeld
  <2> QED BY <2>1, <2>2
<1>9. CASE AdcEdge
  <2>1. EdgeCommon
    BY <1>9, EdgeIsCommon
  <2>2. PointersInOrder'
    BY <2>1, EdgePointers DEF EdgeCommon, ReadInv
  <2>3. WordHeld'
    BY <2>1, EdgeHoldsWord
  <2> QED BY <2>2, <2>3
<1>10. CASE DecChange
  BY <1>2, <1>10 DEF DecChange
<1>11. CASE UNCHANGED hwvars
  BY <1>2, <1>11
<1> QED
  BY <1>3, <1>4, <1>5, <1>6, <1>7, <1>8, <1>9, <1>10, <1>11 DEF Next

\* The value a read returns is the word it removes from the FIFO, also when an
\* ADC clock edge, with its write and its pointer updates, falls between the
\* clock that captures the one and the clock that removes the other.
THEOREM ReadReturnsPoppedHolds == Spec => ReadReturnsPopped
<1> DEFINE Returned == rdptr' = rdptr + 1 => slave_readdata = fifo_q
<1>1. ReadInv /\ [Next]_hwvars => Returned
  <2> SUFFICES ASSUME ReadInv, [Next]_hwvars, rdptr' = rdptr + 1
               PROVE  slave_readdata = fifo_q
    OBVIOUS
  <2>1. rdptr \in Nat /\ rdptr # rdptr + 1 /\ rdptr + 1 # 0
    BY DEF ReadInv, TypeOK
  <2>2. ReadPop
    <3>1. AdcEdge => rdptr' = rdptr
      BY EdgeIsCommon DEF EdgeCommon, FifoEdge
    <3> QED BY <2>1, <3>1 DEF Next, WriteStart, AsyncReset, WriteNum, ReadStatus,
                              ReadCapture, SlaveReset, DecChange
  <2>3. ~rdempty /\ rdclk \in {1, 2}
    BY <2>1, <2>2 DEF ReadPop, ReadInv, TypeOK
  <2>4. SyncLag \in 1..SyncLag
    BY ConstantsAssumption
  <2>5. rdptr < sync[SyncLag] /\ sync[SyncLag] <= wrptr /\ sync[SyncLag] \in Nat
    BY <2>1, <2>3, <2>4 DEF rdempty, ReadInv, PointersInOrder, TypeOK
  <2>6. rdptr < wrptr
    BY <2>1, <2>5 DEF ReadInv, TypeOK
  <2> QED BY <2>3, <2>5, <2>6 DEF ReadInv, WordHeld
<1>2. HwInit => ReadInv
  BY InitReadInv
<1>3. ReadInv /\ [Next]_hwvars => ReadInv'
  BY StepReadInv
<1>4. ReadInv /\ [Next]_hwvars => [Returned]_hwvars
  BY <1>1
<1> QED BY <1>2, <1>3, <1>4, PTL DEF Spec, ReadReturnsPopped

-----------------------------------------------------------------------------
(* More readings than the FIFO holds.                                      *)

\* The edge that stores a word ends a reading, counted or the last.
LEMMA StoringEdge ==
  ASSUME IInv, sess > 0, AdcEdge, fifo_wrreq
  PROVE  /\ InReading /\ fifo_in.sess = sess /\ fifo_in.conv = measure_count
         /\ fifo_in.is400 = fifo_in.high
         /\ ~measure_fifo_done' => measure_count' = measure_count + 1
<1>1. /\ InReading /\ measure_done /\ fifo_in.sess = sess /\ fifo_in.conv = measure_count
      /\ fifo_in.is400 = fifo_in.high
  BY StoredWord DEF IInv
<1>2. CountReading \/ Finish
  BY <1>1 DEF IInv, ResetHeld, InReading, AdcEdge, HoldReset, BeginConversion, Idle,
              AwaitConversion, DropDummy, Rest
<1> QED BY <1>1, <1>2 DEF CountReading, Finish

\* What an edge does to the words still to be read.
LEMMA EdgeWords ==
  ASSUME IInv, ReadInv, sess > 0, AdcEdge
  PROVE  /\ rdptr' = rdptr /\ sess' = sess
         /\ \A a \in rdptr..wrptr-1 : ram'[a % Depth] = ram[a % Depth]
         /\ \/ wrptr' = wrptr
            \/ wrptr' = wrptr + 1 /\ fifo_wrreq /\ ram'[wrptr % Depth] = fifo_in
<1>1. EdgeCommon /\ FifoEdge /\ rdptr' = rdptr /\ sess' = sess
  BY EdgeIsCommon DEF EdgeCommon, FifoEdge
<1>2. wrptr \in Nat /\ rdptr \in Nat /\ ws_rdptr \in Nat /\ Depth \in Nat \ {0}
      /\ ram \in [0..Depth-1 -> Entry]
  BY ConstantsAssumption DEF ReadInv, TypeOK
<1>3. CASE fifo_wrreq /\ ~wrfull
  <2>1. ram' = [ram EXCEPT ![wrptr % Depth] = fifo_in] /\ wrptr' = wrptr + 1
    BY <1>1, <1>3 DEF FifoEdge
  <2>2. wrptr % Depth \in 0..Depth-1
    BY <1>2
  <2>3. ram'[wrptr % Depth] = fifo_in
    BY <1>2, <2>1, <2>2
  <2>4. ASSUME NEW a \in rdptr..wrptr-1 PROVE ram'[a % Depth] = ram[a % Depth]
    <3>1. a \in Nat /\ a < wrptr /\ wrptr < a + Depth
      BY <1>2, <1>3 DEF wrfull, ReadInv, PointersInOrder
    <3>2. wrptr % Depth # a % Depth
      BY <1>2, <3>1, DifferentPlaces
    <3>3. a % Depth \in 0..Depth-1
      BY <1>2, <3>1
    <3> QED BY <1>2, <2>1, <3>2, <3>3
  <2> QED BY <1>1, <1>3, <2>1, <2>3, <2>4
<1>4. CASE ~(fifo_wrreq /\ ~wrfull)
  BY <1>1, <1>4 DEF FifoEdge
<1> QED BY <1>3, <1>4

LEMMA EdgeOrder ==
  ASSUME OrderInv, sess > 0, AdcEdge
  PROVE  WordsInOrder' /\ WordsBefore'
<1> USE DEF OrderInv
<1>1. /\ rdptr' = rdptr /\ sess' = sess
      /\ \A a \in rdptr..wrptr-1 : ram'[a % Depth] = ram[a % Depth]
  BY EdgeWords
<1>2. /\ wrptr \in Nat /\ rdptr \in Nat /\ measure_count \in Nat /\ sess \in Nat
      /\ \A a \in rdptr..wrptr-1 : ram[a % Depth].conv \in Nat
  <2>1. wrptr \in Nat /\ rdptr \in Nat /\ measure_count \in Nat /\ sess \in Nat
        /\ ram \in [0..Depth-1 -> Entry] /\ Depth \in Nat \ {0}
    BY ConstantsAssumption DEF IInv, TypeOK
  <2>2. ASSUME NEW a \in rdptr..wrptr-1 PROVE ram[a % Depth].conv \in Nat
    <3>1. a % Depth \in 0..Depth-1
      BY <2>1
    <3> QED BY <2>1, <3>1 DEF Entry
  <2> QED BY <2>1, <2>2
<1>3. CASE wrptr' = wrptr
  <2>1. WordsInOrder'
    <3> SUFFICES ASSUME NEW a \in rdptr..wrptr-1
                 PROVE  /\ ram'[a % Depth].sess = sess /\ ram'[a % Depth].conv > a
                        /\ ram'[a % Depth].is400 = ram'[a % Depth].high
                        /\ a > rdptr => ram'[(a - 1) % Depth].conv < ram'[a % Depth].conv
      BY <1>1, <1>3 DEF WordsInOrder
    <3>1. a > rdptr => a - 1 \in rdptr..wrptr-1
      BY <1>2
    <3> QED BY <1>1, <3>1 DEF WordsInOrder
  <2>2. ~measure_fifo_done' =>
          ~measure_fifo_done /\ measure_count' \in {measure_count, measure_count + 1}
    BY DEF AdcEdge, HoldReset, BeginConversion, AwaitConversion, DropDummy, CountReading,
           Finish, Rest
  <2>3. WordsBefore'
    BY <1>1, <1>2, <1>3, <2>2 DEF WordsBefore
  <2> QED BY <2>1, <2>3
<1>4. CASE wrptr' = wrptr + 1 /\ fifo_wrreq /\ ram'[wrptr % Depth] = fifo_in
  <2>1. /\ InReading /\ fifo_in.sess = sess /\ fifo_in.conv = measure_count
        /\ fifo_in.is400 = fifo_in.high
        /\ ~measure_fifo_done' => measure_count' = measure_count + 1
    BY <1>4, StoringEdge
  <2>2. wrptr < measure_count /\ ~measure_fifo_done
    BY <2>1 DEF InReading
  <2>3. \A a \in rdptr..wrptr-1 : ram[a % Depth].conv < measure_count
    BY <2>2 DEF WordsBefore
  <2>4. WordsInOrder'
    <3> SUFFICES ASSUME NEW a \in rdptr..wrptr
                 PROVE  /\ ram'[a % Depth].sess = sess /\ ram'[a % Depth].conv > a
                        /\ ram'[a % Depth].is400 = ram'[a % Depth].high
                        /\ a > rdptr => ram'[(a - 1) % Depth].conv < ram'[a % Depth].conv
      BY <1>1, <1>2, <1>4 DEF WordsInOrder
    <3>1. a > rdptr => a - 1 \in rdptr..wrptr-1
      BY <1>2
    <3>2. CASE a = wrptr
      BY <1>1, <1>4, <2>1, <2>2, <2>3, <3>1, <3>2
    <3>3. CASE a # wrptr
      <4>1. a \in rdptr..wrptr-1
        BY <1>2, <3>3
      <4> QED BY <1>1, <3>1, <4>1 DEF WordsInOrder
    <3> QED BY <3>2, <3>3
  <2>5. WordsBefore'
    <3> SUFFICES ASSUME ~measure_fifo_done', NEW a \in rdptr..wrptr
                 PROVE  ram'[a % Depth].conv < measure_count + 1
      BY <1>1, <1>2, <1>4, <2>1 DEF WordsBefore
    <3>1. CASE a = wrptr
      BY <1>2, <1>4, <2>1, <3>1
    <3>2. CASE a # wrptr
      <4>1. a \in rdptr..wrptr-1
        BY <1>2, <3>2
      <4> QED BY <1>1, <1>2, <2>3, <4>1
    <3> QED BY <3>1, <3>2
  <2> QED BY <2>4, <2>5
<1> QED BY <1>3, <1>4, EdgeWords

LEMMA StepOrder == OrderInv /\ [Next]_hwvars => WordsInOrder' /\ WordsBefore'
<1> SUFFICES ASSUME OrderInv, [Next]_hwvars PROVE WordsInOrder' /\ WordsBefore'
  OBVIOUS
<1>1. CASE AdcEdge
  <2>1. CASE sess > 0
    BY <1>1, <2>1, EdgeOrder
  <2>2. CASE ~(sess > 0)
    <3>1. sess' = sess
      BY <1>1, EdgeIsCommon DEF EdgeCommon
    <3> QED BY <2>2, <3>1 DEF WordsInOrder, WordsBefore
  <2> QED BY <2>1, <2>2
<1>2. ASSUME UNCHANGED <<ctl, wrptr, rdptr, ram, sess>>
      PROVE  WordsInOrder' /\ WordsBefore'
  BY <1>2 DEF OrderInv, WordsInOrder, WordsBefore
<1>3. ASSUME NEW c \in Channels, NEW s \in BOOLEAN, WriteStart(c, s)
      PROVE  WordsInOrder' /\ WordsBefore'
  <2>1. CASE wrptr' = 0 /\ rdptr' = 0
    BY <2>1 DEF WordsInOrder, WordsBefore
  <2>2. CASE UNCHANGED <<ctl, wrptr, rdptr, ram, sess>>
    BY <1>2, <2>2
  <2> QED BY <1>3, <2>1, <2>2 DEF WriteStart, AsyncReset
<1>4. CASE ReadPop
  <2>1. UNCHANGED <<ctl, wrptr, ram, sess>> /\ rdptr' \in {rdptr, rdptr + 1}
    BY <1>4 DEF ReadPop
  <2>2. wrptr \in Nat /\ rdptr \in Nat
    BY DEF OrderInv, IInv, TypeOK
  <2>3. rdptr'..wrptr'-1 \subseteq rdptr..wrptr-1
        /\ \A a \in rdptr..wrptr-1 : a > rdptr' => a > rdptr
    BY <2>1, <2>2
  <2>4. WordsInOrder'
    BY <2>1, <2>3 DEF OrderInv, WordsInOrder
  <2>5. WordsBefore'
    BY <2>1, <2>3 DEF OrderInv, WordsBefore
  <2> QED BY <2>4, <2>5
<1>5. CASE \/ \E n \in 0..MaxNum : WriteNum(n)
           \/ ReadStatus \/ ReadCapture \/ SlaveReset \/ DecChange \/ UNCHANGED hwvars
  BY <1>2, <1>5 DEF WriteNum, ReadStatus, ReadCapture, SlaveReset, DecChange
<1> QED BY <1>1, <1>3, <1>4, <1>5 DEF Next

\* However many readings are asked for, the words to be read are of the session
\* in progress and in the order of their conversions: a FIFO that is full loses
\* the newest word and nothing else.
THEOREM WordsInOrderHolds == Spec => []WordsInOrder
<1>1. HwInit => OrderInv
  <2> SUFFICES ASSUME HwInit PROVE OrderInv
    OBVIOUS
  <2>1. ~(sess > 0)
    BY DEF HwInit
  <2> QED BY <2>1, InitIInv, InitReadInv DEF OrderInv, WordsInOrder, WordsBefore
<1>2. OrderInv /\ [Next]_hwvars => OrderInv'
  BY StepIInv, StepReadInv, StepOrder DEF OrderInv
<1>3. OrderInv => WordsInOrder
  BY DEF OrderInv
<1> QED BY <1>1, <1>2, <1>3, PTL DEF Spec

-----------------------------------------------------------------------------
(* One edge of a session of k readings of a channel, for the programs.     *)

LEMMA SessionEdge ==
  ASSUME IInv, NEW k \in 1..Depth, sess > 0, measure_fifo_num = k, measure_count <= k,
         measure_fifo_done => measure_count = k /\ wrptr = k, AdcEdge
  PROVE  /\ sess' > 0 /\ measure_count' <= k
         /\ measure_fifo_done' => measure_count' = k /\ wrptr' = k
<1> USE ConstantsAssumption
<1>0. EdgeCommon /\ sess' = sess
  BY EdgeIsCommon DEF EdgeCommon
<1>1. measure_fifo_done => wrptr' = wrptr
  <2> SUFFICES ASSUME measure_fifo_done PROVE wrptr' = wrptr
    OBVIOUS
  <2>1. Finished
    BY DEF IInv, Phases, Restarted, InDummy, DummyDropped, Between, InReading
  <2> QED BY <1>0, <2>1 DEF Finished, fifo_wrreq, EdgeCommon, FifoEdge
<1>2. CASE CountReading
  <2>1. measure_count < k /\ measure_count' = measure_count + 1
        /\ measure_fifo_done' = measure_fifo_done
    BY <1>2 DEF CountReading, MoreWanted
  <2> QED BY <1>0, <2>1 DEF IInv, TypeOK
<1>3. CASE Finish
  <2>1. measure_count' = measure_count /\ measure_count = k /\ Waiting /\ measure_done
        /\ ~config_first
    BY <1>3 DEF Finish, MoreWanted, IInv, TypeOK
  <2>2. CASE ~measure_fifo_done
    <3>1. InReading
      BY <2>1, <2>2 DEF Waiting, IInv, Phases, Restarted, InDummy, DummyDropped, Between,
                        Finished
    <3>2. measure_count \in 1..Depth
      BY <2>1
    <3>3. wrptr' = wrptr + 1 /\ wrptr = measure_count - 1
      BY <1>0, <2>1, <2>2, <3>1, <3>2, ReadingStores DEF IInv, AllStored
    <3> QED BY <1>0, <2>1, <3>2, <3>3
  <2> QED BY <1>0, <1>1, <2>1, <2>2
<1>4. CASE ~CountReading /\ ~Finish
  <2>1. measure_count' = measure_count /\ measure_fifo_done' = measure_fifo_done
    BY <1>4 DEF AdcEdge, HoldReset, BeginConversion, AwaitConversion, DropDummy, Rest
  <2> QED BY <1>0, <1>1, <2>1
<1> QED BY <1>2, <1>3, <1>4

\* The dummy conversion sets the chip's channel, and the readings come from it.
ChannelSet(c) == /\ conv > 0 => config_cmd = c /\ (tick > TShift => chip_ch = c)
                 /\ conv > 1 => chip_ch = c /\ samp.ch = c

LEMMA ChannelEdge ==
  ASSUME IInv, sess > 0, ChannelSet(measure_fifo_ch), AdcEdge
  PROVE  ChannelSet(measure_fifo_ch)'
<1> USE ConstantsAssumption
<1>0. EdgeCommon /\ measure_fifo_ch' = measure_fifo_ch
  BY EdgeIsCommon DEF EdgeCommon, bus
<1>1. CASE BeginConversion
  <2>1. config_cmd' = measure_fifo_ch /\ tick' = 0 /\ conv' = conv + 1 /\ samp'.ch = chip_ch'
    BY <1>1 DEF BeginConversion, SpiBegin
  <2>2. Restarted \/ Between
    BY <1>1 DEF BeginConversion, Idle, IInv, Phases, InDummy, DummyDropped, InReading, Finished
  <2>3. CASE Restarted
    <3>1. conv' = 1
      BY <2>1, <2>3 DEF Restarted
    <3> QED BY <1>0, <2>1, <3>1 DEF ChannelSet
  <2>4. CASE Between
    <3>1. conv > 0 /\ tick = TDone /\ tick > TShift
      BY <2>4 DEF Between, IInv, EngineInv, TypeOK
    <3>2. chip_ch' = chip_ch /\ chip_ch = measure_fifo_ch
      BY <1>1, <3>1 DEF BeginConversion, SpiBegin, ChannelSet
    <3> QED BY <1>0, <2>1, <3>2 DEF ChannelSet
  <2> QED BY <2>2, <2>3, <2>4
<1>2. CASE ~BeginConversion
  <2>1. SpiRun /\ conv' = conv /\ samp' = samp
    BY <1>2, EdgeSpi, EdgeKeepsSample
  <2>2. config_cmd' = config_cmd
    BY <2>1 DEF SpiRun
  <2>3. \/ UNCHANGED <<tick, chip_ch>>
        \/ tick # TShift /\ chip_ch' = chip_ch /\ tick' \in {tick, tick + 1}
        \/ tick = TShift /\ chip_ch' = config_cmd
    BY <2>1 DEF SpiRun
  <2>4. conv > 0 /\ tick' > TShift => chip_ch' = measure_fifo_ch
    BY <2>3 DEF ChannelSet, IInv, TypeOK
  <2>5. conv > 1 => chip_ch' = measure_fifo_ch
    BY <2>3 DEF ChannelSet, IInv, TypeOK
  <2> QED BY <1>0, <2>1, <2>2, <2>4, <2>5 DEF ChannelSet
<1> QED BY <1>1, <1>2

LEMMA WordsChannelEdge ==
  ASSUME IInv, sess > 0, ChannelSet(measure_fifo_ch), measure_count <= Depth, AdcEdge,
         NEW c, c = measure_fifo_ch,
         \A a \in 0..Depth-1 : a < wrptr => ram[a].ch = c
  PROVE  \A a \in 0..Depth-1 : a < wrptr' => ram'[a].ch = c
<1> USE ConstantsAssumption
<1>0. EdgeCommon
  BY EdgeIsCommon
<1>1. CASE fifo_wrreq
  <2>1. InReading /\ measure_done /\ measure_count \in 1..Depth
    <3>1. InReading /\ measure_done
      BY <1>1, StoredWord DEF IInv
    <3> QED BY <3>1 DEF InReading, IInv, TypeOK
  <2>2. /\ wrptr \in 0..Depth-1 /\ wrptr' = wrptr + 1
        /\ ram' = [ram EXCEPT ![wrptr] = fifo_in]
    BY <1>0, <2>1, ReadingStores DEF IInv
  <2>3. fifo_in.ch = c
    <3>1. conv > 1 /\ tick > TShift
      BY <2>1 DEF InReading, IInv, EngineInv, TypeOK
    <3>2. read_data = samp /\ samp.ch = c /\ samp \in Entry
      BY <3>1 DEF IInv, EngineInv, ChannelSet, TypeOK
    <3> QED BY <3>2 DEF fifo_in, Entry
  <2> SUFFICES ASSUME NEW a \in 0..Depth-1, a < wrptr' PROVE ram'[a].ch = c
    OBVIOUS
  <2>4. ram'[a] = IF a = wrptr THEN fifo_in ELSE ram[a]
    BY <2>2 DEF IInv, TypeOK
  <2> QED BY <2>2, <2>3, <2>4
<1>2. CASE ~fifo_wrreq
  BY <1>0, <1>2 DEF EdgeCommon, FifoEdge
<1> QED BY <1>1, <1>2

=============================================================================
