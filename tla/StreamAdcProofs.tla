-------------------------- MODULE StreamAdcProofs --------------------------
(***************************************************************************)
(* That the streaming program runs exactly one reading behind: for every   *)
(* length of conversion and depth of the FIFO, every pace of the program   *)
(* that keeps to the timing assumed of it, and resets of the processor at  *)
(* any moment.  The argument counts the adc_clk edges of a session, which  *)
(* its state tells (Age), against those the program has let pass (Passed). *)
(***************************************************************************)
EXTENDS StreamAdc, AdcFifoProofs

-----------------------------------------------------------------------------
(* Every step of the closed system is one of the controller and its bus.   *)

LEMMA ChannelIsOne == TypeOK => ch \in Channels
BY DEF TypeOK, ch

LEMMA HwStep ==
  ASSUME TypeOK, [StreamNext]_vars
  PROVE  [Next]_hwvars
<1>1. 1 \in 0..MaxNum /\ ch \in Channels /\ TRUE \in BOOLEAN /\ FALSE \in BOOLEAN
  BY ConstantsAssumption, StreamAssumption, ChannelIsOne
<1>2. CASE SetMeasureNum \/ StartLow \/ StartHigh \/ StartLowAgain
  BY <1>1, <1>2 DEF SetMeasureNum, StartLow, StartHigh, StartLowAgain, Next
<1>3. CASE ReadValue \/ TakeValue \/ SendToDac
  BY <1>3 DEF ReadValue, TakeValue, SendToDac, Next
<1>4. CASE CpuReset \/ AdcClock \/ PinChange \/ UNCHANGED vars
  BY <1>4 DEF CpuReset, AdcClock, PinChange, Next, vars
<1> QED BY <1>2, <1>3, <1>4 DEF StreamNext, Program

\* The steps that leave the session alone.
Aside == \/ SetMeasureNum \/ StartLow \/ StartLowAgain \/ ReadValue \/ TakeValue
         \/ SendToDac \/ CpuReset \/ PinChange \/ UNCHANGED vars

LEMMA Steps == [StreamNext]_vars => AdcClock \/ StartHigh \/ Aside
BY DEF StreamNext, Program, Aside

LEMMA AsideKeeps ==
  ASSUME Aside
  PROVE  /\ UNCHANGED <<pre_measure_fifo_start, ctl, wrptr, spi, ram, sess, conv>>
         /\ measure_fifo_start' => measure_fifo_start
<1> USE DEF ptrs, bus
<1>1. CASE SetMeasureNum
  BY <1>1 DEF SetMeasureNum, WriteNum
<1>2. CASE StartLow \/ StartLowAgain
  BY <1>2 DEF StartLow, StartLowAgain, WriteStart
<1>3. CASE ReadValue \/ TakeValue
  BY <1>3 DEF ReadValue, ReadCapture, TakeValue, ReadPop
<1>4. CASE SendToDac \/ CpuReset \/ PinChange \/ UNCHANGED vars
  BY <1>4 DEF SendToDac, CpuReset, SlaveReset, PinChange, DecChange, vars, hwvars
<1> QED BY <1>1, <1>2, <1>3, <1>4 DEF Aside

LEMMA EdgeKeepsBus ==
  ASSUME AdcClock
  PROVE  /\ AdcEdge /\ EdgeCommon
         /\ UNCHANGED <<bus, slave_readdata, sess, rdptr, pc, ADC_value>>
         /\ pre_measure_fifo_start' = measure_fifo_start
BY EdgeIsCommon DEF AdcClock, EdgeCommon, FifoEdge

LEMMA Restart ==
  ASSUME StreamTypeOK, StartSeenLow, StartHigh
  PROVE  /\ AsyncReset /\ sess' = sess + 1 /\ conv' = 0 /\ AdcReset'
         /\ pc = "start1" /\ pc' = "start2" /\ gap >= 1 /\ gap' = 0
         /\ UNCHANGED <<spi, ram, measure_fifo_num>> /\ measure_fifo_ch' = ch
<1>1. ~measure_fifo_start /\ ~pre_measure_fifo_start /\ gap >= 1
  BY StreamAssumption DEF StartHigh, Transaction, StreamTypeOK, StartSeenLow
<1> QED BY <1>1 DEF StartHigh, Transaction, WriteStart, AdcReset

-----------------------------------------------------------------------------
(* The program and the registers it writes.                                *)

LEMMA StreamTypeStep ==
  ASSUME StreamTypeOK, [StreamNext]_vars
  PROVE  StreamTypeOK'
<1> USE StreamAssumption DEF StreamTypeOK, Transaction
<1>1. CASE SetMeasureNum \/ StartLow \/ StartHigh \/ StartLowAgain \/ ReadValue
  <2>1. gap' = 0
    BY <1>1 DEF SetMeasureNum, StartLow, StartHigh, StartLowAgain, ReadValue
  <2>2. pc' \in {"start0", "start1", "start2", "read", "value"}
    BY <1>1 DEF SetMeasureNum, StartLow, StartHigh, StartLowAgain, ReadValue
  <2> QED BY <2>1, <2>2
<1>2. CASE TakeValue \/ SendToDac \/ CpuReset
  BY <1>2 DEF TakeValue, SendToDac, CpuReset
<1>3. CASE AdcClock
  BY <1>3 DEF AdcClock
<1>4. CASE PinChange \/ UNCHANGED vars
  BY <1>4 DEF PinChange, prog, vars
<1> QED BY <1>1, <1>2, <1>3, <1>4 DEF StreamNext, Program

LEMMA StartStep ==
  ASSUME StreamTypeOK, StartSeenLow, [StreamNext]_vars
  PROVE  StartSeenLow'
<1> USE DEF StreamTypeOK, StartSeenLow, Transaction
<1>1. CASE SetMeasureNum \/ StartHigh \/ StartLowAgain \/ ReadValue \/ TakeValue \/ SendToDac
           \/ CpuReset
  BY <1>1 DEF SetMeasureNum, StartHigh, StartLowAgain, ReadValue, TakeValue, SendToDac, CpuReset
<1>2. CASE StartLow
  BY <1>2, StreamAssumption DEF StartLow, WriteStart
<1>3. CASE AdcClock
  BY <1>3, EdgeKeepsBus DEF bus
<1>4. CASE PinChange \/ UNCHANGED vars
  BY <1>4 DEF PinChange, DecChange, prog, vars, hwvars, bus
<1> QED BY <1>1, <1>2, <1>3, <1>4 DEF StreamNext, Program

LEMMA ConfiguredStep ==
  ASSUME TypeOK, StreamTypeOK, StartSeenLow, Configured, [StreamNext]_vars
  PROVE  Configured'
<1> USE DEF Configured, Transaction
<1>0. ch' = ch
  BY DEF ch
<1>1. CASE SetMeasureNum
  BY <1>0, <1>1 DEF SetMeasureNum, WriteNum
<1>2. CASE StartLow \/ StartLowAgain
  <2>1. sess' = sess /\ measure_fifo_ch' = ch /\ measure_fifo_num' = measure_fifo_num
    BY <1>2 DEF StartLow, StartLowAgain, WriteStart
  <2>2. pc # "num"
    BY <1>2 DEF StartLow, StartLowAgain
  <2> QED BY <1>0, <2>1, <2>2
<1>3. CASE StartHigh
  BY <1>0, <1>3, Restart
<1>4. CASE ReadValue \/ TakeValue \/ SendToDac
  <2>1. sess' = sess /\ UNCHANGED bus
    BY <1>4 DEF ReadValue, ReadCapture, TakeValue, ReadPop, SendToDac, hwvars
  <2>2. pc \in {"read", "value", "send"} /\ pc' \in {"value", "send", "start0"}
    BY <1>4 DEF ReadValue, TakeValue, SendToDac
  <2> QED BY <1>0, <2>1, <2>2 DEF bus
<1>5. CASE CpuReset
  BY <1>0, <1>5 DEF CpuReset, SlaveReset
<1>6. CASE AdcClock
  BY <1>0, <1>6, EdgeKeepsBus DEF bus
<1>7. CASE PinChange \/ UNCHANGED vars
  BY <1>0, <1>7 DEF PinChange, DecChange, prog, vars, hwvars, bus
<1> QED BY <1>1, <1>2, <1>3, <1>4, <1>5, <1>6, <1>7 DEF StreamNext, Program

-----------------------------------------------------------------------------
(* The session's one reading and its channel.                              *)

LEMMA OneReadingStep ==
  ASSUME IInv, StreamTypeOK, StartSeenLow, Configured, OneReading, [StreamNext]_vars
  PROVE  OneReading'
<1>0. ch' = ch
  BY DEF ch
<1>1. CASE AdcClock
  <2> SUFFICES ASSUME sess > 0 PROVE OneReading'
    BY <1>1, EdgeKeepsBus DEF OneReading
  <2>1. AdcEdge /\ UNCHANGED <<measure_fifo_ch, sess>>
    BY <1>1, EdgeKeepsBus DEF bus
  <2>2. measure_fifo_num = 1 /\ measure_fifo_ch = ch /\ measure_count <= 1
    BY DEF Configured, OneReading
  <2>3. 1 \in 1..Depth /\ measure_count <= Depth
    BY <2>2, ConstantsAssumption DEF IInv, TypeOK
  <2>4. /\ measure_count' <= 1
        /\ measure_fifo_done' => measure_count' = 1 /\ wrptr' = 1
    BY <2>1, <2>2, <2>3, SessionEdge DEF OneReading
  <2>5. ChannelSet(measure_fifo_ch)
    BY <2>2 DEF OneReading, ChannelSet
  <2>6. ChannelSet(measure_fifo_ch)'
    BY <2>1, <2>5, ChannelEdge
  <2>7. \A a \in 0..Depth-1 : a < wrptr => ram[a].ch = ch
    BY DEF OneReading
  <2>8. \A a \in 0..Depth-1 : a < wrptr' => ram'[a].ch = ch
    BY <2>1, <2>2, <2>3, <2>5, <2>7, WordsChannelEdge
  <2> QED BY <1>0, <2>1, <2>2, <2>4, <2>6, <2>8 DEF OneReading, ChannelSet
<1>2. CASE StartHigh
  <2>1. measure_count' = 0 /\ ~measure_fifo_done' /\ conv' = 0 /\ wrptr' = 0
    BY <1>2, Restart DEF AsyncReset
  <2> QED BY <2>1 DEF OneReading
<1>3. CASE Aside
  <2>1. UNCHANGED <<ctl, wrptr, spi, ram, sess, conv>>
    BY <1>3, AsideKeeps
  <2> QED BY <1>0, <2>1 DEF OneReading, ctl, spi
<1> QED BY <1>1, <1>2, <1>3, Steps

-----------------------------------------------------------------------------
(* The age of a session.                                                   *)

LEMMA AgeRange ==
  ASSUME IInv, sess > 0, OneReading
  PROVE  Age \in Nat /\ (~measure_fifo_done => Age <= 2 * TDone + 9)
<1> USE ConstantsAssumption
<1>1. tick \in 0..TDone /\ TDone \in Nat
  BY DEF IInv, TypeOK
<1>2. AgeInConversion \in Nat /\ AgeInConversion <= TDone + 4
  BY <1>1 DEF AgeInConversion
<1>3. CASE measure_fifo_done
  BY <1>1, <1>3 DEF Age
<1>4. CASE ~measure_fifo_done /\ conv # 2
  <2>1. conv \in {0, 1}
    BY <1>4 DEF IInv, TypeOK, OneReading, Phases, Restarted, InDummy, DummyDropped, Between,
                InReading, Finished
  <2> QED BY <1>1, <1>2, <1>4, <2>1 DEF Age
<1>5. CASE ~measure_fifo_done /\ conv = 2
  <2>1. AgeInConversion <= TDone + 2
    BY <1>1, <1>5 DEF AgeInConversion
  <2> QED BY <1>1, <1>2, <1>5, <2>1 DEF Age
<1> QED BY <1>3, <1>4, <1>5

\* Aside steps end the reset or leave the age alone.
LEMMA AgeAside ==
  ASSUME TypeOK, Aside
  PROVE  /\ Age' = Age \/ (Age = 0 /\ Age' = 1)
         /\ ~AdcReset' => Age' >= 1
         /\ (AdcReset => AdcReset') => Age' = Age
<1>1. UNCHANGED <<ctl, spi, conv>> /\ (AdcReset' => AdcReset)
  BY AsideKeeps DEF AdcReset
<1>2. AgeInConversion' = AgeInConversion
  BY <1>1 DEF AgeInConversion, ctl, spi
<1>3. TDone \in Nat /\ AgeInConversion \in Nat
  BY ConstantsAssumption DEF TypeOK, AgeInConversion
<1>4. measure_fifo_done' = measure_fifo_done /\ conv' = conv
  BY <1>1 DEF ctl
<1> QED BY <1>1, <1>2, <1>3, <1>4 DEF Age

\* An edge of a conversion's wait.
LEMMA AgeAwait ==
  ASSUME TypeOK, sess > 0, EngineBegun, AwaitConversion, config_first \/ conv = 2
  PROVE  EngineBegun' /\ AgeInConversion' = AgeInConversion + 1
<1> USE ConstantsAssumption
<1>1. /\ ~measure_done /\ ~measure_start' /\ conv' = conv /\ config_first' = config_first
      /\ SpiRun /\ tick \in 0..TDone
  BY DEF AwaitConversion, Waiting, TypeOK
<1>2. CASE measure_start
  <2>1. tick = 0 /\ ~pre_measure_start
    BY <1>2 DEF EngineBegun
  <2>2. tick' = 0 /\ ~measure_done'
    BY <1>1, <1>2, <2>1 DEF SpiRun, SpiReset
  <2> QED BY <1>1, <1>2, <2>2 DEF AgeInConversion, EngineBegun
<1>3. CASE ~measure_start
  <2>1. /\ tick' = IF tick < TDone THEN tick + 1 ELSE tick
        /\ measure_done' <=> tick = TDone
    BY <1>1, <1>3 DEF SpiRun, SpiReset
  <2>2. CASE tick < TDone
    BY <1>1, <1>3, <2>1, <2>2 DEF AgeInConversion, EngineBegun
  <2>3. CASE tick = TDone
    BY <1>1, <1>3, <2>1, <2>3 DEF AgeInConversion, EngineBegun
  <2> QED BY <1>1, <2>2, <2>3
<1> QED BY <1>2, <1>3

\* The engine stays at the end of a conversion until the next.
LEMMA EngineRests ==
  ASSUME TypeOK, measure_done, ~measure_start, SpiRun
  PROVE  measure_done'
BY DEF SpiRun, SpiReset

\* Every edge makes a session one edge older, until it is done.
LEMMA AgeEdge ==
  ASSUME IInv, sess > 0, measure_fifo_num = 1, OneReading, EngineBegun, AdcEdge
  PROVE  /\ EngineBegun'
         /\ Age' = Age + 1 \/ (measure_fifo_done /\ Age' = Age)
         /\ measure_fifo_done => measure_fifo_done'
<1> USE ConstantsAssumption
<1>0. /\ TDone \in Nat /\ tick \in 0..TDone /\ wrptr \in Nat /\ measure_count \in Nat
      /\ measure_count <= 1 /\ TypeOK /\ AgeInConversion \in Nat
  BY DEF IInv, TypeOK, OneReading, AgeInConversion
<1>1. EdgeCommon /\ ~AdcReset'
  BY EdgeIsCommon DEF EdgeCommon, AdcReset, bus
<1>2. AdcReset => Restarted
  BY DEF IInv, ResetHeld, Phases, Restarted, InDummy, DummyDropped, Between, InReading, Finished
<1>3. CASE Restarted
  <2>1. CASE HoldReset
    <3>1. ~measure_start' /\ conv' = 0 /\ ~measure_fifo_done'
      BY <1>3, <2>1 DEF HoldReset, Restarted
    <3>2. Age = 0
      BY <1>3, <2>1 DEF HoldReset, Restarted, Age
    <3> QED BY <1>1, <1>3, <3>1, <3>2 DEF Restarted, Age, EngineBegun
  <2>2. CASE ~HoldReset
    <3>1. BeginConversion
      BY <1>3, <2>2 DEF AdcEdge, AwaitConversion, DropDummy, CountReading, Finish, Rest, Waiting,
                        Restarted, Idle
    <3>2. /\ measure_start' /\ wait_measure_done' /\ ~measure_fifo_done' /\ conv' = 1
          /\ tick' = 0 /\ ~measure_done' /\ ~pre_measure_start'
      BY <1>3, <3>1 DEF BeginConversion, SpiBegin, Restarted
    <3>3. Age' = 2
      BY <3>2 DEF Age, AgeInConversion
    <3>4. Age = 1
      BY <1>3, <3>1 DEF Restarted, BeginConversion, Age
    <3> QED BY <1>3, <3>2, <3>3, <3>4 DEF Restarted, EngineBegun
  <2> QED BY <2>1, <2>2
<1>4. CASE InDummy
  <2>1. AwaitConversion \/ DropDummy
    BY <1>4 DEF AdcEdge, HoldReset, BeginConversion, CountReading, Finish, Rest, InDummy, Idle,
                ResetHeld, IInv
  <2>2. ~measure_fifo_done /\ conv = 1 /\ ~measure_fifo_done' /\ conv' = 1
    <3>1. measure_fifo_done' = measure_fifo_done /\ conv' = conv
      BY <2>1 DEF AwaitConversion, DropDummy, Waiting
    <3> QED BY <1>4, <3>1 DEF InDummy
  <2>3. Age = 2 + AgeInConversion /\ Age' = 2 + AgeInConversion'
    BY <2>2 DEF Age
  <2>4. CASE AwaitConversion
    BY <1>0, <1>4, <2>2, <2>3, <2>4, AgeAwait DEF InDummy
  <2>5. CASE DropDummy
    <3>1. measure_done /\ ~measure_start /\ config_first /\ ~config_first' /\ wait_measure_done'
          /\ ~measure_start' /\ SpiRun
      BY <2>5 DEF DropDummy, Waiting, EngineBegun
    <3>2. measure_done'
      BY <1>0, <3>1, EngineRests
    <3>3. AgeInConversion = 2 + TDone /\ AgeInConversion' = 3 + TDone
      BY <2>2, <3>1, <3>2 DEF AgeInConversion
    <3> QED BY <1>0, <2>2, <2>3, <3>1, <3>3 DEF EngineBegun
  <2> QED BY <2>1, <2>4, <2>5
<1>5. CASE DummyDropped
  <2>0. MoreWanted /\ ~AdcReset
    BY <1>0, <1>2, <1>5 DEF DummyDropped, MoreWanted, Restarted
  <2>1. CountReading
    BY <2>0, <1>5 DEF AdcEdge, HoldReset, BeginConversion, AwaitConversion, DropDummy, Finish,
                      Rest, DummyDropped, Idle
  <2>2. /\ measure_done /\ ~measure_start /\ wait_measure_done /\ ~wait_measure_done'
        /\ ~measure_start' /\ ~config_first /\ ~config_first' /\ SpiRun
        /\ ~measure_fifo_done /\ ~measure_fifo_done' /\ conv = 1 /\ conv' = 1
    BY <1>5, <2>1 DEF CountReading, Waiting, DummyDropped, EngineBegun
  <2>3. measure_done'
    BY <1>0, <2>2, EngineRests
  <2>4. AgeInConversion = 3 + TDone /\ AgeInConversion' = 4 + TDone
    BY <2>2, <2>3 DEF AgeInConversion
  <2> QED BY <1>0, <2>2, <2>4 DEF Age, EngineBegun
<1>6. CASE Between
  <2>1. BeginConversion
    BY <1>6 DEF AdcEdge, HoldReset, AwaitConversion, DropDummy, CountReading, Finish, Rest, Waiting,
                Between, Idle, ResetHeld, IInv
  <2>2. conv = 1 /\ conv' = 2 /\ ~measure_fifo_done /\ ~measure_fifo_done'
    BY <1>0, <1>6, <2>1 DEF Between, BeginConversion
  <2>3. /\ measure_start' /\ wait_measure_done'
        /\ tick' = 0 /\ ~measure_done' /\ ~pre_measure_start'
    BY <1>6, <2>1 DEF BeginConversion, SpiBegin, Between
  <2>4. AgeInConversion = 4 + TDone
    BY <1>6, <2>2 DEF Between, AgeInConversion
  <2>5. AgeInConversion' = 0
    BY <2>3 DEF AgeInConversion
  <2> QED BY <1>0, <2>2, <2>3, <2>4, <2>5 DEF Age, EngineBegun
<1>7. CASE InReading
  <2>1. conv = 2 /\ measure_count = 1
    BY <1>0, <1>7 DEF InReading
  <2>2. AwaitConversion \/ Finish
    <3>1. ~MoreWanted /\ ~AdcReset
      BY <1>2, <1>7, <2>1 DEF InReading, MoreWanted, Restarted
    <3> QED BY <1>7, <3>1 DEF AdcEdge, HoldReset, BeginConversion, DropDummy, CountReading, Rest,
                              InReading, Idle
  <2>3. CASE AwaitConversion
    <3>1. ~measure_fifo_done /\ ~measure_fifo_done' /\ conv' = 2
      BY <1>7, <2>1, <2>3 DEF InReading, AwaitConversion, Waiting
    <3>2. EngineBegun' /\ AgeInConversion' = AgeInConversion + 1
      BY <1>0, <2>1, <2>3, AgeAwait
    <3> QED BY <1>0, <2>1, <3>1, <3>2 DEF Age
  <2>4. CASE Finish
    <3>1. ~measure_fifo_done /\ measure_fifo_done' /\ measure_done /\ ~measure_start
          /\ ~measure_start'
      BY <1>7, <2>4 DEF InReading, Finish, Waiting, EngineBegun
    <3>2. AgeInConversion = 2 + TDone
      BY <2>1, <3>1 DEF AgeInConversion
    <3> QED BY <1>0, <2>1, <3>1, <3>2 DEF Age, EngineBegun
  <2> QED BY <2>2, <2>3, <2>4
<1>8. CASE Finished
  <2>1. Finish \/ Rest \/ CountReading
    BY <1>8 DEF AdcEdge, HoldReset, BeginConversion, AwaitConversion, DropDummy, Waiting,
                Finished, Idle, ResetHeld, IInv
  <2>2. measure_fifo_done /\ measure_fifo_done' /\ ~measure_start'
    <3>1. CASE Finish \/ CountReading
      BY <1>8, <3>1 DEF Finish, CountReading, Waiting, Finished
    <3>2. CASE Rest
      <4>1. measure_fifo_done' = measure_fifo_done /\ measure_start' = measure_start
        BY <3>2 DEF Rest
      <4> QED BY <1>8, <4>1 DEF Finished
    <3> QED BY <2>1, <3>1, <3>2
  <2> QED BY <2>2 DEF Age, EngineBegun
<1> QED BY <1>3, <1>4, <1>5, <1>6, <1>7, <1>8 DEF IInv, Phases

LEMMA EngineBegunStep ==
  ASSUME StreamInv, [StreamNext]_vars
  PROVE  EngineBegun'
<1>1. CASE AdcClock
  <2> SUFFICES ASSUME sess > 0 PROVE EngineBegun'
    BY <1>1, EdgeKeepsBus DEF EngineBegun
  <2>1. measure_fifo_num = 1
    BY DEF StreamInv, Configured
  <2> QED BY <1>1, <2>1, EdgeKeepsBus, AgeEdge DEF StreamInv
<1>2. CASE StartHigh
  <2>1. ~measure_start'
    BY <1>2, Restart DEF StreamInv, AsyncReset
  <2> QED BY <2>1 DEF EngineBegun
<1>3. CASE Aside
  <2>1. UNCHANGED <<ctl, spi, sess>>
    BY <1>3, AsideKeeps
  <2> QED BY <2>1 DEF StreamInv, EngineBegun, ctl, spi
<1> QED BY <1>1, <1>2, <1>3, Steps

-----------------------------------------------------------------------------
(* Where the program is, told in edges.                                    *)

\* A start pulse finds the session before it done.
LEMMA DoneBeforePulse ==
  ASSUME StreamInv, StartHigh, sess > 0
  PROVE  measure_fifo_done
<1>1. pc = "start1" /\ gap >= 1 /\ gap \in 0..LoopGap
  BY Restart DEF StreamInv, StreamTypeOK
<1>2. Passed = LoopGap + 3
  BY <1>1, StreamAssumption DEF Passed
<1>3. Age \in Nat /\ (~measure_fifo_done => Age <= 2 * TDone + 9)
  BY AgeRange DEF StreamInv
<1>4. TDone \in Nat /\ LoopGap \in Nat /\ 2 * TDone + 7 <= LoopGap
  BY ConstantsAssumption, StreamAssumption
<1>5. measure_fifo_done \/ LoopGap + 3 <= Age
  BY <1>2 DEF StreamInv, Timely
<1> QED BY <1>3, <1>4, <1>5

LEMMA PassedRange == StreamTypeOK => Passed \in Nat
<1> SUFFICES ASSUME StreamTypeOK PROVE Passed \in Nat
  OBVIOUS
<1>1. gap \in Nat /\ LoopGap \in Nat
  BY StreamAssumption DEF StreamTypeOK
<1> QED BY <1>1 DEF StreamTypeOK, Passed

\* A step of the program does not get ahead of the session ...
LEMMA AsidePassed ==
  ASSUME StreamTypeOK, Aside
  PROVE  Passed' <= Passed \/ (Passed' <= 1 /\ ~AdcReset')
<1> USE StreamAssumption DEF StreamTypeOK, Transaction
<1>0. gap \in Nat /\ LoopGap \in Nat /\ gap <= LoopGap
  OBVIOUS
<1>1. CASE SetMeasureNum
  <2>1. pc = "num" /\ pc' = "start0" /\ gap' = 0 /\ gap = LoopGap
    BY <1>1 DEF SetMeasureNum
  <2> QED BY <1>0, <2>1 DEF Passed
<1>2. CASE StartLow
  <2>1. pc = "start0" /\ pc' = "start1" /\ gap' = 0 /\ gap >= 1
    BY <1>2 DEF StartLow
  <2> QED BY <1>0, <2>1 DEF Passed
<1>3. CASE StartLowAgain
  <2>1. pc = "start2" /\ pc' = "read" /\ gap' = 0 /\ gap >= 1
    BY <1>3 DEF StartLowAgain
  <2> QED BY <1>0, <2>1 DEF Passed
<1>4. CASE ReadValue
  <2>1. pc = "read" /\ pc' = "value" /\ gap' = 0 /\ gap >= 1
    BY <1>4 DEF ReadValue
  <2> QED BY <1>0, <2>1 DEF Passed
<1>5. CASE TakeValue
  <2>1. pc = "value" /\ pc' = "send" /\ gap' = gap
    BY <1>5 DEF TakeValue
  <2> QED BY <1>0, <2>1 DEF Passed
<1>6. CASE SendToDac
  <2>1. pc = "send" /\ pc' = "start0" /\ gap' = gap /\ gap = LoopGap
    BY <1>6 DEF SendToDac
  <2> QED BY <1>0, <2>1 DEF Passed
<1>7. CASE CpuReset
  <2>1. pc' = "num" /\ gap' = 0 /\ ~AdcReset'
    BY <1>7 DEF CpuReset, SlaveReset, AdcReset
  <2> QED BY <2>1 DEF Passed
<1>8. CASE PinChange \/ UNCHANGED vars
  <2>1. pc' = pc /\ gap' = gap
    BY <1>8 DEF PinChange, vars, prog
  <2> QED BY <1>0, <2>1 DEF Passed
<1> QED BY <1>1, <1>2, <1>3, <1>4, <1>5, <1>6, <1>7, <1>8 DEF Aside

\* ... nor a session ahead of the read.
LEMMA AsideBeforeRead ==
  ASSUME Aside
  PROVE  /\ pc' = "start2" => pc = "start2" /\ gap' = gap /\ (AdcReset => AdcReset')
         /\ pc' = "read" => \/ pc = "read" /\ gap' = gap
                            \/ pc = "start2" /\ gap' = 0 /\ gap >= 1
<1> USE DEF Transaction
<1>1. CASE SetMeasureNum \/ StartLow \/ ReadValue \/ TakeValue \/ SendToDac \/ CpuReset
  BY <1>1 DEF SetMeasureNum, StartLow, ReadValue, TakeValue, SendToDac, CpuReset
<1>2. CASE StartLowAgain
  BY <1>2 DEF StartLowAgain
<1>3. CASE PinChange \/ UNCHANGED vars
  <2>1. pc' = pc /\ gap' = gap
    BY <1>3 DEF PinChange, vars, prog
  <2>2. measure_fifo_start' = measure_fifo_start
        /\ pre_measure_fifo_start' = pre_measure_fifo_start
    BY <1>3 DEF PinChange, DecChange, vars, hwvars, bus
  <2>3. AdcReset => AdcReset'
    BY <2>2 DEF AdcReset
  <2> QED BY <2>1, <2>3
<1> QED BY <1>1, <1>2, <1>3 DEF Aside

LEMMA EdgePassed ==
  ASSUME StreamTypeOK, AdcClock
  PROVE  /\ Passed' <= Passed + 1 /\ Passed \in Nat /\ Passed' \in Nat
         /\ pc \in {"start2", "read"} => gap' = gap + 1 /\ gap' <= MaxStall
<1>1. /\ pc' = pc /\ gap' = IF gap < LoopGap THEN gap + 1 ELSE gap
      /\ pc \in {"start2", "read"} => gap < MaxStall
  BY DEF AdcClock
<1>2. gap \in Nat /\ gap <= LoopGap /\ LoopGap \in Nat /\ MaxStall \in Nat
      /\ MaxStall <= LoopGap
  BY StreamAssumption DEF StreamTypeOK
<1>3. pc \in {"start2", "read"} => gap' = gap + 1 /\ gap' <= MaxStall
  BY <1>1, <1>2
<1>4. gap' \in Nat /\ gap' <= gap + 1 /\ (gap > 0 => gap' > 0)
  BY <1>1, <1>2
<1>5. CASE pc = "start0" \/ pc = "start1"
  BY <1>1, <1>2, <1>4, <1>5 DEF Passed
<1>6. CASE pc \in {"num", "start2", "read", "value", "send"}
  BY <1>1, <1>2, <1>4, <1>6 DEF Passed
<1> QED BY <1>3, <1>5, <1>6 DEF StreamTypeOK

LEMMA TimelyStep ==
  ASSUME StreamInv, [StreamNext]_vars
  PROVE  Timely'
<1>0. /\ TDone \in Nat /\ LoopGap \in Nat /\ MaxStall \in Nat /\ MaxStall >= 1
      /\ gap \in Nat
  BY ConstantsAssumption, StreamAssumption DEF StreamInv, StreamTypeOK
<1>1. CASE AdcClock
  <2> SUFFICES ASSUME sess > 0 PROVE Timely'
    BY <1>1, EdgeKeepsBus DEF Timely
  <2>1. measure_fifo_num = 1
    BY DEF StreamInv, Configured
  <2>2. /\ Age' = Age + 1 \/ (measure_fifo_done /\ Age' = Age)
        /\ measure_fifo_done => measure_fifo_done'
    BY <1>1, <2>1, EdgeKeepsBus, AgeEdge DEF StreamInv
  <2>3. Age \in Nat
    BY AgeRange DEF StreamInv
  <2>4. /\ Passed' <= Passed + 1 /\ Passed \in Nat /\ Passed' \in Nat
        /\ pc \in {"start2", "read"} => gap' = gap + 1 /\ gap' <= MaxStall
    BY <1>1, EdgePassed DEF StreamInv
  <2>5. /\ measure_fifo_done \/ Passed <= Age
        /\ pc = "start2" => Age <= gap
        /\ pc = "read" => Age <= MaxStall + gap
    BY DEF StreamInv, Timely
  <2>6. pc' = pc
    BY <1>1, EdgeKeepsBus
  <2>7. measure_fifo_done' \/ Passed' <= Age'
    BY <2>2, <2>3, <2>4, <2>5
  <2>8. pc' = "start2" => Age' <= gap' /\ gap' <= MaxStall
    BY <1>0, <2>2, <2>3, <2>4, <2>5, <2>6
  <2>9. pc' = "read" => Age' <= MaxStall + gap' /\ gap' <= MaxStall
    BY <1>0, <2>2, <2>3, <2>4, <2>5, <2>6
  <2> QED BY <2>7, <2>8, <2>9 DEF Timely
<1>2. CASE StartHigh
  <2>1. ~measure_fifo_done' /\ conv' = 0 /\ AdcReset' /\ pc' = "start2" /\ gap' = 0
    BY <1>2, Restart DEF StreamInv, AsyncReset
  <2>2. Age' = 0 /\ Passed' = 0
    BY <2>1 DEF Age, Passed
  <2> QED BY <1>0, <2>1, <2>2 DEF Timely
<1>3. CASE Aside
  <2>0. UNCHANGED <<ctl, wrptr, spi, ram, sess, conv>>
    BY <1>3, AsideKeeps
  <2> SUFFICES ASSUME sess > 0 PROVE Timely'
    BY <2>0 DEF Timely
  <2>1. measure_fifo_done' = measure_fifo_done
    BY <2>0 DEF ctl
  <2>2. /\ Age \in Nat /\ (Age' = Age \/ (Age = 0 /\ Age' = 1))
        /\ ~AdcReset' => Age' >= 1
        /\ (AdcReset => AdcReset') => Age' = Age
    BY <1>3, AgeRange, AgeAside DEF StreamInv, IInv
  <2>3. Passed' <= Passed \/ (Passed' <= 1 /\ ~AdcReset')
    BY <1>3, AsidePassed DEF StreamInv
  <2>4. /\ pc' = "start2" => pc = "start2" /\ gap' = gap /\ (AdcReset => AdcReset')
        /\ pc' = "read" => \/ pc = "read" /\ gap' = gap
                           \/ pc = "start2" /\ gap' = 0 /\ gap >= 1
    BY <1>3, AsideBeforeRead
  <2>5. /\ measure_fifo_done \/ Passed <= Age
        /\ pc = "start2" => Age <= gap /\ gap <= MaxStall
        /\ pc = "read" => Age <= MaxStall + gap /\ gap <= MaxStall
    BY DEF StreamInv, Timely
  <2>6. Passed \in Nat /\ Passed' \in Nat
    <3>1. StreamTypeOK /\ StreamTypeOK'
      BY StreamTypeStep DEF StreamInv
    <3>2. gap' \in Nat /\ LoopGap \in Nat
      BY <3>1, StreamAssumption DEF StreamTypeOK
    <3>3. Passed' \in Nat
      BY <3>1, <3>2 DEF StreamTypeOK, Passed
    <3> QED BY <3>1, <3>3, PassedRange
  <2>7. measure_fifo_done' \/ Passed' <= Age'
    BY <2>1, <2>2, <2>3, <2>5, <2>6
  <2>8. pc' = "start2" => Age' <= gap' /\ gap' <= MaxStall
    BY <1>0, <2>2, <2>4, <2>5
  <2>9. pc' = "read" => Age' <= MaxStall + gap' /\ gap' <= MaxStall
    BY <1>0, <2>2, <2>4, <2>5
  <2> QED BY <2>7, <2>8, <2>9 DEF Timely
<1> QED BY <1>1, <1>2, <1>3, Steps

-----------------------------------------------------------------------------
(* The reading of the session before.                                      *)

\* A session that is not done by the edge has not stored its reading either.
LEMMA NotYetStored ==
  ASSUME IInv, sess > 0, measure_fifo_num = 1, OneReading, AdcEdge, ~measure_fifo_done'
  PROVE  ram' = ram
<1>1. EdgeCommon
  BY EdgeIsCommon
<1>2. ~fifo_wrreq
  <2> SUFFICES ASSUME fifo_wrreq PROVE FALSE
    OBVIOUS
  <2>1. InReading /\ measure_done
    BY StoredWord DEF IInv
  <2>2. measure_count = 1 /\ ~AdcReset
    BY <2>1 DEF InReading, OneReading, IInv, TypeOK, ResetHeld
  <2>3. ~MoreWanted
    BY <2>2 DEF MoreWanted
  <2>4. Finish
    BY <2>1, <2>2, <2>3 DEF AdcEdge, HoldReset, BeginConversion, AwaitConversion, DropDummy,
                            CountReading, Rest, InReading, Idle, Waiting
  <2> QED BY <2>4 DEF Finish
<1> QED BY <1>1, <1>2 DEF EdgeCommon, FifoEdge

\* Before the first session nothing has a session's name.
LEMMA NoNameYet ==
  ASSUME IInv, sess = 0, LastKept, AdcEdge
  PROVE  samp'.sess = 0 /\ read_data'.sess = 0 /\ ram'[0].sess = 0
<1>0. samp.sess = 0 /\ read_data.sess = 0 /\ ram[0].sess = 0
  BY DEF LastKept
<1>1. samp'.sess = 0 /\ read_data'.sess = 0
  <2>1. CASE BeginConversion
    <3>1. samp'.sess = sess /\ read_data' = Zero
      BY <2>1 DEF BeginConversion, SpiBegin
    <3> QED BY <3>1 DEF Zero
  <2>2. CASE SpiRun
    BY <1>0, <2>2 DEF SpiRun
  <2> QED BY <2>1, <2>2, EdgeSpi
<1>2. ram'[0].sess = 0
  <2>1. fifo_in.sess = 0
    BY <1>0 DEF fifo_in, IInv, TypeOK, Entry
  <2>2. ram' = ram \/ ram' = [ram EXCEPT ![wrptr % Depth] = fifo_in]
    BY EdgeIsCommon DEF EdgeCommon, FifoEdge
  <2>3. 0 \in 0..Depth-1 /\ DOMAIN ram = 0..Depth-1
    BY ConstantsAssumption DEF IInv, TypeOK
  <2>4. ram'[0] \in {ram[0], fifo_in}
    BY <2>2, <2>3
  <2> QED BY <1>0, <2>1, <2>4
<1> QED BY <1>1, <1>2

\* At a start pulse the memory holds the reading of the session it ends.
LEMMA LastAtPulse ==
  ASSUME StreamInv, StartHigh
  PROVE  ram[0].sess = sess /\ (sess > 0 => ram[0].conv = 1 /\ ram[0].ch = ch)
<1>1. sess \in Nat /\ 0 \in 0..Depth-1
  BY ConstantsAssumption DEF StreamInv, IInv, TypeOK
<1>2. CASE sess = 0
  BY <1>2 DEF StreamInv, LastKept
<1>3. CASE sess > 0
  <2>1. measure_count = 1 /\ wrptr = 1
    BY <1>3, DoneBeforePulse DEF StreamInv, OneReading
  <2>2. measure_count <= Depth
    BY <2>1, ConstantsAssumption
  <2>3. ram[0].sess = sess /\ ram[0].conv = 0 + 1
    BY <1>1, <1>3, <2>1, <2>2 DEF StreamInv, IInv, SessionWords
  <2>4. ram[0].ch = ch
    BY <1>1, <1>3, <2>1 DEF StreamInv, OneReading
  <2> QED BY <2>3, <2>4
<1> QED BY <1>1, <1>2, <1>3

LEMMA LastKeptStep ==
  ASSUME StreamInv, [StreamNext]_vars
  PROVE  LastKept'
<1>0. sess \in Nat /\ ch' = ch
  BY ConstantsAssumption DEF StreamInv, IInv, TypeOK, ch
<1>1. CASE AdcClock
  <2>1. AdcEdge /\ sess' = sess
    BY <1>1, EdgeKeepsBus
  <2>2. CASE sess = 0
    BY <2>1, <2>2, NoNameYet DEF StreamInv, LastKept
  <2>3. CASE sess > 0
    <3> SUFFICES ASSUME ~measure_fifo_done' PROVE Behind(ram[0])'
      BY <2>1, <2>3 DEF LastKept
    <3>1. measure_fifo_num = 1
      BY <2>3 DEF StreamInv, Configured
    <3>2. ~measure_fifo_done
      BY <2>1, <2>3, <3>1, AgeEdge DEF StreamInv
    <3>3. ram' = ram
      BY <2>1, <2>3, <3>1, NotYetStored DEF StreamInv
    <3>4. Behind(ram[0])
      BY <2>3, <3>2 DEF StreamInv, LastKept
    <3> QED BY <1>0, <2>1, <3>3, <3>4 DEF Behind
  <2> QED BY <1>0, <2>2, <2>3
<1>2. CASE StartHigh
  <2>1. ram[0].sess = sess /\ (sess > 0 => ram[0].conv = 1 /\ ram[0].ch = ch)
    BY <1>2, LastAtPulse
  <2>2. sess' = sess + 1 /\ ram' = ram
    BY <1>2, Restart DEF StreamInv
  <2>3. Behind(ram[0])'
    BY <1>0, <2>1, <2>2 DEF Behind
  <2> QED BY <1>0, <2>2, <2>3 DEF LastKept
<1>3. CASE Aside
  <2>1. UNCHANGED <<ctl, spi, ram, sess>>
    BY <1>3, AsideKeeps
  <2> QED BY <1>0, <2>1 DEF StreamInv, LastKept, Behind, ctl, spi
<1> QED BY <1>1, <1>2, <1>3, Steps

\* The read comes before the session's own reading.
LEMMA ReadsBehind ==
  ASSUME StreamInv, pc = "read"
  PROVE  Behind(fifo_q)
<1>1. sess > 0 /\ rdptr = 0
  BY DEF StreamInv, ReadBehind
<1>2. ~measure_fifo_done
  <2> SUFFICES ASSUME measure_fifo_done PROVE FALSE
    OBVIOUS
  <2>1. Age = 2 * TDone + 10
    BY DEF Age
  <2>2. Age <= MaxStall + gap /\ gap <= MaxStall
    BY <1>1 DEF StreamInv, Timely
  <2>3. TDone \in Nat /\ MaxStall \in Nat /\ MaxStall <= TDone + 4 /\ gap \in Nat
    BY ConstantsAssumption, StreamAssumption DEF StreamInv, StreamTypeOK
  <2> QED BY <2>1, <2>2, <2>3
<1>3. Behind(ram[0])
  BY <1>1, <1>2 DEF StreamInv, LastKept
<1>4. 0 % Depth = 0
  BY SmallMod, ConstantsAssumption
<1> QED BY <1>1, <1>3, <1>4 DEF fifo_q

LEMMA ReadStep ==
  ASSUME StreamInv, [StreamNext]_vars
  PROVE  ReadBehind' /\ OneReadingBehind'
<1> USE DEF Transaction
<1>0. sess \in Nat /\ ch' = ch
  BY ConstantsAssumption DEF StreamInv, IInv, TypeOK, ch
<1>1. CASE AdcClock
  <2>1. UNCHANGED <<slave_readdata, sess, rdptr, pc, ADC_value>>
    BY <1>1, EdgeKeepsBus
  <2> QED BY <1>0, <2>1 DEF StreamInv, ReadBehind, OneReadingBehind, Behind
<1>2. CASE StartHigh
  <2>1. pc' = "start2" /\ rdptr' = 0 /\ sess' = sess + 1
    BY <1>2, Restart DEF StreamInv, AsyncReset
  <2> QED BY <1>0, <2>1 DEF ReadBehind, OneReadingBehind
<1>3. CASE StartLowAgain
  <2>1. pc = "start2" /\ pc' = "read" /\ rdptr' = rdptr /\ sess' = sess
    BY <1>3 DEF StartLowAgain, WriteStart, ptrs
  <2> QED BY <2>1 DEF StreamInv, ReadBehind, OneReadingBehind
<1>4. CASE ReadValue
  <2>1. pc = "read" /\ pc' = "value" /\ slave_readdata' = fifo_q /\ sess' = sess
    BY <1>4 DEF ReadValue, ReadCapture
  <2>2. Behind(fifo_q) /\ sess > 0
    BY <2>1, ReadsBehind DEF StreamInv, ReadBehind
  <2>3. Behind(slave_readdata)'
    BY <1>0, <2>1, <2>2 DEF Behind
  <2> QED BY <2>1, <2>2, <2>3 DEF ReadBehind, OneReadingBehind
<1>5. CASE TakeValue
  <2>1. pc = "value" /\ pc' = "send" /\ ADC_value' = slave_readdata /\ sess' = sess
    BY <1>5 DEF TakeValue, ReadPop
  <2>2. Behind(slave_readdata) /\ sess > 0
    BY <2>1 DEF StreamInv, ReadBehind
  <2> QED BY <1>0, <2>1, <2>2 DEF ReadBehind, OneReadingBehind, Behind
<1>6. CASE SetMeasureNum \/ StartLow \/ SendToDac \/ CpuReset
  <2>1. pc' \in {"start0", "start1", "num"}
    BY <1>6 DEF SetMeasureNum, StartLow, SendToDac, CpuReset
  <2> QED BY <2>1 DEF ReadBehind, OneReadingBehind
<1>7. CASE PinChange \/ UNCHANGED vars
  <2>1. UNCHANGED <<slave_readdata, sess, rdptr, pc, ADC_value>>
    BY <1>7 DEF PinChange, DecChange, prog, vars, hwvars, rd, ptrs
  <2> QED BY <1>0, <2>1 DEF StreamInv, ReadBehind, OneReadingBehind, Behind
<1> QED BY <1>1, <1>2, <1>3, <1>4, <1>5, <1>6, <1>7 DEF StreamNext, Program

-----------------------------------------------------------------------------
(* The theorem.                                                            *)

LEMMA InitStreamInv == StreamInit => StreamInv
<1> SUFFICES ASSUME StreamInit PROVE StreamInv
  OBVIOUS
<1>1. IInv
  BY InitIInv DEF StreamInit
<1>2. pc = "num" /\ sess = 0 /\ ~(sess > 0) /\ gap = 0
  BY DEF StreamInit, HwInit
<1>3. samp.sess = 0 /\ read_data.sess = 0 /\ ram[0].sess = 0
  BY ConstantsAssumption DEF StreamInit, HwInit, Zero
<1>4. StreamTypeOK
  BY <1>2, StreamAssumption DEF StreamTypeOK
<1> QED BY <1>1, <1>2, <1>3, <1>4
        DEF StreamInv, StartSeenLow, Configured, OneReading, EngineBegun, Timely, LastKept,
            ReadBehind, OneReadingBehind

LEMMA StepStreamInv == StreamInv /\ [StreamNext]_vars => StreamInv'
<1> SUFFICES ASSUME StreamInv, [StreamNext]_vars PROVE StreamInv'
  OBVIOUS
<1>1. TypeOK
  BY DEF StreamInv, IInv
<1>2. IInv'
  BY <1>1, HwStep, StepIInv DEF StreamInv
<1>3. StreamTypeOK' /\ StartSeenLow' /\ Configured'
  BY <1>1, StreamTypeStep, StartStep, ConfiguredStep DEF StreamInv
<1>4. OneReading' /\ EngineBegun' /\ Timely'
  BY OneReadingStep, EngineBegunStep, TimelyStep DEF StreamInv
<1>5. LastKept' /\ ReadBehind' /\ OneReadingBehind'
  BY LastKeptStep, ReadStep
<1> QED BY <1>2, <1>3, <1>4, <1>5 DEF StreamInv

\* The value the streaming program sends is the whole reading of the session
\* before, of the right channel, however long the conversion, as long as two of
\* them end within the loop's pause and the read comes before they do.
THEOREM OneReadingBehindHolds == StreamSpec => []OneReadingBehind
<1>1. StreamInv => OneReadingBehind
  BY DEF StreamInv
<1> QED BY <1>1, InitStreamInv, StepStreamInv, PTL DEF StreamSpec
=============================================================================
