-------------------------- MODULE PolledAdcProofs --------------------------
(***************************************************************************)
(* That the polling program gets the readings it asked for: for every      *)
(* number of readings the FIFO has room for, every length of conversion    *)
(* and depth of the synchroniser, every pace of the program and resets of  *)
(* the processor at any moment.                                            *)
(***************************************************************************)
EXTENDS PolledAdc, AdcFifoProofs

-----------------------------------------------------------------------------
(* Every step of the closed system is one of the controller and its bus.   *)

LEMMA HwStep ==
  ASSUME PolledTypeOK, [PolledNext]_vars
  PROVE  [Next]_hwvars
<1> USE ConstantsAssumption, PolledAssumption DEF PolledTypeOK
<1>1. nReadNum \in 0..MaxNum /\ ch \in Channels /\ TRUE \in BOOLEAN /\ FALSE \in BOOLEAN
  OBVIOUS
<1>2. Program => Next
  BY <1>1 DEF Program, SetMeasureNum, StartLow, StartHigh, StartLowAgain, Poll, ReadValue,
              TakeValue, Next
<1> QED BY <1>2 DEF PolledNext, CpuReset, AdcClock, PinChange, Next, vars

-----------------------------------------------------------------------------
(* Types.                                                                  *)

LEMMA PolledInitTypes == PolledInit => PolledTypeOK
<1> SUFFICES ASSUME PolledInit PROVE PolledTypeOK
  OBVIOUS
<1>1. TypeOK
  BY InitType DEF PolledInit
<1>2. got \in Seq(Entry) /\ Len(got) <= nReadNum /\ gap \in 0..BusGap /\ pulses \in 0..MaxSess
      /\ resets \in 0..MaxResets
  BY ConstantsAssumption, PolledAssumption DEF PolledInit
<1> QED BY <1>1, <1>2 DEF PolledInit, PolledTypeOK

LEMMA PolledTypeStep ==
  ASSUME PolledTypeOK, NoLostStart, Reading, [PolledNext]_vars, NoLostStart'
  PROVE  PolledTypeOK'
<1> USE ConstantsAssumption, PolledAssumption DEF PolledTypeOK, Transaction
<1>1. TypeOK'
  BY HwStep, StepType
<1>2. pulses' \in 0..MaxSess
  BY <1>1 DEF NoLostStart, TypeOK
<1> SUFFICES /\ pc' \in {"num", "start0", "start1", "start2", "poll", "read", "value"}
             /\ ch' \in Channels /\ got' \in Seq(Entry) /\ Len(got') <= nReadNum
             /\ gap' \in 0..BusGap /\ resets' \in 0..MaxResets
  BY <1>1, <1>2
<1>3. CASE SetMeasureNum
  BY <1>3 DEF SetMeasureNum
<1>4. CASE StartLow \/ StartHigh \/ StartLowAgain \/ Poll \/ ReadValue
  <2>1. UNCHANGED <<ch, got, resets>> /\ gap' = 0
    BY <1>4 DEF StartLow, StartHigh, StartLowAgain, Poll, ReadValue
  <2>2. pc' \in {"start1", "start2", "poll", "read", "value"}
    BY <1>4 DEF StartLow, StartHigh, StartLowAgain, Poll, ReadValue
  <2> QED BY <2>1, <2>2
<1>5. CASE TakeValue
  <2>1. slave_readdata \in Entry /\ Len(got) < nReadNum
    BY <1>5 DEF TypeOK, Reading, TakeValue
  <2>2. Append(got, slave_readdata) \in Seq(Entry)
        /\ Len(Append(got, slave_readdata)) = Len(got) + 1
    BY <2>1
  <2> QED BY <1>5, <2>1, <2>2 DEF TakeValue
<1>6. CASE CpuReset
  BY <1>6 DEF CpuReset
<1>7. CASE AdcClock
  BY <1>7 DEF AdcClock
<1>8. CASE PinChange \/ UNCHANGED vars
  BY <1>8 DEF PinChange, prog, vars
<1> QED BY <1>3, <1>4, <1>5, <1>6, <1>7, <1>8 DEF PolledNext, Program

-----------------------------------------------------------------------------
(* The start pulse.                                                        *)

LEMMA StartStep ==
  ASSUME PolledTypeOK, NoLostStart, StartSeenLow, [PolledNext]_vars
  PROVE  NoLostStart' /\ StartSeenLow'
<1> USE ConstantsAssumption, PolledAssumption
    DEF PolledTypeOK, NoLostStart, StartSeenLow, Transaction
<1>1. CASE SetMeasureNum \/ StartLowAgain \/ Poll \/ ReadValue
  BY <1>1 DEF SetMeasureNum, WriteNum, StartLowAgain, WriteStart, Poll, ReadStatus,
              ReadValue, ReadCapture
<1>2. CASE StartLow
  BY <1>2 DEF StartLow, WriteStart
<1>3. CASE StartHigh
  <2>1. ~measure_fifo_start /\ ~pre_measure_fifo_start
    BY <1>3 DEF StartHigh
  <2>2. sess' = sess + 1 /\ pulses' = pulses + 1 /\ pc' = "start2"
    BY <1>3, <2>1 DEF StartHigh, WriteStart
  <2> QED BY <2>2
<1>4. CASE TakeValue
  BY <1>4 DEF TakeValue, ReadPop
<1>5. CASE CpuReset
  BY <1>5 DEF CpuReset, SlaveReset
<1>6. CASE AdcClock
  <2>1. pc' = pc /\ pulses' = pulses /\ EdgeCommon
    BY <1>6, EdgeIsCommon DEF AdcClock
  <2>2. /\ sess' = sess /\ measure_fifo_start' = measure_fifo_start
        /\ pre_measure_fifo_start' = measure_fifo_start
    BY <2>1 DEF EdgeCommon, bus
  <2> QED BY <2>1, <2>2
<1>7. CASE PinChange \/ UNCHANGED vars
  BY <1>7 DEF PinChange, DecChange, prog, vars, hwvars, bus
<1> QED BY <1>1, <1>2, <1>3, <1>4, <1>5, <1>6, <1>7 DEF PolledNext, Program

LEMMA ConfiguredStep ==
  ASSUME PolledTypeOK, Configured, [PolledNext]_vars
  PROVE  Configured'
<1> USE DEF Configured, Transaction, Begun, bus
<1>1. CASE SetMeasureNum
  BY <1>1 DEF SetMeasureNum, WriteNum
<1>2. CASE StartLow \/ StartHigh \/ StartLowAgain
  BY <1>2 DEF StartLow, StartHigh, StartLowAgain, WriteStart
<1>3. CASE Poll
  BY <1>3 DEF Poll, ReadStatus
<1>4. CASE ReadValue
  BY <1>4 DEF ReadValue, ReadCapture
<1>5. CASE TakeValue
  BY <1>5 DEF TakeValue, ReadPop
<1>6. CASE CpuReset
  BY <1>6 DEF CpuReset, SlaveReset
<1>7. CASE AdcClock
  BY <1>7, EdgeIsCommon DEF AdcClock, EdgeCommon
<1>8. CASE PinChange \/ UNCHANGED vars
  BY <1>8 DEF PinChange, DecChange, prog, vars, hwvars
<1> QED BY <1>1, <1>2, <1>3, <1>4, <1>5, <1>6, <1>7, <1>8 DEF PolledNext, Program

-----------------------------------------------------------------------------
(* The session and its channel.                                            *)

\* The steps that leave the ADC side alone.
Aside == \/ SetMeasureNum \/ StartLow \/ StartLowAgain \/ Poll \/ ReadValue \/ TakeValue
         \/ CpuReset \/ PinChange \/ UNCHANGED vars

LEMMA Steps == [PolledNext]_vars => AdcClock \/ StartHigh \/ Aside
BY DEF PolledNext, Program, Aside

LEMMA AsideKeeps ==
  ASSUME Aside
  PROVE  UNCHANGED <<ctl, wrptr, spi, ram, sess, conv>>
<1> USE DEF ptrs
<1>1. CASE SetMeasureNum
  BY <1>1 DEF SetMeasureNum, WriteNum
<1>2. CASE StartLow \/ StartLowAgain
  BY <1>2 DEF StartLow, StartLowAgain, WriteStart
<1>3. CASE Poll \/ ReadValue \/ TakeValue
  BY <1>3 DEF Poll, ReadStatus, ReadValue, ReadCapture, TakeValue, ReadPop
<1>4. CASE CpuReset \/ PinChange \/ UNCHANGED vars
  BY <1>4 DEF CpuReset, SlaveReset, PinChange, DecChange, vars, hwvars
<1> QED BY <1>1, <1>2, <1>3, <1>4 DEF Aside

\* The program is in its session after an aside only if it was before.
LEMMA AsideBegun ==
  ASSUME Aside, Begun'
  PROVE  Begun /\ ch' = ch
BY DEF Aside, SetMeasureNum, StartLow, StartLowAgain, Poll, ReadValue, TakeValue, CpuReset,
       PinChange, prog, vars, Transaction, Begun

LEMMA Restart ==
  ASSUME PolledTypeOK, StartSeenLow, StartHigh
  PROVE  /\ AsyncReset /\ sess' = sess + 1 /\ conv' = 0
         /\ pc = "start1" /\ pc' = "start2" /\ UNCHANGED <<ch, got, spi, ram>>
<1>1. ~measure_fifo_start /\ ~pre_measure_fifo_start
  BY PolledAssumption DEF StartHigh, Transaction, StartSeenLow
<1> QED BY <1>1 DEF StartHigh, Transaction, WriteStart

LEMMA OwnSessionStep ==
  ASSUME PolledInv, [PolledNext]_vars
  PROVE  OwnSession'
<1> SUFFICES ASSUME Begun'
             PROVE  /\ sess' > 0 /\ measure_count' <= nReadNum
                    /\ measure_fifo_done' => measure_count' = nReadNum /\ wrptr' = nReadNum
  BY DEF OwnSession
<1>1. CASE AdcClock
  <2>1. Begun /\ AdcEdge
    BY <1>1 DEF AdcClock, Begun
  <2>2. measure_fifo_num = nReadNum
    BY <2>1 DEF PolledInv, Configured, Begun
  <2>3. nReadNum \in 1..Depth
    BY ConstantsAssumption, PolledAssumption
  <2> QED BY <2>1, <2>2, <2>3, SessionEdge DEF PolledInv, OwnSession
<1>2. CASE StartHigh
  <2>1. AsyncReset /\ sess' = sess + 1
    BY <1>2, Restart DEF PolledInv
  <2> QED BY <2>1, PolledAssumption DEF AsyncReset, PolledInv, IInv, TypeOK
<1>3. CASE Aside
  <2>1. Begun /\ UNCHANGED <<ctl, wrptr, sess>>
    BY <1>3, AsideKeeps, AsideBegun
  <2> QED BY <2>1 DEF PolledInv, OwnSession, ctl
<1> QED BY <1>1, <1>2, <1>3, Steps

LEMMA OwnChannelStep ==
  ASSUME PolledInv, [PolledNext]_vars
  PROVE  OwnChannel'
<1> SUFFICES ASSUME Begun'
             PROVE  /\ ChannelSet(ch)'
                    /\ \A a \in 0..Depth-1 : a < wrptr' => ram'[a].ch = ch'
  BY DEF OwnChannel, ChannelSet
<1>1. CASE AdcClock
  <2>1. Begun /\ AdcEdge /\ ch' = ch /\ measure_fifo_ch' = measure_fifo_ch
    BY <1>1, EdgeIsCommon DEF AdcClock, Begun, EdgeCommon, bus
  <2>2. measure_fifo_ch = ch /\ sess > 0 /\ measure_count <= nReadNum
    BY <2>1 DEF PolledInv, Configured, OwnSession, Begun
  <2>3. ChannelSet(measure_fifo_ch) /\ measure_count <= Depth
    <3>1. ChannelSet(ch)
      BY <2>1 DEF PolledInv, OwnChannel, ChannelSet
    <3> QED BY <2>2, <3>1, PolledAssumption, ConstantsAssumption
            DEF ChannelSet, PolledInv, IInv, TypeOK
  <2>4. ChannelSet(measure_fifo_ch)'
    BY <2>1, <2>2, <2>3, ChannelEdge DEF PolledInv
  <2>5. \A a \in 0..Depth-1 : a < wrptr => ram[a].ch = ch
    BY <2>1 DEF PolledInv, OwnChannel
  <2>6. \A a \in 0..Depth-1 : a < wrptr' => ram'[a].ch = ch
    BY <2>1, <2>2, <2>3, <2>5, WordsChannelEdge DEF PolledInv
  <2> QED BY <2>1, <2>2, <2>4, <2>6 DEF ChannelSet
<1>2. CASE StartHigh
  <2>1. conv' = 0 /\ wrptr' = 0
    BY <1>2, Restart DEF PolledInv, AsyncReset
  <2> QED BY <2>1 DEF ChannelSet
<1>3. CASE Aside
  <2>1. Begun /\ ch' = ch /\ UNCHANGED <<wrptr, spi, ram, conv>>
    BY <1>3, AsideKeeps, AsideBegun
  <2> QED BY <2>1 DEF PolledInv, OwnChannel, ChannelSet, spi
<1> QED BY <1>1, <1>2, <1>3, Steps

-----------------------------------------------------------------------------
(* What the read side of the FIFO sees.                                    *)

LEMMA SyncEdge ==
  ASSUME TypeOK, PointersInOrder, FifoEdge
  PROVE  /\ \A j \in 1..SyncLag : sync'[j] = IF j = 1 THEN wrptr ELSE sync[j - 1]
         /\ sync'[SyncLag] = sync[SyncLag - 1] /\ sync[SyncLag - 1] >= sync[SyncLag]
         /\ sync[SyncLag] \in Nat /\ sync[SyncLag - 1] \in Nat
<1>1. SyncLag \in 2..SyncLag /\ SyncLag \in 1..SyncLag /\ SyncLag - 1 \in 1..SyncLag
      /\ SyncLag # 1
  BY ConstantsAssumption
<1>2. \A j \in 1..SyncLag : sync'[j] = IF j = 1 THEN wrptr ELSE sync[j - 1]
  BY DEF FifoEdge
<1>3. sync[SyncLag] <= sync[SyncLag - 1]
  BY <1>1 DEF PointersInOrder
<1>4. sync[SyncLag] \in Nat /\ sync[SyncLag - 1] \in Nat
  BY <1>1 DEF TypeOK
<1> QED BY <1>1, <1>2, <1>3, <1>4

LEMMA EarlierPlace ==
  ASSUME NEW n \in Nat, NEW j \in 1..n, NEW t \in Nat, NEW u \in {t, t + 1},
         j # 1, j <= u + 1
  PROVE  j - 1 \in 1..n /\ j - 1 <= t + 1
OBVIOUS

LEMMA AtMostOneMore == ASSUME NEW w \in Nat, NEW v \in {w, w + 1} PROVE w >= v - 1
OBVIOUS

LEMMA SeenEdge ==
  ASSUME IInv, ReadInv, WordsSeen, sess > 0, AdcEdge
  PROVE  WordsSeen'
<1> USE ConstantsAssumption, PolledAssumption
<1>1. EdgeCommon /\ FifoEdge /\ sess' = sess
  BY EdgeIsCommon DEF EdgeCommon
<1>2. /\ \A j \in 1..SyncLag : sync'[j] = IF j = 1 THEN wrptr ELSE sync[j - 1]
      /\ sync'[SyncLag] = sync[SyncLag - 1] /\ sync[SyncLag - 1] >= sync[SyncLag]
      /\ sync[SyncLag] \in Nat /\ sync[SyncLag - 1] \in Nat
  BY <1>1, SyncEdge DEF ReadInv
<1>3. wrptr \in Nat /\ tick \in 0..TDone
  BY DEF IInv, TypeOK
<1>4. ASSUME InReading', NEW j \in 1..SyncLag, j <= tick' + 1 PROVE sync'[j] = wrptr'
  <2>1. CASE BeginConversion
    <3>1. ~fifo_wrreq
      BY <2>1 DEF BeginConversion, Idle, IInv, Phases, Restarted, InDummy, DummyDropped,
                  Between, InReading, Finished, fifo_wrreq
    <3>2. wrptr' = wrptr /\ tick' = 0
      BY <1>1, <2>1, <3>1 DEF FifoEdge, BeginConversion, SpiBegin
    <3> QED BY <1>2, <1>4, <3>2
  <2>2. CASE AwaitConversion
    <3>1. ~config_first /\ ~measure_done /\ SpiRun
      BY <1>4, <2>2 DEF AwaitConversion, InReading
    <3>2. InReading
      BY <2>2, <3>1 DEF AwaitConversion, Waiting, IInv, Phases, Restarted, InDummy,
                        DummyDropped, Between, Finished
    <3>3. wrptr' = wrptr
      BY <1>1, <3>1 DEF FifoEdge, fifo_wrreq
    <3>4. tick' \in {tick, tick + 1}
      BY <3>1 DEF SpiRun
    <3>5. CASE j = 1
      BY <1>2, <3>3, <3>5
    <3>6. CASE j # 1
      <4>0. tick \in Nat /\ SyncLag \in Nat
        BY <1>3
      <4>1. j - 1 \in 1..SyncLag /\ j - 1 <= tick + 1
        BY <1>4, <3>4, <3>6, <4>0, EarlierPlace
      <4>2. sync[j - 1] = wrptr
        BY <3>2, <4>1 DEF WordsSeen
      <4> QED BY <1>2, <3>3, <3>6, <4>2
    <3> QED BY <3>5, <3>6
  <2>3. CASE DropDummy
    <3>1. measure_done' /\ pre_measure_done'
      BY <2>3 DEF DropDummy, Waiting, SpiRun
    <3> QED BY <1>4, <3>1 DEF InReading
  <2>4. CASE HoldReset
    BY <1>4, <2>4 DEF HoldReset, IInv, ResetHeld, InReading
  <2>5. CASE CountReading \/ Finish \/ Rest
    BY <1>4, <2>5 DEF CountReading, Finish, Rest, InReading
  <2> QED BY <2>1, <2>2, <2>3, <2>4, <2>5 DEF AdcEdge
<1>5. ASSUME measure_fifo_done' PROVE sync'[SyncLag] >= wrptr' - 1
  <2>1. CASE measure_fifo_done
    <3>1. Finished
      BY <2>1 DEF IInv, Phases, Restarted, InDummy, DummyDropped, Between, InReading
    <3>2. wrptr' = wrptr
      BY <1>1, <3>1 DEF Finished, fifo_wrreq, FifoEdge
    <3>3. sync[SyncLag] >= wrptr - 1
      BY <2>1 DEF WordsSeen
    <3> QED BY <1>2, <1>3, <3>2, <3>3
  <2>2. CASE ~measure_fifo_done
    <3>1. Finish
      BY <1>5, <2>2 DEF AdcEdge, HoldReset, BeginConversion, AwaitConversion, DropDummy,
                        CountReading, Rest
    <3>2. DummyDropped \/ InReading
      BY <2>2, <3>1 DEF Finish, Waiting, IInv, Phases, Restarted, InDummy, Between, Finished
    <3>3. CASE DummyDropped
      <4>1. wrptr' = 0
        BY <1>1, <3>3 DEF DummyDropped, fifo_wrreq, FifoEdge
      <4>2. sync'[SyncLag] \in Nat
        BY <1>2
      <4> QED BY <4>1, <4>2
    <3>4. CASE InReading
      <4>1. tick = TDone
        BY <3>1 DEF Finish, IInv, EngineInv
      <4>2. SyncLag - 1 \in 1..SyncLag /\ SyncLag - 1 <= tick + 1
        BY <4>1
      <4>3. sync[SyncLag - 1] = wrptr
        BY <3>4, <4>2 DEF WordsSeen
      <4>4. wrptr' \in {wrptr, wrptr + 1}
        BY <1>1 DEF FifoEdge
      <4>5. sync'[SyncLag] = wrptr
        BY <1>2, <4>3
      <4>6. wrptr \in Nat
        BY <1>3
      <4>7. wrptr >= wrptr' - 1
        BY <4>4, <4>6, AtMostOneMore
      <4> QED BY <4>5, <4>7
    <3> QED BY <3>2, <3>3, <3>4
  <2> QED BY <2>1, <2>2
<1> QED BY <1>4, <1>5 DEF WordsSeen

LEMMA SeenStep ==
  ASSUME IInv, ReadInv, WordsSeen, [Next]_hwvars
  PROVE  WordsSeen'
<1>1. CASE AdcEdge
  <2>1. sess' = sess
    BY <1>1, EdgeIsCommon DEF EdgeCommon
  <2> QED BY <1>1, <2>1, SeenEdge DEF WordsSeen
<1>2. ASSUME UNCHANGED <<ctl, spi, wrptr, sync, sess, conv>> PROVE WordsSeen'
  BY <1>2 DEF WordsSeen, InReading, ctl, spi
<1>3. ASSUME NEW c \in Channels, NEW s \in BOOLEAN, WriteStart(c, s) PROVE WordsSeen'
  <2>1. CASE AsyncReset
    BY <2>1 DEF AsyncReset, WordsSeen, InReading
  <2>2. CASE ~AsyncReset
    BY <1>2, <1>3, <2>2 DEF WriteStart, ptrs
  <2> QED BY <2>1, <2>2
<1>4. CASE \/ \E n \in 0..MaxNum : WriteNum(n)
           \/ ReadStatus \/ ReadCapture \/ ReadPop \/ SlaveReset \/ DecChange
           \/ UNCHANGED hwvars
  BY <1>2, <1>4 DEF WriteNum, ReadStatus, ReadCapture, ReadPop, SlaveReset, DecChange,
                    hwvars, ptrs
<1> QED BY <1>1, <1>3, <1>4 DEF Next

-----------------------------------------------------------------------------
(* The readings.                                                           *)

LEMMA ReadingStep ==
  ASSUME PolledInv, [PolledNext]_vars
  PROVE  Reading'
<1> USE ConstantsAssumption, PolledAssumption DEF Transaction
<1>0. /\ got \in Seq(Entry) /\ Len(got) \in Nat /\ rdptr \in Nat /\ wrptr \in Nat
      /\ SyncLag \in 1..SyncLag /\ sync[SyncLag] \in Nat
  BY DEF PolledInv, PolledTypeOK, TypeOK
<1>1. CASE AdcClock
  <2>1. pc' = pc /\ got' = got /\ AdcEdge /\ EdgeCommon
    BY <1>1, EdgeIsCommon DEF AdcClock
  <2>2. rdptr' = rdptr /\ slave_readdata' = slave_readdata
    BY <2>1 DEF EdgeCommon, FifoEdge
  <2>3. measure_fifo_done => measure_fifo_done'
    BY <2>1 DEF AdcEdge, HoldReset, BeginConversion, AwaitConversion, DropDummy,
                CountReading, Finish, Rest
  <2>4. pc = "value" => ram' = ram
    <3> SUFFICES ASSUME pc = "value" PROVE ram' = ram
      OBVIOUS
    <3>1. measure_fifo_done /\ sess > 0
      BY DEF PolledInv, Reading, OwnSession, Begun
    <3>2. Finished
      BY <3>1 DEF PolledInv, IInv, Phases, Restarted, InDummy, DummyDropped, Between,
                  InReading
    <3> QED BY <2>1, <3>2 DEF Finished, fifo_wrreq, EdgeCommon, FifoEdge
  <2> QED BY <2>1, <2>2, <2>3, <2>4 DEF PolledInv, Reading
<1>2. CASE StartHigh
  BY <1>2, Restart DEF PolledInv, AsyncReset, Reading
<1>3. CASE SetMeasureNum \/ StartLow \/ CpuReset
  BY <1>3 DEF SetMeasureNum, StartLow, CpuReset, Reading
<1>4. CASE StartLowAgain
  BY <1>4 DEF StartLowAgain, WriteStart, ptrs, PolledInv, Reading
<1>5. CASE Poll
  <2>1. got = <<>> /\ rdptr = 0
    BY <1>5 DEF Poll, PolledInv, Configured, Reading
  <2>2. rdptr' = rdptr /\ got' = got /\ measure_fifo_done' = measure_fifo_done
    BY <1>5 DEF Poll, ReadStatus, ptrs, ctl
  <2>3. pc' = IF measure_fifo_done THEN "read" ELSE "poll"
    BY <1>5 DEF Poll
  <2> QED BY <2>1, <2>2, <2>3 DEF Reading
<1>6. CASE ReadValue
  <2>1. measure_fifo_done /\ rdptr = Len(got) /\ Len(got) < nReadNum
    BY <1>6 DEF ReadValue, PolledInv, Reading
  <2>2. rdptr % Depth = rdptr
    <3>1. rdptr \in 0..Depth-1
      BY <1>0, <2>1
    <3> QED BY <3>1, SmallMod
  <2>3. /\ slave_readdata' = ram[rdptr] /\ rdptr' = rdptr /\ ram' = ram /\ got' = got
        /\ pc' = "value" /\ measure_fifo_done' = measure_fifo_done
    BY <1>6, <2>2 DEF ReadValue, ReadCapture, fifo_q, ptrs, ctl
  <2> QED BY <2>1, <2>3 DEF Reading
<1>7. CASE TakeValue
  <2>1. measure_fifo_done /\ rdptr = Len(got) /\ Len(got) < nReadNum /\ sess > 0
        /\ wrptr = nReadNum
    BY <1>7 DEF TakeValue, PolledInv, Reading, OwnSession, Begun
  <2>2. sync[SyncLag] >= nReadNum - 1
    BY <2>1 DEF PolledInv, WordsSeen
  <2>3. /\ got' = Append(got, slave_readdata) /\ measure_fifo_done' = measure_fifo_done
        /\ pc' = IF Len(got) + 1 < nReadNum THEN "read" ELSE "num"
        /\ rdptr' = IF rdempty THEN rdptr ELSE rdptr + 1
    BY <1>7 DEF TakeValue, ReadPop, ctl
  <2>4. Len(got') = Len(got) + 1
    BY <1>0, <2>3
  <2>5. CASE Len(got) + 1 < nReadNum
    <3>1. ~rdempty
      BY <1>0, <2>1, <2>2, <2>5 DEF rdempty
    <3> QED BY <2>1, <2>3, <2>4, <2>5, <3>1 DEF Reading
  <2>6. CASE ~(Len(got) + 1 < nReadNum)
    BY <2>3, <2>6 DEF Reading
  <2> QED BY <2>5, <2>6
<1>8. CASE PinChange \/ UNCHANGED vars
  BY <1>8 DEF PinChange, DecChange, prog, vars, hwvars, ctl, rd, ptrs, PolledInv, Reading
<1> QED BY <1>1, <1>2, <1>3, <1>4, <1>5, <1>6, <1>7, <1>8 DEF PolledNext, Program

LEMMA RoundStep ==
  ASSUME PolledInv, [PolledNext]_vars
  PROVE  RoundReadings'
<1> USE DEF Transaction
<1>1. CASE got' = <<>>
  BY <1>1 DEF RoundReadings
<1>2. ASSUME UNCHANGED <<got, sess, ch>> PROVE RoundReadings'
  BY <1>2 DEF PolledInv, RoundReadings
<1>3. CASE AdcClock
  BY <1>2, <1>3, EdgeIsCommon DEF AdcClock, EdgeCommon
<1>4. CASE StartHigh
  BY <1>1, <1>4, Restart DEF PolledInv, Configured
<1>5. CASE SetMeasureNum \/ CpuReset
  BY <1>1, <1>5 DEF SetMeasureNum, CpuReset
<1>6. CASE StartLow \/ StartLowAgain \/ Poll \/ ReadValue \/ PinChange \/ UNCHANGED vars
  <2>1. UNCHANGED sess
    BY <1>6, AsideKeeps DEF Aside
  <2>2. UNCHANGED <<got, ch>>
    BY <1>6 DEF StartLow, StartLowAgain, Poll, ReadValue, PinChange, prog, vars
  <2> QED BY <1>2, <2>1, <2>2
<1>7. CASE TakeValue
  <2>1. sess' = sess /\ ch' = ch /\ got' = Append(got, slave_readdata)
    BY <1>7, AsideKeeps DEF Aside, TakeValue
  <2> DEFINE k == Len(got)
  <2>2. /\ k < nReadNum /\ slave_readdata = ram[k] /\ sess > 0
        /\ measure_count = nReadNum /\ wrptr = nReadNum
    BY <1>7 DEF TakeValue, PolledInv, Reading, OwnSession, Begun
  <2>3. k \in 0..Depth-1 /\ k < wrptr /\ measure_count <= Depth /\ got \in Seq(Entry) /\ k \in Nat
    BY <2>2, PolledAssumption, ConstantsAssumption DEF PolledInv, PolledTypeOK
  <2>4. /\ ram[k].sess = sess /\ ram[k].conv = k + 1 /\ ram[k].is400 = ram[k].high
    BY <2>2, <2>3 DEF PolledInv, IInv, SessionWords
  <2>5. ram[k].ch = ch
    BY <1>7, <2>3 DEF TakeValue, PolledInv, OwnChannel, Begun
  <2> SUFFICES ASSUME NEW j \in 1..Len(got')
               PROVE  /\ got'[j].sess = sess /\ got'[j].conv = j /\ got'[j].ch = ch
                      /\ got'[j].is400 = got'[j].high
    BY <2>1 DEF RoundReadings
  <2>6. Len(got') = k + 1 /\ got'[j] = IF j = k + 1 THEN slave_readdata ELSE got[j]
    BY <2>1, <2>3
  <2>7. CASE j = k + 1
    BY <2>2, <2>4, <2>5, <2>6, <2>7
  <2>8. CASE j # k + 1
    <3>1. j \in 1..Len(got)
      BY <2>3, <2>6, <2>8
    <3> QED BY <2>6, <2>8, <3>1 DEF PolledInv, RoundReadings
  <2> QED BY <2>7, <2>8
<1> QED BY <1>3, <1>4, <1>5, <1>6, <1>7 DEF PolledNext, Program

-----------------------------------------------------------------------------
(* The theorems.                                                           *)

LEMMA InitPolledInv == PolledInit => PolledInv
<1> SUFFICES ASSUME PolledInit PROVE PolledInv
  OBVIOUS
<1>1. IInv /\ ReadInv /\ PolledTypeOK
  BY InitIInv, InitReadInv, PolledInitTypes DEF PolledInit
<1>2. pc = "num" /\ got = <<>> /\ pulses = 0 /\ sess = 0
  BY DEF PolledInit, HwInit
<1> QED BY <1>1, <1>2 DEF PolledInv, NoLostStart, StartSeenLow, Configured, OwnSession,
                          OwnChannel, Begun, WordsSeen, Reading, RoundReadings

LEMMA StepPolledInv == PolledInv /\ [PolledNext]_vars => PolledInv'
<1> SUFFICES ASSUME PolledInv, [PolledNext]_vars PROVE PolledInv'
  OBVIOUS
<1>1. [Next]_hwvars
  BY HwStep DEF PolledInv
<1>2. IInv' /\ ReadInv'
  BY <1>1, StepIInv, StepReadInv DEF PolledInv
<1>3. NoLostStart' /\ StartSeenLow'
  BY StartStep DEF PolledInv
<1>4. PolledTypeOK'
  BY <1>2, <1>3, PolledTypeStep DEF PolledInv, IInv
<1>5. WordsSeen'
  BY <1>1, SeenStep DEF PolledInv
<1>6. Configured' /\ OwnSession' /\ OwnChannel' /\ Reading' /\ RoundReadings'
  BY ConfiguredStep, OwnSessionStep, OwnChannelStep, ReadingStep, RoundStep DEF PolledInv
<1> QED BY <1>2, <1>3, <1>4, <1>5, <1>6 DEF PolledInv

\* The controller, the FIFO and the program keep to the sets their state is
\* declared with, whatever the constants.
THEOREM PolledTypeCorrect == PolledSpec => []PolledTypeOK
<1>1. PolledInv => PolledTypeOK
  BY DEF PolledInv
<1> QED BY <1>1, InitPolledInv, StepPolledInv, PTL DEF PolledSpec

\* Every start pulse of the program restarts the controller.
THEOREM NoLostStartHolds == PolledSpec => []NoLostStart
<1>1. PolledInv => NoLostStart
  BY DEF PolledInv
<1> QED BY <1>1, InitPolledInv, StepPolledInv, PTL DEF PolledSpec

\* The polling loop never takes the done of an earlier session for its own.
THEOREM NoStaleDoneHolds == PolledSpec => []NoStaleDone
<1>1. PolledInv => NoStaleDone
  BY DEF PolledInv, OwnSession, Begun, NoStaleDone
<1> QED BY <1>1, InitPolledInv, StepPolledInv, PTL DEF PolledSpec

\* The values of a round are the readings of the session the program started,
\* in order and of the channel it chose, or 400 in a reading's own place.
THEOREM RoundReadingsHold == PolledSpec => []RoundReadings
<1>1. PolledInv => RoundReadings
  BY DEF PolledInv
<1> QED BY <1>1, InitPolledInv, StepPolledInv, PTL DEF PolledSpec
=============================================================================
