-------------------------- MODULE I2cDriverProofs --------------------------
(***************************************************************************)
(* What the driver and the core promise, for every depth of the FIFOs,     *)
(* length of a transfer, number of retries and of calls, and whatever the  *)
(* other devices do: that a data byte never becomes an address and the DAC *)
(* never goes back; that SUCCESS means delivered, that frames are whole,   *)
(* that nothing is left of a call, that a TIMEOUT has its cause on the     *)
(* bus, and that the driver with the core implements DacLink.              *)
(***************************************************************************)
EXTENDS I2cDriver, TLAPS

USE DriverAssumption, CoreAssumption

-----------------------------------------------------------------------------
(* Types.                                                                  *)

LEMMA InitTypes == Init => TypeOK
<1> SUFFICES ASSUME Init PROVE TypeOK
  OBVIOUS
<1>1. NoCommand \in Command
  BY DEF NoCommand, Command
<1>2. dac \in Byte
  BY DEF Init, CoreInit, Byte
<1>3. /\ ctrl_en \in BOOLEAN /\ tx_empty_thd \in BOOLEAN /\ nack_det \in BOOLEAN
      /\ arblost_det \in BOOLEAN /\ rx_over \in BOOLEAN /\ held \in BOOLEAN
  BY Zenon DEF Init, CoreInit
<1>5. /\ txfifo \in Seq(Command) /\ Len(txfifo) <= FifoDepth /\ frame \in Seq(Command)
      /\ rxfifo \in Seq(Byte) /\ Len(rxfifo) <= FifoDepth
  BY DEF Init, CoreInit
<1>6. stalls \in 0..MaxStalls /\ tx_shifter \in Command
  BY <1>1 DEF Init, CoreInit
<1>7. iser \subseteq {"TX_READY", "RX_READY"}
  BY DEF Init, CoreInit
<1>8. mst_fsm_state = "IDLE"
  BY DEF Init, CoreInit
<1>9. CoreTypeOK
  BY <1>2, <1>3, <1>5, <1>6, <1>7, <1>8 DEF CoreTypeOK
<1>4. n \in 0..MaxCalls /\ sent \in 0..Size /\ retry \in 0..Retry-1 /\ irq_busy \in 0..2
      /\ buffer \in Seq(Byte)
  BY DEF Init
<1>10. lapsed \in BOOLEAN
  BY Zenon DEF Init
<1>11. /\ pc = "app" /\ status = "SUCCESS" /\ handler = "none" /\ part = 1
       /\ kind \in Kinds /\ use_interrupts \in Modes
  BY DEF Init
<1> QED BY <1>4, <1>9, <1>10, <1>11 DEF TypeOK

LEMMA NextCommandType ==
  ASSUME TypeOK PROVE NextCommand \in Command
<1>1. (sent = 0 /\ reads) \in BOOLEAN /\ (sent = 0 /\ issue_restart) \in BOOLEAN
      /\ (sent = Size /\ issue_stop) \in BOOLEAN
  BY DEF reads, issue_restart, issue_stop
<1>2. n \in Nat /\ sent \in Nat
  BY DEF TypeOK
<1> QED BY <1>1, <1>2 DEF NextCommand, Command

\* Every outcome of Pop is typed.
LEMMA PopTypes ==
  ASSUME TypeOK, NEW s \in Seq(Command), txfifo # <<>>, Pop(s)
  PROVE  /\ tx_shifter' \in Command /\ frame' \in Seq(Command)
         /\ txfifo' \in Seq(Command) /\ Len(txfifo') <= FifoDepth
         /\ mst_fsm_state' \in {"GEN_7BIT_ADDR", "RX_BYTE", "TX_BYTE"}
BY DEF TypeOK, CoreTypeOK, Pop

LEMMA PopOrHoldTypes ==
  ASSUME TypeOK, NEW s \in Seq(Command), PopOrHold(s)
  PROVE  /\ tx_shifter' \in Command /\ frame' \in Seq(Command)
         /\ txfifo' \in Seq(Command) /\ Len(txfifo') <= FifoDepth
         /\ mst_fsm_state' \in {"GEN_7BIT_ADDR", "RX_BYTE", "TX_BYTE", "BUS_HOLD"}
<1>1. CASE txfifo # <<>>
  BY <1>1, PopTypes DEF PopOrHold
<1>2. CASE txfifo = <<>>
  BY <1>2 DEF PopOrHold, TypeOK, CoreTypeOK
<1> QED BY <1>1, <1>2

LEMMA CoreTypes ==
  ASSUME TypeOK, Core PROVE CoreTypeOK'
<1> USE DEF TypeOK, CoreTypeOK, csr, isr, fsm, bus
<1> DEFINE sentNow == Append(frame, tx_shifter)
<1>0. sentNow \in Seq(Command)
  OBVIOUS
<1>1. CASE GenStart
  <2>1. Pop(<<>>) /\ txfifo # <<>> /\ <<>> \in Seq(Command)
    BY <1>1 DEF GenStart
  <2> QED BY <1>1, <2>1, PopTypes DEF GenStart
<1>2. CASE ByteAcked
  <2>1. ToStop(sentNow) \/ PopOrHold(sentNow)
    BY <1>2 DEF ByteAcked
  <2>2. /\ tx_shifter' \in Command /\ frame' \in Seq(Command)
        /\ txfifo' \in Seq(Command) /\ Len(txfifo') <= FifoDepth
        /\ mst_fsm_state' \in {"GEN_7BIT_ADDR", "RX_BYTE", "TX_BYTE", "BUS_HOLD", "GEN_STOP"}
    BY <1>0, <2>1, PopOrHoldTypes DEF ToStop
  <2>3. dac' \in Byte
    BY <1>2 DEF ByteAcked, Command, Byte
  <2> QED BY <1>2, <2>2, <2>3 DEF ByteAcked
<1>3. CASE ByteRefused
  BY <1>3 DEF ByteRefused
<1>4. CASE ByteReceived
  <2>1. ToStop(sentNow) \/ PopOrHold(sentNow)
    BY <1>4 DEF ByteReceived
  <2>2. /\ tx_shifter' \in Command /\ frame' \in Seq(Command)
        /\ txfifo' \in Seq(Command) /\ Len(txfifo') <= FifoDepth
        /\ mst_fsm_state' \in {"GEN_7BIT_ADDR", "RX_BYTE", "TX_BYTE", "BUS_HOLD", "GEN_STOP"}
    BY <1>0, <2>1, PopOrHoldTypes DEF ToStop
  <2>3. rxfifo' \in Seq(Byte) /\ Len(rxfifo') <= FifoDepth
    <3> DEFINE got == [n |-> tx_shifter.n, pos |-> tx_shifter.pos]
    <3>1. got \in Byte
      BY DEF Command, Byte
    <3>2. rxfifo' = IF Len(rxfifo) = FifoDepth THEN rxfifo ELSE Append(rxfifo, got)
      BY <1>4 DEF ByteReceived
    <3> HIDE DEF got
    <3> QED BY <3>1, <3>2
  <2> QED BY <1>4, <2>2, <2>3 DEF ByteReceived
<1>5. CASE Resume
  <2>1. Pop(frame) /\ txfifo # <<>>
    BY <1>5 DEF Resume
  <2> QED BY <1>5, <2>1, PopTypes DEF Resume
<1>6. CASE GenStop
  BY <1>6 DEF GenStop
<1>7. CASE ArbitrationLost
  BY <1>7 DEF ArbitrationLost
<1> QED BY <1>1, <1>2, <1>3, <1>4, <1>5, <1>6, <1>7 DEF Core, CoreStep

LEMMA BusTypes ==
  ASSUME TypeOK, Bus PROVE CoreTypeOK'
<1> USE DEF TypeOK, CoreTypeOK, csr, isr, fsm
<1>1. CASE HoldBus
  BY <1>1 DEF HoldBus
<1>2. CASE ReleaseBus
  BY <1>2 DEF ReleaseBus
<1> QED BY <1>1, <1>2 DEF Bus

LEMMA WriteTypes ==
  ASSUME TypeOK, CmdWrite PROVE TypeOK'
<1>1. NextCommand \in Command
  BY NextCommandType
<1>2. /\ txfifo' \in Seq(Command) /\ Len(txfifo') <= FifoDepth
      /\ mst_fsm_state' \in {"IDLE", "PRE_START", "GEN_7BIT_ADDR", "TX_BYTE",
                             "RX_BYTE", "BUS_HOLD", "GEN_STOP"}
  <2>1. WriteCommand(NextCommand)
    BY DEF CmdWrite
  <2>2. CASE UNCHANGED <<txfifo, mst_fsm_state>>
    BY <2>2 DEF TypeOK, CoreTypeOK
  <2>3. CASE /\ Len(txfifo) # FifoDepth /\ txfifo' = Append(txfifo, NextCommand)
             /\ mst_fsm_state' = IF mst_fsm_state = "IDLE" THEN "PRE_START"
                                                          ELSE mst_fsm_state
    BY <1>1, <2>3 DEF TypeOK, CoreTypeOK
  <2> QED BY <2>1, <2>2, <2>3 DEF WriteCommand
<1> QED BY <1>2 DEF CmdWrite, TypeOK, CoreTypeOK, csr, isr, bus, call

\* The steps of the transfer functions.
LEMMA TransferTypes ==
  ASSUME TypeOK, Transfer PROVE TypeOK'
<1> USE DEF TypeOK, CoreTypeOK, core, csr, isr, fsm, bus, call, Lapse
<1>1. CASE Begin
  <2>1. /\ ctrl_en' \in BOOLEAN /\ nack_det' \in BOOLEAN /\ arblost_det' \in BOOLEAN
        /\ rx_over' \in BOOLEAN
    BY <1>1, Zenon DEF Begin, Enable, ClearIsr
  <2>2. /\ mst_fsm_state' \in {"IDLE", "PRE_START", "GEN_7BIT_ADDR", "TX_BYTE",
                               "RX_BYTE", "BUS_HOLD", "GEN_STOP"}
        /\ status' \in {"SUCCESS", "TIMEOUT", "ARB_LOST", "NACK", "BUSY"}
        /\ pc' \in {"cmd_write", "decide"} /\ irq_busy' \in 0..2
    BY <1>1 DEF Begin, Enable
  <2>3. UNCHANGED <<tx_empty_thd, iser, txfifo, rxfifo, tx_shifter, frame, bus>>
    BY <1>1 DEF Begin
  <2>4. UNCHANGED <<call, part, retry, handler, lapsed>> /\ sent' = 0 /\ buffer' = <<>>
    BY <1>1 DEF Begin
  <2> QED BY <2>1, <2>2, <2>3, <2>4
<1>2. CASE CmdWrite
  BY <1>2, WriteTypes
<1>3. CASE CmdTimeout
  BY <1>3 DEF CmdTimeout
<1>4. CASE CheckError
  BY <1>4 DEF CheckError, Checked
<1>5. CASE CheckNext
  <2>1. buffer' \in Seq(Byte) /\ rxfifo' \in Seq(Byte) /\ Len(rxfifo') <= FifoDepth
    <3>1. CASE buffer' = buffer \o rxfifo /\ rxfifo' = <<>>
      BY <3>1
    <3>2. CASE UNCHANGED <<buffer, rxfifo>>
      BY <3>2
    <3> QED BY <1>5, <3>1, <3>2 DEF CheckNext
  <2>2. sent' \in 0..Size
    BY <1>5 DEF CheckNext
  <2> QED BY <1>5, <2>1, <2>2 DEF CheckNext
<1>6. CASE CheckLast
  BY <1>6 DEF CheckLast
<1>7. CASE RxRead
  BY <1>7 DEF RxRead, rx_ready
<1>8. CASE RxTimeout
  BY <1>8 DEF RxTimeout
<1>9. CASE RxDone
  BY <1>9 DEF RxDone
<1>10. CASE Finish
  <2>1. ctrl_en' \in BOOLEAN
    BY <1>10, Zenon DEF Finish
  <2> QED BY <1>10, <2>1 DEF Finish
<1>11. CASE Decide
  BY <1>11 DEF Decide
<1> QED BY <1>1, <1>2, <1>3, <1>4, <1>5, <1>6, <1>7, <1>8, <1>9, <1>10, <1>11 DEF Transfer

\* The steps of interrupt transactions.
LEMMA InterruptTypes ==
  ASSUME TypeOK, HandlerInv, Arm \/ StatusDone \/ StatusNack \/ Abort \/ Irq \/ IrqDone
  PROVE  TypeOK'
<1> USE DEF TypeOK, CoreTypeOK, core, csr, isr, fsm, bus, call, Lapse
<1>1. CASE Arm
  <2>1. /\ nack_det' \in BOOLEAN /\ arblost_det' \in BOOLEAN /\ rx_over' \in BOOLEAN
        /\ tx_empty_thd' \in BOOLEAN
    BY <1>1, Zenon DEF Arm, ClearIsr
  <2>2. iser' \subseteq {"TX_READY", "RX_READY"} /\ irq_busy' \in 0..2
    BY <1>1 DEF Arm
  <2> QED BY <1>1, <2>1, <2>2 DEF Arm
<1>2. CASE StatusDone
  BY <1>2 DEF StatusDone
<1>3. CASE StatusNack
  BY <1>3 DEF StatusNack
<1>4. CASE Abort
  <2>1. ctrl_en' \in BOOLEAN /\ lapsed' \in BOOLEAN
    BY <1>4, Zenon DEF Abort
  <2>2. status' \in {"SUCCESS", "TIMEOUT", "ARB_LOST", "NACK", "BUSY"}
    BY <1>4 DEF Abort
  <2>3. rxfifo' \in Seq(Byte) /\ Len(rxfifo') <= FifoDepth
    BY <1>4 DEF Abort
  <2> QED BY <1>4, <2>1, <2>2, <2>3 DEF Abort
<1>5. CASE Irq
  <2> DEFINE wanted == Size - Len(buffer)
             taken == IF Len(rxfifo) < wanted THEN Len(rxfifo) ELSE wanted
  <2>1. nack_det' \in BOOLEAN /\ arblost_det' \in BOOLEAN /\ rx_over' \in BOOLEAN
    BY <1>5, Zenon DEF Irq, ClearIsr
  <2>5. wanted \in Nat /\ taken \in 0..Len(rxfifo)
    <3>1. Len(buffer) <= Size
      BY <1>5 DEF Irq, intr, HandlerInv
    <3> QED BY <3>1
  <2>2. SubSeq(rxfifo, 1, taken) \in Seq(Byte)
        /\ SubSeq(rxfifo, taken + 1, Len(rxfifo)) \in Seq(Byte)
        /\ Len(SubSeq(rxfifo, taken + 1, Len(rxfifo))) <= FifoDepth
    BY <2>5
  <2>6. buffer \o SubSeq(rxfifo, 1, taken) \in Seq(Byte)
    BY <2>2
  <2>3. buffer' \in Seq(Byte) /\ rxfifo' \in Seq(Byte) /\ Len(rxfifo') <= FifoDepth
    BY <1>5, <2>2, <2>6 DEF Irq
  <2>4. iser' \subseteq {"TX_READY", "RX_READY"} /\ handler' \in {"none", "await_idle"}
    BY <1>5 DEF Irq
  <2> QED BY <1>5, <2>1, <2>3, <2>4 DEF Irq
<1>6. CASE IrqDone
  <2>1. ctrl_en' \in BOOLEAN /\ lapsed' \in BOOLEAN
    BY <1>6, Zenon DEF IrqDone
  <2> QED BY <1>6, <2>1 DEF IrqDone
<1> QED BY <1>1, <1>2, <1>3, <1>4, <1>5, <1>6

LEMMA TypeStep ==
  ASSUME TypeOK, HandlerInv, [Next]_vars PROVE TypeOK'
<1>1. CASE Program
  BY <1>1 DEF Program, Call, TypeOK, CoreTypeOK, core, csr, isr, fsm, bus
<1>2. CASE Driver
  BY <1>2, TransferTypes, InterruptTypes DEF Driver
<1>3. CASE Handler
  BY <1>3, InterruptTypes DEF Handler
<1>4. CASE Core
  <2>1. CoreTypeOK'
    BY <1>4, CoreTypes
  <2> QED BY <1>4, <2>1 DEF Core, cpu, call, TypeOK
<1>5. CASE Bus
  <2>1. CoreTypeOK'
    BY <1>5, BusTypes
  <2> QED BY <1>5, <2>1 DEF Bus, cpu, call, TypeOK
<1>6. CASE UNCHANGED vars
  BY <1>6 DEF vars, core, csr, isr, fsm, bus, cpu, call, TypeOK, CoreTypeOK
<1> QED BY <1>1, <1>2, <1>3, <1>4, <1>5, <1>6 DEF Next

-----------------------------------------------------------------------------
(* The handler.                                                            *)

LEMMA HandlerStep ==
  ASSUME TypeOK, HandlerInv, [Next]_vars PROVE HandlerInv'
<1> USE DEF HandlerInv, core, csr, isr, fsm, bus, call
<1>1. CASE Program
  BY <1>1 DEF Program, Call
<1>2. CASE Transfer
  <2>1. CASE Begin
    BY <2>1 DEF Begin, TypeOK, CoreTypeOK
  <2>2. CASE CmdWrite
    BY <2>2 DEF CmdWrite
  <2>3. CASE CmdTimeout
    BY <2>3 DEF CmdTimeout
  <2>4. CASE CheckError
    BY <2>4 DEF CheckError
  <2>5. CASE CheckNext
    BY <2>5 DEF CheckNext
  <2>6. CASE CheckLast
    BY <2>6 DEF CheckLast
  <2>7. CASE RxRead
    <3>1. Len(buffer') <= Size
      BY <2>7 DEF RxRead, TypeOK
    <3> QED BY <2>7, <3>1 DEF RxRead
  <2>8. CASE RxTimeout
    BY <2>8 DEF RxTimeout
  <2>9. CASE RxDone
    BY <2>9 DEF RxDone
  <2>10. CASE Finish
    BY <2>10 DEF Finish
  <2>11. CASE Decide
    BY <2>11 DEF Decide
  <2> QED BY <1>2, <2>1, <2>2, <2>3, <2>4, <2>5, <2>6, <2>7, <2>8, <2>9, <2>10, <2>11
          DEF Transfer
<1>3. CASE Arm
  BY <1>3 DEF Arm
<1>4. CASE StatusDone
  BY <1>4 DEF StatusDone
<1>5. CASE StatusNack
  BY <1>5 DEF StatusNack
<1>6. CASE Abort
  BY <1>6 DEF Abort
<1>7. CASE Irq
  <2> DEFINE wanted == Size - Len(buffer)
             taken == IF Len(rxfifo) < wanted THEN Len(rxfifo) ELSE wanted
  <2>1. pc = "poll" /\ Len(buffer) <= Size
    BY <1>7 DEF Irq, intr
  <2>2. taken \in 0..Len(rxfifo) /\ taken <= wanted
    BY <2>1 DEF TypeOK, CoreTypeOK
  <2>3. Len(buffer \o SubSeq(rxfifo, 1, taken)) <= Size
    BY <2>2 DEF TypeOK, CoreTypeOK
  <2>4. Len(buffer') <= Size
    BY <1>7, <2>1, <2>3 DEF Irq
  <2> QED BY <1>7, <2>1, <2>4 DEF Irq
<1>8. CASE IrqDone
  BY <1>8 DEF IrqDone
<1>9. CASE Core
  BY <1>9 DEF Core, cpu, CoreStep, GenStart, ByteAcked, ByteRefused, ByteReceived,
              Resume, GenStop, ArbitrationLost
<1>10. CASE Bus
  BY <1>10 DEF Bus, HoldBus, ReleaseBus, cpu
<1>11. CASE UNCHANGED vars
  BY <1>11 DEF vars, cpu
<1> QED BY <1>1, <1>2, <1>3, <1>4, <1>5, <1>6, <1>7, <1>8, <1>9, <1>10, <1>11
        DEF Next, Driver, Handler

LEMMA HandlerInit == Init => HandlerInv
BY DEF Init, CoreInit, HandlerInv

\* The registers of the core and the variables of the driver keep to their
\* ranges: no FIFO grows beyond its depth and no call uses more than its attempts.
THEOREM TypeCorrect == Spec => []TypeOK
<1>1. Init => TypeOK /\ HandlerInv
  BY InitTypes, HandlerInit
<1>2. (TypeOK /\ HandlerInv) /\ [Next]_vars => (TypeOK /\ HandlerInv)'
  BY TypeStep, HandlerStep
<1> QED BY <1>1, <1>2, PTL DEF Spec

-----------------------------------------------------------------------------
(* Messages and frames.                                                    *)

QueueAndFrame == QueueInv /\ StartInv /\ MessageInv /\ AddressFirst

\* A step that leaves the FIFO and the state machine alone and begins no message.
LEMMA Undisturbed ==
  ASSUME QueueAndFrame, UNCHANGED <<txfifo, fsm>>,
         MidMessage' /\ ~flush_txfifo' => MidMessage /\ ~flush_txfifo
  PROVE  QueueAndFrame'
<1>1. QueueInv' /\ AddressFirst'
  BY DEF QueueAndFrame, QueueInv, AddressFirst, fsm
<1>2. StartInv' /\ (BetweenFrames' <=> BetweenFrames)
  BY DEF QueueAndFrame, StartInv, BetweenFrames, fsm
<1>3. MessageInv'
  BY <1>2 DEF QueueAndFrame, MessageInv, fsm
<1> QED BY <1>1, <1>2, <1>3 DEF QueueAndFrame

LEMMA PopKeeps ==
  ASSUME TypeOK, QueueAndFrame, NEW s \in Seq(Command), txfifo # <<>>, Pop(s),
         s = <<>> => txfifo[1].pos = 0, UNCHANGED <<nack_det, arblost_det, cpu>>
  PROVE  QueueAndFrame'
<1> USE DEF QueueAndFrame
<1>1. /\ txfifo \in Seq(Command) /\ Len(txfifo) \in Nat \ {0} /\ Head(txfifo) = txfifo[1]
      /\ Len(txfifo') = Len(txfifo) - 1
      /\ \A i \in 1..Len(txfifo') : txfifo'[i] = txfifo[i+1]
      /\ tx_shifter' = txfifo[1]
  BY DEF TypeOK, CoreTypeOK, Pop
<1>2. QueueInv'
  BY <1>1 DEF QueueInv
<1>3. mst_fsm_state' \in {"GEN_7BIT_ADDR", "RX_BYTE", "TX_BYTE"}
  BY PopTypes
<1>4. StartInv' /\ ~BetweenFrames'
  BY <1>3 DEF StartInv, BetweenFrames
<1>5. AddressFirst'
  BY <1>1 DEF AddressFirst, Pop, QueueInv
<1>6. MessageInv'
  <2>1. SUFFICES ASSUME MidMessage, ~flush_txfifo
                 PROVE  IF txfifo' = <<>> THEN ~tx_shifter'.stop
                                          ELSE ~txfifo'[Len(txfifo')].stop
    BY <1>4 DEF MessageInv, MidMessage, flush_txfifo, csr, isr, cpu
  <2>2. ~txfifo[Len(txfifo)].stop
    BY <2>1 DEF MessageInv
  <2>3. CASE Len(txfifo) = 1
    BY <1>1, <2>2, <2>3
  <2>4. CASE Len(txfifo) # 1
    <3>1. Len(txfifo') \in 1..Len(txfifo') /\ Len(txfifo') + 1 = Len(txfifo) /\ txfifo' # <<>>
      BY <1>1, <2>4
    <3> QED BY <1>1, <2>2, <3>1
  <2> QED BY <2>3, <2>4
<1> QED BY <1>2, <1>4, <1>5, <1>6

\* After a byte that does not end the frame.
LEMMA HoldKeeps ==
  ASSUME TypeOK, QueueAndFrame, NEW s \in Seq(Command), s # <<>>, PopOrHold(s),
         ~BetweenFrames, UNCHANGED <<nack_det, arblost_det, cpu>>
  PROVE  QueueAndFrame'
<1>1. CASE txfifo # <<>>
  <2>1. Pop(s)
    BY <1>1 DEF PopOrHold
  <2> QED BY <1>1, <2>1, PopKeeps
<1>2. CASE txfifo = <<>>
  <2>1. txfifo' = <<>> /\ tx_shifter' = tx_shifter /\ frame' = s /\ mst_fsm_state' = "BUS_HOLD"
    BY <1>2 DEF PopOrHold
  <2>2. QueueInv' /\ StartInv' /\ AddressFirst'
    BY <1>2, <2>1 DEF QueueInv, StartInv, BetweenFrames, AddressFirst
  <2>3. MessageInv'
    BY <1>2, <2>1 DEF QueueAndFrame, MessageInv, MidMessage, flush_txfifo, BetweenFrames,
                      csr, isr, cpu
  <2> QED BY <2>2, <2>3 DEF QueueAndFrame
<1> QED BY <1>1, <1>2

\* After a byte that does: the driver has no more of that message to write.
LEMMA StopKeeps ==
  ASSUME TypeOK, QueueAndFrame, NEW s, tx_shifter.stop, ToStop(s),
         UNCHANGED <<nack_det, arblost_det, cpu>>
  PROVE  QueueAndFrame'
<1>1. UNCHANGED <<txfifo, tx_shifter>> /\ mst_fsm_state' = "GEN_STOP"
  BY DEF ToStop
<1>2. QueueInv' /\ StartInv' /\ AddressFirst'
  BY <1>1 DEF QueueAndFrame, QueueInv, StartInv, BetweenFrames, AddressFirst
<1>3. MessageInv'
  BY <1>1 DEF QueueAndFrame, MessageInv, MidMessage, flush_txfifo, csr, isr, cpu
<1> QED BY <1>2, <1>3 DEF QueueAndFrame

\* A refused byte or a lost arbitration empties the FIFO.
LEMMA FlushKeeps ==
  ASSUME QueueAndFrame, txfifo' = <<>>, (nack_det \/ arblost_det)',
         mst_fsm_state' \in {"IDLE", "GEN_STOP"}
  PROVE  QueueAndFrame'
<1>1. flush_txfifo'
  BY DEF flush_txfifo
<1> QED BY <1>1 DEF QueueAndFrame, QueueInv, StartInv, MessageInv, AddressFirst

LEMMA CoreKeeps ==
  ASSUME TypeOK, QueueAndFrame, Core PROVE QueueAndFrame'
<1> DEFINE sentNow == Append(frame, tx_shifter)
<1>0. UNCHANGED cpu /\ sentNow \in Seq(Command) /\ sentNow # <<>>
  <2>1. UNCHANGED cpu
    BY DEF Core
  <2>2. sentNow \in Seq(Command) /\ Len(sentNow) = Len(frame) + 1 /\ Len(frame) \in Nat
    BY DEF TypeOK, CoreTypeOK
  <2>3. sentNow # <<>>
    BY <2>2
  <2> QED BY <2>1, <2>2, <2>3
<1>1. CASE GenStart
  <2>1. Pop(<<>>) /\ txfifo # <<>> /\ <<>> \in Seq(Command) /\ txfifo[1].pos = 0
        /\ UNCHANGED <<nack_det, arblost_det>>
    BY <1>1 DEF GenStart, QueueAndFrame, StartInv, BetweenFrames, csr, isr
  <2> QED BY <1>0, <2>1, PopKeeps
<1>2. CASE ByteAcked
  <2>1. \/ tx_shifter.stop /\ ToStop(sentNow)
        \/ PopOrHold(sentNow)
    BY <1>2 DEF ByteAcked
  <2>2. ~BetweenFrames /\ UNCHANGED <<nack_det, arblost_det>>
    BY <1>2 DEF ByteAcked, BetweenFrames, csr, isr
  <2> HIDE DEF sentNow
  <2> QED BY <1>0, <2>1, <2>2, HoldKeeps, StopKeeps
<1>3. CASE ByteRefused
  BY <1>3, FlushKeeps DEF ByteRefused
<1>4. CASE ByteReceived
  <2>1. \/ tx_shifter.stop /\ ToStop(sentNow)
        \/ PopOrHold(sentNow)
    BY <1>4 DEF ByteReceived
  <2>2. ~BetweenFrames /\ UNCHANGED <<nack_det, arblost_det>>
    BY <1>4 DEF ByteReceived, BetweenFrames
  <2> HIDE DEF sentNow
  <2> QED BY <1>0, <2>1, <2>2, HoldKeeps, StopKeeps
<1>5. CASE Resume
  <2>1. Pop(frame) /\ txfifo # <<>> /\ frame # <<>> /\ frame \in Seq(Command)
        /\ UNCHANGED <<nack_det, arblost_det>>
    BY <1>5 DEF Resume, QueueAndFrame, StartInv, TypeOK, CoreTypeOK, csr, isr
  <2> QED BY <1>0, <2>1, PopKeeps
<1>6. CASE GenStop
  <2>1. /\ UNCHANGED <<txfifo, tx_shifter, nack_det, arblost_det>> /\ BetweenFrames
        /\ mst_fsm_state' \in {"IDLE", "PRE_START"}
    BY <1>6 DEF GenStop, BetweenFrames, csr, isr
  <2>2. QueueInv' /\ StartInv' /\ AddressFirst'
    BY <2>1 DEF QueueAndFrame, QueueInv, StartInv, BetweenFrames, AddressFirst
  <2>3. MessageInv'
    BY <1>0, <2>1 DEF QueueAndFrame, MessageInv, MidMessage, flush_txfifo, csr, isr, cpu
  <2> QED BY <2>2, <2>3 DEF QueueAndFrame
<1>7. CASE ArbitrationLost
  BY <1>7, FlushKeeps DEF ArbitrationLost
<1> QED BY <1>1, <1>2, <1>3, <1>4, <1>5, <1>6, <1>7 DEF Core, CoreStep

\* A transfer begins with its address.
LEMMA BeginKeeps ==
  ASSUME QueueAndFrame, Begin PROVE QueueAndFrame'
<1>1. UNCHANGED <<txfifo, tx_shifter, frame>> /\ sent' = 0 /\ pc' \in {"cmd_write", "decide"}
  BY DEF Begin, core, fsm
<1>2. \/ mst_fsm_state' = mst_fsm_state
      \/ mst_fsm_state = "IDLE" /\ mst_fsm_state' = "PRE_START"
  BY DEF Begin, Enable, core, fsm
<1>3. ~MidMessage'
  BY <1>1 DEF MidMessage
<1>4. QueueInv' /\ MessageInv'
  BY <1>1, <1>3 DEF QueueAndFrame, QueueInv, MessageInv
<1>5. StartInv' /\ AddressFirst'
  BY <1>1, <1>2 DEF QueueAndFrame, StartInv, BetweenFrames, AddressFirst
<1> QED BY <1>4, <1>5 DEF QueueAndFrame

\* What the driver writes next.
LEMMA NextCommandFacts ==
  ASSUME TypeOK
  PROVE  /\ NextCommand.pos = sent
         /\ NextCommand.restart => sent = 0
         /\ NextCommand.stop => sent = Size
<1>1. NextCommand.pos = sent /\ NextCommand.restart = (sent = 0 /\ issue_restart)
      /\ NextCommand.stop = (sent = Size /\ issue_stop)
  BY DEF NextCommand
<1> QED BY <1>1

LEMMA WriteKeeps ==
  ASSUME TypeOK, QueueAndFrame, CmdWrite PROVE QueueAndFrame'
<1> USE DEF QueueAndFrame
<1>1. UNCHANGED <<csr, tx_shifter, frame, sent>> /\ pc = "cmd_write" /\ pc' = "check"
  BY DEF CmdWrite
<1>2. flush_txfifo' = flush_txfifo
  BY <1>1 DEF flush_txfifo, csr, isr
<1>3. CASE flush_txfifo
  <2>1. UNCHANGED <<txfifo, mst_fsm_state>>
    BY <1>3 DEF CmdWrite, WriteCommand
  <2>2. UNCHANGED <<txfifo, fsm>>
    BY <1>1, <2>1 DEF fsm
  <2> QED BY <1>2, <1>3, <2>2, Undisturbed
<1>4. CASE ~flush_txfifo
  <2> DEFINE c == NextCommand
  <2>1. c \in Command /\ c.pos = sent /\ (c.restart => sent = 0) /\ (c.stop => sent = Size)
    BY NextCommandType, NextCommandFacts
  <2> HIDE DEF c
  <2>2. Len(txfifo) # FifoDepth
    BY DEF CmdWrite, tx_ready, TypeOK, CoreTypeOK
  <2>3. /\ txfifo' = Append(txfifo, c)
        /\ mst_fsm_state' = IF mst_fsm_state = "IDLE" THEN "PRE_START" ELSE mst_fsm_state
    BY <1>4, <2>2 DEF CmdWrite, WriteCommand, c
  <2>4. /\ Len(txfifo') = Len(txfifo) + 1 /\ Len(txfifo) \in Nat /\ txfifo'[Len(txfifo')] = c
        /\ \A i \in 1..Len(txfifo) : txfifo'[i] = txfifo[i]
        /\ txfifo = <<>> <=> Len(txfifo) = 0
    BY <2>1, <2>3 DEF TypeOK, CoreTypeOK
  <2>5. sent > 0 => MessageInv /\ MidMessage /\ sent \in Nat
    BY <1>1 DEF MidMessage, TypeOK
  <2>6. sent # 0 => IF txfifo = <<>> THEN ~BetweenFrames /\ ~tx_shifter.stop
                                     ELSE ~txfifo[Len(txfifo)].stop
    BY <1>4, <2>5 DEF MessageInv, TypeOK
  <2>7. QueueInv'
    <3>1. \A i \in 1..Len(txfifo') : txfifo'[i].restart => txfifo'[i].pos = 0
      BY <2>1, <2>4 DEF QueueInv
    <3>2. ASSUME NEW i \in 1..Len(txfifo')-1, txfifo'[i].stop PROVE txfifo'[i+1].pos = 0
      <4>1. CASE i = Len(txfifo)
        BY <2>1, <2>4, <2>6, <3>2, <4>1
      <4>2. CASE i # Len(txfifo)
        BY <2>4, <3>2, <4>2 DEF QueueInv
      <4> QED BY <4>1, <4>2
    <3>3. tx_shifter'.stop => txfifo'[1].pos = 0
      BY <1>1, <2>1, <2>4, <2>6 DEF QueueInv
    <3> QED BY <3>1, <3>2, <3>3 DEF QueueInv
  <2>8. StartInv'
    <3>1. BetweenFrames' => BetweenFrames
      BY <2>3 DEF BetweenFrames
    <3>2. BetweenFrames => txfifo'[1].pos = 0
      BY <2>1, <2>4, <2>6 DEF StartInv
    <3> QED BY <1>1, <2>3, <3>1, <3>2 DEF StartInv
  <2>9. MessageInv'
    BY <1>1, <2>1, <2>4 DEF MessageInv, MidMessage, TypeOK
  <2>10. AddressFirst'
    BY <1>1, <2>3 DEF AddressFirst
  <2> QED BY <2>7, <2>8, <2>9, <2>10
<1> QED BY <1>3, <1>4

\* The other steps of the driver.
LEMMA TransferKeeps ==
  ASSUME TypeOK, QueueAndFrame, Transfer PROVE QueueAndFrame'
<1> USE DEF core, csr, isr, fsm, bus, call, MidMessage, flush_txfifo
<1>1. CASE Begin
  BY <1>1, BeginKeeps
<1>2. CASE CmdWrite
  BY <1>2, WriteKeeps
<1>3. CASE CmdTimeout
  BY <1>3, Undisturbed DEF CmdTimeout
<1>4. CASE CheckError
  BY <1>4, Undisturbed DEF CheckError
<1>5. CASE CheckNext
  <2>1. MidMessage /\ ~flush_txfifo
    BY <1>5 DEF CheckNext, Checked
  <2>2. UNCHANGED <<txfifo, fsm>>
    BY <1>5 DEF CheckNext
  <2> QED BY <2>1, <2>2, Undisturbed
<1>6. CASE CheckLast
  <2>1. ~MidMessage'
    BY <1>6 DEF CheckLast
  <2>2. UNCHANGED <<txfifo, fsm>>
    BY <1>6 DEF CheckLast
  <2> QED BY <2>1, <2>2, Undisturbed
<1>7. CASE RxRead
  BY <1>7, Undisturbed DEF RxRead
<1>8. CASE RxTimeout
  BY <1>8, Undisturbed DEF RxTimeout
<1>9. CASE RxDone
  BY <1>9, Undisturbed DEF RxDone
<1>10. CASE Finish
  BY <1>10, Undisturbed DEF Finish
<1>11. CASE Decide
  <2>1. ~MidMessage'
    BY <1>11 DEF Decide
  <2>2. UNCHANGED <<txfifo, fsm>>
    BY <1>11 DEF Decide
  <2> QED BY <2>1, <2>2, Undisturbed
<1> QED BY <1>1, <1>2, <1>3, <1>4, <1>5, <1>6, <1>7, <1>8, <1>9, <1>10, <1>11 DEF Transfer

LEMMA InterruptKeeps ==
  ASSUME QueueAndFrame, HandlerInv, Arm \/ StatusDone \/ StatusNack \/ Abort \/ Irq \/ IrqDone
  PROVE  QueueAndFrame'
<1> USE DEF core, csr, isr, fsm, bus, call, MidMessage, flush_txfifo
<1>1. CASE Arm
  BY <1>1, Undisturbed DEF Arm
<1>2. CASE StatusDone
  BY <1>2, Undisturbed DEF StatusDone
<1>3. CASE StatusNack
  <2>1. ~MidMessage' /\ UNCHANGED <<txfifo, fsm>>
    BY <1>3 DEF StatusNack
  <2> QED BY <2>1, Undisturbed
<1>4. CASE Abort
  BY <1>4, Undisturbed DEF Abort
<1>5. CASE Irq
  <2>1. pc' = "poll" /\ UNCHANGED <<txfifo, fsm>>
    BY <1>5 DEF Irq, intr, HandlerInv
  <2> QED BY <2>1, Undisturbed
<1>6. CASE IrqDone
  BY <1>6, Undisturbed DEF IrqDone
<1> QED BY <1>1, <1>2, <1>3, <1>4, <1>5, <1>6

LEMMA QueueAndFrameStep ==
  ASSUME TypeOK, HandlerInv, QueueAndFrame, [Next]_vars PROVE QueueAndFrame'
<1> USE DEF core, csr, isr, fsm, bus, cpu, call, MidMessage, flush_txfifo
<1>1. CASE Program
  BY <1>1, Undisturbed DEF Program, Call
<1>2. CASE Driver
  BY <1>2, TransferKeeps, InterruptKeeps DEF Driver
<1>3. CASE Handler
  BY <1>3, InterruptKeeps DEF Handler
<1>4. CASE Core
  BY <1>4, CoreKeeps
<1>5. CASE Bus
  BY <1>5, Undisturbed DEF Bus, HoldBus, ReleaseBus
<1>6. CASE UNCHANGED vars
  BY <1>6, Undisturbed DEF vars
<1> QED BY <1>1, <1>2, <1>3, <1>4, <1>5, <1>6 DEF Next

LEMMA QueueAndFrameInit == Init => QueueAndFrame
BY DEF Init, CoreInit, QueueAndFrame, QueueInv, StartInv, MessageInv, MidMessage, AddressFirst

\* The byte after a start condition is an address, whatever was refused and
\* flushed, lost to another master, or left in the FIFO by a call that gave up.
THEOREM AddressFirstHolds == Spec => []AddressFirst
<1>1. Init => IInv
  BY InitTypes, HandlerInit, QueueAndFrameInit DEF IInv, QueueAndFrame
<1>2. IInv /\ [Next]_vars => IInv'
  BY TypeStep, HandlerStep, QueueAndFrameStep DEF IInv, QueueAndFrame
<1>3. IInv => AddressFirst
  BY DEF IInv
<1> QED BY <1>1, <1>2, <1>3, PTL DEF Spec

-----------------------------------------------------------------------------
(* The calls the queued commands are of.                                   *)

LEMMA CallNumbers ==
  ASSUME TypeOK
  PROVE  /\ n \in Nat /\ dac.n \in Nat /\ tx_shifter.n \in Nat
         /\ \A i \in 1..Len(txfifo) : txfifo[i].n \in Nat
<1>1. \A c \in Command : c.n \in Nat
  BY DEF Command
<1>2. /\ tx_shifter \in Command /\ txfifo \in Seq(Command) /\ n \in Nat
      /\ dac \in Byte
  BY DEF TypeOK, CoreTypeOK
<1>3. dac.n \in Nat
  BY <1>2 DEF Byte
<1>4. \A i \in 1..Len(txfifo) : txfifo[i] \in Command
  BY <1>2
<1> QED BY <1>1, <1>2, <1>3, <1>4

\* A step that leaves what is queued and shown alone.
LEMMA OrderUndisturbed ==
  ASSUME TypeOK, CallsInOrder, UNCHANGED <<txfifo, tx_shifter, dac>>, n' \in {n, n + 1}
  PROVE  CallsInOrder'
<1>1. n \in Nat /\ tx_shifter.n \in Nat /\ \A i \in 1..Len(txfifo) : txfifo[i].n \in Nat
  BY CallNumbers
<1>2. n' \in Nat /\ n <= n'
  BY <1>1
<1>3. tx_shifter.n <= n'
  BY <1>1, <1>2 DEF CallsInOrder
<1>4. \A i \in 1..Len(txfifo) : txfifo[i].n <= n'
  BY <1>1, <1>2 DEF CallsInOrder
<1> QED BY <1>3, <1>4 DEF CallsInOrder

LEMMA OrderFlushed ==
  ASSUME CallsInOrder, txfifo' = <<>>, UNCHANGED <<tx_shifter, dac, n>>
  PROVE  CallsInOrder'
BY DEF CallsInOrder

LEMMA OrderPopped ==
  ASSUME TypeOK, CallsInOrder, NEW s, txfifo # <<>>, Pop(s), UNCHANGED n,
         dac'.n \in {dac.n, tx_shifter.n}
  PROVE  CallsInOrder' /\ dac'.n >= dac.n
<1>1. /\ txfifo \in Seq(Command) /\ Len(txfifo) \in Nat \ {0} /\ Head(txfifo) = txfifo[1]
      /\ Len(txfifo') = Len(txfifo) - 1
      /\ \A i \in 1..Len(txfifo') : txfifo'[i] = txfifo[i+1]
      /\ tx_shifter' = txfifo[1]
  BY DEF TypeOK, CoreTypeOK, Pop
<1>2. \A i \in 1..Len(txfifo') : i + 1 \in 1..Len(txfifo) /\ 1 <= i + 1
  BY <1>1
<1>3. 1 \in 1..Len(txfifo)
  BY <1>1
<1>4. /\ dac.n \in Nat /\ tx_shifter.n \in Nat /\ txfifo[1].n \in Nat
      /\ dac.n <= tx_shifter.n /\ tx_shifter.n <= txfifo[1].n /\ txfifo[1].n <= n
  BY <1>3, CallNumbers DEF CallsInOrder
<1>5. dac'.n <= tx_shifter'.n /\ tx_shifter'.n <= n' /\ dac'.n >= dac.n
  BY <1>1, <1>4
<1>6. \A i \in 1..Len(txfifo') : tx_shifter'.n <= txfifo'[i].n /\ txfifo'[i].n <= n'
  BY <1>1, <1>2, <1>3 DEF CallsInOrder
<1>7. ASSUME NEW i \in 1..Len(txfifo'), NEW j \in 1..Len(txfifo'), i <= j
      PROVE  txfifo'[i].n <= txfifo'[j].n
  <2>1. i + 1 \in 1..Len(txfifo) /\ j + 1 \in 1..Len(txfifo) /\ i + 1 <= j + 1
    BY <1>1, <1>2, <1>7
  <2> QED BY <1>1, <2>1 DEF CallsInOrder
<1> QED BY <1>5, <1>6, <1>7 DEF CallsInOrder

LEMMA OrderShown ==
  ASSUME TypeOK, CallsInOrder, UNCHANGED <<txfifo, tx_shifter, n>>,
         dac'.n \in {dac.n, tx_shifter.n}
  PROVE  CallsInOrder' /\ dac'.n >= dac.n
<1>1. dac.n \in Nat /\ tx_shifter.n \in Nat /\ dac.n <= tx_shifter.n
  BY CallNumbers DEF CallsInOrder
<1>2. dac'.n <= tx_shifter.n /\ dac'.n >= dac.n
  BY <1>1
<1> QED BY <1>2 DEF CallsInOrder

LEMMA OrderCore ==
  ASSUME TypeOK, CallsInOrder, Core PROVE CallsInOrder' /\ dac'.n >= dac.n
<1>0. n' = n /\ dac.n \in Nat
  BY CallNumbers DEF Core, cpu, call
<1>1. CASE GenStart
  BY <1>0, <1>1, OrderPopped DEF GenStart, bus
<1>2. CASE ByteAcked
  <2>1. dac'.n \in {dac.n, tx_shifter.n}
    BY <1>2 DEF ByteAcked
  <2>2. \/ txfifo # <<>> /\ Pop(Append(frame, tx_shifter))
        \/ UNCHANGED <<txfifo, tx_shifter>>
    BY <1>2 DEF ByteAcked, ToStop, PopOrHold
  <2> QED BY <1>0, <2>1, <2>2, OrderPopped, OrderShown
<1>3. CASE ByteRefused \/ ArbitrationLost
  BY <1>0, <1>3, OrderFlushed DEF ByteRefused, ArbitrationLost, bus
<1>4. CASE ByteReceived
  <2>1. dac' = dac
    BY <1>4 DEF ByteReceived, bus
  <2>2. \/ txfifo # <<>> /\ Pop(Append(frame, tx_shifter))
        \/ UNCHANGED <<txfifo, tx_shifter>>
    BY <1>4 DEF ByteReceived, ToStop, PopOrHold
  <2> QED BY <1>0, <2>1, <2>2, OrderPopped, OrderShown
<1>5. CASE Resume
  BY <1>0, <1>5, OrderPopped DEF Resume, bus
<1>6. CASE GenStop
  BY <1>0, <1>6, OrderUndisturbed DEF GenStop, bus
<1> QED BY <1>1, <1>2, <1>3, <1>4, <1>5, <1>6 DEF Core, CoreStep

LEMMA OrderWrite ==
  ASSUME TypeOK, CallsInOrder, CmdWrite PROVE CallsInOrder' /\ dac' = dac
<1>1. UNCHANGED <<tx_shifter, dac, n>>
  BY DEF CmdWrite, bus, call
<1>2. CASE txfifo' = txfifo
  BY <1>1, <1>2, OrderUndisturbed
<1>3. CASE txfifo' # txfifo
  <2> DEFINE c == NextCommand
  <2>1. c \in Command /\ c.n = n
    BY NextCommandType DEF NextCommand
  <2> HIDE DEF c
  <2>2. txfifo' = Append(txfifo, c)
    BY <1>3 DEF CmdWrite, WriteCommand, c
  <2>3. /\ Len(txfifo') = Len(txfifo) + 1 /\ Len(txfifo) \in Nat
        /\ \A i \in 1..Len(txfifo) : txfifo'[i] = txfifo[i]
        /\ txfifo'[Len(txfifo) + 1] = c
    BY <2>1, <2>2 DEF TypeOK, CoreTypeOK
  <2>4. \A i \in 1..Len(txfifo') : i \in 1..Len(txfifo) \/ i = Len(txfifo) + 1
    BY <2>3
  <2>5. n \in Nat /\ \A i \in 1..Len(txfifo') : txfifo'[i].n <= n
    BY <2>1, <2>3, <2>4 DEF CallsInOrder, TypeOK
  <2>6. \A i \in 1..Len(txfifo') : tx_shifter.n <= txfifo'[i].n
    BY <2>1, <2>3, <2>4 DEF CallsInOrder
  <2>7. ASSUME NEW i \in 1..Len(txfifo'), NEW j \in 1..Len(txfifo'), i <= j
        PROVE  txfifo'[i].n <= txfifo'[j].n
    <3>1. CASE j = Len(txfifo) + 1
      BY <2>1, <2>3, <2>5, <3>1
    <3>2. CASE j # Len(txfifo) + 1
      <4>1. i \in 1..Len(txfifo) /\ j \in 1..Len(txfifo)
        BY <2>3, <2>7, <3>2
      <4> QED BY <2>3, <2>7, <4>1 DEF CallsInOrder
    <3> QED BY <3>1, <3>2
  <2> QED BY <1>1, <2>5, <2>6, <2>7 DEF CallsInOrder
<1> QED BY <1>1, <1>2, <1>3

LEMMA OrderStep ==
  ASSUME TypeOK, CallsInOrder, [Next]_vars PROVE CallsInOrder' /\ dac'.n >= dac.n
<1>0. dac.n \in Nat
  BY CallNumbers
<1>1. CASE Core
  BY <1>1, OrderCore
<1>2. CASE CmdWrite
  BY <1>0, <1>2, OrderWrite
<1>3. CASE Program
  <2>1. UNCHANGED <<txfifo, tx_shifter, dac>> /\ n' = n + 1
    BY <1>3 DEF Program, Call, core, fsm, bus
  <2> QED BY <1>0, <2>1, OrderUndisturbed
<1>4. CASE \/ Begin \/ CmdTimeout \/ CheckError \/ CheckNext \/ CheckLast \/ RxRead
           \/ RxTimeout \/ RxDone \/ Finish \/ Decide
  <2>1. UNCHANGED <<txfifo, tx_shifter, dac, n>>
    BY <1>4 DEF Begin, CmdTimeout, CheckError, CheckNext, CheckLast, RxRead, RxTimeout,
                RxDone, Finish, Decide, core, fsm, bus, call
  <2> QED BY <1>0, <2>1, OrderUndisturbed
<1>5. CASE \/ Arm \/ StatusDone \/ StatusNack \/ Abort \/ Handler \/ Bus
           \/ UNCHANGED vars
  <2>1. UNCHANGED <<txfifo, tx_shifter, dac, n>>
    BY <1>5 DEF Arm, StatusDone, StatusNack, Abort, Handler, Irq, IrqDone, Bus, HoldBus,
                ReleaseBus, vars, core, fsm, bus, call, cpu
  <2> QED BY <1>0, <2>1, OrderUndisturbed
<1> QED BY <1>1, <1>2, <1>3, <1>4, <1>5 DEF Next, Driver, Transfer

\* The DAC never goes back to a value of an earlier call, whatever was refused,
\* retried or left in the FIFO when a wait ran out.
THEOREM NeverBackHolds == Spec => NeverBack
<1>1. Init => TypeOK /\ HandlerInv /\ CallsInOrder
  BY InitTypes, HandlerInit DEF Init, CoreInit, NoCommand, CallsInOrder
<1>2. TypeOK /\ HandlerInv /\ CallsInOrder /\ [Next]_vars
        => (TypeOK /\ HandlerInv /\ CallsInOrder)' /\ dac'.n >= dac.n
  BY TypeStep, HandlerStep, OrderStep
<1>3. TypeOK /\ HandlerInv /\ CallsInOrder /\ [Next]_vars => [dac'.n >= dac.n]_vars
  BY <1>2
<1> QED BY <1>1, <1>2, <1>3, PTL DEF Spec, NeverBack

-----------------------------------------------------------------------------
(* What holds of the core even after a wait ran out.                       *)

\* A step that leaves the command FIFO and the state machine alone.
LEMMA CoreUndisturbed ==
  ASSUME CoreInv, UNCHANGED <<txfifo, fsm>>,
         flush_txfifo' => flush_txfifo /\ (rxfifo' = rxfifo \/ rxfifo' = <<>>)
  PROVE  CoreInv'
BY DEF CoreInv, fsm

LEMMA CorePopped ==
  ASSUME TypeOK, CoreInv, NEW s, txfifo # <<>>, Pop(s), UNCHANGED <<nack_det, arblost_det>>
  PROVE  CoreInv'
<1>1. /\ txfifo \in Seq(Command) /\ Len(txfifo) \in Nat \ {0} /\ Head(txfifo) = txfifo[1]
      /\ Len(txfifo') = Len(txfifo) - 1
      /\ \A i \in 1..Len(txfifo') : txfifo'[i] = txfifo[i+1]
      /\ tx_shifter' = txfifo[1]
  BY DEF TypeOK, CoreTypeOK, Pop
<1>2. mst_fsm_state' \in {"GEN_7BIT_ADDR", "RX_BYTE", "TX_BYTE"}
  BY DEF Pop
<1>3. ~flush_txfifo'
  BY DEF CoreInv, flush_txfifo
<1>4. tx_shifter'.pos <= Size /\ \A i \in 1..Len(txfifo') : txfifo'[i].pos <= Size
  BY <1>1 DEF CoreInv
<1> QED BY <1>2, <1>3, <1>4 DEF CoreInv

\* After a byte acknowledged or received.
LEMMA CoreAfterByte ==
  ASSUME TypeOK, CoreInv, NEW s, PopOrHold(s) \/ ToStop(s), Sending,
         UNCHANGED <<nack_det, arblost_det>>
  PROVE  CoreInv'
<1>1. ~flush_txfifo /\ ~flush_txfifo'
  BY DEF CoreInv, flush_txfifo, Sending
<1>2. CASE txfifo # <<>> /\ Pop(s)
  BY <1>2, CorePopped
<1>3. CASE mst_fsm_state' \in {"BUS_HOLD", "GEN_STOP"} /\ UNCHANGED <<txfifo, tx_shifter>>
  BY <1>1, <1>3 DEF CoreInv
<1> QED BY <1>2, <1>3 DEF PopOrHold, ToStop

LEMMA CoreInvCore ==
  ASSUME TypeOK, CoreInv, CoreStep PROVE CoreInv'
<1> USE DEF csr, isr, bus
<1>1. CASE GenStart
  BY <1>1, CorePopped DEF GenStart
<1>2. CASE ByteAcked
  <2>1. Sending /\ UNCHANGED <<nack_det, arblost_det>>
    BY <1>2 DEF ByteAcked, Sending
  <2>2. \E s : PopOrHold(s) \/ ToStop(s)
    BY <1>2 DEF ByteAcked
  <2> QED BY <2>1, <2>2, CoreAfterByte
<1>3. CASE ByteRefused
  BY <1>3 DEF ByteRefused, CoreInv
<1>4. CASE ByteReceived
  <2>1. Sending /\ UNCHANGED <<nack_det, arblost_det>>
    BY <1>4 DEF ByteReceived, Sending
  <2>2. \E s : PopOrHold(s) \/ ToStop(s)
    BY <1>4 DEF ByteReceived
  <2> QED BY <2>1, <2>2, CoreAfterByte
<1>5. CASE Resume
  BY <1>5, CorePopped DEF Resume
<1>6. CASE GenStop
  <2>1. /\ UNCHANGED <<txfifo, rxfifo, tx_shifter, nack_det, arblost_det>> /\ frame' = <<>>
        /\ mst_fsm_state' = IF txfifo = <<>> THEN "IDLE" ELSE "PRE_START"
    BY <1>6 DEF GenStop
  <2> QED BY <2>1 DEF CoreInv, flush_txfifo
<1>7. CASE ArbitrationLost
  BY <1>7 DEF ArbitrationLost, CoreInv
<1> QED BY <1>1, <1>2, <1>3, <1>4, <1>5, <1>6, <1>7 DEF CoreStep

LEMMA CoreInvWrite ==
  ASSUME TypeOK, CoreInv, CmdWrite PROVE CoreInv'
<1>1. UNCHANGED <<tx_shifter, frame, rxfifo, nack_det, arblost_det>>
  BY DEF CmdWrite, csr, isr
<1>2. CASE UNCHANGED <<txfifo, mst_fsm_state>>
  BY <1>1, <1>2 DEF CoreInv, flush_txfifo
<1>3. CASE /\ ~flush_txfifo /\ txfifo' = Append(txfifo, NextCommand)
           /\ mst_fsm_state' = IF mst_fsm_state = "IDLE" THEN "PRE_START" ELSE mst_fsm_state
  <2>1. ~flush_txfifo'
    BY <1>1, <1>3 DEF flush_txfifo
  <2>2. mst_fsm_state' # "IDLE" /\ (mst_fsm_state' = "PRE_START" => frame' = <<>>)
    BY <1>1, <1>3 DEF CoreInv
  <2>3. NextCommand.pos = sent /\ sent <= Size
    BY DEF NextCommand, TypeOK
  <2>4. \A i \in 1..Len(txfifo') : txfifo'[i].pos <= Size
    <3>1. /\ txfifo \in Seq(Command) /\ Len(txfifo') = Len(txfifo) + 1
          /\ txfifo'[Len(txfifo) + 1] = NextCommand
          /\ \A i \in 1..Len(txfifo) : txfifo'[i] = txfifo[i]
      BY <1>3 DEF TypeOK, CoreTypeOK
    <3> HIDE DEF NextCommand
    <3> QED BY <2>3, <3>1 DEF CoreInv
  <2> QED BY <1>1, <2>1, <2>2, <2>4 DEF CoreInv
<1> QED BY <1>2, <1>3 DEF CmdWrite, WriteCommand

LEMMA CoreInvTransfer ==
  ASSUME TypeOK, CoreInv, Transfer PROVE CoreInv'
<1> USE DEF core, csr, isr, fsm, bus, flush_txfifo
<1>1. CASE Begin
  <2>1. CASE UNCHANGED core
    BY <1>1, <2>1, CoreUndisturbed DEF Begin
  <2>2. CASE Enable /\ ClearIsr /\ UNCHANGED <<txfifo, rxfifo, tx_shifter, frame>>
    BY <2>2 DEF Enable, ClearIsr, CoreInv
  <2> QED BY <1>1, <2>1, <2>2 DEF Begin
<1>2. CASE CmdWrite
  BY <1>2, CoreInvWrite
<1>3. CASE CmdTimeout
  BY <1>3, CoreUndisturbed DEF CmdTimeout
<1>4. CASE CheckError
  BY <1>4, CoreUndisturbed DEF CheckError
<1>5. CASE CheckNext
  BY <1>5, CoreUndisturbed DEF CheckNext
<1>6. CASE CheckLast
  BY <1>6, CoreUndisturbed DEF CheckLast
<1>7. CASE RxRead
  <2>1. ~flush_txfifo
    BY <1>7 DEF RxRead, rx_ready, CoreInv
  <2> QED BY <1>7, <2>1, CoreUndisturbed DEF RxRead
<1>8. CASE RxTimeout
  BY <1>8, CoreUndisturbed DEF RxTimeout
<1>9. CASE RxDone
  BY <1>9, CoreUndisturbed DEF RxDone
<1>10. CASE Finish
  BY <1>10, CoreUndisturbed DEF Finish
<1>11. CASE Decide
  BY <1>11, CoreUndisturbed DEF Decide
<1> QED BY <1>1, <1>2, <1>3, <1>4, <1>5, <1>6, <1>7, <1>8, <1>9, <1>10, <1>11 DEF Transfer

LEMMA CoreInvStep ==
  ASSUME TypeOK, CoreInv, [Next]_vars PROVE CoreInv'
<1> USE DEF core, csr, isr, fsm, bus, flush_txfifo
<1>1. CASE Program
  BY <1>1, CoreUndisturbed DEF Program, Call
<1>2. CASE Transfer
  BY <1>2, CoreInvTransfer
<1>3. CASE Arm
  BY <1>3, CoreUndisturbed DEF Arm, ClearIsr
<1>4. CASE StatusDone
  BY <1>4, CoreUndisturbed DEF StatusDone
<1>5. CASE StatusNack
  BY <1>5, CoreUndisturbed DEF StatusNack
<1>6. CASE Abort
  BY <1>6, CoreUndisturbed DEF Abort
<1>7. CASE Irq
  BY <1>7, CoreUndisturbed DEF Irq, ClearIsr
<1>8. CASE IrqDone
  BY <1>8, CoreUndisturbed DEF IrqDone
<1>9. CASE Core
  BY <1>9, CoreInvCore DEF Core
<1>10. CASE Bus
  BY <1>10, CoreUndisturbed DEF Bus, HoldBus, ReleaseBus
<1>11. CASE UNCHANGED vars
  BY <1>11, CoreUndisturbed DEF vars
<1> QED BY <1>1, <1>2, <1>3, <1>4, <1>5, <1>6, <1>7, <1>8, <1>9, <1>10, <1>11
        DEF Next, Driver, Handler

-----------------------------------------------------------------------------
(* Where the program and the handler are.                                  *)

LEMMA PlaceTransfer ==
  ASSUME TypeOK, PlaceInv, handler = "none", Transfer PROVE PlaceInv'
<1> USE DEF PlaceInv, core, csr, isr, fsm, bus, call, flush_txfifo, issue_stop, reads
<1>1. CASE Begin
  BY <1>1 DEF Begin
<1>2. CASE CmdWrite
  BY <1>2 DEF CmdWrite
<1>3. CASE CmdTimeout
  BY <1>3 DEF CmdTimeout
<1>4. CASE CheckError
  BY <1>4 DEF CheckError, Checked
<1>5. CASE CheckNext
  BY <1>5 DEF CheckNext
<1>6. CASE CheckLast
  BY <1>6 DEF CheckLast, TypeOK
<1>7. CASE RxRead
  BY <1>7 DEF RxRead
<1>8. CASE RxTimeout
  BY <1>8 DEF RxTimeout
<1>9. CASE RxDone
  BY <1>9 DEF RxDone
<1>10. CASE Finish
  BY <1>10 DEF Finish
<1>11. CASE Decide
  BY <1>11 DEF Decide, TypeOK
<1> QED BY <1>1, <1>2, <1>3, <1>4, <1>5, <1>6, <1>7, <1>8, <1>9, <1>10, <1>11 DEF Transfer

LEMMA PlaceStep ==
  ASSUME TypeOK, HandlerInv, PlaceInv, [Next]_vars PROVE PlaceInv'
<1> USE DEF PlaceInv, core, csr, isr, fsm, bus, cpu, call, flush_txfifo, issue_stop, reads
<1>1. CASE Program
  <2>1. n' > 0
    BY <1>1 DEF Program, Call, TypeOK
  <2> QED BY <1>1, <2>1 DEF Program, Call
<1>2. CASE handler = "none" /\ Transfer
  BY <1>2, PlaceTransfer
<1>3. CASE handler = "none" /\ Arm
  BY <1>3 DEF Arm
<1>4. CASE StatusDone
  BY <1>4 DEF StatusDone
<1>5. CASE handler = "none" /\ StatusNack
  BY <1>5 DEF StatusNack
<1>6. CASE handler = "none" /\ Abort
  BY <1>6 DEF Abort
<1>7. CASE Irq
  <2> DEFINE wanted == Size - Len(buffer)
             taken == IF Len(rxfifo) < wanted THEN Len(rxfifo) ELSE wanted
  <2>1. pc = "poll" /\ irq_busy # 0 /\ Len(buffer) <= Size
    BY <1>7 DEF Irq, intr, HandlerInv
  <2>2. /\ UNCHANGED <<pc, call, part, status, irq_busy>>
        /\ iser' # {} => handler' = "none"
        /\ handler' # "none" => iser' = {}
        /\ handler' # "none" /\ irq_busy = 2 =>
             ~(taken < wanted) /\ buffer' = buffer \o SubSeq(rxfifo, 1, taken)
    BY <1>7 DEF Irq
  <2>3. ASSUME handler' # "none", irq_busy = 2 PROVE Len(buffer') = Size
    <3>5. rxfifo \in Seq(Byte) /\ buffer \in Seq(Byte)
      BY DEF TypeOK, CoreTypeOK
    <3>6. Len(rxfifo) \in Nat /\ Len(buffer) \in Nat
      BY <3>5
    <3>0. wanted \in Nat
      BY <2>1, <3>6
    <3>1. taken = wanted /\ wanted \in 0..Len(rxfifo)
      <4>1. ~(taken < wanted)
        BY <2>2, <2>3
      <4> QED BY <3>0, <3>6, <4>1
    <3>2. SubSeq(rxfifo, 1, wanted) \in Seq(Byte) /\ Len(SubSeq(rxfifo, 1, wanted)) = wanted
      BY <3>1, <3>5
    <3>3. buffer' = buffer \o SubSeq(rxfifo, 1, wanted)
      BY <2>2, <2>3, <3>1
    <3>4. Len(buffer') = Len(buffer) + wanted
      BY <3>2, <3>3, <3>5
    <3> QED BY <3>4, <3>6
  <2> QED BY <2>1, <2>2, <2>3
<1>8. CASE IrqDone
  BY <1>8 DEF IrqDone
<1>9. CASE Core
  <2>1. UNCHANGED <<cpu, iser>> /\ (flush_txfifo => flush_txfifo')
    BY <1>9 DEF Core, CoreStep, GenStart, ByteAcked, ByteRefused, ByteReceived,
                Resume, GenStop, ArbitrationLost
  <2> QED BY <2>1
<1>10. CASE Bus
  BY <1>10 DEF Bus, HoldBus, ReleaseBus
<1>11. CASE UNCHANGED vars
  BY <1>11 DEF vars
<1> QED BY <1>1, <1>2, <1>3, <1>4, <1>5, <1>6, <1>7, <1>8, <1>9, <1>10, <1>11
        DEF Next, Driver, Handler

-----------------------------------------------------------------------------
(* The commands of a call in order.                                        *)

LEMMA Places ==
  ASSUME NEW i \in Nat
  PROVE  /\ Place(i) \in Nat
         /\ i \in {0, Size + 1} => Place(i) = 0
         /\ i \notin {0, Size + 1} =>
              /\ Place(i) = Place(i - 1) + 1
              /\ \A knd : Reading(knd, i) <=> Reading(knd, i - 1)
BY DEF Place, Reading

LEMMA WrittenBound ==
  ASSUME TypeOK, PlaceInv
  PROVE  /\ Size \in Nat /\ Size > 0 /\ Total(kind) \in Nat /\ Written \in 0..Total(kind)
         /\ txfifo \in Seq(Command) /\ Len(txfifo) \in Nat
         /\ Popped \in Int /\ Popped <= Written
         /\ pc \in {"cmd_write", "check"} => sent \in 0..Size
         /\ issue_stop /\ pc \notin {"begin", "cmd_write", "check"} => Written = Total(kind)
<1>1. Len(txfifo) \in Nat /\ txfifo \in Seq(Command) /\ sent \in 0..Size
  BY DEF TypeOK, CoreTypeOK
<1>2. /\ part = 2 => kind = "tx_rx"
      /\ kind \in {"tx", "rx", "tx_rx"} /\ part \in {1, 2}
  BY DEF PlaceInv, TypeOK
<1>3. Written \in 0..Total(kind) /\ Total(kind) \in Nat
  BY <1>1, <1>2 DEF Written, Total
<1>4. issue_stop /\ pc \notin {"begin", "cmd_write", "check"} => Written = Total(kind)
  BY <1>1, <1>2 DEF Written, Total, issue_stop
<1> QED BY <1>1, <1>3, <1>4 DEF Popped

LEMMA ScriptFields ==
  ASSUME NEW c, NEW knd, NEW i
  PROVE  /\ Script(c, knd, i).n = c /\ Script(c, knd, i).pos = Place(i)
         /\ Script(c, knd, i).read <=> Place(i) = 0 /\ Reading(knd, i)
         /\ Script(c, knd, i).restart <=> i = Size + 1
         /\ Script(c, knd, i).stop <=> Place(i) = Size /\ (knd # "tx_rx" \/ i > Size)
BY DEF Script

\* The last command, and only it, has the stop.
LEMMA LastStops ==
  ASSUME NEW c, NEW knd, NEW i \in Nat, i < Total(knd)
  PROVE  /\ Script(c, knd, i).stop <=> i = Total(knd) - 1
         /\ Place(i) = 0 => ~Script(c, knd, i).stop
<1>1. Place(i) = Size /\ (knd # "tx_rx" \/ i > Size) <=> i = Total(knd) - 1
  BY DEF Place, Total
<1> QED BY <1>1, ScriptFields

\* No more bytes are received than asked for, and none by a transmission.
LEMMA ReceivedBound ==
  ASSUME Popped \in 0..Total(kind)
  PROVE  Received \in 0..Size /\ (kind = "tx" => Received = 0)
<1>1. CASE Popped = 0
  BY <1>1 DEF Received
<1>2. CASE Popped # 0
  <2>1. Popped - 1 \in Nat /\ Place(Popped - 1) \in 0..Size
    BY <1>2 DEF Place, Total
  <2>2. kind = "tx" => ~Reading(kind, Popped - 1)
    BY <1>2 DEF Reading, Total
  <2> QED BY <2>1, <2>2 DEF Received
<1> QED BY <1>1, <1>2

\* What Received is once the commands taken are done.
Finished == IF Popped = 0 \/ ~Reading(kind, Popped - 1) THEN 0 ELSE Place(Popped - 1)

\* The next command is taken: s is the frame with what has been done of it.
LEMMA ScriptPop ==
  ASSUME TypeOK, PlaceInv, InScript, NEW s \in Seq(Command), txfifo # <<>>, Pop(s),
         UNCHANGED cpu, s = <<>> <=> Popped = 0,
         Popped > 0 => /\ Len(s) = Place(Popped - 1) + 1
                       /\ s[1].read <=> Reading(kind, Popped - 1)
  PROVE  /\ InScript' /\ InFrame' /\ Received' = Finished
         /\ Popped' = Popped + 1 /\ Sending'
<1>1. /\ Len(txfifo) \in Nat \ {0} /\ Head(txfifo) = txfifo[1]
      /\ txfifo' = Tail(txfifo) /\ Len(txfifo') = Len(txfifo) - 1
      /\ \A i \in 1..Len(txfifo') : txfifo'[i] = txfifo[i+1]
      /\ tx_shifter' = txfifo[1]
  BY DEF TypeOK, CoreTypeOK, Pop
<1>2. UNCHANGED <<Written, n, kind>>
  BY DEF cpu, call, Written
<1>3. /\ Written \in Nat /\ Total(kind) \in Nat /\ Written <= Total(kind)
      /\ Popped \in 0..Total(kind) /\ Popped < Written
  BY <1>1, WrittenBound DEF InScript, Popped
<1>4. Popped' = Popped + 1 /\ Popped' \in 1..Total(kind)
  <2>1. Popped' = Popped + 1
    <3>1. Popped = Written - Len(txfifo) /\ Popped' = Written - Len(txfifo')
      BY <1>2 DEF Popped
    <3>2. Len(txfifo) \in Nat /\ Len(txfifo') = Len(txfifo) - 1
      BY <1>1
    <3> QED BY <1>3, <3>1, <3>2
  <2> QED BY <1>3, <2>1
<1>5. txfifo[1] = Script(n, kind, Popped)
  <2>1. 1 \in 1..Len(txfifo) /\ Popped + 1 - 1 = Popped
    BY <1>1, <1>3
  <2> QED BY <2>1 DEF InScript
<1>6. tx_shifter' = Script(n', kind', Popped' - 1)
  <2>1. Popped' - 1 = Popped
    BY <1>3, <1>4
  <2> QED BY <1>1, <1>2, <1>5, <2>1
<1>7. \A i \in 1..Len(txfifo') : txfifo'[i] = Script(n', kind', Popped' + i - 1)
  <2> SUFFICES ASSUME NEW i \in 1..Len(txfifo')
               PROVE  txfifo'[i] = Script(n, kind, Popped' + i - 1)
    BY <1>2
  <2>1. i + 1 \in 1..Len(txfifo) /\ Popped + (i + 1) - 1 = Popped' + i - 1
    BY <1>1, <1>3, <1>4
  <2> QED BY <1>1, <2>1 DEF InScript
<1>8. s = <<>> \/ Script(n, kind, Popped).restart <=> Popped \in {0, Size + 1}
  BY ScriptFields
<1>9. /\ Popped \in {0, Size + 1} => Place(Popped) = 0
      /\ Popped \notin {0, Size + 1} =>
           /\ Popped > 0 /\ Place(Popped) = Place(Popped - 1) + 1 /\ Place(Popped) > 0
           /\ Place(Popped - 1) \in Nat
           /\ Reading(kind, Popped) <=> Reading(kind, Popped - 1)
  <2>1. Popped \in Nat /\ (Popped # 0 => Popped - 1 \in Nat)
    BY <1>3
  <2>2. Popped # 0 => Place(Popped - 1) \in Nat
    BY <2>1, Places
  <2>3. /\ Popped \in {0, Size + 1} => Place(Popped) = 0
        /\ Popped \notin {0, Size + 1} =>
             /\ Place(Popped) = Place(Popped - 1) + 1
             /\ Reading(kind, Popped) <=> Reading(kind, Popped - 1)
    BY <2>1, Places
  <2> QED BY <2>1, <2>2, <2>3
<1>10. /\ mst_fsm_state' = IF Place(Popped) = 0 THEN "GEN_7BIT_ADDR"
                           ELSE IF Reading(kind, Popped) THEN "RX_BYTE" ELSE "TX_BYTE"
       /\ frame' = IF Place(Popped) = 0 THEN <<>> ELSE s
  <2>1. CASE Popped \in {0, Size + 1}
    BY <1>1, <1>5, <1>8, <1>9, <2>1 DEF Pop
  <2>2. CASE Popped \notin {0, Size + 1}
    <3>1. Head(s).read <=> Reading(kind, Popped)
      BY <1>9, <2>2
    <3> QED BY <1>1, <1>5, <1>8, <1>9, <2>2, <3>1 DEF Pop
  <2> QED BY <2>1, <2>2
<1>11. Sending'
  BY <1>10 DEF Sending
<1>12. Popped' - 1 = Popped /\ Popped' > 0
  BY <1>3, <1>4
<1>13. InScript'
  BY <1>2, <1>4, <1>6, <1>7, <1>10, <1>11, <1>12 DEF InScript
<1>14. InFrame'
  BY <1>2, <1>9, <1>10, <1>11, <1>12 DEF InFrame
<1>15. Received' = Finished
  <2>1. CASE Popped = 0
    BY <1>2, <1>9, <1>12, <2>1 DEF Received, Finished
  <2>2. CASE Popped = Size + 1
    <3>1. ~Reading(kind, Popped - 1)
      BY <1>3, <2>2 DEF Reading, Total
    <3> QED BY <1>2, <1>9, <1>12, <2>2, <3>1 DEF Received, Finished
  <2>3. CASE Popped \notin {0, Size + 1}
    BY <1>2, <1>9, <1>11, <1>12, <2>3 DEF Received, Finished
  <2> QED BY <2>1, <2>2, <2>3
<1> QED BY <1>4, <1>11, <1>13, <1>14, <1>15

\* The byte in the shifter is done.
LEMMA ScriptAfterByte ==
  ASSUME TypeOK, PlaceInv, InScript, InFrame, Sending, NEW s, s = Append(frame, tx_shifter),
         \/ ToStop(s) /\ tx_shifter.stop
         \/ PopOrHold(s) /\ (tx_shifter.stop => Place(Popped - 1) = 0),
         UNCHANGED cpu
  PROVE  /\ InScript' /\ InFrame' /\ Received' = Finished
         /\ Popped' = Popped \/ (Popped' = Popped + 1 /\ Sending')
<1>1. /\ Written \in Nat /\ Total(kind) \in Nat /\ Written <= Total(kind)
      /\ Popped \in 1..Total(kind) /\ Popped - 1 \in Nat
  BY WrittenBound DEF InScript, Popped
<1>2. tx_shifter = Script(n, kind, Popped - 1) /\ Place(Popped - 1) \in Nat
  BY <1>1, Places DEF InScript
<1>3. /\ s \in Seq(Command) /\ s # <<>> /\ Len(s) = Place(Popped - 1) + 1
      /\ s[1] = IF frame = <<>> THEN tx_shifter ELSE frame[1]
  <2>1. frame \in Seq(Command) /\ tx_shifter \in Command /\ Len(frame) = Place(Popped - 1)
    BY DEF TypeOK, CoreTypeOK, InFrame
  <2> QED BY <2>1
<1>4. s[1].read <=> Reading(kind, Popped - 1)
  <2>1. CASE frame = <<>>
    <3>1. Place(Popped - 1) = 0
      BY <2>1 DEF InFrame
    <3> QED BY <1>2, <1>3, <2>1, <3>1, ScriptFields
  <2>2. CASE frame # <<>>
    BY <1>3, <2>2 DEF InFrame
  <2> QED BY <2>1, <2>2
<1>5. Popped - 1 = Total(kind) - 1 <=> tx_shifter.stop
  BY <1>1, <1>2, LastStops
<1>6. CASE txfifo # <<>> /\ Pop(s)
  <2>1. s \in Seq(Command) /\ (s = <<>> <=> Popped = 0)
    BY <1>1, <1>3
  <2>2. Popped > 0 => /\ Len(s) = Place(Popped - 1) + 1
                      /\ s[1].read <=> Reading(kind, Popped - 1)
    BY <1>3, <1>4
  <2>3. /\ InScript' /\ InFrame' /\ Received' = Finished
        /\ Popped' = Popped + 1 /\ Sending'
    BY <1>6, <2>1, <2>2, ScriptPop
  <2> QED BY <2>3
<1>7. CASE /\ frame' = s /\ UNCHANGED <<txfifo, tx_shifter>>
           /\ \/ mst_fsm_state' = "GEN_STOP" /\ Popped = Total(kind)
              \/ mst_fsm_state' = "BUS_HOLD" /\ Popped # Total(kind)
  <2>1. UNCHANGED <<Popped, n, kind>>
    BY <1>7 DEF cpu, call, Written, Popped
  <2>2. ~Sending'
    BY <1>7 DEF Sending
  <2>3. InScript'
    <3>1. Popped \in 1..Total(kind)-1 \/ Popped = Total(kind)
      BY <1>1
    <3>2. /\ \A i \in 1..Len(txfifo') : txfifo'[i] = Script(n', kind', Popped' + i - 1)
          /\ tx_shifter' = Script(n', kind', Popped' - 1)
      BY <1>2, <1>7, <2>1 DEF InScript
    <3> QED BY <1>1, <1>7, <2>1, <2>2, <3>1, <3>2 DEF InScript
  <2>4. InFrame'
    BY <1>3, <1>4, <1>7, <2>1, <2>2 DEF InFrame
  <2>5. Received' = Finished
    BY <2>1, <2>2 DEF Received, Finished
  <2> QED BY <2>1, <2>3, <2>4, <2>5
<1>8. tx_shifter.stop => Popped = Total(kind)
  BY <1>1, <1>5
<1>9. CASE ToStop(s) /\ tx_shifter.stop
  BY <1>7, <1>8, <1>9 DEF ToStop
<1>10. CASE PopOrHold(s) /\ (tx_shifter.stop => Place(Popped - 1) = 0)
  <2>1. ~tx_shifter.stop
    BY <1>1, <1>2, <1>10, LastStops
  <2> QED BY <1>1, <1>5, <1>6, <1>7, <1>10, <2>1 DEF PopOrHold
<1> QED BY <1>9, <1>10

LEMMA ReceivedNow ==
  ASSUME InScript, Popped \in 0..Total(kind)
  PROVE  /\ Finished \in Nat
         /\ mst_fsm_state = "RX_BYTE" => Finished > 0 /\ Received = Finished - 1
         /\ mst_fsm_state # "RX_BYTE" => Received = Finished
<1>1. CASE Popped = 0
  BY <1>1 DEF InScript, Sending, Received, Finished
<1>2. CASE Popped # 0
  <2>1. Popped - 1 \in Nat /\ Place(Popped - 1) \in Nat
    BY <1>2, Places
  <2> QED BY <1>2, <2>1 DEF InScript, Sending, Received, Finished
<1> QED BY <1>1, <1>2

LEMMA IntactAcked ==
  ASSUME TypeOK, PlaceInv, Intact, ByteAcked, UNCHANGED cpu PROVE Intact'
<1> DEFINE s == Append(frame, tx_shifter)
<1>1. /\ mst_fsm_state \in {"GEN_7BIT_ADDR", "TX_BYTE"} /\ Sending /\ InScript /\ InFrame
      /\ AllReceived /\ Shown /\ Popped \in 1..Total(kind)
  BY DEF ByteAcked, Sending, Intact, InScript
<1>2. /\ UNCHANGED <<rxfifo, rx_over, buffer, use_interrupts, n, kind>>
      /\ dac' = IF mst_fsm_state = "TX_BYTE" /\ Len(frame) >= 2
                THEN [n |-> tx_shifter.n, pos |-> tx_shifter.pos] ELSE dac
  BY DEF ByteAcked, csr, isr, cpu, call
<1>3. /\ InScript' /\ InFrame' /\ Received' = Finished
      /\ Popped' = Popped \/ (Popped' = Popped + 1 /\ Sending')
  <2>1. \/ ToStop(s) /\ tx_shifter.stop
        \/ PopOrHold(s) /\ (tx_shifter.stop => Place(Popped - 1) = 0)
    BY <1>1 DEF ByteAcked, InScript
  <2> HIDE DEF s
  <2>2. s = Append(frame, tx_shifter)
    BY DEF s
  <2> QED BY <1>1, <2>1, <2>2, ScriptAfterByte
<1>4. Received' = Received
  BY <1>1, <1>3, ReceivedNow
<1>5. AllReceived'
  BY <1>1, <1>2, <1>4 DEF AllReceived
<1>6. Shown'
  <2>1. SUFFICES ASSUME kind # "rx", Size > 1, Popped > Size
                 PROVE  dac' = [n |-> n, pos |-> Size]
    <3>1. Popped' > Size + 1 \/ (Popped' = Size + 1 /\ ~Sending') => Popped > Size
      BY <1>1, <1>3
    <3> QED BY <1>2, <3>1 DEF Shown
  <2>2. CASE Popped = Size + 1
    <3>1. Place(Popped - 1) = Size /\ ~Reading(kind, Popped - 1)
      BY <2>1, <2>2 DEF Place, Reading
    <3>2. mst_fsm_state = "TX_BYTE" /\ Len(frame) = Size
      BY <1>1, <3>1 DEF InScript, InFrame
    <3>3. tx_shifter.n = n /\ tx_shifter.pos = Size
      <4>1. tx_shifter = Script(n, kind, Popped - 1)
        BY <1>1 DEF InScript
      <4> QED BY <3>1, <4>1, ScriptFields
    <3> QED BY <1>2, <2>1, <3>2, <3>3
  <2>3. CASE Popped > Size + 1
    <3>1. Reading(kind, Popped - 1)
      BY <1>1, <2>3 DEF Reading
    <3>2. mst_fsm_state # "TX_BYTE"
      BY <1>1, <3>1 DEF InScript
    <3> QED BY <1>1, <1>2, <2>1, <2>3, <3>2 DEF Shown
  <2> QED BY <1>1, <2>1, <2>2, <2>3
<1> QED BY <1>3, <1>5, <1>6 DEF Intact

LEMMA IntactReceived ==
  ASSUME TypeOK, PlaceInv, Intact, ByteReceived, UNCHANGED cpu PROVE Intact'
<1> DEFINE s == Append(frame, tx_shifter)
<1>1. /\ mst_fsm_state = "RX_BYTE" /\ Sending /\ InScript /\ InFrame
      /\ AllReceived /\ Shown /\ Popped \in 1..Total(kind)
  BY DEF ByteReceived, Sending, Intact, InScript
<1>2. /\ UNCHANGED <<dac, buffer, use_interrupts, n, kind>>
      /\ rxfifo' = IF Len(rxfifo) = FifoDepth THEN rxfifo
                   ELSE Append(rxfifo, [n |-> tx_shifter.n, pos |-> tx_shifter.pos])
      /\ rx_over' = (rx_over \/ Len(rxfifo) = FifoDepth)
  BY DEF ByteReceived, bus, cpu, call
<1>3. /\ InScript' /\ InFrame' /\ Received' = Finished
      /\ Popped' = Popped \/ (Popped' = Popped + 1 /\ Sending')
  <2>1. \/ ToStop(s) /\ tx_shifter.stop
        \/ PopOrHold(s) /\ ~tx_shifter.stop
    BY DEF ByteReceived
  <2> HIDE DEF s
  <2>2. s = Append(frame, tx_shifter)
    BY DEF s
  <2> QED BY <1>1, <2>1, <2>2, ScriptAfterByte
<1>4. /\ Received' = Received + 1 /\ Received \in Nat /\ Reading(kind, Popped - 1)
      /\ Received' = Place(Popped - 1)
  <2>1. Reading(kind, Popped - 1)
    BY <1>1 DEF InScript
  <2>2. Finished \in Nat /\ Finished > 0 /\ Received = Finished - 1
    BY <1>1, ReceivedNow
  <2>3. Finished = Place(Popped - 1)
    BY <1>1, <2>1 DEF Finished
  <2> QED BY <1>3, <2>1, <2>2, <2>3
<1>5. /\ rxfifo \in Seq(Byte) /\ Len(rxfifo) \in Nat /\ Len(buffer) \in Nat
      /\ use_interrupts \in BOOLEAN /\ rx_over \in BOOLEAN
  BY DEF TypeOK, CoreTypeOK, DriverAssumption
<1>6. AllReceived'
  <2>1. CASE Len(rxfifo) = FifoDepth
    <3>1. rxfifo' = rxfifo /\ rx_over' /\ Len(buffer) + Len(rxfifo) <= Received
      BY <1>1, <1>2, <2>1 DEF AllReceived
    <3> QED BY <1>2, <1>4, <1>5, <3>1 DEF AllReceived
  <2>2. CASE Len(rxfifo) # FifoDepth
    <3>1. [n |-> tx_shifter.n, pos |-> tx_shifter.pos] = [n |-> n, pos |-> Received + 1]
      <4>1. tx_shifter = Script(n, kind, Popped - 1)
        BY <1>1 DEF InScript
      <4> QED BY <1>4, <4>1, ScriptFields
    <3>2. /\ rxfifo' = Append(rxfifo, [n |-> n, pos |-> Received + 1]) /\ rx_over' = rx_over
          /\ Len(rxfifo') = Len(rxfifo) + 1
          /\ \A i \in 1..Len(rxfifo) : rxfifo'[i] = rxfifo[i]
          /\ rxfifo'[Len(rxfifo) + 1] = [n |-> n, pos |-> Received + 1]
      BY <1>2, <1>5, <2>2, <3>1
    <3>3. ~use_interrupts /\ ~rx_over => 
            \A i \in 1..Len(rxfifo') : rxfifo'[i] = [n |-> n, pos |-> Len(buffer) + i]
      <4> SUFFICES ASSUME ~use_interrupts, ~rx_over, NEW i \in 1..Len(rxfifo')
                   PROVE  rxfifo'[i] = [n |-> n, pos |-> Len(buffer) + i]
        OBVIOUS
      <4>1. CASE i \in 1..Len(rxfifo)
        BY <1>1, <3>2, <4>1 DEF AllReceived
      <4>2. CASE i = Len(rxfifo) + 1
        <5>1. Received + 1 = Len(buffer) + i
          BY <1>1, <1>4, <1>5, <4>2 DEF AllReceived
        <5> QED BY <3>2, <4>2, <5>1
      <4> QED BY <1>5, <3>2, <4>1, <4>2
    <3>4. /\ Len(buffer) + Len(rxfifo') <= Received'
          /\ ~use_interrupts /\ rx_over => Len(buffer) + Len(rxfifo') < Received'
          /\ ~use_interrupts /\ ~rx_over => Len(buffer) + Len(rxfifo') = Received'
      BY <1>1, <1>4, <1>5, <3>2 DEF AllReceived
    <3> QED BY <1>1, <1>2, <3>2, <3>3, <3>4 DEF AllReceived
  <2> QED BY <2>1, <2>2
<1>7. Shown'
  <2>1. SUFFICES ASSUME kind # "rx", Size > 1, Popped > Size
                 PROVE  dac = [n |-> n, pos |-> Size]
    <3>1. Popped' > Size + 1 \/ (Popped' = Size + 1 /\ ~Sending') => Popped > Size
      BY <1>1, <1>3
    <3> QED BY <1>2, <3>1 DEF Shown
  <2>2. Popped > Size + 1
    BY <1>1, <1>4, <2>1 DEF Reading
  <2> QED BY <1>1, <2>1, <2>2 DEF Shown
<1> QED BY <1>3, <1>6, <1>7 DEF Intact

\* The next command is taken after a start or a pause.
LEMMA IntactPopped ==
  ASSUME TypeOK, PlaceInv, Intact, GenStart \/ Resume, UNCHANGED cpu PROVE Intact'
<1>1. /\ InScript /\ InFrame /\ AllReceived /\ Shown /\ Popped \in 0..Total(kind)
      /\ mst_fsm_state \in {"PRE_START", "BUS_HOLD"} /\ ~Sending
  BY DEF Intact, InScript, GenStart, Resume, Sending
<1>2. UNCHANGED <<rxfifo, rx_over, dac, buffer, use_interrupts, n, kind>>
  BY DEF GenStart, Resume, csr, isr, bus, cpu, call
<1>3. /\ InScript' /\ InFrame' /\ Received' = Finished
      /\ Popped' = Popped + 1 /\ Sending'
  <2>1. CASE GenStart
    <3> DEFINE s == <<>>
    <3>1. Popped = 0 /\ ~(Popped > 0) /\ Pop(s) /\ txfifo # <<>>
      BY <1>1, <2>1 DEF GenStart, InScript
    <3>2. s \in Seq(Command) /\ s = <<>>
      OBVIOUS
    <3> HIDE DEF s
    <3> QED BY <1>1, <3>1, <3>2, ScriptPop
  <2>2. CASE Resume
    <3>1. Popped \in 1..Total(kind)-1 /\ Len(frame) = Place(Popped - 1) + 1
      BY <1>1, <2>2 DEF Resume, InScript, InFrame
    <3>2. Popped > 0 /\ Place(Popped - 1) \in Nat
      BY <1>1, <3>1, Places
    <3>3. frame \in Seq(Command) /\ frame # <<>> /\ Pop(frame) /\ txfifo # <<>>
      BY <2>2, <3>1, <3>2 DEF Resume, TypeOK, CoreTypeOK
    <3>4. frame[1].read <=> Reading(kind, Popped - 1)
      BY <1>1, <3>3 DEF InFrame
    <3>5. frame = <<>> <=> Popped = 0
      BY <3>2, <3>3
    <3> QED BY <1>1, <3>1, <3>3, <3>4, <3>5, ScriptPop
  <2> QED BY <2>1, <2>2
<1>4. Received' = Received
  BY <1>1, <1>3, ReceivedNow
<1>5. AllReceived'
  BY <1>1, <1>2, <1>4 DEF AllReceived
<1>6. Shown'
  <2>1. Popped' > Size + 1 => Popped > Size + 1 \/ (Popped = Size + 1 /\ ~Sending)
    BY <1>1, <1>3
  <2> QED BY <1>1, <1>2, <1>3, <2>1 DEF Shown
<1> QED BY <1>3, <1>5, <1>6 DEF Intact

\* A step that neither moves the core nor changes what was sent or received.
LEMMA IntactSame ==
  ASSUME Intact, UNCHANGED <<txfifo, fsm, rxfifo, dac, n, kind, use_interrupts, buffer>>,
         Written' = Written, use_interrupts \/ rx_over' = rx_over
  PROVE  Intact'
<1>1. UNCHANGED <<tx_shifter, mst_fsm_state, frame, Popped, Sending>>
  BY DEF fsm, Popped, Sending
<1>2. Received' = Received
  BY <1>1 DEF Received
<1>3. InScript'
  BY <1>1 DEF Intact, InScript
<1>4. InFrame'
  BY <1>1 DEF Intact, InFrame
<1>5. AllReceived'
  BY <1>2 DEF Intact, AllReceived
<1>6. Shown'
  BY <1>1 DEF Intact, Shown
<1> QED BY <1>3, <1>4, <1>5, <1>6 DEF Intact

\* The stop ends the call.
LEMMA IntactStopped ==
  ASSUME TypeOK, PlaceInv, CoreInv, Intact, GenStop, UNCHANGED cpu PROVE Intact'
<1>1. /\ InScript /\ InFrame /\ AllReceived /\ Shown /\ Popped = Total(kind)
      /\ mst_fsm_state = "GEN_STOP" /\ ~Sending
  BY DEF Intact, InScript, GenStop, Sending
<1>2. txfifo = <<>>
  <2>1. Len(txfifo) = 0
    BY <1>1, WrittenBound DEF Popped
  <2> QED BY <2>1, WrittenBound
<1>3. /\ UNCHANGED <<txfifo, tx_shifter, rxfifo, rx_over, dac, buffer, use_interrupts, n, kind>>
      /\ mst_fsm_state' = "IDLE" /\ frame' = <<>>
  BY <1>2 DEF GenStop, csr, isr, bus, cpu, call
<1>4. Popped' = Popped /\ ~Sending'
  BY <1>3 DEF Popped, Written, cpu, call, Sending
<1>5. Received' = Received
  BY <1>1, <1>3, <1>4 DEF Received
<1>6. InScript'
  BY <1>1, <1>3, <1>4 DEF InScript
<1>7. InFrame' /\ Shown'
  BY <1>1, <1>3, <1>4 DEF InFrame, Shown
<1>8. AllReceived'
  BY <1>1, <1>3, <1>5 DEF AllReceived
<1> QED BY <1>6, <1>7, <1>8 DEF Intact

LEMMA FrameWhole ==
  ASSUME TypeOK, Intact, Sending,
         \A i \in 1..Len(frame) : frame[i].n = n /\ frame[i].pos = i - 1,
         NEW s, s = Append(frame, tx_shifter)
  PROVE  \A i \in 1..Len(s) : s[i].n = n /\ s[i].pos = i - 1
<1>1. tx_shifter.n = n /\ tx_shifter.pos = Len(frame)
  <2>1. tx_shifter = Script(n, kind, Popped - 1) /\ Len(frame) = Place(Popped - 1)
    BY DEF Intact, InScript, InFrame
  <2> QED BY <2>1, ScriptFields
<1>2. frame \in Seq(Command)
  BY DEF TypeOK, CoreTypeOK
<1> QED BY <1>1, <1>2

LEMMA TransferCore ==
  ASSUME TypeOK, CoreInv, PlaceInv, TransferInv, Core PROVE TransferInv'
<1> DEFINE s == Append(frame, tx_shifter)
           Whole == \A i \in 1..Len(frame) : frame[i].n = n /\ frame[i].pos = i - 1
<1>1. UNCHANGED <<cpu, pc, n, kind, part, irq_busy, ctrl_en>> /\ Between' = Between /\ Whole
  BY DEF Core, CoreStep, GenStart, ByteAcked, ByteRefused, ByteReceived, Resume,
         GenStop, ArbitrationLost, csr, cpu, call, Between, TransferInv
<1>2. ~Between /\ ctrl_en /\ (Intact \/ Refused)
  <2>1. mst_fsm_state # "IDLE"
    BY DEF Core, CoreStep, GenStart, ByteAcked, ByteRefused, ByteReceived, Resume,
           GenStop, ArbitrationLost
  <2> QED BY <2>1 DEF TransferInv, Settled
<1>3. SUFFICES Whole' /\ (Intact' \/ Refused')
  BY <1>1, <1>2 DEF TransferInv
<1>4. CASE GenStart \/ Resume
  <2>1. Intact
    BY <1>2, <1>4 DEF Refused, GenStart, Resume
  <2>2. frame' = <<>> \/ frame' = frame
    BY <1>4 DEF GenStart, Resume, Pop
  <2>3. Whole'
    BY <1>1, <2>2
  <2> QED BY <1>1, <1>4, <2>1, <2>3, IntactPopped
<1>5. CASE ByteAcked \/ ByteReceived
  <2>1. Sending /\ Intact
    BY <1>2, <1>5 DEF Refused, ByteAcked, ByteReceived, Sending
  <2>2. \A i \in 1..Len(s) : s[i].n = n /\ s[i].pos = i - 1
    BY <1>1, <2>1, FrameWhole
  <2>3. frame' = <<>> \/ frame' = s
    BY <1>5 DEF ByteAcked, ByteReceived, PopOrHold, ToStop, Pop
  <2>4. Whole'
    BY <1>1, <2>2, <2>3
  <2> QED BY <1>1, <1>5, <2>1, <2>4, IntactAcked, IntactReceived
<1>6. CASE ByteRefused
  <2>1. Refused'
    BY <1>6 DEF ByteRefused, Refused, flush_txfifo
  <2> QED BY <1>1, <1>6, <2>1 DEF ByteRefused
<1>7. CASE GenStop
  <2>1. frame' = <<>>
    BY <1>7 DEF GenStop
  <2>2. CASE Intact
    BY <1>1, <1>7, <2>1, <2>2, IntactStopped
  <2>3. CASE Refused
    <3>1. Refused'
      BY <1>1, <1>7, <2>3 DEF GenStop, Refused, csr, isr, flush_txfifo
    <3> QED BY <2>1, <3>1
  <2> QED BY <1>2, <2>2, <2>3
<1>8. CASE ArbitrationLost
  <2>1. Refused' /\ frame' = <<>>
    BY <1>8 DEF ArbitrationLost, Refused, flush_txfifo
  <2> QED BY <2>1
<1> QED BY <1>4, <1>5, <1>6, <1>7, <1>8 DEF Core, CoreStep

-----------------------------------------------------------------------------
(* The end of a call.                                                      *)

\* A core that has all of a call, or was refused it, becomes idle by itself.
LEMMA NeverStuck ==
  ASSUME TypeOK, CoreInv, PlaceInv, Intact \/ Refused, AwaitIdle, ~(core_status /\ held),
         flush_txfifo \/ (issue_stop /\ pc \notin {"begin", "cmd_write", "check"})
  PROVE  mst_fsm_state = "IDLE" /\ txfifo = <<>>
<1>1. SUFFICES ASSUME core_status PROVE FALSE
  BY DEF core_status, CoreInv
<1>2. ~held /\ ~CoreMoves
  BY <1>1 DEF AwaitIdle
<1>3. mst_fsm_state \in {"PRE_START", "BUS_HOLD"}
  BY <1>1, <1>2 DEF CoreMoves, core_status, TypeOK, CoreTypeOK
<1>4. ~flush_txfifo /\ txfifo = <<>> /\ Intact
  BY <1>2, <1>3 DEF CoreMoves, CoreInv, Refused
<1>5. Popped = Total(kind) /\ Total(kind) \in Nat /\ Total(kind) > 0
  <2>1. Written = Total(kind) /\ Len(txfifo) = 0 /\ Total(kind) \in Nat
    BY <1>4, WrittenBound
  <2> QED BY <2>1 DEF Popped, Total
<1> QED BY <1>3, <1>4, <1>5 DEF Intact, InScript

LEMMA NothingToRead ==
  ASSUME TypeOK, Intact \/ Refused, kind = "tx" \/ Len(buffer) >= Size
  PROVE  rxfifo = <<>>
<1>1. /\ rxfifo \in Seq(Byte) /\ Len(rxfifo) \in Nat /\ Len(buffer) \in Nat
  BY DEF TypeOK, CoreTypeOK
<1>2. CASE Intact
  <2>1. Len(buffer) + Len(rxfifo) <= Received
    BY <1>2 DEF Intact, AllReceived
  <2>2. Received \in 0..Size /\ (kind = "tx" => Received = 0)
    BY <1>2, ReceivedBound DEF Intact, InScript
  <2>3. Len(rxfifo) = 0
    BY <1>1, <2>1, <2>2
  <2> QED BY <1>1, <2>3
<1> QED BY <1>2 DEF Refused

LEMMA WholeReceived ==
  ASSUME Intact, mst_fsm_state = "IDLE", kind \in {"rx", "tx_rx"} PROVE Received = Size
<1>1. Popped = Total(kind) /\ Total(kind) \in Nat /\ Total(kind) > 0 /\ ~Sending
  BY DEF Intact, InScript, Sending, Total
<1>2. Place(Popped - 1) = Size /\ Reading(kind, Popped - 1)
  BY <1>1 DEF Place, Reading, Total
<1> QED BY <1>1, <1>2 DEF Received

\* What a call has sent and received when its core is idle and nothing was refused.
LEMMA DeliveredWhole ==
  ASSUME TypeOK, PlaceInv, Intact, mst_fsm_state = "IDLE", ~use_interrupts, issue_stop,
         reads => Len(buffer) >= Size
  PROVE  Delivered
<1>1. /\ Popped = Total(kind) /\ ~Sending /\ InScript /\ AllReceived /\ Shown
      /\ buffer \in Seq(Byte) /\ Len(buffer) \in Nat /\ Len(rxfifo) \in Nat
      /\ kind \in {"tx", "rx", "tx_rx"}
  BY DEF Intact, InScript, Sending, TypeOK, CoreTypeOK
<1>2. kind # "rx" /\ Size > 1 => dac = [n |-> n, pos |-> Size]
  BY <1>1 DEF Shown, Total
<1>3. ASSUME kind # "tx" PROVE buffer = [i \in 1..Size |-> [n |-> n, pos |-> i]]
  <2>1. Len(buffer) >= Size
    BY <1>1, <1>3 DEF issue_stop, reads
  <2>2. Received = Size
    BY <1>1, <1>3, WholeReceived
  <2>3. ~rx_over /\ Len(buffer) = Size
    BY <1>1, <2>1, <2>2 DEF AllReceived
  <2>4. \A i \in 1..Size : buffer[i] = [n |-> n, pos |-> i]
    BY <1>1, <2>3 DEF AllReceived
  <2>5. buffer = [i \in 1..Size |-> buffer[i]]
    BY <1>1, <2>3
  <2> QED BY <2>4, <2>5
<1> QED BY <1>2, <1>3 DEF Delivered

-----------------------------------------------------------------------------
(* The steps of the driver.                                                *)

\* A step within a transfer that leaves the core and the bytes alone.
LEMMA TransferUndisturbed ==
  ASSUME TransferInv, ~Between, ~Between', Written' = Written,
         UNCHANGED <<ctrl_en, txfifo, fsm, rxfifo, dac, n, kind, use_interrupts, buffer>>,
         use_interrupts \/ rx_over' = rx_over,
         flush_txfifo \/ pc \in {"poll", "abort"} =>
           flush_txfifo' \/ pc' \in {"poll", "abort"}
  PROVE  TransferInv'
<1>1. Intact => Intact'
  BY IntactSame
<1>2. Refused => Refused'
  BY DEF Refused, fsm
<1> QED BY <1>1, <1>2 DEF TransferInv, fsm

\* The first transfer of an attempt.
LEMMA TransferBegin ==
  ASSUME TypeOK, CoreInv, PlaceInv, TransferInv, Begin
  PROVE  TransferInv' /\ pc' = "cmd_write"
<1>1. CASE part = 1
  <2>1. Settled /\ frame = <<>>
    BY <1>1 DEF TransferInv, Between, Begin, Settled, CoreInv
  <2>2. /\ Enable /\ ClearIsr /\ pc' = "cmd_write" /\ sent' = 0 /\ buffer' = <<>>
        /\ UNCHANGED <<txfifo, rxfifo, frame, part, n, kind, use_interrupts>>
    BY <1>1, <2>1 DEF Begin, issue_restart, Settled, call
  <2>3. mst_fsm_state' = "PRE_START" /\ ctrl_en' /\ ~rx_over'
    BY <2>1, <2>2 DEF Enable, ClearIsr, Settled
  <2>4. txfifo' = <<>> /\ rxfifo' = <<>> /\ frame' = <<>> /\ ~Sending' /\ ~Between'
    BY <2>1, <2>2, <2>3 DEF Settled, Sending, Between
  <2>5. Popped' = 0
    <3>1. part' # 2 /\ pc' # "begin" /\ pc' = "cmd_write" /\ sent' = 0 /\ Len(txfifo') = 0
      BY <1>1, <2>2, <2>4
    <3>2. Written' = 0
      BY <3>1 DEF Written
    <3> QED BY <3>1, <3>2 DEF Popped
  <2>6. InScript'
    <3>1. Total(kind') \in Nat
      BY DEF Total
    <3> QED BY <2>3, <2>4, <2>5, <3>1 DEF InScript
  <2>7. InFrame' /\ Shown'
    BY <2>3, <2>4, <2>5 DEF InFrame, Shown
  <2>8. AllReceived'
    BY <2>2, <2>3, <2>4, <2>5 DEF AllReceived, Received
  <2> QED BY <2>2, <2>3, <2>4, <2>6, <2>7, <2>8 DEF TransferInv, Intact
<1>2. CASE part = 2
  <2>1. ~Between /\ ~Between' /\ pc' = "cmd_write" /\ Written' = Written /\ kind = "tx_rx"
    BY <1>2 DEF Begin, issue_restart, Between, Written, PlaceInv
  <2>2. Intact => buffer' = buffer
    <3> SUFFICES ASSUME Intact PROVE buffer' = buffer
      OBVIOUS
    <3>1. Written = Size + 1 /\ Popped \in 0..Size+1
      <4>1. Written = Size + 1
        BY <1>2 DEF Begin, Written
      <4> QED BY <4>1, WrittenBound DEF Intact, InScript
    <3>2. Received = 0
      BY <2>1, <3>1 DEF Received, Reading
    <3>3. buffer \in Seq(Byte) /\ Len(buffer) = 0
      BY <3>2 DEF Intact, AllReceived, TypeOK, CoreTypeOK
    <3> QED BY <3>3 DEF Begin
  <2>3. UNCHANGED <<core, call>>
    BY <1>2 DEF Begin, issue_restart
  <2>4. Intact => Intact'
    BY <2>1, <2>2, <2>3, IntactSame DEF core, csr, isr, fsm, bus, call
  <2>5. Refused => Refused'
    BY <2>3 DEF Refused, Begin, core, csr, isr, fsm, flush_txfifo
  <2> QED BY <2>1, <2>3, <2>4, <2>5 DEF TransferInv, core, csr, fsm, call
<1> QED BY <1>1, <1>2 DEF TypeOK

\* A step between transfers.
LEMMA BetweenStays ==
  ASSUME TransferInv, Between, Between', UNCHANGED <<ctrl_en, txfifo, rxfifo, fsm, n>>
  PROVE  TransferInv'
BY DEF TransferInv, Settled, fsm

\* A step within a transfer that takes k bytes from the FIFO to the buffer.
LEMMA TransferMoved ==
  ASSUME TypeOK, TypeOK', TransferInv, ~Between, ~Between', Written' = Written,
         UNCHANGED <<ctrl_en, txfifo, fsm, dac, n, kind, use_interrupts>>,
         use_interrupts \/ rx_over' = rx_over,
         flush_txfifo \/ pc \in {"poll", "abort"} =>
           flush_txfifo' \/ pc' \in {"poll", "abort"},
         NEW k \in 0..Len(rxfifo),
         Len(buffer') = Len(buffer) + k, Len(rxfifo') = Len(rxfifo) - k,
         \A i \in 1..Len(buffer) : buffer'[i] = buffer[i],
         \A i \in 1..k : buffer'[Len(buffer) + i] = rxfifo[i],
         \A i \in 1..Len(rxfifo') : rxfifo'[i] = rxfifo[k + i]
  PROVE  TransferInv'
<1>1. /\ Len(buffer) \in Nat /\ Len(rxfifo) \in Nat /\ rxfifo' \in Seq(Byte)
      /\ Len(buffer') + Len(rxfifo') = Len(buffer) + Len(rxfifo)
  BY DEF TypeOK, CoreTypeOK
<1>2. ASSUME Refused PROVE Refused'
  <2>1. Len(rxfifo') = 0
    BY <1>1, <1>2 DEF Refused
  <2> QED BY <1>1, <1>2, <2>1 DEF Refused, fsm
<1>3. ASSUME Intact PROVE Intact'
  <2>1. UNCHANGED <<tx_shifter, mst_fsm_state, frame, Popped, Sending>>
    BY DEF fsm, Popped, Sending
  <2>2. Received' = Received
    BY <2>1 DEF Received
  <2>3. InScript' /\ InFrame' /\ Shown'
    BY <1>3, <2>1 DEF Intact, InScript, InFrame, Shown
  <2>4. ASSUME ~use_interrupts, ~rx_over
        PROVE  /\ \A i \in 1..Len(buffer') : buffer'[i] = [n |-> n, pos |-> i]
               /\ \A i \in 1..Len(rxfifo') :
                    rxfifo'[i] = [n |-> n, pos |-> Len(buffer') + i]
    <3>1. /\ \A i \in 1..Len(buffer) : buffer[i] = [n |-> n, pos |-> i]
          /\ \A i \in 1..Len(rxfifo) : rxfifo[i] = [n |-> n, pos |-> Len(buffer) + i]
      BY <1>3, <2>4 DEF Intact, AllReceived
    <3>2. ASSUME NEW i \in 1..Len(buffer') PROVE buffer'[i] = [n |-> n, pos |-> i]
      <4>1. CASE i <= Len(buffer)
        <5>1. i \in 1..Len(buffer)
          BY <1>1, <4>1
        <5>2. buffer'[i] = buffer[i] /\ buffer[i] = [n |-> n, pos |-> i]
          BY <3>1, <5>1
        <5> QED BY <5>2
      <4>2. CASE i > Len(buffer)
        <5> DEFINE j == i - Len(buffer)
        <5>1. j \in 1..k /\ j \in 1..Len(rxfifo) /\ Len(buffer) + j = i
          BY <1>1, <4>2
        <5> HIDE DEF j
        <5>2. buffer'[Len(buffer) + j] = rxfifo[j]
          BY <5>1
        <5>3. rxfifo[j] = [n |-> n, pos |-> Len(buffer) + j]
          BY <3>1, <5>1
        <5> QED BY <5>1, <5>2, <5>3
      <4> QED BY <1>1, <4>1, <4>2
    <3>3. ASSUME NEW i \in 1..Len(rxfifo')
          PROVE  rxfifo'[i] = [n |-> n, pos |-> Len(buffer') + i]
      <4>1. k + i \in 1..Len(rxfifo) /\ Len(buffer) + (k + i) = Len(buffer') + i
        BY <1>1
      <4> QED BY <3>1, <4>1
    <3> QED BY <3>2, <3>3
  <2>5. AllReceived'
    BY <1>1, <1>3, <2>2, <2>4 DEF Intact, AllReceived
  <2> QED BY <2>3, <2>5 DEF Intact
<1> QED BY <1>2, <1>3 DEF TransferInv, fsm

\* The command written is the next of the call.
LEMMA NextIsScript ==
  ASSUME TypeOK, PlaceInv, pc = "cmd_write"
  PROVE  NextCommand = Script(n, kind, Written) /\ Written < Total(kind)
<1>1. /\ sent \in 0..Size /\ Written = (IF part = 2 THEN Size + 1 ELSE 0) + sent
      /\ part \in {1, 2} /\ (part = 2 => kind = "tx_rx") /\ kind \in {"tx", "rx", "tx_rx"}
  BY DEF TypeOK, Written, PlaceInv
<1>2. Place(Written) = sent /\ (Written > Size <=> part = 2) /\ Written < Total(kind)
  BY <1>1 DEF Place, Total
<1>3. /\ sent = 0 /\ reads <=> Place(Written) = 0 /\ Reading(kind, Written)
      /\ sent = 0 /\ issue_restart <=> Written = Size + 1
      /\ sent = Size /\ issue_stop <=>
           Place(Written) = Size /\ (kind # "tx_rx" \/ Written > Size)
  BY <1>1, <1>2 DEF reads, Reading, issue_restart, issue_stop
<1>4. /\ (sent = 0 /\ reads) = (Place(Written) = 0 /\ Reading(kind, Written))
      /\ (sent = 0 /\ issue_restart) = (Written = Size + 1)
      /\ (sent = Size /\ issue_stop) =
           (Place(Written) = Size /\ (kind # "tx_rx" \/ Written > Size))
  BY <1>3, Zenon
<1> QED BY <1>2, <1>4, Zenon DEF NextCommand, Script

LEMMA TransferWrite ==
  ASSUME TypeOK, CoreInv, PlaceInv, TransferInv, CmdWrite PROVE TransferInv'
<1>1. /\ pc = "cmd_write" /\ pc' = "check" /\ ~Between /\ ~Between' /\ tx_ready
      /\ WriteCommand(NextCommand)
      /\ UNCHANGED <<ctrl_en, tx_shifter, frame, rxfifo, rx_over, nack_det, arblost_det, dac,
                     n, kind, part, sent, buffer, use_interrupts>>
  BY DEF CmdWrite, Between, csr, isr, bus, call
<1>2. ctrl_en /\ (Intact \/ Refused)
  BY <1>1 DEF TransferInv
<1>3. CASE flush_txfifo
  <2>1. Refused'
    BY <1>1, <1>3 DEF WriteCommand, CoreInv, Refused, flush_txfifo
  <2> QED BY <1>1, <1>2, <2>1 DEF TransferInv
<1>4. CASE ~flush_txfifo
  <2>1. Intact
    BY <1>1, <1>2, <1>4 DEF Refused
  <2>2. /\ Written \in Nat /\ Written < Total(kind) /\ Len(txfifo) \in Nat
        /\ txfifo \in Seq(Command) /\ Total(kind) \in Nat
        /\ Popped \in 0..Total(kind) /\ Popped <= Written /\ sent \in 0..Size
    BY <1>1, <2>1, NextIsScript, WrittenBound DEF Intact, InScript
  <2>3. mst_fsm_state # "IDLE" /\ Len(txfifo) # FifoDepth
    BY <1>1, <2>1, <2>2 DEF Intact, InScript, tx_ready
  <2> DEFINE c == NextCommand
  <2>4. c = Script(n, kind, Written)
    BY <1>1, NextIsScript
  <2>5. txfifo' = Append(txfifo, c) /\ mst_fsm_state' = mst_fsm_state
    BY <1>1, <1>4, <2>3 DEF WriteCommand
  <2> HIDE DEF c
  <2>6. /\ Len(txfifo') = Len(txfifo) + 1
        /\ \A i \in 1..Len(txfifo) : txfifo'[i] = txfifo[i]
        /\ txfifo'[Len(txfifo) + 1] = c
    BY <2>2, <2>5
  <2>7. Written' = Written + 1
    BY <1>1, <2>2 DEF Written
  <2>8. Popped' = Popped
    <3>1. Popped = Written - Len(txfifo) /\ Popped' = Written' - Len(txfifo')
      BY DEF Popped
    <3> QED BY <2>2, <2>6, <2>7, <3>1
  <2>9. Sending' = Sending /\ Received' = Received
    BY <1>1, <2>5, <2>8 DEF Sending, Received
  <2>10. \A i \in 1..Len(txfifo') : txfifo'[i] = Script(n', kind', Popped' + i - 1)
    <3> SUFFICES ASSUME NEW i \in 1..Len(txfifo')
                 PROVE  txfifo'[i] = Script(n, kind, Popped + i - 1)
      BY <1>1, <2>8
    <3>1. CASE i \in 1..Len(txfifo)
      BY <2>1, <2>6, <3>1 DEF Intact, InScript
    <3>2. CASE i = Len(txfifo) + 1
      <4>1. Popped + i - 1 = Written
        BY <2>2, <3>2 DEF Popped
      <4> QED BY <2>4, <2>6, <3>2, <4>1
    <3> QED BY <2>2, <2>6, <3>1, <3>2
  <2>11. InScript'
    BY <1>1, <2>1, <2>5, <2>8, <2>9, <2>10 DEF Intact, InScript
  <2>12. InFrame' /\ AllReceived' /\ Shown'
    BY <1>1, <2>1, <2>5, <2>8, <2>9 DEF Intact, InFrame, AllReceived, Shown
  <2> QED BY <1>1, <1>2, <2>11, <2>12 DEF TransferInv, Intact
<1> QED BY <1>3, <1>4

\* A core that is enabled and takes no command has some: it moves unless the bus is
\* held.
LEMMA WriteWaits ==
  ASSUME TypeOK, CoreInv, TransferInv, CmdTimeout PROVE lapsed'
<1>1. SUFFICES ASSUME ~held PROVE FALSE
  BY DEF CmdTimeout, Lapse
<1>2. ctrl_en /\ ~tx_ready /\ ~CoreMoves
  BY DEF CmdTimeout, TransferInv, Between
<1>3. txfifo # <<>>
  <2> SUFFICES ASSUME txfifo = <<>> PROVE FALSE
    OBVIOUS
  <2>1. Len(txfifo) = 0
    OBVIOUS
  <2> QED BY <1>2, <2>1 DEF tx_ready
<1>4. mst_fsm_state # "IDLE" /\ ~flush_txfifo
  BY <1>3 DEF CoreInv
<1> QED BY <1>1, <1>2, <1>3, <1>4 DEF CoreMoves, TypeOK, CoreTypeOK

LEMMA TransferCheck ==
  ASSUME TypeOK, TypeOK', CoreInv, PlaceInv, TransferInv, CheckError \/ CheckNext \/ CheckLast
  PROVE  TransferInv'
<1>1. /\ pc = "check" /\ ~Between /\ ctrl_en /\ (Intact \/ Refused) /\ sent \in 0..Size
      /\ UNCHANGED <<ctrl_en, txfifo, fsm, dac, isr, n, kind, use_interrupts, flush_txfifo>>
  BY DEF CheckError, CheckNext, CheckLast, Between, TransferInv, TypeOK, core, csr, isr,
         bus, call, flush_txfifo
<1>2. CASE CheckError
  <2>1. flush_txfifo /\ UNCHANGED rxfifo /\ ~Between'
    BY <1>2 DEF CheckError, Checked, flush_txfifo, core, Between
  <2>2. Refused'
    BY <1>1, <2>1 DEF CoreInv, Refused, fsm
  <2> QED BY <1>1, <2>1, <2>2 DEF TransferInv, fsm
<1>3. CASE CheckLast
  <2>1. ~Between' /\ Written' = Written /\ UNCHANGED <<rxfifo, rx_over, buffer>>
    <3>1. sent = Size /\ part' = IF issue_stop THEN part ELSE 2
      BY <1>3 DEF CheckLast
    <3>2. /\ pc' \in {"begin", "arm", "rx_read", "await_idle"}
          /\ pc' = "begin" <=> ~issue_stop
      BY <1>3 DEF CheckLast
    <3>3. ~issue_stop => part = 1
      BY DEF issue_stop, TypeOK
    <3>4. ~Between' /\ Written' = Written
      BY <1>1, <3>1, <3>2, <3>3 DEF Between, Written
    <3> QED BY <1>3, <3>4 DEF CheckLast, core, csr, isr
  <2> QED BY <1>1, <2>1, TransferUndisturbed
<1>4. CASE CheckNext
  <2>1. /\ ~Between' /\ UNCHANGED part /\ sent' = sent + 1 /\ pc' = "cmd_write"
        /\ UNCHANGED rx_over
    BY <1>4 DEF CheckNext, Between, call, csr, isr
  <2>2. Written' = Written
    BY <1>1, <2>1 DEF Written
  <2>3. CASE UNCHANGED <<buffer, rxfifo>>
    BY <1>1, <2>1, <2>2, <2>3, TransferUndisturbed
  <2>4. CASE buffer' = buffer \o rxfifo /\ rxfifo' = <<>>
    <3> DEFINE k == Len(rxfifo)
    <3>1. buffer \in Seq(Byte) /\ rxfifo \in Seq(Byte)
      BY DEF TypeOK, CoreTypeOK
    <3>2. /\ k \in 0..Len(rxfifo) /\ Len(buffer) \in Nat
          /\ Len(buffer') = Len(buffer) + k /\ Len(rxfifo') = Len(rxfifo) - k
          /\ \A i \in 1..Len(buffer) : buffer'[i] = buffer[i]
          /\ \A i \in 1..k : buffer'[Len(buffer) + i] = rxfifo[i]
      BY <2>4, <3>1
    <3>3. \A i \in 1..Len(rxfifo') : rxfifo'[i] = rxfifo[k + i]
      BY <2>4
    <3> HIDE DEF k
    <3> QED BY <1>1, <2>1, <2>2, <3>2, <3>3, TransferMoved
  <2> QED BY <1>4, <2>3, <2>4 DEF CheckNext
<1> QED BY <1>2, <1>3, <1>4

LEMMA TransferRead ==
  ASSUME TypeOK, TypeOK', CoreInv, PlaceInv, TransferInv, RxRead \/ RxTimeout \/ RxDone
  PROVE  TransferInv'
<1>1. /\ pc = "rx_read" /\ pc' \in {"rx_read", "await_idle"} /\ ~Between /\ ~Between'
      /\ UNCHANGED <<part, ctrl_en, txfifo, fsm, dac, isr, n, kind, use_interrupts,
                     flush_txfifo>>
      /\ rx_over' = rx_over /\ Written' = Written
  <2> USE DEF Between, core, csr, isr, bus, call, flush_txfifo, Written
  <2>1. CASE RxRead
    BY <2>1 DEF RxRead
  <2>2. CASE RxTimeout
    BY <2>2 DEF RxTimeout
  <2>3. CASE RxDone
    BY <2>3 DEF RxDone
  <2> QED BY <2>1, <2>2, <2>3
<1>2. CASE UNCHANGED <<buffer, rxfifo>>
  BY <1>1, <1>2, TransferUndisturbed
<1>3. CASE rxfifo # <<>> /\ buffer' = Append(buffer, Head(rxfifo)) /\ rxfifo' = Tail(rxfifo)
  <2> DEFINE k == 1
  <2>1. /\ buffer \in Seq(Byte) /\ rxfifo \in Seq(Byte) /\ Head(rxfifo) = rxfifo[1]
        /\ Len(rxfifo) \in Nat \ {0} /\ Head(rxfifo) \in Byte /\ Len(buffer) \in Nat
    BY <1>3 DEF TypeOK, CoreTypeOK
  <2>2. /\ Len(buffer') = Len(buffer) + 1 /\ buffer'[Len(buffer) + 1] = rxfifo[1]
        /\ \A i \in 1..Len(buffer) : buffer'[i] = buffer[i]
    BY <1>3, <2>1
  <2>3. Len(rxfifo') = Len(rxfifo) - k /\ \A i \in 1..Len(rxfifo') : rxfifo'[i] = rxfifo[k + i]
    BY <1>3, <2>1
  <2>4. \A i \in 1..k : buffer'[Len(buffer) + i] = rxfifo[i]
    <3>1. \A i \in 1..k : i = 1
      OBVIOUS
    <3> QED BY <2>2, <3>1
  <2>5. k \in 0..Len(rxfifo) /\ Len(buffer') = Len(buffer) + k
    BY <2>1, <2>2
  <2> HIDE DEF k
  <2> QED BY <1>1, <2>2, <2>3, <2>4, <2>5, TransferMoved
<1> QED BY <1>2, <1>3 DEF RxRead, rx_ready, RxTimeout, RxDone, core

\* At the end of a transfer the core has nothing left of it.
LEMMA FinishIdle ==
  ASSUME TypeOK, CoreInv, PlaceInv, TransferInv, StatusInv, Finish, ~lapsed'
  PROVE  mst_fsm_state = "IDLE" /\ txfifo = <<>> /\ rxfifo = <<>>
<1>1. /\ pc = "await_idle" /\ AwaitIdle /\ ~(core_status /\ held)
      /\ Intact \/ Refused
  BY DEF Finish, Lapse, TransferInv, Between
<1>2. status \in {"NACK", "ARB_LOST"} => flush_txfifo
  BY <1>1 DEF PlaceInv
<1>3. status \in {"SUCCESS", "TIMEOUT"} => issue_stop
  BY <1>1 DEF PlaceInv, StatusInv
<1>4. status \in {"NACK", "ARB_LOST", "SUCCESS", "TIMEOUT"}
  BY <1>1 DEF TypeOK, PlaceInv
<1>5. mst_fsm_state = "IDLE" /\ txfifo = <<>>
  BY <1>1, <1>2, <1>3, <1>4, NeverStuck
<1>6. rxfifo = <<>>
  <2>1. CASE status \in {"NACK", "ARB_LOST"}
    BY <1>2, <2>1 DEF CoreInv
  <2>2. CASE status = "TIMEOUT"
    BY <1>1, <2>2 DEF StatusInv
  <2>3. CASE status = "SUCCESS"
    <3>1. reads \/ kind = "tx"
      BY <1>3, <2>3 DEF issue_stop, reads, TypeOK
    <3>2. reads => Len(buffer) >= Size
      BY <1>1, <2>3 DEF PlaceInv
    <3> QED BY <1>1, <3>1, <3>2, NothingToRead
  <2> QED BY <1>4, <2>1, <2>2, <2>3
<1> QED BY <1>5, <1>6

\* What is left of an interrupt transaction when the handler or the program waits
\* for its end.
LEMMA TransactionIdle ==
  ASSUME TypeOK, CoreInv, PlaceInv, TransferInv, pc \in {"poll", "abort"},
         AwaitIdle, ~(core_status /\ held), pc = "poll" => irq_busy # 0
  PROVE  /\ mst_fsm_state = "IDLE" /\ txfifo = <<>>
         /\ handler # "none" => rxfifo = <<>>
<1>1. (Intact \/ Refused) /\ issue_stop
  BY DEF TransferInv, Between, PlaceInv
<1>2. mst_fsm_state = "IDLE" /\ txfifo = <<>>
  BY <1>1, NeverStuck
<1>3. ASSUME handler # "none" PROVE rxfifo = <<>>
  <2>1. irq_busy = 2 => Len(buffer) = Size
    BY <1>3 DEF PlaceInv
  <2>2. irq_busy # 2 => kind = "tx"
    <3>1. irq_busy # 2 => ~reads
      BY <1>3 DEF PlaceInv
    <3> QED BY <1>1, <3>1 DEF issue_stop, reads, TypeOK
  <2>3. kind = "tx" \/ Len(buffer) >= Size
    BY <2>1, <2>2
  <2> QED BY <1>1, <2>3, NothingToRead
<1> QED BY <1>2, <1>3

\* The handler takes the bytes still wanted.
LEMMA TransferIrq ==
  ASSUME TypeOK, TypeOK', HandlerInv, PlaceInv, TransferInv, Irq PROVE TransferInv'
<1> DEFINE wanted == Size - Len(buffer)
           taken == IF Len(rxfifo) < wanted THEN Len(rxfifo) ELSE wanted
<1>1. pc = "poll" /\ irq_busy # 0 /\ use_interrupts /\ Len(buffer) <= Size
  BY DEF Irq, intr, PlaceInv, HandlerInv
<1>2. /\ UNCHANGED <<pc, part, irq_busy, ctrl_en, txfifo, fsm, dac, n, kind, use_interrupts>>
      /\ ~Between /\ ~Between' /\ Written' = Written
  BY <1>1 DEF Irq, Between, bus, call, Written
<1>3. CASE UNCHANGED <<buffer, rxfifo>>
  BY <1>1, <1>2, <1>3, TransferUndisturbed
<1>4. CASE irq_busy = 2
  <2>1. /\ buffer' = buffer \o SubSeq(rxfifo, 1, taken)
        /\ rxfifo' = SubSeq(rxfifo, taken + 1, Len(rxfifo))
    BY <1>4 DEF Irq
  <2>2. /\ rxfifo \in Seq(Byte) /\ buffer \in Seq(Byte)
        /\ Len(rxfifo) \in Nat /\ Len(buffer) \in Nat
    BY DEF TypeOK, CoreTypeOK
  <2>3. taken \in 0..Len(rxfifo)
    BY <1>1, <2>2
  <2> HIDE DEF taken
  <2>4. /\ SubSeq(rxfifo, 1, taken) \in Seq(Byte) /\ Len(SubSeq(rxfifo, 1, taken)) = taken
        /\ \A i \in 1..taken : SubSeq(rxfifo, 1, taken)[i] = rxfifo[i]
    BY <2>2, <2>3
  <2>5. /\ Len(buffer') = Len(buffer) + taken
        /\ \A i \in 1..Len(buffer) : buffer'[i] = buffer[i]
    BY <2>1, <2>2, <2>4
  <2>6. \A i \in 1..taken : buffer'[Len(buffer) + i] = rxfifo[i]
    <3> SUFFICES ASSUME NEW i \in 1..taken PROVE buffer'[Len(buffer) + i] = rxfifo[i]
      OBVIOUS
    <3>1. Len(buffer) + i \in Len(buffer)+1..Len(buffer)+taken
      BY <2>2, <2>3
    <3>2. buffer'[Len(buffer) + i] = SubSeq(rxfifo, 1, taken)[Len(buffer) + i - Len(buffer)]
      BY <2>1, <2>2, <2>4, <3>1
    <3>3. Len(buffer) + i - Len(buffer) = i
      BY <2>2, <2>3
    <3> QED BY <2>4, <3>2, <3>3
  <2>7. /\ Len(rxfifo') = Len(rxfifo) - taken
        /\ \A i \in 1..Len(rxfifo') : rxfifo'[i] = rxfifo[taken + i]
    BY <2>1, <2>2, <2>3
  <2> QED BY <1>1, <1>2, <2>3, <2>5, <2>6, <2>7, TransferMoved
<1> QED BY <1>3, <1>4 DEF Irq

LEMMA TransferStep ==
  ASSUME TypeOK, TypeOK', HandlerInv, CoreInv, PlaceInv, TransferInv, StatusInv,
         [Next]_vars, ~lapsed'
  PROVE  TransferInv'
<1> USE DEF Between, core, csr, isr, bus, call, cpu
<1>1. CASE Program
  <2>1. Settled /\ frame = <<>>
    BY <1>1 DEF Program, Call, TransferInv, Settled, CoreInv
  <2> QED BY <1>1, <2>1 DEF Program, Call, TransferInv, Settled, fsm
<1>2. CASE Begin
  BY <1>2, TransferBegin
<1>3. CASE CmdWrite \/ CmdTimeout
  BY <1>3, TransferWrite, WriteWaits
<1>4. CASE CheckError \/ CheckNext \/ CheckLast
  BY <1>4, TransferCheck
<1>5. CASE RxRead \/ RxTimeout \/ RxDone
  BY <1>5, TransferRead
<1>6. CASE Finish
  <2>1. mst_fsm_state = "IDLE" /\ txfifo = <<>> /\ rxfifo = <<>>
    BY <1>6, FinishIdle
  <2> QED BY <1>6, <2>1 DEF Finish, TransferInv, Settled, fsm
<1>7. CASE Decide
  <2>1. Between' /\ Between /\ UNCHANGED <<ctrl_en, txfifo, rxfifo, fsm, n>>
    BY <1>7 DEF Decide, StatusInv
  <2> HIDE DEF Between
  <2> QED BY <2>1, BetweenStays
<1>8. CASE Arm
  <2>1. /\ ~Between /\ ~Between' /\ Written' = Written /\ use_interrupts
        /\ pc' \in {"poll", "abort"}
        /\ UNCHANGED <<ctrl_en, txfifo, fsm, rxfifo, dac, n, kind, use_interrupts, buffer>>
    BY <1>8 DEF Arm, Written, PlaceInv
  <2> HIDE DEF Between
  <2> QED BY <2>1, TransferUndisturbed
<1>9. CASE StatusDone
  <2>1. Between /\ Between' /\ UNCHANGED <<ctrl_en, txfifo, rxfifo, fsm, n>>
    BY <1>9 DEF StatusDone
  <2> HIDE DEF Between
  <2> QED BY <2>1, BetweenStays
<1>10. CASE StatusNack
  <2>1. /\ Between' <=> Between
        /\ Written' = Written /\ use_interrupts
        /\ ~Between => pc' \in {"poll", "abort"}
        /\ UNCHANGED <<ctrl_en, txfifo, fsm, rxfifo, dac, n, kind, use_interrupts, buffer>>
    BY <1>10 DEF StatusNack, Written, PlaceInv
  <2> HIDE DEF Between
  <2> QED BY <2>1, BetweenStays, TransferUndisturbed
<1>11. CASE Abort
  <2>1. mst_fsm_state = "IDLE" /\ txfifo = <<>>
    BY <1>11, TransactionIdle DEF Abort, Lapse
  <2> QED BY <1>11, <2>1 DEF Abort, TransferInv, Settled, fsm
<1>12. CASE Irq
  BY <1>12, TransferIrq
<1>13. CASE IrqDone
  <2>1. pc = "poll" /\ irq_busy # 0
    BY <1>13 DEF IrqDone, PlaceInv
  <2>2. mst_fsm_state = "IDLE" /\ txfifo = <<>> /\ rxfifo = <<>>
    BY <1>13, <2>1, TransactionIdle DEF IrqDone, Lapse
  <2> QED BY <1>13, <2>1, <2>2 DEF IrqDone, TransferInv, Settled, fsm
<1>14. CASE Core
  BY <1>14, TransferCore
<1>15. CASE Bus \/ UNCHANGED vars
  <2>1. /\ Between' <=> Between
        /\ Written' = Written /\ rx_over' = rx_over /\ (flush_txfifo => flush_txfifo')
        /\ UNCHANGED <<ctrl_en, txfifo, fsm, rxfifo, dac, n, kind, use_interrupts, buffer, pc>>
    BY <1>15 DEF Bus, HoldBus, ReleaseBus, vars, Written, flush_txfifo
  <2> HIDE DEF Between
  <2> QED BY <2>1, BetweenStays, TransferUndisturbed
<1> QED BY <1>1, <1>2, <1>3, <1>4, <1>5, <1>6, <1>7, <1>8, <1>9, <1>10, <1>11, <1>12,
           <1>13, <1>14, <1>15 DEF Next, Driver, Handler, Transfer

-----------------------------------------------------------------------------
(* What the call answers.                                                  *)

\* A step that neither ends a transfer nor answers.
LEMMA StatusUndisturbed ==
  ASSUME pc' \notin {"app", "await_idle", "decide"}
  PROVE  StatusInv'
BY DEF StatusInv

LEMMA StatusRead ==
  ASSUME TypeOK, CoreInv, PlaceInv, TransferInv, RxTimeout, ~lapsed' PROVE StatusInv'
<1>1. /\ pc = "rx_read" /\ ~CoreMoves /\ rxfifo = <<>> /\ Len(buffer) < Size /\ ~held
      /\ UNCHANGED <<core, call, part, flush_txfifo>> /\ pc' = "await_idle"
  BY DEF RxTimeout, Lapse, rx_ready, core, csr, isr, flush_txfifo
<1>2. issue_stop /\ reads /\ ~use_interrupts /\ (Intact \/ Refused)
  BY <1>1 DEF PlaceInv, TransferInv, Between
<1>3. mst_fsm_state = "IDLE"
  BY <1>1, <1>2, NeverStuck DEF AwaitIdle
<1>4. flush_txfifo \/ rx_over
  <2>1. SUFFICES ASSUME Intact, ~rx_over PROVE FALSE
    BY <1>1, <1>2 DEF Refused
  <2>2. kind \in {"rx", "tx_rx"}
    BY <1>2 DEF reads, PlaceInv
  <2>3. Len(buffer) + Len(rxfifo) = Size
    BY <1>2, <1>3, <2>1, <2>2, WholeReceived DEF Intact, AllReceived
  <2>4. Len(rxfifo) = 0 /\ Len(buffer) \in Nat
    BY <1>1 DEF TypeOK
  <2> QED BY <1>1, <2>3, <2>4
<1>5. issue_stop' /\ ~use_interrupts' /\ mst_fsm_state' = "IDLE" /\ rxfifo' = <<>>
      /\ (flush_txfifo' \/ rx_over')
  BY <1>1, <1>2, <1>3, <1>4 DEF issue_stop, core, csr, isr, fsm, call
<1> QED BY <1>1, <1>5 DEF StatusInv

LEMMA StatusFinish ==
  ASSUME TypeOK, CoreInv, PlaceInv, TransferInv, StatusInv, Finish, ~lapsed'
  PROVE  StatusInv'
<1>1. /\ pc = "await_idle" /\ pc' = "decide" /\ ~core_status
      /\ status' = IF nack_det /\ ~use_interrupts THEN "NACK" ELSE status
      /\ UNCHANGED <<arblost_det, rx_over, n, kind, use_interrupts, part, dac, buffer>>
      /\ mst_fsm_state = "IDLE" /\ (Intact \/ Refused)
  BY FinishIdle DEF Finish, isr, bus, call, core_status, TransferInv, Between
<1>2. /\ status \in {"NACK", "ARB_LOST", "SUCCESS", "TIMEOUT"}
      /\ ~issue_stop => status \in {"NACK", "ARB_LOST"}
  BY <1>1 DEF TypeOK, PlaceInv, StatusInv
<1>3. status' = "TIMEOUT" => arblost_det \/ rx_over
  BY <1>1 DEF StatusInv, flush_txfifo
<1>4. ASSUME status' = "SUCCESS", ~use_interrupts, ~arblost_det PROVE Delivered
  <2>1. status = "SUCCESS" /\ ~flush_txfifo
    BY <1>1, <1>4 DEF flush_txfifo
  <2>2. Intact /\ issue_stop /\ (reads => Len(buffer) >= Size)
    BY <1>1, <2>1 DEF Refused, PlaceInv
  <2> QED BY <1>1, <1>4, <2>2, DeliveredWhole
<1>5. issue_stop' <=> issue_stop
  BY <1>1 DEF issue_stop
<1>6. Delivered' <=> Delivered
  BY <1>1 DEF Delivered
<1>7. status' # "BUSY" /\ (~issue_stop' => status' \in {"NACK", "ARB_LOST"})
  BY <1>1, <1>2, <1>5
<1>8. UNCHANGED <<arblost_det, rx_over, use_interrupts>> /\ pc' = "decide"
  BY <1>1
<1> QED BY <1>3, <1>4, <1>6, <1>7, <1>8 DEF StatusInv

\* An answer that stays.
LEMMA StatusKept ==
  ASSUME StatusInv, pc \in {"app", "decide"}, pc' = "app",
         UNCHANGED <<status, arblost_det, rx_over, n, kind, use_interrupts, dac, buffer>>
  PROVE  StatusInv'
<1>1. Delivered' <=> Delivered
  BY DEF Delivered
<1> QED BY <1>1 DEF StatusInv

LEMMA StatusStep ==
  ASSUME TypeOK, HandlerInv, CoreInv, PlaceInv, TransferInv, StatusInv, [Next]_vars, ~lapsed'
  PROVE  StatusInv'
<1> USE DEF core, csr, isr, bus, call, cpu
<1>1. CASE Program
  BY <1>1, StatusUndisturbed DEF Program, Call
<1>2. CASE Begin
  BY <1>2, TransferBegin, StatusUndisturbed
<1>3. CASE CmdWrite \/ CmdTimeout
  BY <1>3, WriteWaits, StatusUndisturbed DEF CmdWrite
<1>4. CASE CheckError \/ CheckNext \/ CheckLast
  <2>1. pc' \in {"await_idle", "cmd_write", "begin", "arm", "rx_read"} /\ status' # "TIMEOUT"
    BY <1>4 DEF CheckError, CheckNext, CheckLast, Checked
  <2> QED BY <2>1 DEF StatusInv
<1>5. CASE RxRead \/ RxDone
  <2>1. pc' \in {"rx_read", "await_idle"} /\ status' # "TIMEOUT"
    BY <1>5 DEF RxRead, RxDone, PlaceInv
  <2> QED BY <2>1 DEF StatusInv
<1>6. CASE RxTimeout
  BY <1>6, StatusRead
<1>7. CASE Finish
  BY <1>7, StatusFinish
<1>8. CASE Decide
  <2>1. /\ pc = "decide" /\ pc' \in {"begin", "app"}
        /\ UNCHANGED <<status, arblost_det, rx_over, n, kind, use_interrupts, dac, buffer>>
    BY <1>8 DEF Decide
  <2> QED BY <2>1, StatusUndisturbed, StatusKept
<1>9. CASE Arm
  BY <1>9, StatusUndisturbed DEF Arm
<1>10. CASE StatusDone \/ StatusNack
  <2>1. use_interrupts' /\ pc' \in {"app", "abort"} /\ status' # "TIMEOUT"
    BY <1>10 DEF StatusDone, StatusNack, PlaceInv
  <2> QED BY <2>1 DEF StatusInv
<1>11. CASE Abort
  <2>1. ~core_status
    BY <1>11, TransactionIdle DEF Abort, Lapse, core_status
  <2>2. use_interrupts' /\ pc' = "app" /\ status' = "NACK"
    BY <1>11, <2>1 DEF Abort, PlaceInv
  <2> QED BY <2>2 DEF StatusInv
<1>12. CASE Handler
  <2>1. pc = "poll" /\ pc' = pc
    BY <1>12 DEF Handler, Irq, IrqDone, intr, PlaceInv
  <2> QED BY <2>1, StatusUndisturbed
<1>13. CASE Core
  <2>1. mst_fsm_state # "IDLE" /\ UNCHANGED cpu
    BY <1>13 DEF Core, CoreStep, GenStart, ByteAcked, ByteRefused, ByteReceived, Resume,
                 GenStop, ArbitrationLost
  <2>2. pc \notin {"app", "decide"}
    BY <2>1 DEF TransferInv, Between, Settled
  <2> QED BY <2>1, <2>2 DEF StatusInv
<1>14. CASE Bus \/ UNCHANGED vars
  <2>1. UNCHANGED <<pc, part, status, nack_det, arblost_det, rx_over, n, kind,
                    use_interrupts, dac, buffer, mst_fsm_state, rxfifo>>
    BY <1>14 DEF Bus, HoldBus, ReleaseBus, vars, fsm
  <2> QED BY <2>1 DEF StatusInv, flush_txfifo, issue_stop, Delivered
<1> QED BY <1>1, <1>2, <1>3, <1>4, <1>5, <1>6, <1>7, <1>8, <1>9, <1>10, <1>11, <1>12,
           <1>13, <1>14 DEF Next, Driver, Transfer

-----------------------------------------------------------------------------
(* The invariant and what follows from it.                                 *)

LEMMA LinkInit == Init => LinkInv
<1> SUFFICES ASSUME Init PROVE LinkInv
  OBVIOUS
<1>1. /\ frame = <<>> /\ txfifo = <<>> /\ rxfifo = <<>> /\ mst_fsm_state = "IDLE"
      /\ ~ctrl_en /\ iser = {} /\ ~flush_txfifo /\ tx_shifter.pos = 0
      /\ pc = "app" /\ n = 0 /\ part = 1 /\ irq_busy = 0 /\ handler = "none"
      /\ status = "SUCCESS"
  BY DEF Init, CoreInit, NoCommand, flush_txfifo
<1>2. CoreInv
  BY <1>1 DEF CoreInv
<1>3. PlaceInv
  BY <1>1 DEF PlaceInv
<1>4. TransferInv
  BY <1>1 DEF TransferInv, Between, Settled
<1>5. StatusInv
  BY <1>1 DEF StatusInv
<1> QED BY <1>2, <1>3, <1>4, <1>5 DEF LinkInv

LEMMA LapsedStays == ASSUME TypeOK, [Next]_vars, lapsed PROVE lapsed'
BY DEF Next, Program, Call, Driver, Transfer, Begin, CmdWrite, CmdTimeout, CheckError,
       CheckNext, CheckLast, RxRead, RxTimeout, RxDone, Finish, Decide, Arm, StatusDone,
       StatusNack, Abort, Handler, Irq, IrqDone, Core, Bus, Lapse, vars, cpu

LEMMA LinkStep ==
  ASSUME TypeOK, HandlerInv, LinkInv, [Next]_vars PROVE LinkInv'
<1>1. TypeOK'
  BY TypeStep
<1>2. CoreInv /\ CoreInv' /\ PlaceInv /\ PlaceInv'
  BY CoreInvStep, PlaceStep DEF LinkInv
<1>3. ASSUME ~lapsed' PROVE TransferInv' /\ StatusInv'
  <2>1. TransferInv /\ StatusInv
    BY <1>3, LapsedStays DEF LinkInv
  <2> QED BY <1>1, <1>2, <1>3, <2>1, TransferStep, StatusStep
<1> QED BY <1>2, <1>3 DEF LinkInv

LEMMA LinkSafety == Spec => [](TypeOK /\ HandlerInv /\ LinkInv)
<1>1. Init => TypeOK /\ HandlerInv /\ LinkInv
  BY InitTypes, HandlerInit, LinkInit
<1>2. TypeOK /\ HandlerInv /\ LinkInv /\ [Next]_vars => (TypeOK /\ HandlerInv /\ LinkInv)'
  BY TypeStep, HandlerStep, LinkStep
<1> QED BY <1>1, <1>2, PTL DEF Spec

\* SUCCESS of a polled call means delivered, whatever was refused and retried on the
\* way.
THEOREM PolledSuccessHolds == Spec => []PolledSuccess
<1>1. TypeOK /\ HandlerInv /\ LinkInv => PolledSuccess
  BY DEF LinkInv, StatusInv, PolledSuccess
<1> QED BY <1>1, LinkSafety, PTL

\* Until a wait runs out no frame on the bus mixes the bytes of two calls or begins
\* in the middle of a message.
THEOREM WholeUnlessLapsedHolds == Spec => []WholeUnlessLapsed
<1>1. TypeOK /\ HandlerInv /\ LinkInv => WholeUnlessLapsed
  <2> SUFFICES ASSUME LinkInv, TypeOK, ~lapsed, NEW i \in 1..Len(frame)
               PROVE  frame[i].n = frame[1].n /\ frame[i].pos = i - 1
    BY DEF WholeUnlessLapsed, WholeFrames
  <2>1. 1 \in 1..Len(frame)
    OBVIOUS
  <2> QED BY <2>1 DEF LinkInv, TransferInv
<1> QED BY <1>1, LinkSafety, PTL

\* A call, whatever its answer, leaves the core as the next needs it.
THEOREM NothingLeftHolds == Spec => []NothingLeft
<1>1. TypeOK /\ HandlerInv /\ LinkInv => NothingLeft
  BY DEF LinkInv, TransferInv, Between, Settled, HandlerInv, NothingLeft, core_status
<1> QED BY <1>1, LinkSafety, PTL

\* The driver and the core never wait for each other until the wait runs out: a
\* TIMEOUT has its cause on the bus, or is of a byte that was dropped.
THEOREM TimeoutFromBusHolds == Spec => []TimeoutFromBus
<1>1. TypeOK /\ HandlerInv /\ LinkInv => TimeoutFromBus
  BY DEF LinkInv, StatusInv, TimeoutFromBus
<1> QED BY <1>1, LinkSafety, PTL

-----------------------------------------------------------------------------
(* The driver with the core implements DacLink.                            *)

Answered == IF pc # "app" THEN "none" ELSE IF status = "SUCCESS" THEN "ok" ELSE "failed"

\* A byte is shown: one of the current call, in a call that sends.
LEMMA LinkShow ==
  ASSUME TypeOK, CallsInOrder, LinkInv, Core, dac' # dac
  PROVE  /\ UNCHANGED <<n, kind, Answered>>
         /\ \/ /\ lapsed
               /\ \E m \in dac.n..n, i \in 0..Size : dac' = [n |-> m, pos |-> i]
            \/ /\ pc # "app" /\ kind # "rx"
               /\ \E i \in 2..Size : dac' = [n |-> n, pos |-> i]
<1>1. /\ ByteAcked /\ mst_fsm_state = "TX_BYTE" /\ Len(frame) >= 2
      /\ dac' = [n |-> tx_shifter.n, pos |-> tx_shifter.pos]
  BY DEF Core, CoreStep, GenStart, ByteAcked, ByteRefused, ByteReceived, Resume, GenStop,
         ArbitrationLost, bus
<1>2. UNCHANGED <<n, kind, Answered>>
  BY DEF Core, cpu, call, Answered
<1>3. /\ dac.n \in Nat /\ tx_shifter.n \in Nat /\ n \in Nat
      /\ dac.n <= tx_shifter.n /\ tx_shifter.n <= n
  BY CallNumbers DEF CallsInOrder
<1>4. tx_shifter.pos \in 0..Size
  <2>1. tx_shifter \in Command
    BY DEF TypeOK, CoreTypeOK
  <2>2. tx_shifter.pos \in Nat
    BY <2>1 DEF Command
  <2> QED BY <2>2 DEF LinkInv, CoreInv
<1>5. CASE lapsed
  <2>1. tx_shifter.n \in dac.n..n
    BY <1>3
  <2> QED BY <1>1, <1>2, <1>4, <1>5, <2>1
<1>6. CASE ~lapsed
  <2>1. TransferInv
    BY <1>6 DEF LinkInv
  <2>2. pc # "app" /\ Intact /\ Sending
    BY <1>1, <2>1 DEF TransferInv, Between, Settled, Refused, Sending
  <2>3. /\ Popped > 0 /\ Popped \in 0..Total(kind) /\ ~Reading(kind, Popped - 1)
        /\ tx_shifter = Script(n, kind, Popped - 1) /\ Len(frame) = Place(Popped - 1)
    BY <1>1, <2>2 DEF Intact, InScript, InFrame
  <2>4. kind # "rx"
    BY <2>3 DEF Reading
  <2>5. tx_shifter.n = n /\ tx_shifter.pos = Len(frame)
    BY <2>3, ScriptFields
  <2>6. tx_shifter.pos \in 2..Size
    BY <1>1, <1>4, <2>5
  <2> QED BY <1>1, <1>2, <2>2, <2>4, <2>5, <2>6
<1> QED BY <1>5, <1>6

\* A call ends.
LEMMA LinkAnswer ==
  ASSUME TypeOK, LinkInv, LinkInv', Decide \/ StatusDone \/ StatusNack \/ Abort, pc' = "app"
  PROVE  /\ UNCHANGED <<n, kind, dac>> /\ pc # "app"
         /\ status' = "SUCCESS" /\ kind # "rx" /\ Size > 1
            /\ ~(lapsed \/ arblost_det \/ use_interrupts)
              => dac = [n |-> n, pos |-> Size]
<1>1. UNCHANGED <<n, kind, dac>> /\ pc # "app"
  BY DEF Decide, StatusDone, StatusNack, Abort, core, bus, call
<1>2. ASSUME status' = "SUCCESS", kind # "rx", Size > 1, ~lapsed, ~arblost_det,
             ~use_interrupts
      PROVE  dac = [n |-> n, pos |-> Size]
  <2>1. Decide
    BY <1>2 DEF StatusDone, StatusNack, Abort, LinkInv, PlaceInv
  <2>2. /\ UNCHANGED <<core, call, lapsed, arblost_det>> /\ n > 0
    BY <2>1 DEF Decide, LinkInv, PlaceInv, core, csr, isr
  <2>3. Delivered'
    BY <1>2, <2>2 DEF LinkInv, StatusInv, call
  <2> QED BY <1>1, <1>2, <2>3 DEF Delivered
<1> QED BY <1>1, <1>2

LEMMA LinkElse ==
  ASSUME TypeOK, PlaceInv, [Next]_vars, ~Program, ~(Core /\ dac' # dac),
         ~((Decide \/ StatusDone \/ StatusNack \/ Abort) /\ pc' = "app")
  PROVE  UNCHANGED <<n, kind, dac, Answered>>
<1> USE DEF core, csr, isr, bus, call, cpu, Answered
<1>1. CASE Transfer /\ ~Decide
  BY <1>1 DEF Transfer, Begin, CmdWrite, CmdTimeout, CheckError, CheckNext, CheckLast,
              RxRead, RxTimeout, RxDone, Finish
<1>2. CASE Decide \/ StatusDone \/ StatusNack \/ Abort
  BY <1>2 DEF Decide, StatusDone, StatusNack, Abort
<1>3. CASE Arm
  BY <1>3 DEF Arm
<1>4. CASE Handler
  BY <1>4 DEF Handler, Irq, IrqDone
<1>5. CASE Core
  BY <1>5 DEF Core
<1>6. CASE Bus \/ UNCHANGED vars
  BY <1>6 DEF Bus, HoldBus, ReleaseBus, vars
<1> QED BY <1>1, <1>2, <1>3, <1>4, <1>5, <1>6 DEF Next, Driver

LinkReach == TypeOK /\ HandlerInv /\ CallsInOrder /\ LinkInv

LEMMA LinkNext ==
  ASSUME LinkReach, LinkReach', [Next]_vars PROVE [Link!Next]_(Link!vars)
<1> USE DEF Link!Next, Link!vars, Link!Ask, Link!Show, Link!Answer, Link!ShowDisturbed,
            Link!Disturb
<1>0. (lapsed' \/ arblost_det' \/ use_interrupts') \in BOOLEAN
  OBVIOUS
<1>1. CASE Program
  <2>1. Link!Ask
    BY <1>1 DEF Program, Call, core, bus
  <2> QED BY <1>0, <2>1
<1>2. CASE Core /\ dac' # dac
  <2>1. Link!Show \/ Link!ShowDisturbed
    BY <1>2, LinkShow DEF LinkReach, Answered
  <2> QED BY <1>0, <2>1
<1>3. CASE (Decide \/ StatusDone \/ StatusNack \/ Abort) /\ pc' = "app"
  <2>1. Link!Answer
    BY <1>3, LinkAnswer DEF LinkReach
  <2> QED BY <1>0, <2>1
<1>4. CASE UNCHANGED <<n, kind, dac, Answered>>
  <2>1. Link!Disturb
    BY <1>4 DEF Answered
  <2> QED BY <1>0, <2>1
<1> QED BY <1>1, <1>2, <1>3, <1>4, LinkElse DEF LinkReach, LinkInv

\* The driver with the core keeps its promise to a program that sends values to the
\* DAC.
THEOREM LinkKeptHolds == Spec => LinkKept
<1>1. Init => LinkReach
  BY InitTypes, HandlerInit, LinkInit
     DEF LinkReach, Init, CoreInit, NoCommand, CallsInOrder
<1>2. LinkReach /\ [Next]_vars => LinkReach'
  BY TypeStep, HandlerStep, OrderStep, LinkStep DEF LinkReach
<1>3. Init => Link!Init
  BY DEF Init, CoreInit, Link!Init
<1>4. LinkReach /\ LinkReach' /\ [Next]_vars => [Link!Next]_(Link!vars)
  BY LinkNext
<1> QED BY <1>1, <1>2, <1>3, <1>4, PTL DEF Spec, LinkKept, Link!Spec
=============================================================================
