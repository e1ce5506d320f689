----------------------------- MODULE I2cMaster -----------------------------
(***************************************************************************)
(* The I2C master core (altera_avalon_i2c in the generated system), the    *)
(* bus and the DAC on it.  The driver reaches the core through its         *)
(* registers and its two FIFOs; the core's state machine takes transfer    *)
(* commands from one and puts received bytes into the other, a byte at a   *)
(* time.  One action is the passage of one byte or one bus condition.      *)
(*                                                                         *)
(* The bus may be held by a device that stretches the clock or, with       *)
(* MultiMaster, by another master that has won an arbitration.  A device   *)
(* may refuse any byte sent to it.                                         *)
(***************************************************************************)
EXTENDS Integers, Sequences

CONSTANTS
  FifoDepth,    \* depth of both FIFOs (8)
  MultiMaster,  \* whether another master may win the bus
  MaxStalls     \* bound: how often a device holds the bus

ASSUME CoreAssumption ==
  /\ FifoDepth \in Nat \ {0} /\ MultiMaster \in BOOLEAN /\ MaxStalls \in Nat

VARIABLES
  ctrl_en, tx_empty_thd, iser,   \* CTRL.EN, the command threshold, the enabled
                                 \* interrupts
  nack_det, arblost_det, rx_over,  \* bits of the ISR
  txfifo, rxfifo,
  mst_fsm_state, tx_shifter,
  frame,        \* commands acknowledged since the last start condition
  dac,          \* the command whose byte the DAC shows
  held, stalls  \* the bus is held; how often it has been

isr  == <<nack_det, arblost_det, rx_over>>
csr  == <<ctrl_en, tx_empty_thd, iser, isr>>
fsm  == <<mst_fsm_state, tx_shifter, frame>>
bus  == <<dac, held, stalls>>
core == <<csr, txfifo, rxfifo, fsm, bus>>

\* A transfer command, as the byte at place pos (0 the address) of call n.  read
\* is bit 0 of an address byte.
Command == [n : Nat, pos : Nat, read : BOOLEAN, restart : BOOLEAN, stop : BOOLEAN]
\* The same of a byte at the DAC or in the receive FIFO.
Byte == [n : Nat, pos : Nat]

NoCommand == [n |-> 0, pos |-> 0, read |-> FALSE, restart |-> FALSE, stop |-> FALSE]

-----------------------------------------------------------------------------
(* What the driver's register accesses see and do.                         *)

flush_txfifo == nack_det \/ arblost_det

tx_ready == ctrl_en /\ Len(txfifo) <= (IF tx_empty_thd THEN 0 ELSE FifoDepth - 1)
rx_ready == rxfifo # <<>>
intr == (tx_ready /\ "TX_READY" \in iser) \/ (rx_ready /\ "RX_READY" \in iser)

core_status == mst_fsm_state # "IDLE"

\* The rising edge of ctrl_en starts the state machine.
Enable ==
  /\ ctrl_en' = TRUE
  /\ mst_fsm_state' = IF mst_fsm_state = "IDLE" THEN "PRE_START" ELSE mst_fsm_state

\* The command FIFO held in reset for one clock only.
WriteCommandUnflushed(c) ==
  IF Len(txfifo) = FifoDepth
    THEN UNCHANGED <<txfifo, mst_fsm_state>>
    ELSE /\ txfifo' = Append(txfifo, c)
         /\ mst_fsm_state' =
              IF mst_fsm_state = "IDLE" THEN "PRE_START" ELSE mst_fsm_state

\* A write to TFR_CMD; it is lost while the FIFO is in reset, and in PRE_IDLE
\* starts the state machine.
WriteCommand(c) ==
  IF flush_txfifo \/ Len(txfifo) = FifoDepth
    THEN UNCHANGED <<txfifo, mst_fsm_state>>
    ELSE /\ txfifo' = Append(txfifo, c)
         /\ mst_fsm_state' =
              IF mst_fsm_state = "IDLE" THEN "PRE_START" ELSE mst_fsm_state

ClearIsr == nack_det' = FALSE /\ arblost_det' = FALSE /\ rx_over' = FALSE

-----------------------------------------------------------------------------
(* The state machine.                                                      *)

\* POP_TX_FIFO: the next command is an address if none has been sent in this
\* frame or it asks for a restart, or else a byte in the direction of the frame.
Pop(sent) ==
  LET c == Head(txfifo)
      new == sent = <<>> \/ c.restart
  IN /\ tx_shifter' = c
     /\ txfifo' = Tail(txfifo)
     /\ frame' = IF new THEN <<>> ELSE sent
     /\ mst_fsm_state' = IF new THEN "GEN_7BIT_ADDR"
                         ELSE IF Head(sent).read THEN "RX_BYTE" ELSE "TX_BYTE"

\* After a byte that does not end the frame.
PopOrHold(sent) ==
  IF txfifo # <<>>
    THEN Pop(sent)
    ELSE /\ mst_fsm_state' = "BUS_HOLD" /\ frame' = sent
         /\ UNCHANGED <<txfifo, tx_shifter>>

\* After a byte that does.
ToStop(sent) ==
  /\ mst_fsm_state' = "GEN_STOP" /\ frame' = sent
  /\ UNCHANGED <<txfifo, tx_shifter>>

GenStart ==
  /\ mst_fsm_state = "PRE_START" /\ ~flush_txfifo /\ ~held /\ txfifo # <<>>
  /\ Pop(<<>>)
  /\ UNCHANGED <<csr, rxfifo, bus>>

\* A byte sent is acknowledged.  The stop bit of an address is not looked at.
\* The DAC takes the first byte after its address as a control byte.
ByteAcked ==
  /\ mst_fsm_state \in {"GEN_7BIT_ADDR", "TX_BYTE"} /\ ~held
  /\ LET sent == Append(frame, tx_shifter)
     IN IF mst_fsm_state = "TX_BYTE" /\ tx_shifter.stop
          THEN ToStop(sent) ELSE PopOrHold(sent)
  /\ dac' = IF mst_fsm_state = "TX_BYTE" /\ Len(frame) >= 2
              THEN [n |-> tx_shifter.n, pos |-> tx_shifter.pos] ELSE dac
  /\ UNCHANGED <<csr, rxfifo, held, stalls>>

\* A byte sent is refused: both FIFOs are emptied and stay so until the ISR bit
\* is cleared.
ByteRefusedUnflushed ==
  /\ mst_fsm_state \in {"GEN_7BIT_ADDR", "TX_BYTE"} /\ ~held
  /\ nack_det' = TRUE
  /\ mst_fsm_state' = "GEN_STOP"
  /\ UNCHANGED <<ctrl_en, tx_empty_thd, iser, arblost_det, rx_over, txfifo, rxfifo,
                 tx_shifter, frame, bus>>

ByteRefused ==
  /\ mst_fsm_state \in {"GEN_7BIT_ADDR", "TX_BYTE"} /\ ~held
  /\ nack_det' = TRUE
  /\ mst_fsm_state' = "GEN_STOP"
  /\ txfifo' = <<>> /\ rxfifo' = <<>>
  /\ UNCHANGED <<ctrl_en, tx_empty_thd, iser, arblost_det, rx_over, tx_shifter, frame, bus>>

\* A byte is received; it is dropped, and the ISR says so, if there is no room.
ByteReceived ==
  /\ mst_fsm_state = "RX_BYTE" /\ ~held
  /\ LET sent == Append(frame, tx_shifter)
     IN IF tx_shifter.stop THEN ToStop(sent) ELSE PopOrHold(sent)
  /\ rxfifo' = IF Len(rxfifo) = FifoDepth THEN rxfifo
               ELSE Append(rxfifo, [n |-> tx_shifter.n, pos |-> tx_shifter.pos])
  /\ rx_over' = (rx_over \/ Len(rxfifo) = FifoDepth)
  /\ UNCHANGED <<ctrl_en, tx_empty_thd, iser, nack_det, arblost_det, bus>>

Resume ==
  /\ mst_fsm_state = "BUS_HOLD" /\ ~held /\ txfifo # <<>>
  /\ Pop(frame)
  /\ UNCHANGED <<csr, rxfifo, bus>>

GenStop ==
  /\ mst_fsm_state = "GEN_STOP" /\ ~held
  /\ mst_fsm_state' = IF txfifo = <<>> THEN "IDLE" ELSE "PRE_START"
  /\ frame' = <<>>
  /\ UNCHANGED <<csr, txfifo, rxfifo, tx_shifter, bus>>

\* Another master wins the bus and holds it.
ArbitrationLost ==
  /\ MultiMaster
  /\ mst_fsm_state \in {"GEN_7BIT_ADDR", "TX_BYTE", "RX_BYTE"} /\ ~held
  /\ arblost_det' = TRUE
  /\ mst_fsm_state' = "IDLE" /\ frame' = <<>>
  /\ txfifo' = <<>> /\ rxfifo' = <<>>
  /\ held' = TRUE
  /\ UNCHANGED <<ctrl_en, tx_empty_thd, iser, nack_det, rx_over, tx_shifter, dac, stalls>>

CoreStep == \/ GenStart \/ ByteAcked \/ ByteRefused \/ ByteReceived
            \/ Resume \/ GenStop \/ ArbitrationLost

\* The core moves unless the bus is held or it waits for a command.
CoreMoves ==
  /\ ~held
  /\ \/ mst_fsm_state \in {"GEN_7BIT_ADDR", "TX_BYTE", "RX_BYTE", "GEN_STOP"}
     \/ mst_fsm_state = "PRE_START" /\ ~flush_txfifo /\ txfifo # <<>>
     \/ mst_fsm_state = "BUS_HOLD" /\ txfifo # <<>>

HoldBus ==
  /\ ~held /\ stalls < MaxStalls
  /\ held' = TRUE /\ stalls' = stalls + 1
  /\ UNCHANGED <<csr, txfifo, rxfifo, fsm, dac>>

ReleaseBus ==
  /\ held
  /\ held' = FALSE
  /\ UNCHANGED <<csr, txfifo, rxfifo, fsm, dac, stalls>>

\* As alt_avalon_i2c_init leaves it.
CoreInit ==
  /\ ctrl_en = FALSE /\ tx_empty_thd = FALSE /\ iser = {}
  /\ nack_det = FALSE /\ arblost_det = FALSE /\ rx_over = FALSE
  /\ txfifo = <<>> /\ rxfifo = <<>>
  /\ mst_fsm_state = "IDLE" /\ tx_shifter = NoCommand /\ frame = <<>>
  /\ dac = [n |-> 0, pos |-> 0] /\ held = FALSE /\ stalls = 0

CoreTypeOK ==
  /\ ctrl_en \in BOOLEAN /\ tx_empty_thd \in BOOLEAN
  /\ iser \subseteq {"TX_READY", "RX_READY"}
  /\ nack_det \in BOOLEAN /\ arblost_det \in BOOLEAN /\ rx_over \in BOOLEAN
  /\ txfifo \in Seq(Command) /\ Len(txfifo) <= FifoDepth
  /\ rxfifo \in Seq(Byte) /\ Len(rxfifo) <= FifoDepth
  /\ mst_fsm_state \in {"IDLE", "PRE_START", "GEN_7BIT_ADDR", "TX_BYTE",
                        "RX_BYTE", "BUS_HOLD", "GEN_STOP"}
  /\ tx_shifter \in Command /\ frame \in Seq(Command)
  /\ dac \in Byte
  /\ held \in BOOLEAN /\ stalls \in 0..MaxStalls
=============================================================================
