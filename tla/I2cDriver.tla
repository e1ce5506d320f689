----------------------------- MODULE I2cDriver -----------------------------
(***************************************************************************)
(* The driver of the I2C master (altera_avalon_i2c.c): the functions       *)
(* master_tx, master_rx and master_tx_rx with their retries, polled or     *)
(* with interrupts, the interrupt handler with its optional callback, and  *)
(* interrupt_transaction_status, called by one program that waits for an   *)
(* interrupt transaction before it starts another call.                    *)
(*                                                                         *)
(* A step of the driver is an access to a register that another party      *)
(* changes, or a wait for one.  A wait runs out only when the core cannot  *)
(* move: the shortest is 10000 reads of a register and 90 ms of sleeping,  *)
(* a byte on the bus takes 25 us.  The handler interrupts the functions    *)
(* between any two steps and is not interrupted.                           *)
(***************************************************************************)
EXTENDS I2cMaster

CONSTANTS
  Kinds,      \* the functions called: "tx", "rx", "tx_rx"
  Modes,      \* values of use_interrupts
  Size,       \* data bytes of a transfer
  Retry,      \* attempts of a call (10000)
  MaxCalls    \* bound: calls made

ASSUME DriverAssumption ==
  /\ Kinds \subseteq {"tx", "rx", "tx_rx"} /\ Modes \subseteq BOOLEAN
  /\ Size \in Nat \ {0} /\ Retry \in Nat \ {0} /\ MaxCalls \in Nat

VARIABLES
  pc, n,                 \* n numbers the calls
  kind, use_interrupts,  \* the current call
  part,                  \* 2 in the second transfer of tx_rx
  sent,                  \* commands of the transfer written
  buffer,                \* bytes received
  status, retry,
  irq_busy, handler,     \* of the optional callback; where the handler is
  lapsed                 \* a wait has run out while the bus was held

call == <<n, kind, use_interrupts>>
cpu  == <<pc, call, part, sent, buffer, status, retry, irq_busy, handler, lapsed>>
vars == <<core, cpu>>

reads == kind = "rx" \/ part = 2
issue_stop == kind # "tx_rx" \/ part = 2
issue_restart == part = 2

\* The command that follows those sent: the address, then the data bytes.
NextCommandUnstopped ==
  [n |-> n, pos |-> sent, read |-> sent = 0 /\ reads,
   restart |-> sent = 0 /\ issue_restart, stop |-> sent > Size /\ issue_stop]

NextCommand ==
  [n |-> n, pos |-> sent, read |-> sent = 0 /\ reads,
   restart |-> sent = 0 /\ issue_restart, stop |-> sent = Size /\ issue_stop]

\* A wait for the core to be idle ends.
AwaitIdle == core_status => ~CoreMoves
Lapse(late) == lapsed' = (lapsed \/ (late /\ held))

-----------------------------------------------------------------------------
(* The transfer functions.                                                 *)

\* master_tx, master_rx, master_tx_rx
Call ==
  /\ pc = "app" /\ n < MaxCalls
  /\ n' = n + 1 /\ kind' \in Kinds /\ use_interrupts' \in Modes
  /\ pc' = "begin" /\ part' = 1 /\ retry' = Retry - 1
  /\ UNCHANGED <<core, sent, buffer, status, irq_busy, handler, lapsed>>

\* The start of a transfer; without a restart it enables the core and clears
\* the ISR, or gives up if the core is enabled.
Begin ==
  /\ pc = "begin"
  /\ sent' = 0 /\ buffer' = <<>>
  /\ IF issue_restart
       THEN pc' = "cmd_write" /\ UNCHANGED <<core, status, irq_busy>>
     ELSE IF ctrl_en
       THEN pc' = "decide" /\ status' = "BUSY" /\ UNCHANGED <<core, irq_busy>>
     ELSE /\ Enable /\ ClearIsr
          /\ irq_busy' = 0 /\ pc' = "cmd_write"
          /\ UNCHANGED <<tx_empty_thd, iser, txfifo, rxfifo, tx_shifter, frame,
                         bus, status>>
  /\ UNCHANGED <<call, part, retry, handler, lapsed>>

CmdWrite ==
  /\ pc = "cmd_write" /\ tx_ready
  /\ WriteCommand(NextCommand)
  /\ pc' = "check"
  /\ UNCHANGED <<csr, rxfifo, tx_shifter, frame, bus, call, part, sent, buffer,
                 status, retry, irq_busy, handler, lapsed>>

CmdTimeoutWhenIdle ==
  /\ pc = "cmd_write" /\ ~tx_ready /\ ~core_status
  /\ status' = "TIMEOUT" /\ pc' = "await_idle" /\ Lapse(TRUE)
  /\ UNCHANGED <<core, call, part, sent, buffer, retry, irq_busy, handler>>

CmdTimeout ==
  /\ pc = "cmd_write" /\ ~tx_ready /\ ~CoreMoves
  /\ status' = "TIMEOUT" /\ pc' = "await_idle" /\ Lapse(TRUE)
  /\ UNCHANGED <<core, call, part, sent, buffer, retry, irq_busy, handler>>

\* check_nack and check_arblost after a command; then the next command, between
\* which a polled receive takes the bytes there are.
Checked == IF arblost_det THEN "ARB_LOST" ELSE IF nack_det THEN "NACK" ELSE "SUCCESS"

CheckError ==
  /\ pc = "check" /\ Checked # "SUCCESS"
  /\ status' = Checked /\ pc' = "await_idle"
  /\ UNCHANGED <<core, call, part, sent, buffer, retry, irq_busy, handler, lapsed>>

CheckNext ==
  /\ pc = "check" /\ Checked = "SUCCESS" /\ sent < Size
  /\ status' = "SUCCESS" /\ sent' = sent + 1 /\ pc' = "cmd_write"
  /\ IF reads /\ ~use_interrupts /\ sent > 0
       THEN buffer' = buffer \o rxfifo /\ rxfifo' = <<>>
       ELSE UNCHANGED <<buffer, rxfifo>>
  /\ UNCHANGED <<csr, txfifo, fsm, bus, call, part, retry, irq_busy, handler, lapsed>>

CheckLast ==
  /\ pc = "check" /\ Checked = "SUCCESS" /\ sent = Size
  /\ status' = "SUCCESS"
  /\ part' = IF issue_stop THEN part ELSE 2
  /\ pc' = IF ~issue_stop THEN "begin" ELSE IF use_interrupts THEN "arm"
           ELSE IF reads THEN "rx_read" ELSE "await_idle"
  /\ UNCHANGED <<core, call, sent, buffer, retry, irq_busy, handler, lapsed>>

\* rx_read, for the bytes not taken yet.
RxRead ==
  /\ pc = "rx_read" /\ Len(buffer) < Size /\ rx_ready
  /\ buffer' = Append(buffer, Head(rxfifo)) /\ rxfifo' = Tail(rxfifo)
  /\ UNCHANGED <<csr, txfifo, fsm, bus, pc, call, part, sent, status, retry,
                 irq_busy, handler, lapsed>>

RxTimeout ==
  /\ pc = "rx_read" /\ Len(buffer) < Size /\ ~rx_ready /\ ~CoreMoves
  /\ status' = "TIMEOUT" /\ pc' = "await_idle" /\ Lapse(TRUE)
  /\ UNCHANGED <<core, call, part, sent, buffer, retry, irq_busy, handler>>

RxDone ==
  /\ pc = "rx_read" /\ Len(buffer) >= Size
  /\ pc' = "await_idle"
  /\ UNCHANGED <<core, call, part, sent, buffer, status, retry, irq_busy, handler,
                 lapsed>>

\* The end of a transfer: wait until the core is idle, look for a NACK (not
\* after an error with interrupts), disable the core.
FinishUnchecked ==
  /\ pc = "await_idle" /\ AwaitIdle
  /\ status' = IF core_status THEN "TIMEOUT" ELSE status
  /\ ctrl_en' = FALSE /\ pc' = "decide" /\ Lapse(core_status)
  /\ UNCHANGED <<tx_empty_thd, iser, isr, txfifo, rxfifo, fsm, bus,
                 call, part, sent, buffer, retry, irq_busy, handler>>

FinishEnabled ==
  /\ pc = "await_idle" /\ AwaitIdle
  /\ status' = IF nack_det /\ ~use_interrupts THEN "NACK"
               ELSE IF core_status THEN "TIMEOUT" ELSE status
  /\ pc' = "decide" /\ Lapse(core_status)
  /\ UNCHANGED <<core, call, part, sent, buffer, retry, irq_busy, handler>>

Finish ==
  /\ pc = "await_idle" /\ AwaitIdle
  /\ status' = IF nack_det /\ ~use_interrupts THEN "NACK"
               ELSE IF core_status THEN "TIMEOUT" ELSE status
  /\ ctrl_en' = FALSE /\ pc' = "decide" /\ Lapse(core_status)
  /\ UNCHANGED <<tx_empty_thd, iser, isr, txfifo, rxfifo, fsm, bus,
                 call, part, sent, buffer, retry, irq_busy, handler>>

\* The loop around the transfers.  After an error it does not retry for, tx_rx
\* goes on with its second transfer.
DecideOnceMore ==
  /\ pc = "decide"
  /\ LET again == status \in {"ARB_LOST", "NACK", "BUSY"}
     IN /\ pc' = IF (again /\ retry >= 0) \/ (~again /\ ~issue_stop)
                   THEN "begin" ELSE "app"
        /\ retry' = IF again /\ retry >= 0 THEN retry - 1 ELSE retry
        /\ part' = IF again THEN 1 ELSE IF issue_stop THEN part ELSE 2
  /\ UNCHANGED <<core, call, sent, buffer, status, irq_busy, handler, lapsed>>

Decide ==
  /\ pc = "decide"
  /\ LET again == status \in {"ARB_LOST", "NACK", "BUSY"}
     IN /\ pc' = IF (again /\ retry > 0) \/ (~again /\ ~issue_stop)
                   THEN "begin" ELSE "app"
        /\ retry' = IF again /\ retry > 0 THEN retry - 1 ELSE retry
        /\ part' = IF again THEN 1 ELSE IF issue_stop THEN part ELSE 2
  /\ UNCHANGED <<core, call, sent, buffer, status, irq_busy, handler, lapsed>>

-----------------------------------------------------------------------------
(* Interrupt transactions.                                                 *)

\* All commands are queued: the handler is left to end the transaction.
ArmReceive ==
  /\ pc = "arm"
  /\ ClearIsr
  /\ tx_empty_thd' = (tx_empty_thd \/ ~reads)
  /\ irq_busy' = IF reads THEN 2 ELSE 1
  /\ iser' = iser \cup {"RX_READY"}
  /\ pc' = "poll"
  /\ UNCHANGED <<ctrl_en, txfifo, rxfifo, fsm, bus, call, part, sent, buffer, status,
                 retry, handler, lapsed>>

Arm ==
  /\ pc = "arm"
  /\ ClearIsr
  /\ tx_empty_thd' = (tx_empty_thd \/ ~reads)
  /\ irq_busy' = IF reads THEN 2 ELSE 1
  /\ iser' = iser \cup {IF reads THEN "RX_READY" ELSE "TX_READY"}
  /\ pc' = "poll"
  /\ UNCHANGED <<ctrl_en, txfifo, rxfifo, fsm, bus, call, part, sent, buffer, status,
                 retry, handler, lapsed>>

\* alt_avalon_i2c_irq and the first part of optional_irq_callback.
Irq ==
  /\ handler = "none" /\ intr
  /\ ClearIsr
  /\ LET wanted == Size - Len(buffer)
         taken == IF Len(rxfifo) < wanted THEN Len(rxfifo) ELSE wanted
     IN IF irq_busy = 2
          THEN /\ buffer' = buffer \o SubSeq(rxfifo, 1, taken)
               /\ rxfifo' = SubSeq(rxfifo, taken + 1, Len(rxfifo))
               /\ iser' = IF taken < wanted THEN {"RX_READY"} ELSE {}
               /\ handler' = IF taken < wanted THEN "none" ELSE "await_idle"
          ELSE /\ iser' = {} /\ handler' = "await_idle"
               /\ UNCHANGED <<buffer, rxfifo>>
  /\ UNCHANGED <<ctrl_en, tx_empty_thd, txfifo, fsm, bus, pc, call, part, sent, status,
                 retry, irq_busy, lapsed>>

\* The rest of the callback.
IrqDone ==
  /\ handler = "await_idle" /\ AwaitIdle
  /\ ctrl_en' = FALSE /\ irq_busy' = 0 /\ handler' = "none" /\ Lapse(core_status)
  /\ UNCHANGED <<tx_empty_thd, iser, isr, txfifo, rxfifo, fsm, bus,
                 pc, call, part, sent, buffer, status, retry>>

\* interrupt_transaction_status.  While it answers BUSY nothing changes and the
\* program calls it again.
StatusDone ==
  /\ pc = "poll" /\ ~nack_det /\ irq_busy = 0
  /\ status' = "SUCCESS" /\ iser' = {} /\ pc' = "app"
  /\ UNCHANGED <<ctrl_en, tx_empty_thd, isr, txfifo, rxfifo, fsm, bus,
                 call, part, sent, buffer, retry, irq_busy, handler, lapsed>>

StatusNack ==
  /\ pc = "poll" /\ nack_det
  /\ status' = "NACK" /\ iser' = {}
  /\ pc' = IF irq_busy = 0 THEN "app" ELSE "abort"
  /\ UNCHANGED <<ctrl_en, tx_empty_thd, isr, txfifo, rxfifo, fsm, bus,
                 call, part, sent, buffer, retry, irq_busy, handler, lapsed>>

Abort ==
  /\ pc = "abort" /\ AwaitIdle
  /\ status' = IF core_status THEN "TIMEOUT" ELSE status
  /\ rxfifo' = <<>> /\ ctrl_en' = FALSE /\ irq_busy' = 0 /\ pc' = "app"
  /\ Lapse(core_status)
  /\ UNCHANGED <<tx_empty_thd, iser, isr, txfifo, fsm, bus, call,
                 part, sent, buffer, retry, handler>>

-----------------------------------------------------------------------------
Transfer == Begin \/ CmdWrite \/ CmdTimeout \/ CheckError \/ CheckNext \/ CheckLast
            \/ RxRead \/ RxTimeout \/ RxDone \/ Finish \/ Decide

Driver == /\ handler = "none"
          /\ Transfer \/ Arm \/ StatusDone \/ StatusNack \/ Abort

Program == handler = "none" /\ Call
Handler == Irq \/ IrqDone
Core == CoreStep /\ UNCHANGED cpu
Bus == (HoldBus \/ ReleaseBus) /\ UNCHANGED cpu

Init ==
  /\ CoreInit
  /\ pc = "app" /\ n = 0 /\ kind \in Kinds /\ use_interrupts \in Modes /\ part = 1
  /\ sent = 0 /\ buffer = <<>> /\ status = "SUCCESS" /\ retry = 0
  /\ irq_busy = 0 /\ handler = "none" /\ lapsed = FALSE

Next == Program \/ Driver \/ Handler \/ Core \/ Bus

Spec == Init /\ [][Next]_vars

\* The processor runs, its interrupts are served, and the core moves on when the
\* bus lets it.  Nothing is assumed of the other devices.
FairSpec == Spec /\ WF_vars(Driver) /\ WF_vars(Handler) /\ WF_vars(Core)

-----------------------------------------------------------------------------
(* Properties.                                                             *)

TypeOK ==
  /\ CoreTypeOK
  /\ pc \in {"app", "begin", "cmd_write", "check", "rx_read", "await_idle", "decide",
             "arm", "poll", "abort"}
  /\ n \in 0..MaxCalls /\ kind \in Kinds /\ use_interrupts \in Modes /\ part \in 1..2
  /\ sent \in 0..Size /\ buffer \in Seq(Byte)
  /\ status \in {"SUCCESS", "TIMEOUT", "ARB_LOST", "NACK", "BUSY"}
  /\ retry \in 0..Retry-1 /\ irq_busy \in 0..2
  /\ handler \in {"none", "await_idle"} /\ lapsed \in BOOLEAN

\* What SUCCESS means: the DAC shows the call's last byte (the first is a control
\* byte, which it does not show), and the buffer holds the bytes its own commands
\* asked for.
Delivered ==
  /\ kind # "rx" /\ Size > 1 => dac = [n |-> n, pos |-> Size]
  /\ kind # "tx" => buffer = [i \in 1..Size |-> [n |-> n, pos |-> i]]

\* master_tx and its like, polled, answer SUCCESS only for what was delivered,
\* whatever was refused and retried, unless the ISR still shows a lost
\* arbitration or a wait has run out while the bus was held.
PolledSuccess ==
  pc = "app" /\ n > 0 /\ status = "SUCCESS" /\ ~use_interrupts /\ ~lapsed /\ ~arblost_det
    => Delivered

\* altera_avalon_i2c.h:1154, "SUCCESS indicates interrupt transaction is
\* successfully completed".
InterruptSuccess ==
  pc = "app" /\ n > 0 /\ status = "SUCCESS" /\ use_interrupts /\ ~lapsed => Delivered

\* altera_avalon_i2c.h:634, the calls are "complete START to STOP sequence
\* commands": a frame on the bus is one call's message, from its start.
WholeFrames ==
  \A i \in 1..Len(frame) : frame[i].n = frame[1].n /\ frame[i].pos = i - 1

\* So it is as long as no wait has run out while the bus was held.
WholeUnlessLapsed == ~lapsed => WholeFrames

\* When a call is over nothing of it is left, unless a wait has run out: the core
\* is disabled and idle, so that the next call is not BUSY, its FIFOs are empty,
\* no interrupt is enabled.
NothingLeft ==
  pc = "app" /\ ~lapsed =>
    ~ctrl_en /\ ~core_status /\ txfifo = <<>> /\ rxfifo = <<>> /\ iser = {}

\* The byte after a start condition is an address, whatever was flushed.
AddressFirst == mst_fsm_state = "GEN_7BIT_ADDR" => tx_shifter.pos = 0

\* A call answers TIMEOUT only for the bus, or because a byte came when the receive
\* FIFO was full: the driver does not wait for a core that waits for the driver.
TimeoutFromBus ==
  pc = "app" /\ status = "TIMEOUT" => lapsed \/ arblost_det \/ rx_over

\* Every transfer function returns, whatever the devices do.
CallsReturn == (pc \notin {"app", "poll"}) ~> (pc \in {"app", "poll"})

\* An interrupt transmission ends: the program is not told BUSY for ever.
InterruptSendEnds == (pc = "poll" /\ ~reads) ~> (pc = "app" \/ held)

\* The DAC never goes back to a value of an earlier call, not even when commands
\* of a call that gave up are still sent after the next has begun.
NeverBack == [][dac'.n >= dac.n]_vars

\* The promise to a program that sends values to the DAC.
Link == INSTANCE DacLink WITH
  writes <- kind # "rx",
  answer <- IF pc # "app" THEN "none" ELSE IF status = "SUCCESS" THEN "ok" ELSE "failed",
  shown <- dac,
  disturbed <- lapsed \/ arblost_det \/ use_interrupts

LinkKept == Link!Spec

-----------------------------------------------------------------------------
(* Why AddressFirst and NeverBack: the invariants of I2cDriverProofs.      *)

BetweenFrames == mst_fsm_state \in {"IDLE", "PRE_START", "GEN_STOP"}

\* The driver has still to write a command of the message it has begun.
MidMessage == (pc = "cmd_write" /\ sent > 0) \/ (pc = "check" /\ sent < Size)

\* A restart is asked for with an address only, and what is queued behind a
\* command with a stop is an address.
QueueInv ==
  /\ \A i \in 1..Len(txfifo) : txfifo[i].restart => txfifo[i].pos = 0
  /\ \A i \in 1..Len(txfifo)-1 : txfifo[i].stop => txfifo[i+1].pos = 0
  /\ tx_shifter.stop /\ txfifo # <<>> => txfifo[1].pos = 0

\* The next frame begins with an address.
StartInv ==
  /\ BetweenFrames /\ txfifo # <<>> => txfifo[1].pos = 0
  /\ mst_fsm_state = "BUS_HOLD" => frame # <<>>

\* In the middle of a message, unless it was refused, the core is in its frame,
\* or has it in the FIFO, and has not seen its stop.
MessageInv ==
  MidMessage /\ ~flush_txfifo =>
    IF txfifo = <<>> THEN ~BetweenFrames /\ ~tx_shifter.stop
                     ELSE ~txfifo[Len(txfifo)].stop

\* The handler, which clears the ISR, runs only while the program polls for the
\* end of an interrupt transaction, and never has more bytes than were asked for.
HandlerInv ==
  /\ iser # {} => pc = "poll"
  /\ pc \in {"arm", "poll", "abort"} => use_interrupts
  /\ use_interrupts /\ pc \notin {"app", "begin"} => Len(buffer) <= Size

\* What is queued is of the current call or, after a wait ran out, of earlier ones,
\* in the order of the calls, and later than what the DAC has been shown.
CallsInOrder ==
  /\ dac.n <= tx_shifter.n /\ tx_shifter.n <= n
  /\ \A i \in 1..Len(txfifo) : tx_shifter.n <= txfifo[i].n /\ txfifo[i].n <= n
  /\ \A i, j \in 1..Len(txfifo) : i <= j => txfifo[i].n <= txfifo[j].n

IInv == TypeOK /\ QueueInv /\ StartInv /\ MessageInv /\ HandlerInv /\ AddressFirst

-----------------------------------------------------------------------------
(* Why PolledSuccess, NothingLeft, TimeoutFromBus, WholeUnlessLapsed and   *)
(* LinkKept: the rest of the invariants of I2cDriverProofs.                *)

\* The commands of call c, of kind knd, in order, from 0; those of the second
\* transfer come after Size.
Reading(knd, i) == knd = "rx" \/ i > Size
Place(i) == IF i > Size THEN i - (Size + 1) ELSE i
Script(c, knd, i) ==
  [n |-> c, pos |-> Place(i), read |-> Place(i) = 0 /\ Reading(knd, i),
   restart |-> i = Size + 1, stop |-> Place(i) = Size /\ (knd # "tx_rx" \/ i > Size)]
Total(knd) == IF knd = "tx_rx" THEN Size + 1 + Size + 1 ELSE Size + 1

\* How many of them are written, and how many of these the core has taken.
Written == (IF part = 2 THEN Size + 1 ELSE 0)
           + (IF pc = "begin" THEN 0 ELSE IF pc = "cmd_write" THEN sent
              ELSE IF pc = "check" THEN sent + 1 ELSE Size + 1)
Popped == Written - Len(txfifo)

Sending == mst_fsm_state \in {"GEN_7BIT_ADDR", "TX_BYTE", "RX_BYTE"}

\* The data bytes received.
Received == IF Popped = 0 \/ ~Reading(kind, Popped - 1) THEN 0
            ELSE IF Sending /\ Place(Popped - 1) > 0 THEN Place(Popped - 1) - 1
            ELSE Place(Popped - 1)

\* What the core has taken and what it has not are the commands written, in order,
\* and where the core is tells how many it has taken.
InScript ==
  /\ Popped \in 0..Total(kind)
  /\ \A i \in 1..Len(txfifo) : txfifo[i] = Script(n, kind, Popped + i - 1)
  /\ Popped > 0 => tx_shifter = Script(n, kind, Popped - 1)
  /\ mst_fsm_state = "PRE_START" => Popped = 0
  /\ mst_fsm_state \in {"GEN_STOP", "IDLE"} => Popped = Total(kind)
  /\ mst_fsm_state = "BUS_HOLD" => Popped \in 1..Total(kind)-1
  /\ Sending =>
       /\ Popped > 0
       /\ mst_fsm_state = IF Place(Popped - 1) = 0 THEN "GEN_7BIT_ADDR"
                          ELSE IF Reading(kind, Popped - 1) THEN "RX_BYTE" ELSE "TX_BYTE"

\* The frame is the commands of its transfer that are done.
InFrame ==
  /\ Sending => Len(frame) = Place(Popped - 1)
  /\ mst_fsm_state = "BUS_HOLD" => Len(frame) = Place(Popped - 1) + 1
  /\ frame # <<>> => (frame[1].read <=> Reading(kind, Popped - 1))

\* The bytes received are in the buffer and the FIFO, but for those dropped when the
\* FIFO was full, of which the ISR tells until it is cleared.
AllReceived ==
  /\ Len(buffer) + Len(rxfifo) <= Received
  /\ ~use_interrupts /\ rx_over => Len(buffer) + Len(rxfifo) < Received
  /\ ~use_interrupts /\ ~rx_over =>
       /\ Len(buffer) + Len(rxfifo) = Received
       /\ \A i \in 1..Len(buffer) : buffer[i] = [n |-> n, pos |-> i]
       /\ \A i \in 1..Len(rxfifo) : rxfifo[i] = [n |-> n, pos |-> Len(buffer) + i]

\* After the last byte of the first transfer the DAC shows it.
Shown ==
  kind # "rx" /\ Size > 1 /\ (Popped > Size + 1 \/ (Popped = Size + 1 /\ ~Sending))
    => dac = [n |-> n, pos |-> Size]

Intact == InScript /\ InFrame /\ AllReceived /\ Shown

\* A byte was refused or the bus lost: all that was queued is gone, and until the
\* ISR is cleared for an interrupt transaction the flags tell.
Refused ==
  /\ txfifo = <<>> /\ rxfifo = <<>> /\ mst_fsm_state \in {"GEN_STOP", "IDLE"}
  /\ flush_txfifo \/ pc \in {"poll", "abort"}

Settled == ~ctrl_en /\ mst_fsm_state = "IDLE" /\ txfifo = <<>> /\ rxfifo = <<>>

\* No transfer is under way.
Between == \/ pc \in {"app", "decide"}
           \/ pc = "begin" /\ part = 1
           \/ pc = "poll" /\ irq_busy = 0

TransferInv ==
  /\ \A i \in 1..Len(frame) : frame[i].n = n /\ frame[i].pos = i - 1
  /\ IF Between THEN Settled ELSE ctrl_en /\ (Intact \/ Refused)

\* What a status says before the call answers.
StatusInv ==
  /\ pc = "await_idle" /\ status = "TIMEOUT" =>
       /\ mst_fsm_state = "IDLE" /\ rxfifo = <<>> /\ issue_stop
       /\ flush_txfifo \/ rx_over
       /\ ~use_interrupts
  /\ pc = "decide" =>
       /\ status # "BUSY"
       /\ ~issue_stop => status \in {"NACK", "ARB_LOST"}
  /\ pc \in {"app", "decide"} =>
       /\ status = "TIMEOUT" => arblost_det \/ rx_over
       /\ n > 0 /\ status = "SUCCESS" /\ ~use_interrupts /\ ~arblost_det => Delivered

\* The parts that hold even after a wait ran out.
CoreInv ==
  /\ mst_fsm_state \in {"IDLE", "PRE_START"} => frame = <<>>
  /\ mst_fsm_state = "IDLE" => txfifo = <<>>
  /\ flush_txfifo =>
       txfifo = <<>> /\ rxfifo = <<>> /\ mst_fsm_state \in {"GEN_STOP", "IDLE"}
  /\ tx_shifter.pos <= Size /\ \A i \in 1..Len(txfifo) : txfifo[i].pos <= Size

PlaceInv ==
  /\ pc # "app" => n > 0
  /\ part = 2 => kind = "tx_rx"
  /\ pc \in {"arm", "poll", "abort"} => issue_stop /\ use_interrupts
  /\ pc = "rx_read" => issue_stop /\ reads /\ ~use_interrupts /\ status = "SUCCESS"
  /\ pc = "abort" => status = "NACK"
  /\ irq_busy # 0 => pc \in {"poll", "abort"} /\ (irq_busy = 2 <=> reads)
  /\ iser # {} => pc = "poll" /\ irq_busy # 0 /\ handler = "none"
  /\ handler # "none" =>
       pc = "poll" /\ irq_busy # 0 /\ (irq_busy = 2 => Len(buffer) = Size)
  /\ pc = "await_idle" =>
       /\ status \in {"NACK", "ARB_LOST"} => flush_txfifo
       /\ status # "BUSY"
       /\ status = "SUCCESS" =>
            issue_stop /\ ~use_interrupts /\ (reads => Len(buffer) >= Size)

LinkInv == CoreInv /\ PlaceInv /\ (~lapsed => TransferInv /\ StatusInv)
=============================================================================
