----------------------------- MODULE StreamAdc -----------------------------
(***************************************************************************)
(* The ADC controller driven by the streaming loop of                      *)
(* software/streaming_reconstruct/hello_world.c, in which the polling of   *)
(* the done register is commented out: pulse start, read the FIFO at once, *)
(* hand the value to the reconstruction and to the DAC, start over.        *)
(*                                                                         *)
(* Timing: at least one adc_clk edge between two transactions (see         *)
(* PolledAdc); at least LoopGap edges from the read to the next start,     *)
(* which the I2C transfer to the DAC fills (more than 25 us at 400 kHz,    *)
(* that is 1000 edges, against 20 us for the two conversions), and as many *)
(* from a reset of the processor to its first start; and at most MaxStall  *)
(* edges from each write of the pulse to the transaction after it, which   *)
(* are neighbouring instructions.  So two conversions end within LoopGap,  *)
(* and the read comes before they do.                                      *)
(***************************************************************************)
EXTENDS AdcFifo

CONSTANTS
  LoopGap,    \* adc_clk edges from the read to the next start pulse
  MaxStall,   \* adc_clk edges between the transactions from pulse to read
  MaxResets   \* bound: processor resets

ASSUME StreamAssumption ==
  /\ LoopGap \in Nat \ {0}
  /\ MaxStall \in 1..LoopGap
  /\ 2 * TDone + 7 <= LoopGap /\ MaxStall <= TDone + 4
  /\ MaxResets \in Nat
  /\ MaxNum >= 1

VARIABLES
  pc,          \* the program's next transaction
  ADC_value,   \* the value last read
  gap,         \* adc_clk edges since the last transaction, up to LoopGap
  resets       \* processor resets so far

prog == <<pc, ADC_value, gap, resets>>
vars == <<hwvars, prog>>

\* The channel is the constant the program is compiled with.
ch == CHOOSE c \in Channels : TRUE

-----------------------------------------------------------------------------
Transaction(from, to, g) ==
  /\ pc = from /\ pc' = to
  /\ gap >= g /\ gap' = 0
  /\ UNCHANGED resets

\* IOWR of the number of readings, one, before the loop.
SetMeasureNum ==
  Transaction("num", "start0", LoopGap) /\ WriteNum(1) /\ UNCHANGED ADC_value

StartLow ==
  Transaction("start0", "start1", 1) /\ WriteStart(ch, FALSE) /\ UNCHANGED ADC_value

StartHigh ==
  /\ Transaction("start1", "start2", 1)
  /\ sess < MaxSess
  /\ WriteStart(ch, TRUE)
  /\ UNCHANGED ADC_value

StartLowAgain ==
  Transaction("start2", "read", 1) /\ WriteStart(ch, FALSE) /\ UNCHANGED ADC_value

ReadValue ==
  Transaction("read", "value", 1) /\ ReadCapture /\ UNCHANGED ADC_value

TakeValue ==
  /\ pc = "value" /\ pc' = "send"
  /\ ReadPop
  /\ ADC_value' = slave_readdata
  /\ UNCHANGED <<gap, resets>>

\* The reconstruction instruction and the transfer to the DAC; whether the
\* DAC answers or not, the outer loop goes round.
SendToDac ==
  /\ pc = "send" /\ pc' = "start0"
  /\ gap = LoopGap
  /\ UNCHANGED <<hwvars, ADC_value, gap, resets>>

Program == \/ SetMeasureNum \/ StartLow \/ StartHigh \/ StartLowAgain
           \/ ReadValue \/ TakeValue \/ SendToDac

CpuReset ==
  /\ resets < MaxResets /\ resets' = resets + 1
  /\ SlaveReset
  /\ pc' = "num" /\ gap' = 0
  /\ UNCHANGED ADC_value

AdcClock ==
  /\ pc \in {"start2", "read"} => gap < MaxStall
  /\ AdcEdge
  /\ gap' = IF gap < LoopGap THEN gap + 1 ELSE gap
  /\ UNCHANGED <<pc, ADC_value, resets>>

PinChange == DecChange /\ UNCHANGED prog

StreamInit ==
  /\ HwInit
  /\ pc = "num" /\ ADC_value = Zero /\ gap = 0 /\ resets = 0

StreamNext == Program \/ CpuReset \/ AdcClock \/ PinChange

StreamSpec == StreamInit /\ [][StreamNext]_vars

-----------------------------------------------------------------------------
(* Properties.                                                             *)

\* The program runs exactly one reading behind: what it reads after starting
\* a session is the whole, real reading of the session before, which the FIFO
\* memory still holds, of the right channel - although the FIFO is empty by
\* then and nothing waited for any conversion.
OneReadingBehind ==
  pc = "send" =>
    /\ ADC_value.sess = sess - 1
    /\ sess > 1 => ADC_value.conv = 1 /\ ADC_value.ch = ch

-----------------------------------------------------------------------------
(* Why OneReadingBehind: the invariant of StreamAdcProofs.                 *)

StreamTypeOK ==
  /\ pc \in {"num", "start0", "start1", "start2", "read", "value", "send"}
  /\ gap \in 0..LoopGap

\* Start is low long enough to be seen low before it rises.
StartSeenLow ==
  pc = "start1" => ~measure_fifo_start /\ (gap > 0 => ~pre_measure_fifo_start)

Configured ==
  /\ sess > 0 \/ pc # "num" => measure_fifo_num = 1
  /\ sess > 0 \/ pc = "start1" => measure_fifo_ch = ch

\* A session has one reading, of the channel the dummy conversion has set.
OneReading ==
  sess > 0 =>
    /\ measure_count <= 1
    /\ measure_fifo_done => measure_count = 1 /\ wrptr = 1
    /\ conv > 0 => config_cmd = ch /\ (tick > TShift => chip_ch = ch)
    /\ conv > 1 => chip_ch = ch /\ samp.ch = ch
    /\ \A a \in 0..Depth-1 : a < wrptr => ram[a].ch = ch

\* The engine begins with a reset of one edge.
EngineBegun ==
  sess > 0 /\ measure_start =>
    tick = 0 /\ ~measure_done /\ ~pre_measure_start /\ wait_measure_done

\* The adc_clk edges a session has had, told from its state, up to the one that
\* stores its reading.
AgeInConversion ==
  IF measure_start THEN 0
  ELSE IF ~measure_done THEN 1 + tick
  ELSE IF config_first \/ conv = 2 THEN 2 + TDone
  ELSE IF wait_measure_done THEN 3 + TDone ELSE 4 + TDone

Age == IF measure_fifo_done THEN 2 * TDone + 10
       ELSE IF conv = 0 THEN IF AdcReset THEN 0 ELSE 1
       ELSE (IF conv = 1 THEN 2 ELSE TDone + 7) + AgeInConversion

\* The edges it has had at the least, by where the program is ...
Passed == CASE pc = "start2" -> gap
            [] pc \in {"read", "num"} -> gap + 1
            [] pc \in {"value", "send"} -> gap + 2
            [] pc = "start0" -> LoopGap + IF gap > 0 THEN 2 ELSE 1
            [] pc = "start1" -> LoopGap + IF gap > 0 THEN 3 ELSE 2

\* ... so that the reading is stored before the next pulse, and at the most, so that
\* it is not stored before the read.
Timely ==
  sess > 0 =>
    /\ measure_fifo_done \/ Passed <= Age
    /\ pc = "start2" => Age <= gap /\ gap <= MaxStall
    /\ pc = "read" => Age <= MaxStall + gap /\ gap <= MaxStall

\* A reading of the session before.
Behind(w) == w.sess = sess - 1 /\ (sess > 1 => w.conv = 1 /\ w.ch = ch)

\* The reset leaves the memory; what it held stays until the reading is stored.
LastKept ==
  /\ sess > 0 /\ ~measure_fifo_done => Behind(ram[0])
  /\ sess = 0 => samp.sess = 0 /\ read_data.sess = 0 /\ ram[0].sess = 0

ReadBehind ==
  /\ pc \in {"start2", "read", "value", "send"} => sess > 0
  /\ pc \in {"start2", "read"} => rdptr = 0
  /\ pc = "value" => Behind(slave_readdata)

StreamInv == /\ IInv /\ StreamTypeOK /\ StartSeenLow /\ Configured /\ OneReading
             /\ EngineBegun /\ Timely /\ LastKept /\ ReadBehind /\ OneReadingBehind

=============================================================================
