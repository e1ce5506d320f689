------------------------------ MODULE AdcFifo ------------------------------
(***************************************************************************)
(* The ADC controller of the DE10-Nano design: adc_ltc2308_fifo.v, the     *)
(* dual-clock FIFO it fills (adc_data_fifo.v) and, at the level of one     *)
(* conversion, the serial engine adc_ltc2308.v with the LTC2308 chip.      *)
(*                                                                         *)
(* Two clocks drive it.  The Avalon side (slave_clk, 100 MHz) is one       *)
(* action per bus transaction clock that changes state; the ADC side       *)
(* (adc_clk, 40 MHz) is one action per rising edge.  They interleave       *)
(* freely: nothing is assumed about their phase, except that at most one   *)
(* adc_clk edge falls between the two slave clocks of one read (10 ns      *)
(* against 25 ns).  The bus master is arbitrary; PolledAdc and StreamAdc   *)
(* close the system with the two programs of the repository.               *)
(*                                                                         *)
(* A conversion is named by the session (the start pulse) and its number   *)
(* in the session, 0 being the dummy that only configures the chip; those  *)
(* names, with sess and conv, are history: no guard of the code reads them.*)
(***************************************************************************)
EXTENDS Integers

CONSTANTS
  Channels,   \* the chip's input channels
  NoCh,       \* "no channel": the chip before its first configuration
  Depth,      \* words of the FIFO (2048)
  SyncLag,    \* adc_clk edges from a write until the read side sees it
  TShift,     \* tick at which the command and data words are exchanged
  TDone,      \* tick at which a conversion is complete
  MaxNum,     \* bound: largest measure_fifo_num a master writes
  MaxSess     \* bound: sessions started

ASSUME ConstantsAssumption ==
  /\ NoCh \notin Channels
  /\ Depth \in Nat \ {0}
  /\ SyncLag \in Nat /\ SyncLag >= 2
  /\ TShift \in Nat /\ TDone \in Nat /\ TShift < TDone
  /\ MaxNum \in Nat
  /\ MaxSess \in Nat

\* One conversion's word: where it comes from, whether the DEC pin was high as
\* its conversion began (history), and whether it is the constant 400 in place
\* of the chip's reading.
Entry == [sess : Nat, conv : Nat, ch : Channels \cup {NoCh},
          high : BOOLEAN, is400 : BOOLEAN]

\* Power-up contents of a data register or memory word.
Zero == [sess |-> 0, conv |-> 0, ch |-> NoCh, high |-> FALSE, is400 |-> FALSE]

VARIABLES
  measure_fifo_start, measure_fifo_num, measure_fifo_ch,   \* slave_clk
  slave_readdata, slave_status,
  rdclk,               \* 0: no data read; 1, 2: its first clock is past, with
                       \* no, one adc_clk edge since
  pre_measure_fifo_start, measure_start, config_first,     \* adc_clk
  wait_measure_done, measure_count, measure_fifo_done,
  DEC_triggered, pre_measure_done,
  pre_measure_start, tick, measure_done, config_cmd, read_data,  \* SPI engine
  chip_ch, samp,       \* LTC2308: configured channel, sample being converted
  ram, wrptr, rdptr, sync, ws_rdptr,                       \* FIFO
  DEC,                 \* the input pin
  sess, conv           \* history

bus  == <<measure_fifo_start, measure_fifo_num, measure_fifo_ch>>
rd   == <<slave_readdata, slave_status, rdclk>>
ctl  == <<measure_start, config_first, wait_measure_done, measure_count,
          measure_fifo_done, DEC_triggered, pre_measure_done>>
spi  == <<pre_measure_start, tick, measure_done, config_cmd, read_data,
          chip_ch, samp>>
ptrs == <<wrptr, rdptr, sync, ws_rdptr>>

hwvars == <<bus, rd, pre_measure_fifo_start, ctl, spi, ram, ptrs, DEC, sess, conv>>

-----------------------------------------------------------------------------
(* The level signals.                                                      *)

\* adc_reset_n is low.
AdcReset == measure_fifo_start /\ ~pre_measure_fifo_start

\* reset_n of the serial engine is low.
SpiReset == measure_start /\ ~pre_measure_start

WrreqWithDummy == ~pre_measure_done /\ measure_done

fifo_wrreq == ~pre_measure_done /\ measure_done /\ ~config_first

fifo_in == [read_data EXCEPT !.is400 = DEC_triggered]

\* Show-ahead: q is the word under the read pointer, seen or not.
fifo_q == ram[rdptr % Depth]

RdemptyUnsynchronised == wrptr = rdptr

rdempty == sync[SyncLag] = rdptr

WrfullLate == wrptr - ws_rdptr = Depth + 1

wrfull == wrptr - ws_rdptr = Depth

CountTooFar == measure_count <= measure_fifo_num

\* The controller's test for another conversion.
MoreWanted == measure_count < measure_fifo_num

-----------------------------------------------------------------------------
(* The Avalon side.                                                        *)

ResetKeepsCount ==
  /\ measure_start' = FALSE
  /\ config_first' = TRUE
  /\ measure_fifo_done' = FALSE
  /\ wait_measure_done' = FALSE
  /\ DEC_triggered' = FALSE
  /\ pre_measure_done' = FALSE
  /\ wrptr' = 0 /\ rdptr' = 0 /\ ws_rdptr' = 0
  /\ sync' = [j \in 1..SyncLag |-> 0]
  /\ UNCHANGED measure_count

ResetKeepsDone ==
  /\ measure_start' = FALSE
  /\ config_first' = TRUE
  /\ measure_count' = 0
  /\ wait_measure_done' = FALSE
  /\ DEC_triggered' = FALSE
  /\ pre_measure_done' = FALSE
  /\ wrptr' = 0 /\ rdptr' = 0 /\ ws_rdptr' = 0
  /\ sync' = [j \in 1..SyncLag |-> 0]
  /\ UNCHANGED measure_fifo_done

\* What adc_reset_n clears: the controller and, through aclr, the FIFO's
\* pointers, but not its memory.
AsyncReset ==
  /\ measure_start' = FALSE
  /\ config_first' = TRUE
  /\ measure_count' = 0
  /\ measure_fifo_done' = FALSE
  /\ wait_measure_done' = FALSE
  /\ DEC_triggered' = FALSE
  /\ pre_measure_done' = FALSE
  /\ wrptr' = 0 /\ rdptr' = 0 /\ ws_rdptr' = 0
  /\ sync' = [j \in 1..SyncLag |-> 0]

\* A write of register 0; a start that rises while the ADC side has seen it
\* low pulls adc_reset_n low at once.
WriteStart(c, s) ==
  /\ rdclk = 0
  /\ measure_fifo_start' = s
  /\ measure_fifo_ch' = c
  /\ IF s /\ ~measure_fifo_start /\ ~pre_measure_fifo_start
       THEN /\ sess < MaxSess
            /\ sess' = sess + 1
            /\ conv' = 0
            /\ AsyncReset
       ELSE UNCHANGED <<sess, conv, ctl, ptrs>>
  /\ UNCHANGED <<measure_fifo_num, rd, pre_measure_fifo_start, spi, ram, DEC>>

\* A write of register 1.
WriteNum(n) ==
  /\ rdclk = 0
  /\ measure_fifo_num' = n
  /\ UNCHANGED <<measure_fifo_start, measure_fifo_ch, rd, pre_measure_fifo_start,
                 ctl, spi, ram, ptrs, DEC, sess, conv>>

\* A read of register 0.
ReadStatus ==
  /\ rdclk = 0
  /\ slave_status' = measure_fifo_done
  /\ UNCHANGED <<slave_readdata, rdclk, bus, pre_measure_fifo_start, ctl, spi,
                 ram, ptrs, DEC, sess, conv>>

\* A read of register 1: the first clock captures q, which is what the master
\* takes at the second (a read has one wait cycle and no latency) ...
ReadCapture ==
  /\ rdclk = 0
  /\ slave_readdata' = fifo_q
  /\ rdclk' = 1
  /\ UNCHANGED <<slave_status, bus, pre_measure_fifo_start, ctl, spi, ram, ptrs,
                 DEC, sess, conv>>

\* ... where q is captured again, for nobody, and fifo_rdreq is up, which an
\* empty FIFO ignores.
ReadPop ==
  /\ rdclk # 0
  /\ slave_readdata' = fifo_q
  /\ rdptr' = IF rdempty THEN rdptr ELSE rdptr + 1
  /\ rdclk' = 0
  /\ UNCHANGED <<slave_status, bus, pre_measure_fifo_start, ctl,
                 spi, ram, wrptr, sync, ws_rdptr, DEC, sess, conv>>

\* slave_reset_n: the ADC side is not reset with the processor.
SlaveReset ==
  /\ measure_fifo_start' = FALSE
  /\ rdclk' = 0
  /\ UNCHANGED <<measure_fifo_num, measure_fifo_ch, slave_readdata, slave_status,
                 pre_measure_fifo_start, ctl, spi, ram, ptrs, DEC, sess, conv>>

-----------------------------------------------------------------------------
(* The ADC side: the registers that every adc_clk edge updates.            *)

\* The FIFO write, the read pointer's way to the write side and the write
\* pointer's way to the read side.
FifoEdge ==
  /\ IF fifo_wrreq /\ ~wrfull
       THEN /\ ram' = [ram EXCEPT ![wrptr % Depth] = fifo_in]
            /\ wrptr' = wrptr + 1
       ELSE UNCHANGED <<ram, wrptr>>
  /\ sync' = [j \in 1..SyncLag |-> IF j = 1 THEN wrptr ELSE sync[j - 1]]
  /\ ws_rdptr' = rdptr
  /\ rdptr' = rdptr

\* The serial engine while no conversion begins: it counts to TDone, and in
\* passing exchanges the command for the sample the chip converted.
SpiRun ==
  /\ pre_measure_start' = measure_start
  /\ IF SpiReset
       THEN UNCHANGED <<tick, measure_done, read_data, chip_ch>>
       ELSE /\ tick' = IF tick < TDone THEN tick + 1 ELSE tick
            /\ measure_done' = (measure_done \/ tick = TDone)
            /\ read_data' = IF tick = TShift THEN samp ELSE read_data
            /\ chip_ch' = IF tick = TShift THEN config_cmd ELSE chip_ch
  /\ UNCHANGED <<config_cmd, samp>>

\* A rising measure_start resets the engine, latches the command and makes
\* the chip sample the channel it was last told.  A command word cut short
\* leaves the chip on any channel.
SpiBegin ==
  /\ pre_measure_start' = measure_start
  /\ tick' = 0
  /\ measure_done' = FALSE
  /\ read_data' = Zero
  /\ config_cmd' = measure_fifo_ch
  /\ chip_ch' \in IF tick = TShift THEN Channels ELSE {chip_ch}
  /\ samp' = [sess |-> sess, conv |-> conv, ch |-> chip_ch',
              high |-> DEC, is400 |-> FALSE]

EdgeRemembersStart ==
  /\ rdclk # 2
  /\ rdclk' = IF rdclk = 1 THEN 2 ELSE 0
  /\ pre_measure_fifo_start' = (pre_measure_fifo_start \/ measure_fifo_start)
  /\ FifoEdge
  /\ UNCHANGED <<bus, slave_readdata, slave_status, DEC, sess>>

EdgeCommon ==
  /\ rdclk # 2
  /\ rdclk' = IF rdclk = 1 THEN 2 ELSE 0
  /\ pre_measure_fifo_start' = measure_fifo_start
  /\ FifoEdge
  /\ UNCHANGED <<bus, slave_readdata, slave_status, DEC, sess>>

IdleUnlessPinHigh ==
  ~measure_fifo_done /\ ~measure_start /\ ~wait_measure_done /\ ~DEC

Idle == ~measure_fifo_done /\ ~measure_start /\ ~wait_measure_done

-----------------------------------------------------------------------------
(* The branches of the controller's always block, one of which each edge   *)
(* takes.                                                                  *)

\* adc_reset_n is still low at the edge.
HoldReset ==
  /\ AdcReset
  /\ pre_measure_done' = FALSE
  /\ UNCHANGED <<measure_start, config_first, wait_measure_done, measure_count,
                 measure_fifo_done, DEC_triggered, conv>>
  /\ SpiRun /\ EdgeCommon

BeginConversion ==
  /\ ~AdcReset
  /\ Idle
  /\ DEC_triggered' = DEC
  /\ measure_start' = TRUE
  /\ wait_measure_done' = TRUE
  /\ pre_measure_done' = measure_done
  /\ conv' = conv + 1
  /\ UNCHANGED <<config_first, measure_count, measure_fifo_done>>
  /\ SpiBegin /\ EdgeCommon

Waiting ==
  /\ ~AdcReset
  /\ wait_measure_done
  /\ measure_start' = FALSE
  /\ pre_measure_done' = measure_done
  /\ UNCHANGED <<DEC_triggered, conv>>

AwaitConversion ==
  /\ Waiting
  /\ ~measure_done
  /\ UNCHANGED <<config_first, wait_measure_done, measure_count, measure_fifo_done>>
  /\ SpiRun /\ EdgeCommon

DropDummy ==
  /\ Waiting
  /\ measure_done /\ config_first
  /\ config_first' = FALSE
  /\ UNCHANGED <<wait_measure_done, measure_count, measure_fifo_done>>
  /\ SpiRun /\ EdgeCommon

CountReading ==
  /\ Waiting
  /\ measure_done /\ ~config_first
  /\ MoreWanted
  /\ measure_count' = measure_count + 1
  /\ wait_measure_done' = FALSE
  /\ UNCHANGED <<config_first, measure_fifo_done>>
  /\ SpiRun /\ EdgeCommon

Finish ==
  /\ Waiting
  /\ measure_done /\ ~config_first
  /\ ~MoreWanted
  /\ measure_fifo_done' = TRUE
  /\ UNCHANGED <<config_first, wait_measure_done, measure_count>>
  /\ SpiRun /\ EdgeCommon

\* Done, and measure_fifo_num was raised afterwards.
Rest ==
  /\ ~AdcReset
  /\ ~Idle /\ ~wait_measure_done
  /\ pre_measure_done' = measure_done
  /\ UNCHANGED <<measure_start, config_first, wait_measure_done, measure_count,
                 measure_fifo_done, DEC_triggered, conv>>
  /\ SpiRun /\ EdgeCommon

AdcEdge == \/ HoldReset \/ BeginConversion \/ AwaitConversion \/ DropDummy
           \/ CountReading \/ Finish \/ Rest

\* The DEC pin may change at any time.
DecChange ==
  /\ DEC' = ~DEC
  /\ UNCHANGED <<bus, rd, pre_measure_fifo_start, ctl, spi, ram, ptrs, sess, conv>>

-----------------------------------------------------------------------------
\* Power-up: every register low.  The controller is idle, so it converts
\* before anyone asked it to, until the first start pulse resets it.
HwInit ==
  /\ measure_fifo_start = FALSE /\ measure_fifo_num = 0
  /\ measure_fifo_ch \in Channels
  /\ slave_readdata = Zero /\ slave_status = FALSE /\ rdclk = 0
  /\ pre_measure_fifo_start = FALSE
  /\ measure_start = FALSE /\ config_first = FALSE /\ wait_measure_done = FALSE
  /\ measure_count = 0 /\ measure_fifo_done = FALSE
  /\ DEC_triggered = FALSE /\ pre_measure_done = FALSE
  /\ pre_measure_start = FALSE /\ tick = 0 /\ measure_done = FALSE
  /\ config_cmd = measure_fifo_ch /\ read_data = Zero
  /\ chip_ch = NoCh /\ samp = Zero
  /\ ram = [a \in 0..Depth-1 |-> Zero]
  /\ wrptr = 0 /\ rdptr = 0 /\ ws_rdptr = 0
  /\ sync = [j \in 1..SyncLag |-> 0]
  /\ DEC \in BOOLEAN
  /\ sess = 0 /\ conv = 0

Next ==
  \/ \E c \in Channels, s \in BOOLEAN : WriteStart(c, s)
  \/ \E n \in 0..MaxNum : WriteNum(n)
  \/ ReadStatus \/ ReadCapture \/ ReadPop \/ SlaveReset
  \/ AdcEdge \/ DecChange

Spec == HwInit /\ [][Next]_hwvars

-----------------------------------------------------------------------------
(* Properties.                                                             *)

TypeOK ==
  /\ measure_fifo_start \in BOOLEAN /\ measure_fifo_num \in 0..MaxNum
  /\ measure_fifo_ch \in Channels
  /\ slave_readdata \in Entry /\ slave_status \in BOOLEAN /\ rdclk \in 0..2
  /\ pre_measure_fifo_start \in BOOLEAN
  /\ measure_start \in BOOLEAN /\ config_first \in BOOLEAN
  /\ wait_measure_done \in BOOLEAN /\ measure_count \in 0..MaxNum
  /\ measure_fifo_done \in BOOLEAN /\ DEC_triggered \in BOOLEAN
  /\ pre_measure_done \in BOOLEAN
  /\ pre_measure_start \in BOOLEAN /\ tick \in 0..TDone /\ measure_done \in BOOLEAN
  /\ config_cmd \in Channels /\ read_data \in Entry
  /\ chip_ch \in Channels \cup {NoCh} /\ samp \in Entry
  /\ ram \in [0..Depth-1 -> Entry]
  /\ wrptr \in Nat /\ rdptr \in Nat /\ ws_rdptr \in Nat
  /\ sync \in [1..SyncLag -> Nat]
  /\ DEC \in BOOLEAN
  /\ sess \in 0..MaxSess /\ conv \in Nat

\* The FIFO holds the readings of the current session and nothing else, as long
\* as no more are counted than it has room for: the word at address a is that of
\* real conversion a + 1 (never the dummy, never an earlier session's, none lost
\* and none twice), and it is the constant 400 exactly if the pin was high as
\* that conversion began.
SessionWords ==
  sess > 0 /\ measure_count <= Depth =>
    \A a \in 0..Depth-1 : a < wrptr =>
      /\ ram[a].sess = sess
      /\ ram[a].conv = a + 1
      /\ ram[a].is400 = ram[a].high

\* More may be asked for than the FIFO holds, and the controller does not look
\* whether it is full (its test of wrfull is commented out): what it drops is the
\* newest word.  What is there to be read is of this session all the same, and in
\* the order of conversion.
WordsInOrder ==
  sess > 0 =>
    \A a \in rdptr..wrptr-1 :
      LET word(i) == ram[i % Depth] IN
      /\ word(a).sess = sess /\ word(a).conv > a
      /\ word(a).is400 = word(a).high
      /\ a > rdptr => word(a - 1).conv < word(a).conv

\* A read that removes a word from the FIFO has returned that word, wherever
\* the ADC clock's edge fell between its two clocks.
ReadReturnsPopped ==
  [][rdptr' = rdptr + 1 => slave_readdata = fifo_q]_hwvars

\* Done rises with the last word stored: if there was room for them it counts
\* exactly the words written, and they are at least those now asked for (num may
\* be lowered meanwhile).
DoneCountsWords ==
  [][~measure_fifo_done /\ measure_fifo_done' /\ sess > 0 /\ measure_count <= Depth =>
       wrptr' = measure_count /\ wrptr' >= measure_fifo_num]_hwvars

-----------------------------------------------------------------------------
(* The inductive invariant behind the safety properties: which words are   *)
(* stored follows from where the controller is in its session.             *)

\* adc_reset_n low keeps the controller where the reset put it.
ResetHeld ==
  AdcReset => /\ config_first /\ ~wait_measure_done /\ ~measure_fifo_done
              /\ ~measure_start /\ ~pre_measure_done /\ sess > 0

\* The engine has the chip's word once the exchange is past, and done is the
\* end of the count.
EngineInv ==
  /\ measure_done => tick = TDone
  /\ tick > TShift => read_data = samp

\* The sample in the chip is the conversion last begun.
SampleInv ==
  conv > 0 =>
    /\ samp.sess = sess /\ samp.conv = conv - 1
    /\ samp.high = DEC_triggered /\ ~samp.is400

Restarted == /\ config_first /\ ~wait_measure_done /\ ~measure_fifo_done
             /\ ~measure_start /\ ~pre_measure_done
             /\ measure_count = 0 /\ wrptr = 0 /\ conv = 0

InDummy == /\ config_first /\ wait_measure_done /\ ~measure_fifo_done
           /\ measure_count = 0 /\ wrptr = 0 /\ conv = 1

DummyDropped == /\ ~config_first /\ wait_measure_done /\ ~measure_fifo_done
                /\ measure_done /\ pre_measure_done
                /\ measure_count = 0 /\ wrptr = 0 /\ conv = 1

Between == /\ ~config_first /\ ~wait_measure_done /\ ~measure_fifo_done
           /\ ~measure_start /\ measure_done /\ pre_measure_done
           /\ wrptr < measure_count /\ conv = measure_count

InReading == /\ ~config_first /\ wait_measure_done /\ ~measure_fifo_done
             /\ (measure_done => ~pre_measure_done)
             /\ wrptr < measure_count /\ conv = measure_count + 1

Finished == /\ ~config_first /\ measure_fifo_done /\ ~measure_start
            /\ measure_done /\ pre_measure_done
            /\ wrptr <= measure_count

\* Unless more are counted than it holds, no word was dropped.
AllStored ==
  measure_count \in 1..Depth /\ ~measure_fifo_done => wrptr = measure_count - 1

Phases == \/ Restarted \/ InDummy \/ DummyDropped \/ Between \/ InReading \/ Finished

IInv ==
  /\ TypeOK
  /\ ResetHeld
  /\ EngineInv
  /\ sess > 0 => SampleInv
  /\ sess > 0 => Phases /\ AllStored
  /\ SessionWords

(* Why a read returns what it pops: each side's copy of the other's pointer *)
(* is behind it, so a word the read side can pop was stored before the read *)
(* began, and the write side does not reuse its place.                      *)

PointersInOrder ==
  /\ \A j \in 1..SyncLag : sync[j] <= wrptr
  /\ \A j \in 2..SyncLag : sync[j] <= sync[j - 1]
  /\ rdptr <= sync[SyncLag]
  /\ ws_rdptr <= rdptr
  /\ wrptr <= ws_rdptr + Depth

WordHeld ==
  /\ rdclk = 1 /\ rdptr < wrptr => slave_readdata = fifo_q
  /\ rdclk = 2 /\ rdptr < sync[SyncLag] => slave_readdata = fifo_q

ReadInv == TypeOK /\ PointersInOrder /\ WordHeld

\* The words still to be read come before the conversion under way.
WordsBefore ==
  sess > 0 /\ ~measure_fifo_done =>
    \A a \in rdptr..wrptr-1 : ram[a % Depth].conv < measure_count

OrderInv == IInv /\ ReadInv /\ WordsInOrder /\ WordsBefore

=============================================================================
