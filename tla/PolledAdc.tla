----------------------------- MODULE PolledAdc -----------------------------
(***************************************************************************)
(* The ADC controller driven by the polling program of                     *)
(* software/DE10_NANO_ADC/main.c: pick a channel, write the number of      *)
(* readings, pulse start, poll the done register, read the FIFO that many  *)
(* times.  The processor may be reset at any point; the ADC side is not    *)
(* reset with it.                                                          *)
(*                                                                         *)
(* Timing: at least BusGap adc_clk edges pass between two transactions.    *)
(* A transaction and the instructions around it take at least three        *)
(* 100 MHz cycles, and an edge comes every two and a half, so BusGap >= 1. *)
(* A conversion (some 400 edges) outlasts the synchroniser of the FIFO.    *)
(***************************************************************************)
EXTENDS AdcFifo, Sequences

CONSTANTS
  nReadNum,   \* readings per round (10)
  BusGap,     \* adc_clk edges between two bus transactions
  MaxResets   \* bound: processor resets

ASSUME PolledAssumption ==
  /\ nReadNum \in 1..MaxNum
  /\ nReadNum <= Depth /\ SyncLag <= TDone
  /\ BusGap \in Nat \ {0}
  /\ MaxResets \in Nat

VARIABLES
  pc,       \* the program's next transaction
  ch,       \* its channel
  got,      \* the readings of the round so far
  gap,      \* adc_clk edges since the last transaction, up to BusGap
  pulses,   \* history: start pulses issued
  resets    \* processor resets so far

prog == <<pc, ch, got, gap, pulses, resets>>
vars == <<hwvars, prog>>

-----------------------------------------------------------------------------
Transaction(from, to) ==
  /\ pc = from /\ pc' = to
  /\ gap = BusGap /\ gap' = 0
  /\ UNCHANGED resets

SetMeasureNum ==
  /\ Transaction("num", "start0")
  /\ ch' \in Channels
  /\ got' = <<>>
  /\ WriteNum(nReadNum)
  /\ UNCHANGED pulses

StartLow ==
  /\ Transaction("start0", "start1")
  /\ WriteStart(ch, FALSE)
  /\ UNCHANGED <<ch, got, pulses>>

StartHigh ==
  /\ Transaction("start1", "start2")
  /\ sess < MaxSess
  /\ WriteStart(ch, TRUE)
  /\ pulses' = pulses + 1
  /\ UNCHANGED <<ch, got>>

StartLowAgain ==
  /\ Transaction("start2", "poll")
  /\ WriteStart(ch, FALSE)
  /\ UNCHANGED <<ch, got, pulses>>

\* One turn of "while ((IORD(ADC_LTC2308_BASE,0x00) & 0x01) == 0x00);".
Poll ==
  /\ Transaction("poll", IF measure_fifo_done THEN "read" ELSE "poll")
  /\ ReadStatus
  /\ UNCHANGED <<ch, got, pulses>>

ReadValue ==
  /\ Transaction("read", "value")
  /\ ReadCapture
  /\ UNCHANGED <<ch, got, pulses>>

\* The read's second clock, after which the program has the value.
TakeValue ==
  /\ pc = "value"
  /\ ReadPop
  /\ got' = Append(got, slave_readdata)
  /\ pc' = IF Len(got) + 1 < nReadNum THEN "read" ELSE "num"
  /\ UNCHANGED <<ch, gap, pulses, resets>>

Program == \/ SetMeasureNum \/ StartLow \/ StartHigh \/ StartLowAgain
           \/ Poll \/ ReadValue \/ TakeValue

CpuReset ==
  /\ resets < MaxResets /\ resets' = resets + 1
  /\ SlaveReset
  /\ pc' = "num" /\ got' = <<>> /\ gap' = 0
  /\ UNCHANGED <<ch, pulses>>

AdcClock ==
  /\ AdcEdge
  /\ gap' = IF gap < BusGap THEN gap + 1 ELSE gap
  /\ UNCHANGED <<pc, ch, got, pulses, resets>>

PinChange == DecChange /\ UNCHANGED prog

-----------------------------------------------------------------------------
PolledInit ==
  /\ HwInit
  /\ pc = "num" /\ ch \in Channels /\ got = <<>> /\ gap = 0
  /\ pulses = 0 /\ resets = 0

PolledNext == Program \/ CpuReset \/ AdcClock \/ PinChange

\* The ADC clock never stops and the program never waits for anything else.
PolledFairness == WF_vars(AdcClock) /\ WF_vars(Program)

PolledSpec == PolledInit /\ [][PolledNext]_vars /\ PolledFairness

-----------------------------------------------------------------------------
(* Properties.                                                             *)

PolledTypeOK ==
  /\ TypeOK
  /\ pc \in {"num", "start0", "start1", "start2", "poll", "read", "value"}
  /\ ch \in Channels /\ got \in Seq(Entry) /\ Len(got) <= nReadNum
  /\ gap \in 0..BusGap /\ pulses \in 0..MaxSess /\ resets \in 0..MaxResets

\* Every start pulse the program issues restarts the controller, processor
\* resets at any moment included: none is lost between the two clocks.
NoLostStart == pulses = sess

\* While the program polls, done can only be the done of the session it has
\* just started, with all its words stored: a done left from the session
\* before is never taken for it.
NoStaleDone ==
  pc \in {"start2", "poll"} /\ measure_fifo_done => wrptr = nReadNum

\* What the program prints: the j-th value of a round is the j-th reading of
\* the session it started, of the channel it chose, or the constant 400 in
\* the place of that reading if the pin was high when it began.
RoundReadings ==
  \A j \in 1..Len(got) :
    /\ got[j].sess = sess
    /\ got[j].conv = j
    /\ got[j].ch = ch
    /\ got[j].is400 = got[j].high

\* Every round that has issued its start pulse comes to its end (or is cut
\* off by a processor reset): the polling loop terminates.
RoundEnds == pc = "poll" ~> pc = "num"

-----------------------------------------------------------------------------
(* The inductive invariant: what the controller and the FIFO have to do    *)
(* with where the program is.                                              *)

\* Start is low long enough to be seen low before it rises.
StartSeenLow ==
  pc = "start1" => ~measure_fifo_start /\ (gap > 0 => ~pre_measure_fifo_start)

Begun == pc \in {"start2", "poll", "read", "value"}

Configured ==
  /\ pc # "num" => measure_fifo_num = nReadNum
  /\ pc = "start1" \/ Begun => measure_fifo_ch = ch
  /\ pc \in {"start0", "start1", "start2", "poll"} => got = <<>>

\* The session under way is the one the program started.
OwnSession ==
  Begun => /\ sess > 0 /\ measure_count <= nReadNum
           /\ measure_fifo_done => measure_count = nReadNum /\ wrptr = nReadNum

\* The dummy conversion sets the chip's channel, and the readings come from it.
OwnChannel ==
  Begun => /\ conv > 0 => config_cmd = ch /\ (tick > TShift => chip_ch = ch)
           /\ conv > 1 => chip_ch = ch /\ samp.ch = ch
           /\ \A a \in 0..Depth-1 : a < wrptr => ram[a].ch = ch

\* During a conversion the read side comes to see the words stored before it, so
\* that when done is set it misses at most the last.
WordsSeen ==
  /\ sess > 0 /\ InReading => \A j \in 1..SyncLag : j <= tick + 1 => sync[j] = wrptr
  /\ sess > 0 /\ measure_fifo_done => sync[SyncLag] >= wrptr - 1

Reading ==
  /\ pc \in {"start2", "poll"} => rdptr = 0
  /\ pc \in {"read", "value"} =>
       measure_fifo_done /\ rdptr = Len(got) /\ Len(got) < nReadNum
  /\ pc = "value" => slave_readdata = ram[Len(got)]

PolledInv == /\ IInv /\ ReadInv /\ PolledTypeOK
             /\ NoLostStart /\ StartSeenLow /\ Configured /\ OwnSession /\ OwnChannel
             /\ WordsSeen /\ Reading /\ RoundReadings

=============================================================================
