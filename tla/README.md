# Verification of the Unlimited Sensing reconstruction on the DE10-Nano

TLA+ models, model-checking runs and machine-checked proofs for the design in
`src/`: a Nios II system that samples a folded (modulo) signal with the LTC2308
ADC, undoes the folding in a pipelined custom instruction and sends the result
to an I2C DAC.

## 1. The system

Most of `src/` is generated by Quartus, Platform Designer and the BSP editor or
is a copy (`DE10_NANO_QSYS/synthesis/submodules` repeats `ip/`; `ADC/` is the
vendor's demo the project grew from). The parts with logic of their own:

| part | files | state | operations | interacts with |
|---|---|---|---|---|
| ADC controller | `ip/ADC_LTC2308_FIFO/adc_ltc2308_fifo.v` | start, number, channel (bus clock); edge detector, `config_first`, `wait_measure_done`, `measure_count`, `measure_fifo_done`, `DEC_triggered` (ADC clock) | register writes, two-clock reads, one branch of the controller per ADC clock edge | bus master, FIFO, serial engine, DEC pin |
| FIFO | `adc_data_fifo.v`, `db/dcfifo_s7q1.tdf` | memory, two pointers, each with a synchronised copy on the other side | write, pop, asynchronous clear | both clocks |
| serial engine | `adc_ltc2308.v` | tick, `measure_done`, command, data shift register | start on the edge of `measure_start`, count, shift | LTC2308 chip |
| programs | `software/DE10_NANO_ADC/main.c`, `software/streaming_reconstruct/hello_world.c` | position in the loop, values read | pulse start, poll, read, reconstruct, send | ADC controller, custom instruction, I2C |
| reconstruction blocks | `ip/recon/*.sv`, `ip/Divs/*.v` | data registers, a chain of valid bits each | one clock edge under `clk_en` | each other |
| order-1 pipeline | `ip/recon/top_pipelined.sv` | delay lines, valid bits on the falling edge | one clock cycle | the processor's custom instruction port |
| order-n pipeline | `ip/Higher_orders/*.sv` | the same, with a difference unit of selectable order and three stages of summing, rounding and averaging | the same | the same |
| C model | `hello_world.c` (`streaming_reconstruct`, `test_valid`) | difference and sum buffers, a moving average per stage | `top()`, one call per sample | compared with the hardware by `test_valid` |
| I2C driver | BSP, `altera_avalon_i2c.c` | none of its own but the optional callback's; the core's registers | `master_tx`, `master_rx`, `master_tx_rx`, polled or with interrupts, with retries and waits; the interrupt handler | I2C core, program |
| I2C core | `altera_avalon_i2c_*.v` | `CTRL`, `ISR`, `ISER`, a command and a receive FIFO, the master state machine | start, byte, restart, stop, hold, arbitration | driver, DAC, other masters |
| baseline | `reconstruction_top.sv`, `modulo_residual.sv` | as order 1, unpipelined | | not in the built system |

What is hard in it, and what makes each part correct:

* **ADC controller and FIFO.** Two unrelated clocks; a reset derived
  combinationally from a bus register and the ADC clock's copy of it; a dummy
  conversion at the head of every session; a done flag and FIFO contents left
  over from the session before; a FIFO whose full flag nobody looks at; a
  processor reset that does not reach the ADC side. Correct means: the FIFO
  holds the readings of this session and nothing else, in order also when it
  overflows, done counts them, a read returns what it removes.
* **Programs.** No start pulse may be lost, no stale done or stale word may be
  taken, and the poll must end. The streaming program does not poll; what it
  reads depends on timing.
* **Pipelines.** Data, difference and residual travel along different delay
  lines with different valid chains, on both clock edges, under a clock enable
  that comes and goes. Correct means: what is added or subtracted belongs to the
  same sample, or to one a known number of samples away, and what accumulates
  has every sample once.
* **Arithmetic.** Signed remainders, wrap-around words, a running sum that is
  corrected by subtraction, integrators that never forget, and a clamp.
* **I2C.** The core empties its command FIFO on every refused byte and drops
  what is written until the ISR is cleared, while the driver goes on writing;
  retries start from what a failed attempt left; waits run out while the bus is
  held; the interrupt handler clears status bits the program has still to read.
  Correct means: success is told only of what was delivered, nothing of a call
  is left in the core, a data byte never becomes an address, every call returns.

## 2. The modules

| module | models | composes |
|---|---|---|
| `AdcFifo` | controller, FIFO, serial engine at the level of a conversion, under an arbitrary bus master | |
| `PolledAdc` | `main.c` closed with the controller | extends `AdcFifo` |
| `StreamAdc` | the acquisition of `hello_world.c` closed with the controller | extends `AdcFifo` |
| `ReconBlocks` | the six blocks as records of registers with a reset value and a clock edge | |
| `Pipeline` | `reconstruction_top_pipelined` and the processor's calls | extends `ReconBlocks` |
| `PipelineN` | `reconstruction_top_pipelined_n`: `HOD_n`, the three `anti_difference_stage`s, the top | extends `ReconBlocks` |
| `Reconstruct` | what the order-1 datapath computes for each sample | |
| `CModel` | the C reference model, orders 1 to 3 | |
| `ReconstructN` | what the order-n stages compute, beside the C model | extends `CModel` |
| `I2cMaster` | the I2C core by bytes, its FIFOs and registers, the bus and the DAC | |
| `I2cDriver` | the driver's transfer functions and interrupt handler, closed with the core and a program | extends `I2cMaster`, implements `DacLink` |
| `DacLink` | abstract: what the driver promises a program that sends values to the DAC | |
| `AdcFifoProofs`, `PolledAdcProofs`, `StreamAdcProofs`, `PipelineProofs`, `PipelineNProofs`, `ReconstructProofs`, `I2cDriverProofs` | the theorems | each extends its module; `PolledAdcProofs` also `AdcFifoProofs`, the two of the pipelines also `ReconBlocksProofs`; `ReconstructProofs` extends `Reconstruct` and `ReconstructN` |
| `ReconBlocksProofs` | lemmas about the blocks that both pipelines' proofs cite | extends `ReconBlocks` |

Each property is also tried against a fault: a definition such as
`WrreqWithDummy`, `ModEdgeShort` or `FinishUnchecked` stands before the one it
is a faulty variant of and is used nowhere; `PROJECT.json` says which property
finds which.

### AdcFifo

Variables have the names of the registers. A slave-clock action is one register
write, a status read, or one of the two clocks of a data read (`ReadCapture`
latches `q`, `ReadPop` raises `fifo_rdreq`); an `AdcEdge` is one rising edge of
`adc_clk`, with one action for each branch of the controller's `always` block,
and in each of them the FIFO write, the synchronisers and the serial engine move
too. The two clocks interleave freely, but for at most one `adc_clk` edge inside
a read (10 ns against 25 ns). `WriteStart` with a rising start performs the
asynchronous reset at once; `HoldReset` is an edge that finds it still low.

The data are abstracted: a word is named by its session, its number in the
session (0 is the dummy), its channel, the DEC pin as it began and whether it was
replaced by 400. `sess` and `conv` are history. `tick` keeps only the two events
that matter, the exchange with the chip (`TShift`) and the end (`TDone`).

FIFO pointers are counters; the memory address is the counter modulo `Depth`.
The show-ahead output is the word under the read pointer whether or not the read
side knows of it (`dcfifo_s7q1.tdf`: the address register of the memory is cleared
with the pointers and the memory is read at each clock), which is what makes
the streaming program read an old word from an empty FIFO. At power-up the
controller is idle, so it converts before anybody asks; the model starts there.

The controller does not look whether the FIFO is full (its test of `wrfull` is
commented out, line 163) and `measure_fifo_num` has 12 bits for a FIFO of 2048
words. While no more words are counted than fit, `SessionWords` says the FIFO
holds exactly the readings of the session; beyond that `WordsInOrder` says what
is left of it: words are missing, but those present are of this session, marked
by the pin as it was when they began, and in the order of conversion.

A comment (line 25) says of the DEC pin "when High, discard the reading": the word
400 is stored in its place and counted, which is what the models have.

### PolledAdc and StreamAdc

The program is a `pc` with one action per bus transaction. `BusGap` and `LoopGap`
are lower bounds, in ADC clock edges, on the time between transactions; they are
in the comments of the modules with their reasons. `PolledAssumption` has
`SyncLag <= TDone`: a conversion of some 400 edges outlasts the FIFO's
synchroniser of three.

`StreamAdc` assumes that a loop (with its I2C transfer of more than 25 us)
outlasts two conversions (20 us) and that the three writes and the read that
follow each other in the code are not held up for longer than `MaxStall`;
without this the program may read a half-shifted or a still older word. Both bounds
are exact: the theorem needs `2 * TDone + 7 <= LoopGap` and `MaxStall <= TDone + 4`
(`StreamAssumption`), and with a `LoopGap` one less or a `MaxStall` one more TLC finds a
read of the wrong word. The
comments "start measure / wait measure done / read adc value" (lines 538-547)
are not what runs: the wait is commented out, and what is read is the reading of
the session before, which is what `OneReadingBehind` states. The processor may
be reset at any moment.

### ReconBlocks, Pipeline and PipelineN

A datum is the number of the sample it stems from (0: none), so alignment is
equality. A `Cycle` has the falling edge in its middle and the rising edge at its
end: the falling-edge registers take the old outputs of the blocks, the blocks
the new values of those registers. `clk_en` is `TRUE` in the cycles of a call
(`BeginCall`, `ContinueCall`) and `FALSE` between calls (`IdleCycle`), where only the
valid chain of `anti_difference_rounding` moves.

How many cycles the processor spends on a call is not in the repository: its
custom-instruction handshake is in an encrypted core. `valid_out` (done) answers in
the first cycle; `tb_pipe.sv` drives two cycles and an idle one, `tb_piped_n.sv`
201. So `CallCycles` is a parameter. A call of the order-n instruction shares
`clk_en` but not `start` with the order-1 one.

`PipelineN` keeps the order and the length of a call constant in a behaviour. What
it shows is not that the sample meets its own residual, for it does not, but by
how far it misses it: with calls of one cycle the residual is that of the
next sample and the mean that of the window before, in every order; with long
calls the sample is `n - 1` behind, one for each difference above the first,
and the mean is its own. These distances never change (`SumApart`, `MeanApart`).

### Reconstruct

One step per sample: fold (external), ADC code (external), `adc_to_fixed`,
difference, `modulo_residual_piped`, accumulator, rounding, sum, moving average,
scaling, `fixed_to_dac`, with every word wrapped to its width. The mean subtracted is
the one before the sample entered, as `Pipeline` shows it is. The signal is any walk
with steps that satisfy the sampling condition (`SamplingAssumption`);
`RangeAssumption` gives the accumulator room for the signal's folds, and `SumAssumption` the
running sum room for a window of any words (100 of 24 bits in its 32). `sample_count`
is a signed byte, hence `WINDOW_SIZE \in 1..127`. `totals` is history: `totals[i]` is the
total of the i newest reconstructions, so that the sample i places ago is a difference of two
(`Past`) and the total of the window is one of them.

### CModel and ReconstructN

`CModel` is `top()` with all it calls, one step per sample, in both of its copies (`program`):
that of `streaming_reconstruct`, with orders 1 to 3, and that of `test_valid`, always of order
2. They differ in their constants and in where the integrators of orders 1 and 2 round: with order 2
`test_valid` adds and rounds the sum, `streaming_reconstruct` rounds what it adds
(`Integrator`). Their single-precision
numbers are exact here: a voltage is an integer number of ADC codes, a value from which
a mean was taken a numerator over the window. `FollowsFolds` says that each
integrator, though it integrates values the mean has been taken from, rounds to
the folds of the signal once the filters have filled (`Settled`);
`StartForgotten` that nothing of the zero buffers it started from is left. Two
assumptions: the sampling condition for the order (`RiseAssumption`), and for orders 2 and
3 `WindowAssumption`, that the signal makes at most one fold within a window and the window
outweighs two folds, one out and one in (the real window is 100). `fold_totals`
is history: the total of the folds in the i newest samples, so that `LastFolds(i)`, the folds
of the sample i places ago, is a difference of two.

`ReconstructN` runs the arithmetic of the order-n stages beside it, on the same
samples; `order_n` takes the copy of `test_valid`, the program that compares the two. They
differ (`MatchesCModel`): the integrators of either copy hold whole folds, the
hardware accumulates the difference of sum and mean as it is and rounds only its
output. With the order 1 of `streaming_reconstruct` nothing is subtracted before the accumulator, both have accumulated
whole folds, which either rounding leaves alone, and the two make the same folds from the
first sample on (`FirstOrderMatches`, which is proved, and found true by TLC under the
constants of `order_n` but `Programs = {"streaming_reconstruct"}` and `Orders = {1}`).

### I2cMaster, I2cDriver and DacLink

A step of the core is one byte or one bus condition: a start, a byte
acknowledged, refused or received, a hold while the FIFO is empty, a stop, an
arbitration lost. A refused byte raises `nack_det`, which flushes the command
FIFO and drops every write until the ISR is cleared (`flush_txfifo`). A byte received
with no room in the receive FIFO is lost; only `rx_over` tells. A byte is named by
its call and its place in the message, so the order of bytes, the first of a
frame and the owner of what the DAC shows can be told. Devices may refuse any
byte, hold the clock (`HoldBus`) or win the bus (`ArbitrationLost`).

A step of the driver is an access to a register that another party changes, or a
wait for one. Waits run out only when the core cannot move: the shortest is 10000 register
reads and 90 ms of sleeping, a byte takes 25 us. `lapsed` is history: a
wait has run out while the bus was held, after which the core still has
commands to send and less can be promised. Interrupt mode has the arming after
the last command, the handler in two steps (it waits for an idle core), the
optional callback and the polling of `interrupt_transaction_status`.

`DacLink` is the promise to a program that sends values: one call at a time, the
DAC shows only bytes of the current call, never goes back, and "ok" means that the last
byte is shown. `Link` in `I2cDriver` maps `shown` to the DAC's byte, `answer` to
the status once the call is over (the DAC does not show the first data byte of a message,
its control byte, so nothing is promised of messages of one byte), and `disturbed` to an arbitration the ISR shows
lost, a lapsed wait or an interrupt transmission; under it the DAC still never
goes back. `LinkKept` is that the driver with the core implements it.

## 3. The runs

| run | module | shows | bounds |
|---|---|---|---|
| `adc_fifo` | AdcFifo | `SessionWords`, `WordsInOrder`, `ReadReturnsPopped`, `DoneCountsWords` under any bus master | 2 sessions, up to 4 readings into a FIFO of 2 words: it fills, overflows, wraps, is drained between two drops, and a session is cut off anywhere by the next (3.4 million states) |
| `polled` | PolledAdc | `NoLostStart`, `NoStaleDone`, `RoundReadings`, and that every round ends (`RoundEnds`) | 2 channels, 2 rounds of 2 readings, 1 processor reset at any point |
| `stream` | StreamAdc | `OneReadingBehind` | 3 loops, 1 reset; `LoopGap` and `MaxStall` at the last values that work |
| `pipe_calls` | Pipeline | `ReconstructionAligned`, `AveragesOnce`, `MeanOfWindowBefore`, `DacInOrder` | the real depths, one-cycle calls, every regular or irregular gap of 0 to 16 cycles until the first 80 samples are in (a longer gap empties the ungated chain and is no different) |
| `pipe_mixed` | Pipeline | `ResidualAligned`, `AccumulatesOnce`, `TypeOK` | depths 3, 4, 4; calls of 1 and 2 cycles of both instructions, gaps of 0 and 1 |
| `pipe_n` | PipelineN | `StagesOnce`, `SumApart`, `MeanApart`, `LongCallAnswers`, `TypeOK` | the real depths and delays, orders 1 to 3, calls of 1, of 157 (the shortest above the latency of order 3) and of 201 cycles, gaps of 0 and 1; 165 samples fill all three stages and the 150 places of the longest delay line |
| `reconstruct` | Reconstruct | `TracksSignal`, `WholeFolds`, `WindowSum`, `MeanWithin`, `TypeOK` | 8-bit words, a window of 3, a signal over four folds |
| `c_model` | CModel | `FollowsFolds`, `StartForgotten`, `ModelTypeOK` | both copies, orders 1 to 3, threshold 5, window 5, steps of at most 1, a signal over two folds; with the window of 5 the three filters fill within the run and are followed long after |
| `i2c` | I2cDriver | `PolledSuccess`, `WholeUnlessLapsed`, `NothingLeft`, `AddressFirst`, `TimeoutFromBus`, `CallsReturn`, `InterruptSendEnds`, `LinkKept`, `TypeOK` | 2 calls of any function, polled or with interrupts, 3 data bytes, 2 attempts, FIFOs of 2 (so that a message of 4 fills the command FIFO and a late driver loses a byte received), any byte refused, another master, the bus held once at any point |

The pass of `i2c` (229,359 states) was repeated with FIFOs of 8 and, for messages of 2
bytes, with three calls and two stalls; nothing changed. A driver too late for the
receive FIFO ends in a time-out (`TimeoutFromBus` names this cause), never in a success
with a hole in the buffer (`PolledSuccess`). In `adc_fifo` `TShift` and `TDone` are 1 and
2: an exchange and an end in different edges is all the controller can tell.

Three runs end in a violation; each is a place where the code does something else
than a comment of the repository says:

* `clamp`: `fixed_to_dac.sv` line 58 never clamps below zero, because the sum with an unsigned
  parameter is unsigned; an output that is too low is sent as 255. The C model clamps to 0.
* `order_n`: `test_valid` is there "to test if the ip output matches c-model results".
  With its order, 2, the stages make folds its C model does not, because they do not round what
  they accumulate. The C model of `streaming_reconstruct` makes the folds of the signal as well
  (`FollowsFolds`), so with order 2 the stages differ from it too.
* `i2c_irq`: `altera_avalon_i2c.h` line 1154, "SUCCESS indicates interrupt transaction is
  successfully completed". A refused byte empties the command FIFO, which raises the
  very interrupt the driver waits for; the handler clears the ISR, and the status
  function finds no NACK.

Other things the models showed that are worth knowing:

* `pipe_calls` and `pipe_n` need calls of one enabled cycle, or very long ones. With two cycles
  and gaps of at least 16 each sample enters the moving average of the order-1 pipeline
  twice, and with two cycles and shorter gaps, or both lengths mixed,
  `ReconstructionAligned` fails: the valid chain of `anti_difference_rounding` ("Output
  valid signal", line 12) is not gated by `clk_en` and runs ahead of the data between
  calls. In the order-n pipeline calls of 2, 3 or 30 cycles with gaps violate
  `StagesOnce` or `SumApart` likewise. What `pipe_mixed` and `ResidualAlignedHolds` and
  `AccumulatesOnceHolds` state holds for all of these.
* The mean is that of the window before the sample's: `reconstructed_pipe_len` is 28, "length of
  the moving average filter" (`top_pipelined.sv` line 19), which takes 29 enabled edges.
* In orders 2 and 3 the sample meets its own residual with neither length of call.
  Order 0 reads `differences` out of range (`HOD_n.sv` line 81).
* An arbitration lost after the driver's last look at the ISR is answered SUCCESS, though the
  header promises a retry (line 652); `PolledSuccess` excepts it.
* An interrupt reception never ends if the NACK falls between the last check and the
  arming, or the arbitration is lost: `interrupt_transaction_status` answers BUSY for ever.
  `InterruptSendEnds` is about transmissions for this reason. A reception longer than the
  FIFO may overflow it.
* After a lapsed wait the bytes of two calls may share a frame; `master_tx_rx` goes on with
  its second transfer, the core disabled, when the first ends in TIMEOUT. A polled reception whose
  address is refused waits for its whole timeout before it sees the NACK.

The pipeline and I2C runs set `CHECK_DEADLOCK FALSE`: there the bound on samples or calls
ends a behaviour.

### Fairness

* `PolledFairness`: weak fairness of the ADC clock, which never stops, and of the
  program, which waits for nothing but the clock edges that separate its
  transactions. Nothing is assumed of the DEC pin or of the processor's resets.
* `FairSpec` of `I2cDriver`: weak fairness of the driver, of the handler and of the core.
  Nothing is assumed of the other devices: one that holds the bus may hold it for ever, so
  `CallsReturn` rests on the driver's own timeouts and `InterruptSendEnds` excepts a held bus.

## 4. The proofs

`tlapm` checks, for every value of the constants that satisfies the named assumptions:

* `AdcFifoProofs`: `TypeCorrect`, `SessionWordsHold`, `WordsInOrderHolds`, `DoneCountsWordsHolds`,
  `ReadReturnsPoppedHolds`. What is in the FIFO is not inductive alone: it follows from where
  the controller is in its session. `IInv` (end of `AdcFifo`) adds `Phases`, the six
  situations of a session with what `wrptr`, `measure_count` and `conv` are in each,
  `SampleInv` (the sample in the chip is the conversion begun last, with its mark),
  `EngineInv` (after the exchange the engine holds that sample; done implies the end of the
  count), `AllStored` (no word is missing while no more are counted than fit) and
  `ResetHeld`. Each action takes one phase to another. Nothing bounds the depth, the number of
  readings, the conversion length, the synchroniser or the sessions.
* `ReadReturnsPoppedHolds` (same module) needs an invariant of its own, `ReadInv`. Each side
  of the FIFO sees the other's pointer late, and late is safe: `PointersInOrder` has the
  copies in the order they were taken, so that the words between `rdptr` and `wrptr` are never
  more than the depth and an ADC edge between the two clocks of a read writes another
  place (`DifferentPlaces`, from division alone). `WordHeld` says that what the first clock
  captured is still the word at the head when the second removes it. `WordsInOrderHolds` adds
  `WordsBefore` to both: every word there is of an earlier conversion than the next
  to be stored.
* `PolledAdcProofs`: `PolledTypeCorrect`, `NoLostStartHolds`, `NoStaleDoneHolds`,
  `RoundReadingsHold`, the end-to-end promise of the polling program, with processor resets, for every
  number of readings that fits the FIFO. `PolledInv` (end of `PolledAdc`) ties the program to the
  controller: start is low long enough to be seen low (`StartSeenLow`, from `BusGap >= 1`),
  the registers hold what the program wrote (`Configured`), the session under way is the
  program's and done means all its words (`OwnSession`), the dummy conversion has set
  the channel before the first reading (`OwnChannel`), the read side sees all words but the
  last when it sees done (`WordsSeen`, from `SyncLag <= TDone`), and so the k-th read finds the
  k-th word (`Reading`). Every step of the closed system is one of the controller's
  (`HwStep`), whose invariants are taken over.
* `StreamAdcProofs`: `OneReadingBehindHolds`, for every conversion length, loop time and stall within
  the bounds. Nothing in this program waits for the controller, so the argument is about time:
  `StreamInv` (end of `StreamAdc`) compares the `Age` of the conversion under way (the
  edges since the start that began it) with the edges the program has let pass since it
  wrote that start (`Passed`). From it follow which session each step of the loop falls into, that
  the session before has stored its one word, and that the exchange has not come yet
  when the program reads.
* `PipelineProofs`, for all divider depths:
  * `TypeCorrect`, `ResidualAlignedHolds`, `AccumulatesOnceHolds`, for all patterns of calls, of any
    length, of either instruction. `IInv` (end of `Pipeline`) says that from the
    input to the accumulator a register is exactly one sample behind the one before
    it when the valid bit between them is set and level with it when not (`AdcInStep`,
    `ModInStep`, `AntiInStep`), and that the difference in the shift register is that
    under division in the same place (`DiffCarried`). The assumption used is
    `DelayAssumption`: a block's delay is its divider's plus one or two.
  * `AveragesOnceHolds`, `ReconstructionAlignedHolds`, `MeanOfWindowBeforeHolds`, `DacInOrderHolds`, for calls
    of one cycle (`OneCycleCalls`), however spaced, and delay lines of the residual
    path's length (`LinesMatch`, which the parameters of the source satisfy). `CallsInv` has every
    register a fixed number of samples behind the input. The one thing that moves between
    calls, the valid chain of the accumulator, then moves to a place where its bits say
    the same (`Drifts`): either all samples have come one by one, or none has come yet.
* `PipelineNProofs`, for every number of stages, order and divider depth: `TypeCorrect`, and under
  `DelaysMatch` (the delays of the source are those of its blocks) and `OneOrLong`
  (calls of one cycle, or of more than `Latency` of the order: 68, 112 or 156 cycles)
  `StagesOnceHolds`, `SumApartHolds`, `MeanApartHolds`, `LongCallAnswersHolds`. In long calls a register is a
  number of enabled cycles behind the input, not of samples, so `NInv` (end of
  `PipelineN`) says what each holds as a function of the clock: `Sent` is the sample sent d
  cycles ago, `Firsts` what the valid bit that far behind may be, `Less` what the
  differences' lag makes of it. `ValidLag` and `DataLag` are how far behind the bits and the data of a
  stage are; they are not the same, and what makes the bits of the one good for the data of
  the other is `SentTaken`: samples come in every cycle, or stay for longer than the whole
  pipeline takes. An enabled cycle moves every register one further (`EnabledN`); an idle one only the
  three valid chains, which `FirstsIdle` and `LessDrifts` show to mean the same there, since a
  long call has emptied them. `OneOrLong` is exact for `LongCallAnswers`: calls of `Latency` cycles answer
  with the sample before.
* `ReconstructProofs`: `TypeCorrect`, `WholeFoldsHold`, `TracksSignalHolds`: unlimited sensing for
  every threshold, resolution, word width and signal that meet `SamplingAssumption` and
  `RangeAssumption`. The residual of a difference is a multiple of twice the threshold, and so is
  the change of the signal's folds; under the sampling condition the two are less than
  such a multiple apart, so they are equal (`OneMultiple`, `ResidualIsFolds`). `FoldsAccumulated`
  (end of `Reconstruct`) sums this up: the accumulator is the folds and a constant the first
  sample left, and stays within its word, so that no sum wraps.
* The same module: `WindowSumHolds` and `MeanWithinHolds`, for every window up to 127, word width and
  signal. The history keeps running totals, so a step moves each by the new sample and no
  fold over the window is needed. `WindowInv` (end of `Reconstruct`) says that each place of the
  buffer holds the sample as old as its distance to the index (`Age`), that what is
  older than the first sample is zero (hence `ReplacedIsOldest`, whether the window is full or not),
  and that i samples on one side of a bound have a total on that side of i times the bound
  (`TotalsBounded`). The last gives both that the sum never leaves its word
  (`TotalFits`, from `SumAssumption`) and, taken at one above and one below the mean, that the
  mean lies within the samples.
* The same module, for both copies of the C model: `ModelTypeCorrect`, `StartForgottenHolds` and
  `FollowsFoldsHolds`, for orders 1 to 3 and every threshold, window, DAC and signal that meet
  `RiseAssumption` and `WindowAssumption`. `ModelInv` (end of `CModel`) has four parts. The
  folds of each sample are a whole number within the threshold of the signal, so they grow
  by one fold at most from sample to sample (`FoldsNear`, `OneFold`). A difference
  in the buffers and the same difference of the folds make one of the signal, which is less than
  the threshold (`DifferencesNear`); so the modulo residual is exactly that of the folds
  (`ResidualExact`). Every stage holds since its `Start` what it ought to, and some constant
  (`StageHas`: the last stage ought to have the folds, `Exact`, the one before how much
  they grew, the first of three how much that did). And a filter's buffer and sum are those
  of totals that each new value moves up by one place (`HasTotals`, `FilterMoves`). A full window takes
  the constant out of what a stage hands on and puts the mean of the window in; the totals of a
  window telescope, so that mean is of at most two folds in all (`ExactBound`) and the rounding of
  the next stage removes it (`RoundedNear`, `OneStage`). Each stage therefore starts a window
  after the one before (`StartFacts`), and the last is exact when the samples are `Settled`.
* The same module, for the hardware beside the C model: `FirstOrderMatchesHolds`. The
  agreement is inductive with the accumulators, before their rounding, equal as well and
  `ModelInv`, by which they are whole numbers of folds (`FirstOrderInv`, `RoundingWhole`).
* `I2cDriverProofs`: `TypeCorrect`, `AddressFirstHolds`, `NeverBackHolds`, for every FIFO depth, message length
  and number of attempts. `AddressFirst` needs to know what may follow a stop in the
  FIFO: `QueueInv` (an address, and restarts only with one), `StartInv` (what is taken
  after a stop or a flush is one), `MessageInv` (in the middle of a message that was not
  refused the core is in its frame and has not seen its stop) and `HandlerInv`
  (the handler, which clears the ISR and so ends a flush, runs only when no
  message is being written). `NeverBack` rests on `CallsInOrder`: the calls of the byte the
  DAC shows, of the byte being shifted and of the commands in the FIFO never decrease, and
  none is later than the program's.
* The same module: `PolledSuccessHolds`, `WholeUnlessLapsedHolds`, `NothingLeftHolds`,
  `TimeoutFromBusHolds`, and `LinkKeptHolds`, the refinement of `DacLink`, for the same
  constants. The commands of a call are a script (`Script`), of which `Written` have been
  written and `Popped` taken. Until a wait runs out a transfer under way is `Intact` (what
  is in the FIFO, in the shifter, in the frame, in the receive FIFO with the buffer, and on the
  DAC all follow from how much of the script is taken) or `Refused` (a byte was refused or
  the bus lost, all that was queued is gone, and the flags tell), and between transfers all is
  `Settled`. `NeverStuck` is the step that matters: a core that has all of a script or has
  been refused it becomes idle by itself, so that a wait that runs out with the bus free is for a byte that
  was dropped. `StatusInv` ties the status to these. What holds even afterwards is `CoreInv`
  and `PlaceInv`; with `CallsInOrder` they give what `DacLink` promises while disturbed.

Only model-checked: calls of the pipelines that are neither of one cycle nor longer than
their latency, beyond what holds for all patterns. Liveness (`RoundEnds`, `CallsReturn`,
`InterruptSendEnds`) is out of the prover's reach.

## 5. Not modelled

* The baseline datapath (`reconstruction_top.sv`, `modulo_residual.sv`) and the
  floating-point converters: not in the built system.
* The bit-level serial engine of the ADC (both clock edges, shifting) and the I2C core's.
* Torn words on the unsynchronised crossings of `measure_fifo_num` and `measure_fifo_ch`, and
  metastability.
* Single-precision rounding in the C model, and the functions nothing calls; words of
  24 bits (the runs use narrower ones with the same proportions; the proofs have any width).
* Ten-bit I2C addresses, the setting of speed and address, empty transfers; the start-up and
  error exits of the streaming program.
* Calls of the order-n instruction that change the order in flight.
* The generated system, the BSP but its I2C driver, the top-level wiring, the testbenches
  (stimulus without checks) and the older ADC demo.

`PROJECT.json` lists each with its reason, and the hazards no property covers with theirs.

## 6. Plan

What is left, in order of importance:

1. `SpiEngine`: `adc_ltc2308.v` and the chip at the half-cycle level, shown to implement the
   conversion-level engine of `AdcFifo` through a refinement mapping.
2. `PipelineN` with calls that change the order in flight.
3. The streaming loop closed with the I2C driver: its start-up and error exits.
4. The baseline datapath, against `Reconstruct`.
