------------------------------ MODULE DacLink ------------------------------
(***************************************************************************)
(* What the driver's transfer functions promise a program that sends       *)
(* values to the DAC (the text of altera_avalon_i2c.h on master_tx and     *)
(* master_tx_rx): one call at a time, the DAC shows nothing but the bytes  *)
(* of the current call, never goes back to an earlier one, and a call      *)
(* answers ok only when the last of its bytes is shown.  While disturbed   *)
(* (a wait has run out, or another master has taken the bus) only that the *)
(* DAC never goes back is promised.                                        *)
(***************************************************************************)
EXTENDS Naturals

CONSTANT Size   \* data bytes of a call; the first is the DAC's control byte, which
                \* is not shown

VARIABLES
  n,          \* calls made
  writes,     \* the current call sends values
  answer,     \* of the last call; "none" while it lasts
  shown,      \* the byte the DAC shows
  disturbed

vars == <<n, writes, answer, shown, disturbed>>

Init ==
  /\ n = 0 /\ writes \in BOOLEAN /\ answer = "ok"
  /\ shown = [n |-> 0, pos |-> 0] /\ disturbed \in BOOLEAN

Ask ==
  /\ answer # "none" /\ answer' = "none"
  /\ n' = n + 1 /\ writes' \in BOOLEAN
  /\ UNCHANGED shown

Show ==
  /\ answer = "none" /\ writes
  /\ \E i \in 2..Size : shown' = [n |-> n, pos |-> i]
  /\ UNCHANGED <<n, writes, answer>>

Answer ==
  /\ answer = "none" /\ answer' \in {"ok", "failed"}
  /\ answer' = "ok" /\ writes /\ Size > 1 /\ ~disturbed => shown = [n |-> n, pos |-> Size]
  /\ UNCHANGED <<n, writes, shown>>

ShowDisturbed ==
  /\ disturbed
  /\ \E m \in shown.n..n, i \in 0..Size : shown' = [n |-> m, pos |-> i]
  /\ UNCHANGED <<n, writes, answer>>

Disturb == UNCHANGED <<n, writes, answer, shown>>

Next == /\ Ask \/ Show \/ Answer \/ ShowDisturbed \/ Disturb
        /\ disturbed' \in BOOLEAN

Spec == Init /\ [][Next]_vars
=============================================================================
