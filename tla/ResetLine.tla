----------------------------- MODULE ResetLine -----------------------------
(***************************************************************************)
(* The watcher of the RST pin, which decides by the simulator's clock      *)
(* whether a rising edge resets the chip.                                  *)
(*                                                                         *)
(* Time advances in steps; the two spans of time a property or the code    *)
(* compares with the pulse width are kept up to MaxTime and stay there.    *)
(***************************************************************************)
EXTENDS Naturals

CONSTANTS
  RESET_PULSE,   \* the pulse width, in steps (RESET_PULSE_MS)
  MaxTime        \* spans of time are told apart up to here

ASSUME ResetAssumption ==
  /\ RESET_PULSE \in Nat \ {0}
  /\ MaxTime \in Nat /\ MaxTime >= RESET_PULSE

LOW == 0
HIGH == 1

VARIABLES
  rst,          \* level of the RST pin
  sinceReset,   \* now - chip->reset_time
  lowFor,       \* how long the pin has been low, 0 while it is high
  fresh         \* the chip has been reset since the pin last fell

vars == <<rst, sinceReset, lowFor, fresh>>

TypeOK ==
  /\ rst \in {LOW, HIGH}
  /\ sinceReset \in 0 .. MaxTime /\ lowFor \in 0 .. MaxTime
  /\ fresh \in BOOLEAN

(* chip_init ends with a reset; the host may hold the pin at either level. *)
Init ==
  /\ rst \in {LOW, HIGH}
  /\ sinceReset = 0 /\ lowFor = 0
  /\ fresh = TRUE

chip_reset_keepsTime == UNCHANGED sinceReset /\ fresh' = TRUE     \* mutant

(* Every reset of the chip restarts the clock the pin watcher reads. *)
chip_reset == sinceReset' = 0 /\ fresh' = TRUE

PulseSeen_strict == sinceReset > RESET_PULSE           \* mutant: <= for <

PulseSeen == sinceReset >= RESET_PULSE

RisingEdge ==
  /\ rst = LOW
  /\ rst' = HIGH /\ lowFor' = 0
  /\ IF PulseSeen THEN chip_reset ELSE UNCHANGED <<sinceReset, fresh>>

(* The reset timer of the falling edge is commented out. *)
FallingEdge ==
  /\ rst = HIGH
  /\ rst' = LOW /\ fresh' = FALSE
  /\ UNCHANGED <<sinceReset, lowFor>>

(* Command 0x12, or a data overflow. *)
OtherReset ==
  /\ chip_reset
  /\ UNCHANGED <<rst, lowFor>>

Later(t) == IF t < MaxTime THEN t + 1 ELSE t

Tick ==
  /\ sinceReset' = Later(sinceReset)
  /\ lowFor' = IF rst = LOW THEN Later(lowFor) ELSE 0
  /\ UNCHANGED <<rst, fresh>>

Next == RisingEdge \/ FallingEdge \/ OtherReset \/ Tick

Spec == Init /\ [][Next]_vars

-----------------------------------------------------------------------------
(* Properties *)

(* A pulse of full width leaves a chip that has been reset since the pulse *)
(* began, whenever the last reset before it was and whatever other resets  *)
(* fell into it.                                                           *)
FullPulseResets == [][RisingEdge /\ lowFor >= RESET_PULSE => fresh']_vars

=============================================================================
