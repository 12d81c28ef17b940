-------------------------- MODULE ResetLineProofs --------------------------
(* What the RST watcher guarantees, for every pulse width. *)
EXTENDS ResetLine, TLAPS

(* Until a reset falls into the pulse, the chip's clock has run at least   *)
(* as long as the pulse; a pin that is high has no pulse running.          *)
PulseIsCovered ==
  /\ rst = HIGH => lowFor = 0
  /\ rst = LOW /\ ~fresh => sinceReset >= lowFor

IndInv == TypeOK /\ PulseIsCovered

(* The invariant of the watcher holds in every state. *)
THEOREM Invariance == Spec => []IndInv
<1> USE ResetAssumption DEF ResetAssumption
<1>1. Init => IndInv
  BY DEF Init, IndInv, TypeOK, PulseIsCovered, LOW, HIGH
<1>2. ASSUME IndInv, [Next]_vars
      PROVE  IndInv'
  <2> USE <1>2 DEF IndInv, TypeOK, PulseIsCovered, LOW, HIGH
  <2>1. CASE RisingEdge
    <3>1. rst' \in {LOW, HIGH} /\ sinceReset' \in 0 .. MaxTime /\ lowFor' \in 0 .. MaxTime
      BY <2>1 DEF RisingEdge, PulseSeen, chip_reset
    <3>2. fresh' \in BOOLEAN
      BY <2>1, Zenon DEF RisingEdge, PulseSeen, chip_reset
    <3>3. PulseIsCovered'
      BY <2>1 DEF RisingEdge, PulseSeen, chip_reset
    <3> QED
      BY <3>1, <3>2, <3>3
  <2>2. CASE FallingEdge
    <3>1. rst' \in {LOW, HIGH} /\ sinceReset' \in 0 .. MaxTime /\ lowFor' \in 0 .. MaxTime
      BY <2>2 DEF FallingEdge
    <3>2. fresh' \in BOOLEAN
      BY <2>2, Zenon DEF FallingEdge
    <3>3. PulseIsCovered'
      BY <2>2 DEF FallingEdge
    <3> QED
      BY <3>1, <3>2, <3>3
  <2>3. CASE OtherReset
    <3>1. rst' \in {LOW, HIGH} /\ sinceReset' \in 0 .. MaxTime /\ lowFor' \in 0 .. MaxTime
      BY <2>3 DEF OtherReset, chip_reset
    <3>2. fresh' \in BOOLEAN
      BY <2>3, Zenon DEF OtherReset, chip_reset
    <3>3. PulseIsCovered'
      BY <2>3 DEF OtherReset, chip_reset
    <3> QED
      BY <3>1, <3>2, <3>3
  <2>4. CASE Tick
    <3>1. rst' \in {LOW, HIGH} /\ sinceReset' \in 0 .. MaxTime /\ lowFor' \in 0 .. MaxTime
      BY <2>4 DEF Tick, Later
    <3>2. fresh' \in BOOLEAN
      BY <2>4, Zenon DEF Tick, Later
    <3>3. PulseIsCovered'
      BY <2>4 DEF Tick, Later
    <3> QED
      BY <3>1, <3>2, <3>3
  <2>5. CASE UNCHANGED vars
    BY <2>5 DEF vars
  <2> QED
    BY <1>2, <2>1, <2>2, <2>3, <2>4, <2>5 DEF Next
<1> QED
  BY <1>1, <1>2, PTL DEF Spec

(* A pulse of full width resets the chip, whenever the reset before it     *)
(* was: on_reset_pin_change compares the time since that reset, not the    *)
(* length of the pulse, and loses no full pulse by it.                     *)
THEOREM FullPulsesReset == Spec => FullPulseResets
<1> USE ResetAssumption DEF ResetAssumption
<1>1. ASSUME IndInv, [Next]_vars
      PROVE  [RisingEdge /\ lowFor >= RESET_PULSE => fresh']_vars
  <2> SUFFICES ASSUME RisingEdge, lowFor >= RESET_PULSE
               PROVE  fresh'
    OBVIOUS
  <2>1. CASE fresh
    BY <2>1 DEF RisingEdge, PulseSeen, chip_reset
  <2>2. CASE ~fresh
    <3>1. sinceReset >= RESET_PULSE
      BY <1>1, <2>2 DEF IndInv, TypeOK, PulseIsCovered, RisingEdge
    <3> QED
      BY <3>1 DEF RisingEdge, PulseSeen, chip_reset
  <2> QED
    BY <2>1, <2>2
<1> QED
  BY <1>1, Invariance, PTL DEF Spec, FullPulseResets
=============================================================================
