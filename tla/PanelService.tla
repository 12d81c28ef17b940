---------------------------- MODULE PanelService ----------------------------
(***************************************************************************)
(* What the display engine promises a host that waits for BUSY: a picture  *)
(* that changes only while the panel refreshes, and that is the rendering  *)
(* of the RAM when a refresh finishes.  How a refresh gets there (which    *)
(* sequence, how many steps, line by line or not) is not said.             *)
(***************************************************************************)
EXTENDS Frame

VARIABLES
  version,   \* 1 or 2, fixed when the chip starts
  phase,     \* "idle" (BUSY low), "refreshing" or "asleep" (BUSY high)
  image,     \* the frame buffer
  ram        \* the display RAM

service == <<version, phase, image, ram>>

Init ==
  /\ version \in {1, 2}
  /\ phase = "idle"
  /\ image \in Images
  /\ ram = ResetRam

WriteRam ==
  /\ phase = "idle"
  /\ ram' \in Rams
  /\ UNCHANGED <<version, phase, image>>

(* A refresh starts on the host's command, or because a reset left the     *)
(* activation timer running.                                               *)
Start ==
  /\ phase = "idle" /\ phase' = "refreshing"
  /\ image' \in Images
  /\ UNCHANGED <<version, ram>>

Progress ==
  /\ phase = "refreshing"
  /\ image' \in Images
  /\ UNCHANGED <<version, phase, ram>>

Finish ==
  /\ phase = "refreshing" /\ phase' = "idle"
  /\ image' = FinalImage(version, ram)
  /\ UNCHANGED <<version, ram>>

Sleep ==
  /\ phase = "idle" /\ phase' = "asleep"
  /\ UNCHANGED <<version, image, ram>>

Reset ==
  /\ phase' = "idle"
  /\ image' \in Images
  /\ ram' = ResetRam
  /\ UNCHANGED version

Next == WriteRam \/ Start \/ Progress \/ Finish \/ Sleep \/ Reset

Spec == Init /\ [][Next]_service

=============================================================================
