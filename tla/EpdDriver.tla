----------------------------- MODULE EpdDriver -----------------------------
(***************************************************************************)
(* The Waveshare driver of the test sketch (class Epd) as the host of the  *)
(* chip, with a microcontroller that may restart at any moment.            *)
(*                                                                         *)
(* A call of the driver is a script of steps: a command byte, the data     *)
(* bytes of a command, a pulse on RST, a wait for BUSY.  All data bytes of *)
(* a command are one step: none but the last does more than fill the       *)
(* receiver's buffer, which the activation timer does not look at.         *)
(*                                                                         *)
(* The panel is one byte wide; rows of a picture are bytes.                *)
(***************************************************************************)
EXTENDS Frame, Sequences

CONSTANTS
  HeapWords, MAX_DATA_TXFER, Variants,   \* see Ws29v2
  Pictures,                              \* the images it draws: rows of one byte
  Shades,                                \* the bytes it clears the RAM with
  MaxRestarts                            \* bound on the restarts

VARIABLES
  spi, cs, mem, panel,   \* the chip (see Ws29v2)
  epd,                   \* the call in progress and the steps left of it
  drawn,                 \* what has been drawn since the driver last reset the chip
  restarts

Device == INSTANCE Ws29v2 WITH Codes <- {}, Bytes <- 0 .. 255, BeyondTable <- {0}

chipVars == <<spi, cs, mem, panel>>
vars == <<spi, cs, mem, panel, epd, drawn, restarts>>

LOW == 0
HIGH == 1

ASSUME DriverAssumption ==
  /\ Height \in Nat \ {0} /\ Height < 256 * 256
  /\ HeapWords # {} /\ HeapWords \subseteq Colours
  /\ Variants # {} /\ Variants \subseteq Device!Engine!Versions \X Device!Engine!ActModes
  /\ MAX_DATA_TXFER \in Nat /\ MAX_DATA_TXFER > 154 /\ MAX_DATA_TXFER > Height
  /\ Shades \subseteq 0 .. 255 /\ MaxRestarts \in Nat
  /\ \A p \in Pictures : p # <<>> /\ p \in Seq(0 .. 255)

-----------------------------------------------------------------------------
(* Steps of a call *)

Cmd(c) == <<[op |-> "command", code |-> c]>>
Data(bytes) == <<[op |-> "data", bytes |-> bytes]>>
Send(c, bytes) == Cmd(c) \o Data(bytes)
SendRows(c, ram, y, rows) ==
  Cmd(c) \o <<[op |-> "rows", ram |-> ram, first |-> y, bytes |-> rows]>>
Pulse == <<[op |-> "pulse"]>>
WaitUntilIdle == <<[op |-> "wait"]>>

-----------------------------------------------------------------------------
(* Calls of the driver *)

CoordBytes(n) == <<n % 256, n \div 256>>

SetMemoryArea(y, y_end) == Send(68, <<0, 0>>) \o Send(69, CoordBytes(y) \o CoordBytes(y_end))

SetMemoryPointer(y) == Send(78, <<0>>) \o Send(79, CoordBytes(y)) \o WaitUntilIdle

(* A table's bytes say nothing to the chip: one of them stands for all. *)
SetLut == Send(50, [i \in 1 .. 153 |-> 128]) \o WaitUntilIdle

SetLut_by_host ==
  SetLut \o Send(63, <<34>>) \o Send(3, <<23>>) \o Send(4, <<65, 0, 50>>) \o Send(44, <<54>>)

InitScript ==
  Pulse \o WaitUntilIdle
    \o Cmd(18) \o WaitUntilIdle
    \o Send(1, <<39, 1, 0>>) \o Send(17, <<3>>)
    \o SetMemoryArea(0, Height - 1)
    \o Send(33, <<0, 128>>)
    \o SetMemoryPointer(0) \o WaitUntilIdle
    \o SetLut_by_host

OnPanel_whole(y, image) == image               \* mutant

(* The rows of an image that lie on the panel. *)
OnPanel(y, image) ==
  IF y + Len(image) >= Height THEN SubSeq(image, 1, Height - y) ELSE image

PutRows(y, image) ==
  LET rows == OnPanel(y, image)
  IN  SetMemoryArea(y, y + Len(rows) - 1) \o SetMemoryPointer(y) \o SendRows(36, "bw", y, rows)

SetFrameMemory(y, image) == PutRows(y, image)

SetFrameMemory_Base(image) == PutRows(0, image) \o SendRows(38, "color", 0, image)

ClearFrameMemory(color) == PutRows(0, [l \in 1 .. Height |-> color])

Activate(sequence) == Send(34, <<sequence>>) \o Cmd(32) \o WaitUntilIdle

SetFrameMemory_Partial(y, image) ==
  Pulse \o SetLut \o Send(55, <<0, 0, 0, 0, 0, 64, 0, 0, 0, 0>>) \o Send(60, <<128>>)
    \o Activate(192) \o PutRows(y, image)

DisplayFrame == Activate(199)

DisplayFrame_Partial == Activate(15)

Sleep == Send(16, <<1>>)

-----------------------------------------------------------------------------
(* The chip's view of a byte: DC, the edge of CS if it is one, the byte,   *)
(* and CS high again.  Only after a restart can CS be low before.          *)

Select(s, level) == IF level = HIGH THEN Device!Rx!on_cs_pin_change(s, LOW) ELSE s

Clocked(c, dc, byte, level) ==
  LET s == Device!Rx!on_dc_pin_change(c.spi, dc)
  IN  Device!Receive([c EXCEPT !.spi = Select(s, level)], byte)

(* Bytes that do not complete the command only fill the buffer. *)
OnlyFill(s, n) ==
  /\ s.data_ndx + n < MAX_DATA_TXFER
  /\ Device!Rx!InTable(s.cmd) = Device!Rx!OPEN \/ s.data_ndx + n < Device!Rx!InTable(s.cmd)

Filled(c, bytes) ==
  LET s == c.spi
      from == s.data_ndx
      to == from + Len(bytes)
      data == [i \in DOMAIN s.data |-> IF i \in from + 1 .. to THEN bytes[i - from] ELSE s.data[i]]
  IN  [c EXCEPT !.spi = [s EXCEPT !.data = data, !.data_ndx = to, !.calls = <<>>, !.mode = HIGH]]

DataClocked(c, bytes) ==
  LET n == Len(bytes)
      fill == IF n > 0 /\ OnlyFill(c.spi, n - 1) THEN n - 1 ELSE 0
      after[i \in fill .. n] ==
        IF i = fill THEN (IF fill = 0 THEN c ELSE Filled(c, SubSeq(bytes, 1, fill)))
                    ELSE Clocked(after[i - 1], HIGH, bytes[i], HIGH)
  IN  after[n]

Becomes(c) == spi' = c.spi /\ mem' = c.mem /\ panel' = c.panel

-----------------------------------------------------------------------------
(* The driver and its microcontroller *)

Init ==
  /\ Device!Init
  /\ epd = [call |-> "Init", todo |-> InitScript]
  /\ drawn = ResetRam
  /\ restarts = 0

Step(op) == epd.todo # <<>> /\ Head(epd.todo).op = op
Now == Head(epd.todo)
Done == epd' = [epd EXCEPT !.todo = Tail(@)] /\ UNCHANGED restarts

SendCommand ==
  /\ Step("command")
  /\ Becomes(Clocked(Device!Chip, LOW, Now.code, cs)) /\ cs' = HIGH
  /\ drawn' = IF Now.code = 18 THEN ResetRam ELSE drawn
  /\ Done

SendData ==
  /\ Step("data")
  /\ Becomes(DataClocked(Device!Chip, Now.bytes)) /\ cs' = HIGH
  /\ UNCHANGED drawn
  /\ Done

Overlay(lines, y, rows) ==
  [l \in Lines |-> IF l \in y .. y + Len(rows) - 1 THEN Device!LineBit(rows[l - y + 1])
                                                   ELSE lines[l]]

SendPicture ==
  /\ Step("rows")
  /\ Becomes(DataClocked(Device!Chip, Now.bytes)) /\ cs' = HIGH
  /\ drawn' = [drawn EXCEPT ![Now.ram] = Overlay(@, Now.first, Now.bytes)]
  /\ Done

(* RST low for milliseconds: a full pulse (see ResetLine).  It is Init's,  *)
(* or that of SetFrameMemory_Partial, which so takes from the chip all     *)
(* that was drawn before: drawn begins anew with either.                   *)
PulseReset ==
  /\ Step("pulse")
  /\ Device!ResetPulse
  /\ drawn' = ResetRam
  /\ Done

ReadIdle ==
  /\ Step("wait") /\ panel.busy = LOW
  /\ UNCHANGED <<chipVars, drawn>>
  /\ Done

Call(name, script) ==
  /\ epd.todo = <<>> /\ (epd.call = "Sleep" => name = "Init")
  /\ epd' = [call |-> name, todo |-> script]
  /\ UNCHANGED <<chipVars, drawn, restarts>>

AnyCall ==
  \/ Call("Init", InitScript)
  \/ \E image \in Pictures, y \in Lines :
       \/ Call("Draw", SetFrameMemory(y, image))
       \/ Call("Draw", SetFrameMemory_Partial(y, image))
  \/ \E image \in Pictures : Len(image) = Height /\ Call("Draw", SetFrameMemory_Base(image))
  \/ \E color \in Shades : Call("Draw", ClearFrameMemory(color))
  \/ Call("Show", DisplayFrame)
  \/ Call("Show", DisplayFrame_Partial)
  \/ Call("Sleep", Sleep)

(* The microcontroller restarts, with some of the bytes of the current     *)
(* step sent, and with CS as it happens to be: in a CS window that has or  *)
(* has not had its byte, or outside one.                                   *)
SentBefore ==
  IF Step("data") \/ Step("rows")
  THEN {SubSeq(Now.bytes, 1, k) : k \in {0, 1, Len(Now.bytes) - 1}}
  ELSE {<<>>}

Restart ==
  /\ restarts < MaxRestarts /\ restarts' = restarts + 1
  /\ \E sent \in SentBefore, level \in {LOW, HIGH}, opened \in BOOLEAN :
       LET c == DataClocked(Device!Chip, sent)
       IN  /\ opened => level = LOW
           /\ Becomes(IF opened THEN [c EXCEPT !.spi = Select(@, HIGH)] ELSE c)
           /\ cs' = level
  /\ epd' = [call |-> "Init", todo |-> InitScript]
  /\ UNCHANGED drawn

ActivationTimer == Device!ActivationTimer /\ UNCHANGED <<epd, drawn, restarts>>

Host == SendCommand \/ SendData \/ SendPicture \/ PulseReset \/ ReadIdle

Next == Host \/ AnyCall \/ Restart \/ ActivationTimer

Spec == Init /\ [][Next]_vars

(* The sketch goes on with the call it is in, and the simulator fires a    *)
(* started timer.  What a Host step does to epd says when one is enabled.  *)
HostGoesOn ==
  /\ epd.todo # <<>> /\ (Step("wait") => panel.busy = LOW)
  /\ epd' = [epd EXCEPT !.todo = Tail(@)]

FairSpec == Spec /\ WF_epd(HostGoesOn) /\ WF_vars(ActivationTimer)

-----------------------------------------------------------------------------
(* Properties *)

Returned == epd.todo = <<>>

(* Between a restart and the pulse Init begins with, the chip holds what   *)
(* is left of the life before.                                             *)
Interrupted == epd.call = "Init" /\ Step("pulse")

(* The display RAM with the write the receiver still buffers: a picture of *)
(* open length is executed by the command byte that follows it.            *)
PendingWrite == spi.data_ndx > 0 /\ spi.cmd \in {36, 38}
Settled ==
  IF PendingWrite
  THEN Device!Ram!on_cmd_write_ram(mem, IF spi.cmd = 36 THEN "bw" ELSE "color", Device!Rx!Args(spi))
  ELSE mem

(* Since the last reset the driver gave the chip (Init, or the pulse of    *)
(* SetFrameMemory_Partial) each row drawn is where it was meant, in the    *)
(* RAM it was meant for, and no other row has changed.  Of what was drawn  *)
(* before that reset nothing is said: a base picture under a partial one   *)
(* is gone.                                                                *)
RamHoldsDrawing == Interrupted \/ Device!Picture(Settled) = drawn

(* When a display call returns, the panel shows what has been drawn since  *)
(* the last reset the driver gave the chip: also after a restart in the    *)
(* middle of a refresh, whose timer is still running.                      *)
DisplayShowsDrawing ==
  Returned /\ epd.call = "Show"
    => panel.frame = FinalImage(panel.version, drawn) /\ panel.timer = "off"

(* The chip checks no coordinate: it is the driver that keeps window and   *)
(* pointer on the panel, between any two commands, for pictures clipped at *)
(* the lower edge and with the write that is still buffered.               *)
AfterWrite == INSTANCE RamWindow WITH
  mem <- Settled, LineBytes <- 1, ByteSize <- 256, PorByte <- 255,
  Targets <- {"bw", "color"}, Payloads <- {}, EntryModes <- {}

StaysOnPanel == Interrupted \/ AfterWrite!TypeOK

(* The driver and the chip's table agree on the length of each command: no *)
(* handler runs short of data, where it would read bytes of an earlier     *)
(* command, not even for a command that a restart cut off.                 *)
NoneCutShort ==
  \A i \in DOMAIN spi.calls :
    LET call == spi.calls[i]
    IN  Device!Rx!InTable(call.cmd) \in {Len(call.args), 255}

(* Every call of the driver returns: no wait for BUSY lasts for ever.      *)
CallsReturn == (epd.todo # <<>>) ~> (epd.todo = <<>>)

-----------------------------------------------------------------------------
(* What the documentation says and the code does not do. *)

(* epd2in9_V2.cpp, Sleep: "The deep sleep mode would return to standby by  *)
(* hardware reset."                                                        *)
AsleepUntilReset ==
  [][epd.call = "Sleep" /\ Returned => UNCHANGED panel]_vars

=============================================================================
