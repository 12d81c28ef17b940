-------------------------------- MODULE Spi --------------------------------
(***************************************************************************)
(* The command receiver of the chip: the CS and DC pin watchers, the SPI   *)
(* transfer the simulator completes with on_spi_done, and the dispatch of  *)
(* a command to its handler (on_command).                                  *)
(*                                                                         *)
(* The fields of ws29v2_ctx_t this component owns form the record spi.     *)
(* Its field calls lists the handlers the last callback called, with the   *)
(* data each was given: what the handlers do is modelled by the components *)
(* they belong to.  The record also holds two things that are not in the   *)
(* struct: what lies behind the end of cmd_data_bytes, and the number of   *)
(* times the last command byte's handler has been called.                  *)
(***************************************************************************)
EXTENDS Naturals, Sequences

CONSTANTS
  MAX_DATA_TXFER,   \* size of the data buffer
  Codes,            \* the command codes a host sends
  Bytes,            \* the data bytes it sends
  BeyondTable,      \* what may lie behind the last entry of cmd_data_bytes
  Polite            \* the host follows the data sheet, alone on its bus

LOW == 0
HIGH == 1

-----------------------------------------------------------------------------
(* The commands *)

CMD_SW_RESET == 18   \* 0x12

(* The codes of cmd_entries. *)
Known ==
  {1, 3, 4, 12}                                \* 0x01, 0x03, 0x04, 0x0C
    \cup 16 .. 18                              \* 0x10 - 0x12
    \cup {32, 33, 34, 36, 38} \cup 40 .. 46    \* 0x20 - 0x22, 0x24, 0x26, 0x28 - 0x2E
    \cup 48 .. 50 \cup 54 .. 60 \cup {63}      \* 0x30 - 0x32, 0x36 - 0x3C, 0x3F
    \cup {68, 69, 78, 79}                      \* 0x44, 0x45, 0x4E, 0x4F
    \cup {255}                                 \* 0xFF

cmd_data_bytes == <<
  (* 0x *) 0, 3, 0, 1, 3, 0, 0, 0, 0, 0, 0, 0, 3, 0, 0, 0,
  (* 1x *) 1, 1, 0, 0, 0, 0, 0, 0, 0, 0, 0, 0, 0, 0, 0, 0,
  (* 2x *) 0, 2, 1, 0, 255, 0, 255, 0, 0, 1, 0, 2, 1, 11, 10, 0,
  (* 3x *) 0, 0, 153, 0, 0, 0, 0, 10, 10, 1, 1, 1, 1, 0, 0, 1,
  (* 4x *) 0, 0, 0, 0, 2, 4, 0, 0, 0, 0, 0, 0, 0, 0, 1, 2 >>

TableSize == 80
OPEN == 255          \* a command of open length

(* cmd_data_bytes[c]: from 0x50 on, whatever the linker put there. *)
InTable(c) == cmd_data_bytes[c + 1]
DataBytes(s, c) == IF c < TableSize THEN InTable(c) ELSE s.beyond[c]

ASSUME SpiAssumption ==
  /\ MAX_DATA_TXFER \in Nat \ {0}
  /\ Codes \subseteq 0 .. 255 /\ 0 \in Bytes /\ BeyondTable \subseteq 0 .. 255
  /\ BeyondTable # {}
  /\ Polite \in BOOLEAN

-----------------------------------------------------------------------------
(* Handlers *)

Args(s) == [i \in 1 .. s.data_ndx |-> s.data[i]]

on_command_keepsCmd(s) ==               \* mutant: chip->cmd = 0 left out
  IF s.cmd \in Known
  THEN [s EXCEPT !.calls = Append(@, [cmd |-> s.cmd, args |-> Args(s), nth |-> s.runs + 1]),
                 !.runs = @ + 1, !.data_ndx = 0]
  ELSE s

(* An unknown command is left where it is, its data bytes with it. *)
on_command(s) ==
  IF s.cmd \in Known
  THEN [s EXCEPT !.calls = Append(@, [cmd |-> s.cmd, args |-> Args(s), nth |-> s.runs + 1]),
                 !.runs = @ + 1, !.data_ndx = 0, !.cmd = 0]
  ELSE s

start_spi_transfer(s) == [s EXCEPT !.armed = TRUE]

on_spi_command_byte_keepsNdx(s, b) ==   \* mutant: chip->data_ndx = 0 left out
  LET received == [s EXCEPT !.cmd = b, !.runs = 0]
  IN  IF DataBytes(s, b) # 0 THEN start_spi_transfer(received) ELSE on_command(received)

on_spi_command_byte(s, b) ==
  LET received == [s EXCEPT !.cmd = b, !.data_ndx = 0, !.runs = 0]
  IN  IF DataBytes(s, b) # 0 THEN start_spi_transfer(received) ELSE on_command(received)

chip_reset_keepsCommand(s) == s         \* mutant: cmd and data_ndx are left as they are

chip_reset(s) == [s EXCEPT !.cmd = 0, !.data_ndx = 0]

OnDataByte_noLimit(s, b) ==             \* mutant: the overflow test left out
  LET stored == [s EXCEPT !.data[s.data_ndx + 1] = b, !.data_ndx = @ + 1]
      expected == DataBytes(s, s.cmd)
  IN  IF expected = OPEN \/ stored.data_ndx < expected THEN stored
      ELSE on_command(stored)

OnDataByte_oneMore(s, b) ==             \* mutant: <= for <
  LET stored == [s EXCEPT !.data[s.data_ndx + 1] = b, !.data_ndx = @ + 1]
      expected == DataBytes(s, s.cmd)
  IN  IF stored.data_ndx >= MAX_DATA_TXFER THEN chip_reset(stored)
      ELSE IF expected = OPEN \/ stored.data_ndx <= expected THEN stored
      ELSE on_command(stored)

(* A byte with DC high.  The command stays pending while it is of open     *)
(* length or short of bytes.                                               *)
OnDataByte(s, b) ==
  LET stored == [s EXCEPT !.data[s.data_ndx + 1] = b, !.data_ndx = @ + 1]
      expected == DataBytes(s, s.cmd)
  IN  IF stored.data_ndx >= MAX_DATA_TXFER THEN chip_reset(stored)
      ELSE IF expected = OPEN \/ stored.data_ndx < expected THEN stored
      ELSE on_command(stored)

OnCommandByte_noFlush(s, b) == on_spi_command_byte(s, b)     \* mutant

(* A command byte ends the command before it, and runs it first if it has  *)
(* data left.                                                              *)
OnCommandByte(s, b) ==
  on_spi_command_byte(IF s.data_ndx > 0 THEN on_command(s) ELSE s, b)

on_spi_done(s, b) == IF s.mode = LOW THEN OnCommandByte(s, b) ELSE OnDataByte(s, b)

(* Only the falling edge of CS does anything. *)
on_cs_pin_change(s, value) == IF value = LOW THEN start_spi_transfer(s) ELSE s

on_dc_pin_change(s, value) == [s EXCEPT !.mode = value]

-----------------------------------------------------------------------------
(* The component on its own, driven by a host. *)

VARIABLES
  spi,    \* the chip
  cs,     \* level of the CS pin
  host    \* a polite host's view: the command it is sending (0: none), the number
          \* of data bytes sent for it, whether this CS window has had its byte

vars == <<spi, cs, host>>

Calls == [cmd: Known, args: Seq(Bytes), nth: Nat]

TypeOK ==
  /\ spi \in [cmd: 0 .. 255, data_ndx: 0 .. MAX_DATA_TXFER - 1,
              data: [1 .. MAX_DATA_TXFER -> Bytes], mode: {LOW, HIGH}, armed: BOOLEAN,
              beyond: [Codes \ (0 .. TableSize - 1) -> BeyondTable],
              calls: Seq(Calls), runs: Nat]
  /\ cs \in {LOW, HIGH}
  /\ host \in [cmd: 0 .. 255, sent: Nat, clocked: BOOLEAN]

NoCommand == [cmd |-> 0, sent |-> 0, clocked |-> FALSE]

Init ==
  /\ \E b \in [Codes \ (0 .. TableSize - 1) -> BeyondTable], m \in {LOW, HIGH} :
       spi = chip_reset([cmd |-> 0, data_ndx |-> 0, data |-> [i \in 1 .. MAX_DATA_TXFER |-> 0],
                         mode |-> m, armed |-> FALSE, beyond |-> b,
                         calls |-> <<>>, runs |-> 0])
  /\ cs = HIGH
  /\ host = NoCommand

(* Each callback starts a new list of calls. *)
Ready == [spi EXCEPT !.calls = <<>>]

(* What the host still owes the command it is sending. *)
HostIsDone ==
  \/ host.cmd = 0
  \/ DataBytes(spi, host.cmd) = OPEN
  \/ host.sent = DataBytes(spi, host.cmd)

HostMaySendData ==
  /\ host.cmd # 0
  /\ IF DataBytes(spi, host.cmd) = OPEN THEN host.sent + 1 < MAX_DATA_TXFER
                                        ELSE host.sent < DataBytes(spi, host.cmd)

SetCS(value) ==
  /\ cs # value
  /\ cs' = value
  /\ spi' = on_cs_pin_change(Ready, value)
  /\ host' = [host EXCEPT !.clocked = FALSE]

SetDC(value) ==
  /\ Polite => cs = HIGH
  /\ spi.mode # value
  /\ spi' = on_dc_pin_change(Ready, value)
  /\ UNCHANGED <<cs, host>>

(* The bus clocks a byte.  The transfer completes if one is armed; the     *)
(* chip does not look at CS.                                               *)
Clock(b) == spi' = IF spi.armed THEN on_spi_done([Ready EXCEPT !.armed = FALSE], b) ELSE Ready

SendCommand(c) ==
  /\ spi.mode = LOW
  /\ Polite => cs = LOW /\ ~host.clocked /\ HostIsDone /\ c \in Known \ {255}
  /\ Clock(c)
  /\ host' = IF Polite THEN [cmd |-> c, sent |-> 0, clocked |-> TRUE] ELSE host
  /\ UNCHANGED cs

SendData(b) ==
  /\ spi.mode = HIGH
  /\ Polite => cs = LOW /\ ~host.clocked /\ HostMaySendData
  /\ Clock(b)
  /\ host' = IF Polite THEN [host EXCEPT !.sent = @ + 1, !.clocked = TRUE] ELSE host
  /\ UNCHANGED cs

(* The RST pin, whose pulse the host gives between two bytes. *)
Reset ==
  /\ Polite => cs = HIGH
  /\ spi' = chip_reset(Ready)
  /\ host' = NoCommand
  /\ UNCHANGED cs

Next ==
  \/ \E v \in {LOW, HIGH} : SetCS(v) \/ SetDC(v)
  \/ \E c \in Codes : SendCommand(c)
  \/ \E b \in Bytes : SendData(b)
  \/ Reset

Spec == Init /\ [][Next]_vars

-----------------------------------------------------------------------------
(* Properties *)

(* No handler runs twice for one command byte: after a dispatch the        *)
(* pending command is 0, which no handler answers to, so the data bytes a  *)
(* host still sends are collected for nobody.                              *)
AtMostOnce == \A i \in 1 .. Len(spi.calls) : spi.calls[i].nth = 1

(* No handler of a command of known length is given more bytes than the   *)
(* table says: on_cmd_write_otp_data copies all it is given into a buffer  *)
(* of that size.                                                           *)
NeverOverfed ==
  \A i \in 1 .. Len(spi.calls) :
    \/ DataBytes(spi, spi.calls[i].cmd) = OPEN
    \/ Len(spi.calls[i].args) <= DataBytes(spi, spi.calls[i].cmd)

(* The buffer never holds as many bytes of a known command as complete it, *)
(* so a command byte that finds some runs a command cut short or of open   *)
(* length.                                                                 *)
PendingIsShort ==
  spi.cmd \in Known => \/ DataBytes(spi, spi.cmd) = OPEN
                       \/ spi.data_ndx < DataBytes(spi, spi.cmd)

(* For a host that follows the data sheet, the receiver is the command     *)
(* link: buffering, arming and the flush of the previous command lose,     *)
(* reorder, repeat and alter nothing.                                      *)
Link == INSTANCE CommandLink
          WITH Commands <- Codes, MaxData <- MAX_DATA_TXFER, DataBytes <- InTable,
               pending <- [cmd |-> spi.cmd, args |-> IF spi.cmd = 0 THEN <<>> ELSE Args(spi)],
               executed <- [i \in 1 .. Len(spi.calls) |->
                              [cmd |-> spi.calls[i].cmd, args |-> spi.calls[i].args]]

ImplementsLink == Link!Spec

=============================================================================
