------------------------------- MODULE Ws29v2 -------------------------------
(***************************************************************************)
(* The whole chip behind its pins: the command receiver (Spi), which calls *)
(* the handlers of the display RAM (RamWindow) and of the display engine   *)
(* (Panel), and the three ways to reset them all.                          *)
(*                                                                         *)
(* A callback of the simulator is an operator on the chip, a record of the *)
(* three components' records.  A line has one byte; the pixel that stands  *)
(* for it is the last of the byte, its lowest bit.                         *)
(***************************************************************************)
EXTENDS Frame, Sequences

CONSTANTS
  HeapWords,                                  \* see Panel
  MAX_DATA_TXFER, Codes, Bytes, BeyondTable,  \* see Spi
  Variants                                    \* the attributes <<version, actMode>>

VARIABLES spi, cs, mem, panel

vars == <<spi, cs, mem, panel>>

LineBit(byte) == IF byte % 2 = 1 THEN 1 ELSE 0
Picture(m) == [bw |-> [l \in Lines |-> LineBit(m.bw[l])],
               color |-> [l \in Lines |-> LineBit(m.color[l])]]

Rx == INSTANCE Spi WITH Polite <- FALSE, host <- [cmd |-> 0, sent |-> 0, clocked |-> FALSE]
Ram == INSTANCE RamWindow WITH LineBytes <- 1, ByteSize <- 256, PorByte <- 255,
                               Targets <- {"bw", "color"}, Payloads <- {}, EntryModes <- {}
Engine == INSTANCE Panel WITH HostWaits <- FALSE, ram <- Picture(mem)

LOW == 0
HIGH == 1

ASSUME ChipAssumption ==
  /\ Height \in Nat \ {0} /\ Height < 256 * 256
  /\ HeapWords # {} /\ HeapWords \subseteq Colours
  /\ MAX_DATA_TXFER \in Nat \ {0}
  /\ Codes \subseteq 0 .. 255 /\ Bytes \subseteq 0 .. 255 /\ 0 \in Bytes
  /\ BeyondTable \subseteq 0 .. 255 /\ BeyondTable # {}
  /\ Variants # {} /\ Variants \subseteq Engine!Versions \X Engine!ActModes

-----------------------------------------------------------------------------
(* The commands that do something (Spi!Known has them all). *)

CMD_DEEP_SLEEP == 16
CMD_DATA_ENTRY_MODE == 17
CMD_SW_RESET == 18
CMD_MASTER_ACTIVATION == 32
CMD_DISP_UPD_CTL2 == 34
CMD_WRITE_RAM_BW == 36
CMD_WRITE_RAM_COLOR == 38
CMD_WRITE_RAM_X_COORDS == 68
CMD_WRITE_RAM_Y_COORDS == 69
CMD_WRITE_RAM_X_ADDR_CTR == 78
CMD_WRITE_RAM_Y_ADDR_CTR == 79

-----------------------------------------------------------------------------
(* Callbacks *)

Chip == [spi |-> spi, mem |-> mem, panel |-> panel]

chip_reset(c) == [spi |-> Rx!chip_reset(c.spi), mem |-> Ram!ResetMem,
                  panel |-> Engine!chip_reset(c.panel)]

(* What a handler does to the display engine and to the RAM; d is          *)
(* chip->data.  The handlers that are not named do nothing, or only log.   *)
EngineHandler(p, m, call, d) ==
  CASE call.cmd = CMD_DEEP_SLEEP -> Engine!on_cmd_deep_sleep(p, d[1])
    [] call.cmd = CMD_MASTER_ACTIVATION -> Engine!on_cmd_master_activation(p, Picture(m))
    [] call.cmd = CMD_DISP_UPD_CTL2 -> Engine!on_cmd_disp_upd_ctl2(p, d[1])
    [] OTHER -> p

RamHandler(m, call, d) ==
  CASE call.cmd = CMD_DATA_ENTRY_MODE -> Ram!on_cmd_data_entry_mode(m, d)
    [] call.cmd = CMD_WRITE_RAM_BW -> Ram!on_cmd_write_ram(m, "bw", call.args)
    [] call.cmd = CMD_WRITE_RAM_COLOR -> Ram!on_cmd_write_ram(m, "color", call.args)
    [] call.cmd = CMD_WRITE_RAM_X_COORDS -> Ram!on_cmd_write_ram_x_coords(m, d)
    [] call.cmd = CMD_WRITE_RAM_Y_COORDS -> Ram!on_cmd_write_ram_y_coords(m, d)
    [] call.cmd = CMD_WRITE_RAM_X_ADDR_CTR -> Ram!on_cmd_write_ram_x_addr_ctr(m, d)
    [] call.cmd = CMD_WRITE_RAM_Y_ADDR_CTR -> Ram!on_cmd_write_ram_y_addr_ctr(m, d)
    [] OTHER -> m

(* e->handler(chip).  A handler finds the command's bytes at the start of  *)
(* chip->data, and behind them whatever earlier commands have left there.  *)
handler(c, call) ==
  IF call.cmd = CMD_SW_RESET THEN chip_reset(c)
  ELSE [c EXCEPT !.panel = EngineHandler(@, c.mem, call, c.spi.data),
                 !.mem = RamHandler(@, call, c.spi.data)]

HandleAll_newestFirst(c, calls) ==             \* mutant
  CASE Len(calls) = 0 -> c
    [] Len(calls) = 1 -> handler(c, calls[1])
    [] OTHER -> handler(handler(c, calls[2]), calls[1])

(* The handlers a callback calls: none, one, or that of a command flushed  *)
(* and then that of the command byte.                                      *)
HandleAll(c, calls) ==
  CASE Len(calls) = 0 -> c
    [] Len(calls) = 1 -> handler(c, calls[1])
    [] OTHER -> handler(handler(c, calls[1]), calls[2])

(* The data byte that fills the buffer. *)
Overflows(s) == s.mode = HIGH /\ s.data_ndx + 1 >= MAX_DATA_TXFER

(* on_spi_done and all it calls: a completed transfer, if one was armed. *)
Receive(c, byte) ==
  LET s == [c.spi EXCEPT !.calls = <<>>]
      received == [c EXCEPT !.spi = Rx!on_spi_done([s EXCEPT !.armed = FALSE], byte)]
  IN  IF ~s.armed THEN [c EXCEPT !.spi = s]
      ELSE IF Overflows(s) THEN [chip_reset(received) EXCEPT !.spi = received.spi]
      ELSE [HandleAll(received, received.spi.calls) EXCEPT !.spi = received.spi]

-----------------------------------------------------------------------------
(* The chip, driven by any host. *)

Init ==
  /\ Rx!Init
  /\ mem = Ram!ResetMem
  /\ Engine!Init
  /\ <<panel.version, panel.actMode>> \in Variants

Becomes(c) == spi' = c.spi /\ mem' = c.mem /\ panel' = c.panel

SetCS(value) == Rx!SetCS(value) /\ UNCHANGED <<mem, panel>>

SetDC(value) == Rx!SetDC(value) /\ UNCHANGED <<mem, panel>>

CommandByte(c) == spi.mode = LOW /\ Becomes(Receive(Chip, c)) /\ UNCHANGED cs

DataByte(b) == spi.mode = HIGH /\ Becomes(Receive(Chip, b)) /\ UNCHANGED cs

(* A pulse on the RST pin (see ResetLine). *)
ResetPulse ==
  Becomes(chip_reset([Chip EXCEPT !.spi = [@ EXCEPT !.calls = <<>>]])) /\ UNCHANGED cs

ActivationTimer == UNCHANGED <<spi, cs, mem>> /\ Engine!ActivationTimer

Next ==
  \/ \E v \in {LOW, HIGH} : SetCS(v) \/ SetDC(v)
  \/ \E c \in Codes : CommandByte(c)
  \/ \E b \in Bytes : DataByte(b)
  \/ ResetPulse
  \/ ActivationTimer

Spec == Init /\ [][Next]_vars

-----------------------------------------------------------------------------
(* Properties *)

(* The data index does not leave the buffer, nor the step index its        *)
(* sequence.  Where the RAM's pointer is depends on the host, which may    *)
(* send any coordinate (see RamWindow, and EpdDriver for the driver's).    *)
TypeOK ==
  /\ Rx!TypeOK
  /\ panel.act_ndx <= Len(panel.cur_act_seq)
  /\ panel.busy \in {LOW, HIGH} /\ panel.act_scan_ndx \in Lines

(* What holds of the engine on its own still holds where one callback both *)
(* writes the RAM and starts a refresh, where a command short of its data  *)
(* runs with a stale byte, and where the buffer overflows into a reset.    *)
EngineSound ==
  /\ Engine!SequenceFromTable
  /\ Engine!TimerFollowsSequence
  /\ Engine!BusyPastStart
  /\ Engine!ScanWithinStep

(* One callback may end a RAM write and start a refresh: the refresh       *)
(* paints what that very write has left in the RAM.                        *)
CallsOf(s) == {s.calls[i].cmd : i \in DOMAIN s.calls}

RefreshSeesWrite ==
  [][/\ \E c \in Codes : CommandByte(c)
     /\ \E write \in {CMD_WRITE_RAM_BW, CMD_WRITE_RAM_COLOR} :
          CallsOf(spi') = {write, CMD_MASTER_ACTIVATION}
     /\ Engine!CompletedStep' \in Engine!WalkSteps
     => panel'.frame = [l \in Lines |->
                          Engine!StepPixel(panel', Picture(mem'), Engine!CompletedStep', l)]]_vars

=============================================================================
