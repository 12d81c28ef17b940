# Verification of the WS29V2 e-paper chip

This directory holds TLA+ models of the Wokwi custom chip in `src/` (a
Waveshare 2.9" e-paper module, versions 1 and 2), the TLC configurations that
check them on small instances, and proofs, checked by TLAPS, of what must hold
for every size. Paths below are relative to the repository (`src/...` in
`PROJECT.json` is the repository's root; so `src/src/ws29v2.chip.c` there is
`src/ws29v2.chip.c` here).

## 1. Inventory

The chip is one C program driven by callbacks of the simulator: pin edges, the
completion of an SPI transfer, the expiry of a timer. Callbacks run one at a
time and to their end, so the interleavings that matter are those *between*
callbacks. All state is in `ws29v2_ctx_t`.

| Component | State | Operations | Talks to |
|---|---|---|---|
| Display engine (`ws29v2.commands.c`) | `act_seq`, `cur_act_seq`, `act_ndx`, `act_scan_ndx`, `disp_upd_seq`, `sleeping`, the BUSY pin, the activation timer, the frame buffer | master activation, display update control 2, deep sleep, one timer step, reset | reads the display RAM; BUSY is the host's only feedback |
| Command receiver (`ws29v2.chip.c`) | `cmd`, `data_ndx`, `data`, `mode`, an armed transfer | CS and DC edges, `on_spi_done`, `on_command` | calls the handler of every other component |
| RST watcher (`ws29v2.chip.c`) | `reset_time` | edges of RST | resets everything |
| RAM addressing (`ws29v2.commands.c`) | window, pointer, entry mode, `bw_ram`, `color_ram` | four coordinate commands, entry mode, two RAM writes, reset | fed by the receiver, read by the engine |
| Command table (`hashmap.c`) | `cmd_map` | filled at start, one look-up in each command | used by `on_command` |
| Start-up, simulator interface, debug output | attributes, handles | `chip_init` | the initial states of all of the above |
| Waveshare driver (`test/src/epd2in9_V2.cpp`) | none but its pins | Init, the frame memory calls, the display calls, Sleep | the host: sends bytes, pulses RST, waits for BUSY |
| Paint library, fonts, images (`test/`) | | | not part of the chip |

What makes each component right, and what is hard about it:

* **Display engine.** A refresh runs over tens of timer periods. Meanwhile the
  host, the RST pin and the software reset may restart it, put it to sleep or
  rewrite the RAM; nobody stops the one-shot timer. BUSY is written by three
  parties (engine, sleep, reset). Right means: BUSY is never stuck, a refresh
  ends, and what it leaves on the panel is the RAM.
* **Command receiver.** Bytes carry no framing except DC. A command of open
  length (0x24, 0x26) runs only when the next command byte comes; commands of
  known length run on their last byte; the table of lengths is shorter than the
  code space. Right means: each command runs once, with its own data.
* **RST watcher.** The length of a pulse is not measured; the time since the last
  reset is. Right means at least: no full pulse is lost.
* **RAM addressing.** Five commands set up the pointer and the window, in any
  order, and a write checks nothing. Right means: writes stay inside the RAM and
  inside the window, and a full write fills it row by row.
* **Command table.** Linear probing, a gap-closing removal, growth, copied keys and
  failing allocations. Right means: it is a dictionary, and owns the keys it has copied.
* **Whole chip.** One callback can run the handlers of two components, and three
  callers reset them all. Right means: what each component keeps on its own it keeps
  in the composition, and a refresh sees the write that the same byte has ended.
* **Driver and chip.** The microcontroller can restart while the chip goes on: in a
  command, in a CS window, in a refresh whose timer nobody stops. Right means: after
  `Init` the RAM and the display are what the driver draws, and its waits end.

The hazards, each at its line and with the properties aimed at it, are listed in
`PROJECT.json`.

## 2. Modules

Handlers are operators from a component's record to the record the handler
leaves (`on_activation_step(p, ram)`, `on_spi_done(s, b)`), so that a callback
that runs several of them composes them, and `Ws29v2` can compose the
components. Actions call them. Operators marked `\* mutant` are the plausible bugs
that show each property can fail; no action uses them.

| Module | Models | Abstracts |
|---|---|---|
| `Frame` | the display RAM, the frame buffer, how a bit is rendered | a scan line is one pixel: the painters treat the pixels of a line alike |
| `Panel` | display engine, BUSY, deep sleep, reset, activation timer | only the order of timer and commands is kept, not the length of a period |
| `PanelService` | what the engine promises: write, start, progress, finish, sleep, reset | |
| `Spi` | CS/DC watchers, `on_spi_done`, dispatch | a handler's call is recorded in `calls`, not executed |
| `CommandLink` | what the receiver promises: a link that delivers commands | |
| `ResetLine` | `on_reset_pin_change` | time in steps, spans capped at `MaxTime` |
| `RamWindow` | coordinates, pointer, RAM writes | |
| `Hashmap` | `hashmap.c` without statistics, with copied keys | any hash function |
| `Dictionary` | what the map promises | |
| `Ws29v2` | the chip behind its pins: `Spi`, `RamWindow` and `Panel` composed | a line is one byte, shown by its last pixel |
| `EpdDriver` | the driver's calls and a microcontroller that restarts, around `Ws29v2` | the data bytes of a command are one step; a panel one byte wide |
| `PanelProofs`, `SpiProofs`, `ResetLineProofs`, `RamWindowProofs`, `HashmapProofs`, `Ws29v2Proofs`, `EpdDriverProofs` | the proofs about the module of that name | |
| `Counting` | induction on the passes of a loop, lines and columns of a rectangle | |
| `MC...` | instances for TLC | |

**State and code.** `panel` holds the engine's fields under their own names;
`panel.timer` is the activation timer: off, running for a step, or running for a
scan line. `black` and `white` are the buffers of `alloc_and_init_fb`, whose
contents are any words of the heap (`HeapWords`), because the function returns
the pointer it has moved behind the words it filled. `spi.armed` is the
transfer `spi_start` began and the simulator has not completed; `spi.beyond` is
what lies behind the 80 entries of `cmd_data_bytes` (chosen once, arbitrarily);
`spi.runs` and `spi.calls` are observations. In `mem` the addresses are pixels, as in
the code. `hb` is `struct hashmap_base`; `iter`, `visited` and `reserved` observe an
iteration and the last successful reserve; `copies` counts the allocated copies of each key.

`Ws29v2` instantiates `Spi`, `RamWindow` and `Panel` over the same records. `Receive` is
`on_spi_done` with everything it calls: it runs the calls that `Spi` recorded (`HandleAll`),
or the reset of an overflow. A handler reads its arguments from `spi.data`, so a command cut
short reads what earlier commands left there. In `EpdDriver`, `epd` is the call in progress and the
steps left of it; `drawn` is what has been drawn since the driver last reset the chip, kept by the driver's
own arguments and not by the chip's addressing. It begins anew with `Init` and with the pulse of `SetFrameMemory_Partial`
(`PulseReset`): what was drawn before that call is lost in the chip, and `drawn` does not claim otherwise.

**Hosts.** Each module has a host that may do anything, and one that follows the
rules, chosen by a constant: `HostWaits` (sends a command only with BUSY low; resets come at any time: an ideal of
`WaitUntilIdle`, since the driver waits once and then sends several commands, which `EpdDriver` has), `Polite` (one byte in
each CS window, DC set while CS is high, all the data of a command, as
`SendCommand` and `SendData` do, and nobody else on the bus). `RamWindow`'s host keeps its coordinates on
the panel: off it, the writes overwrite other memory and nothing can be said.
`Ws29v2`'s host may clock any byte, change any pin and reset at any moment. `EpdDriver` is
the real host: class `Epd` with its scripts of commands taken call by call from the source. Its
sketch may call what it likes, in any order, but after `Sleep` calls `Init` first, as the comment of
`Sleep` asks. A restart may fall between any two bytes, with CS left low (then the edge that arms
the first transfer may be missing) or high.

## 3. Runs

| Run | Checks | Instance | Distinct states |
|---|---|---|---|
| `panel_waits` | `TypeOK`, `BusyIsReleased`, `RefreshShowsRam`, `RefreshTerminates`, `ImplementsService` | 3 lines, host waits | 237,824 |
| `panel_free` | `ScanWithinStep`, `FullStepPaintsAll`, `ImageStableWhenIdle` | 3 lines, host does not wait | 640,512 |
| `spi_free` | `TypeOK`, `AtMostOnce`, `NeverOverfed`, `PendingIsShort` | one code of each kind, buffer of 5 | 4,164 |
| `spi_polite` | `ImplementsLink` | data sheet host, bytes 0 and 1 | 2,736 |
| `reset_line` | `FullPulseResets` | pulse of 4 steps, spans up to 9 | 130 |
| `ram_window` | `TypeOK`, `WindowClosed`, `FullWindowWrite` | 2 bytes by 3 lines, payloads up to 7 bytes | 34,560 |
| `hashmap` | `TypeOK`, `NeverStuck`, `NoneSkipped`, `KeysOwned`, `ReserveHolds`, `ImplementsDictionary` | 5 keys, tables of 4 and 8, reserves of 1 and 5, failing allocations | 62,800 (up to symmetry) |
| `chip` | `TypeOK`, `EngineSound`, `RefreshSeesWrite` | version 2, modes 1 and 3, 2 lines, buffer of 3, any host | 227,232 |
| `driver` | `RamHoldsDrawing`, `DisplayShowsDrawing`, `StaysOnPanel`, `NoneCutShort`, `CallsReturn` | version 1 in mode 1 and version 2 in mode 3, 2 lines, 3 pictures, one restart | 584,320 |

**Why the bounds are enough.** In `chip`, the codes are sleep, software reset, activation and both
writes; a buffer of three overflows on the third byte. The coordinate commands are left out there, because any
byte would be a coordinate and most are off the panel; `driver` covers them. In `driver`, the two lines are the
first and the last; the pictures have one row and two, so that they are also clipped at the lower edge; `Height` of them
make `SetFrameMemory_Base` possible. The buffer (160) is longer than the look-up table (153), so none of the driver's commands
overflows it, as in the chip. One restart finds the chip in any state a call can leave it in; with two (739,777
states on the scan-line board), and on the boards with version 1 in modes 0 and 2 and version 2 in mode 1, the same configuration passes too. All the data bytes of a command are one step because
all but the last only fill the buffer (`OnlyFill` checks that, and where it does not hold the bytes are clocked one by one), and the
activation timer looks at nothing in the receiver. The mode that scans line by line is the one with the most timer steps in a step of its
sequence and the only one whose line counter a reset can find above 0.

In the other runs, three lines are a first, a middle and a last one, which is
all the line counter's code tells apart. Both versions and all activation modes are in every
panel run. The codes of `MCSpi` are one of each kind the receiver distinguishes: no
data, one and two bytes, open, unknown, and beyond the table with and without a handler;
`BeyondTable` has a zero, a length and the open mark. A buffer of 5 is longer than the
longest fixed command used and short enough to overflow. `MaxTime` exceeds twice the pulse, so
a reset can be older, younger and as old as a pulse; later is not told apart. Bytes of `ByteSize` 2
make the high byte of a coordinate count on three lines. The payloads of `RamWindow` are zeros with a one at one place: a
byte that lands anywhere else than it should shows. The two hash functions of `MCHashmap` give two chains that
meet around the end of the table, and keys that collide in the small table only; three of the five keys are
told apart by neither and are symmetric. Five keys fill a table of four, which is what `NeverStuck` needs. The minimum and default sizes are 4 where the code has 32 and 128,
and the rule that grows the table is the code's.

**What they show that a test would hardly reach.**
`DisplayShowsDrawing` holds although the timer of a refresh survives the restart and the pulse: the stale refresh may
start between any two commands of `Init` or of a drawing call, but one that is under way when 0x20 arrives is taken over by
it, and one that is not has BUSY raised before the driver looks. `RefreshSeesWrite` is about the one byte that both ends the
write of a picture and starts its refresh. `RamHoldsDrawing` compares the chip's addressing with the rows the driver was
asked to draw since it last reset the chip, through clipping, windows, the second frame without a new pointer, and the picture that is still in the receiver's
buffer when the call returns. It says nothing of a base picture under a partial one, which the chip does not keep (see
Disagreements). `StaysOnPanel` is why nothing is written off the panel with this driver, although the chip checks no coordinate and two
commands set the ends of a window and two the pointer: it holds between any two of them, for pictures clipped at the lower edge. `NoneCutShort` says why a command cut short, which reads stale bytes, does not occur with
this driver: after a restart a pending command is dropped by the pulse, never flushed. `KeysOwned` follows the copies of keys through growth, moves and failures.
`ScanWithinStep` is the reason the full-frame painters, which start at
`act_scan_ndx` without setting it, never skip the top of the frame; it needs the resets of
both `chip_reset` and `on_cmd_master_activation`. `RefreshShowsRam` holds although a
reset leaves the old timer running: the stale timer finds `act_ndx` 0 and walks the whole
old sequence, whose last step is a full one. `BusyIsReleased` needs the waiting host: deep sleep mode 0
clears `sleeping` and leaves BUSY high. `AtMostOnce` rests on `on_command` clearing `cmd`, and
`NeverOverfed` is what keeps the unchecked `memcpy` of `on_cmd_write_otp_data` inside its ten bytes.
`FullPulseResets` shows that measuring from the last reset loses no full pulse, even if a software
reset falls into it. `FullWindowWrite` includes the return of the pointer to the origin, on which the driver relies when it
sends the colour frame after the black and white one. `ImplementsDictionary` covers the
gap-closing removal in chains that wrap around, and a put that goes on in the old table when growth fails.

**Deadlock** is checked in every run; in no model can the system stop.

**Fairness.** `RefreshTerminates` needs weak fairness of `ActivationTimer` alone. The
simulator fires a started one-shot timer, and nothing a host may do while BUSY is high disables it
(a reset does not stop it either). Nothing is assumed of the host there. `CallsReturn` also needs the sketch to go on
with the call it is in, which is what a running microcontroller does: weak fairness of the host's steps, written as
`HostGoesOn`, what such a step does to `epd`, which is enabled exactly when a step of the host is. Calls are not fair (the sketch may stop calling)
and neither are restarts. `driver_sleep` is refuted under the same fairness.

### Disagreements

Three runs end in a violation, each of something a comment says (quoted in `PROJECT.json`):

| Run | What the code does |
|---|---|
| `driver_sleep` | a reset does not stop the timer: a refresh cut off by a restart wakes the chip up after `Init` and `Sleep`, repaints the panel and releases BUSY |
| `panel_black` | the black frame is read from behind the initialised words |
| `hashmap_iter` | removing at the end of the table makes an iteration return an entry twice |

More were met while modelling. The models have them, but no run is spent on them:

* The stale timer of `driver_sleep` also refreshes a chip that is just reset, unasked, although `README.md:41` has a reset
  take the chip "to power on" (`chip_reset` in `Panel`).
* A transfer armed in a CS window stays armed after it and takes a byte clocked while CS is high, although by `README.md:26` the
  module "is addressed using the CS pin" (`on_cs_pin_change` in `Spi`).
* The data entry mode is stored and never read, although `README.md:48` lists it as supported (`write_ram_byte` in `RamWindow`).
* `sleeping` is set and never read; the comment at `ws29v2.h:63`, "SPI disabled when on (!?)", is not what happens.
* `SetFrameMemory_Partial` resets the chip, which wipes the RAM: the rest of the picture turns white. `README.md:56` says that
  partial update is not supported well yet, so this is no contradiction, and no property covers it; the sketch
  (`test/src/epd2in9_V2.ino:106-141`) draws its clock over a base picture this way, and the base picture is gone with the first of them.
* `SetFrameMemory_Base` writes the same image to both RAMs; on a version 2 board each white pixel of it comes out in colour.
* `actMode` 2, described in `README.md:68` as fading in and out, selects a sequence without a fade step
  (`ws29v2.commands.c:75`; `activation_modes` in `Panel`).
* A command of known length that the next command byte cuts short is run with what it has, although the
  comment at `ws29v2.chip.c:222` speaks of variable strings of data only (`OnCommandByte` in `Spi`).
* A pulse of any length resets a chip whose last reset is long enough ago: the time compared is not that
  for which the pin was low, as the comment at `ws29v2.chip.c:265` has it (`PulseSeen` in `ResetLine`).
* The hash table is sized for the entries before a put, so its load passes the 0.75 of `hashmap.c:42` by one
  entry, 97 of 128 (`Put` in `Hashmap`).

## 4. Proofs

TLAPS checks the following for every value of the constants.

**`PanelProofs`** (assumption `PanelAssumption`: at least one line, some heap word, a Boolean
`HostWaits`). The properties are not inductive. `IndInv` is `TypeOK` with `PanelInv` (both in
`Panel`): the sequence walked is one of the two master activation selects (`SequenceFromTable`);
a stopped engine is at its start and a started one has a sequence (`TimerFollowsSequence`); an
engine past its start has BUSY high (`BusyPastStart`); a line counter above 0 belongs to a scan
step under way (`ScanWithinStep`); and for a host that waits, BUSY is released and what the last
step has painted so far is final (`BusyIsReleased`, `PaintedIsFinal`). The last conjunct needs the
host: a RAM write between the last scan lines of a refresh would make it false. From it
follow `TypeCorrect`, `ScanStaysWithinStep`, `FullStepsPaintAll` and `ImageIsStableWhenIdle` for
any host, and `BusyAlwaysReleased`, `RefreshShowsTheRam` and the refinement
`PanelImplementsService` for a host that waits.

**`SpiProofs`** (`SpiAssumption`). The invariant says of a pending command that a handler
answers to that it has not been run and is short of data or of open length. One lemma for
each handler shows that it leaves a receiver of this kind; the actions compose them. Results: `TypeCorrect`
(the data index stays inside the buffer), `RunsAtMostOnce`, `HandlersAreNotOverfed`,
`PendingStaysShort`, for a host that clocks any bytes at any pin levels.

`SpiImplementsLink` is the refinement of `CommandLink`, for a polite host (`Polite` is its hypothesis: a host that breaks
the data sheet gets no such promise). It needs, besides the invariant above, that chip and host agree (`Agreed`): the pending command is the one the host
is sending, with as many bytes as it has sent, and a CS window that has had no byte yet has a transfer armed. Without the first, the
next command byte could flush what the host never sent; without the second, its byte would be lost. Each of the
receiver's steps is then a step of the link: a command byte its `Command`, with the flush of the open command before it, a data byte its
`Data`, an overflow or a reset its `Reset`, and the edges its `Quiet`.

**`ResetLineProofs`** (`ResetAssumption`). While no reset has fallen into a pulse, the
chip's clock has run at least as long as the pulse; hence `FullPulsesReset`.

**Loops.** A RAM write, a search, a rehash and the removal of an entry loop, and the models write a loop as a recursive
function of the number of passes. What it leaves after any number of them is proved from what one pass does: `CountUp`
(`Counting`) is induction over `0 .. n` with the cases that hold given as a set, proved from the well-foundedness of `<`. So each loop has a lemma that
the recursion has a solution, one about a pass, with the loop invariant as a predicate of its own, and one about the whole loop.

**`RamWindowProofs`** (`RamAssumption`: a panel whose lines and columns fit the two address bytes). `OnPanel` is inductive: pointer and
window on the panel, and the fields of the memory; it gives `AlwaysOnPanel` and `TypeCorrect`, hence that the unchecked store of `write_ram_byte` stays
inside its buffer. `WriteByte` is one pass, and says that neither 16-bit addition in it wraps. `Kept`, pointer in the
window and nothing outside changed, is the loop invariant of `WritesStayInWindow`; `Filled`, the first `k` bytes in
their places and the pointer at the next, that of `FullWriteFillsWindow`, which includes the return to the origin. Both hold for any length of
data. Windows that are empty or that the pointer is outside of are in `AlwaysOnPanel`, not in the other two: the code writes outside them.

**`HashmapProofs`** (`HashmapAssumption`: sizes are powers of two, the error codes are no data; any set of keys, any hash function of them, any
capacities, allocations that fail at any time). Why searches succeed is that the table has a *cut* (`Cut`): a
slot behind which the circle of slots can be cut open so that each entry stands at or behind its home and no slot between is empty.
`SearchHit` and `SearchMiss` say what `hashmap_entry_find` finds in such a table. A put keeps the cut
(`InsertGood`), a rehash builds one entry by entry (`RehashGood`), and `RemoveGood` is about the walk that closes the gap of a removal. Its
loop invariant `Closing` says that the slots other than the gap hold the entries other than the removed one, each once, that no entry passed has the gap
between its home and itself, and that the slots not yet reached are untouched. On top is the inductive `Inv`:

* `TableInv`: the table is of a power of two slots, holds no key twice and has a cut, and `size` counts its entries;
* `OwnedInv`: each key has as many copies as the table has entries of it;
* `IterInv`: an iterator stands at an entry, and every entry before it has been returned;
* `ReserveInv`: the initial and the current size are large enough for what was reserved;
* `NeverStuck`, about the answer of the last call; it rests on `TableInv`: a put finds no slot only in a full table, and a table that was full would have grown, or the put has said `ENOMEM`.

From it follow `MapTypeCorrect`, `PutNeverStuck`, `CopiesOwned`, `IterationComplete`, `CapacityReserved`, and, with the contents
of the table as a function from keys to data (`MapOf`), the refinement `IsDictionary`, call by call. That an iteration returns
nothing twice is not among them: it does (`hashmap_iter`).

**`Ws29v2Proofs`** (`ChipAssumption`). `EngineSound` is what `PanelProofs` keeps for any host; behind the receiver it
needs a proof of its own, since one callback runs several handlers on whatever bytes the buffer holds. `Sound` is the invariant,
written for any panel a handler may be given: the fields it has, the ranges of the two indices, and the four parts of `EngineSound`. One
lemma for each engine operation shows that it preserves `Sound`, another that `Receive`, whatever it calls,
does; the receiver's and the RAM's records are arbitrary in them. Result: `ChipKeepsEngineSound`, for a host that clocks any bytes at any
pin levels, any buffer size, any overrun of the command table and any height.

`RefreshPaintsLastWrite` is the property of a single callback with two handlers. `CallsOfCommandByte` says that a command byte calls at most
the handler of the command it flushes and then its own; a write has data bytes, so it cannot be the second (`FlushThenRefresh`). Its
handler leaves the engine alone (`WriteHandler`), and that of the activation leaves the RAM alone and starts the refresh from it
(`ActivationHandler`), whose first step, if it is a full one, paints every line from that RAM (`ActivationPaints`).

The receiver of the chip is the one of `Spi` with a host that does as it likes (`ChipImplementsReceiver`): each step of the chip is one of the
receiver's or leaves it alone, because whatever a handler does to the rest, software reset and overflow included, the receiver is left as it leaves itself.
So the theorems of `SpiProofs`, taken by `INSTANCE` with the constants of the chip (`RxP`), hold of the whole chip
(`ReceiverAlwaysGood`, `ChipReceivesSoundly`).

`ChipTypeCorrect` joins the receiver's invariant, which types the data and the arguments a handler finds, and `Sound`. It holds for every
host. It says nothing of the RAM's pointer: the chip does not look at coordinates, and any byte of a host, or one left in the buffer by an earlier
command, would be one. That is a matter of the host: `RamWindowProofs` has it for a host that keeps its coordinates on the panel, and `DriverStaysOnPanel` for the driver.

**`EpdDriverProofs`** (`DriverAssumption`: the height fits the two address bytes, a picture is a non-empty sequence of bytes, and the
buffer is longer than a table and than a picture one byte wide, so that none of the driver's commands overflows it). The four safety properties of the
driver, for every height, buffer, picture, variant of the board, order of calls and moment of a restart. Nothing of the kind is inductive: in the middle of a call the chip holds some
of what the call is for, and what that is depends on the place in the script. The argument has four parts.

* *Scripts.* The scripts are data, so the proof does not go through their places one by one, but through what holds of every script (`WellFormed`): a command with data
  and its data are two steps in a row, an activation follows data, a pulse comes first, and a picture is `Aimed`, with window and pointer set to its
  rows in the steps just before, or before the picture for the other RAM. `Join` and `AimedAnywhere` say that scripts put together keep this, and `AllWellFormed` that
  every call's script has it.
* *Receiver.* `CommandEffect`, `DataEffect` and `CommandLost`: what a command byte does, with the flush of the picture before it; what all the data of a command do, filled in or
  clocked one by one; and that a byte for which no transfer is armed does nothing.
* *RAM and engine.* The lemmas of `RamWindowProofs` and `PanelProofs`, in instances over the chip's own `mem` and `panel`. `RowsWritten` says that a write of the window's rows from
  its start puts each in its line, leaves the others, and takes the pointer back. `PanelProofs` is instantiated twice: with a host that does not wait (`P`), whose invariant holds always, and with one
  that does (`PT`), whose invariant holds from the third step of a call that shows the picture, where the activation has run and the driver does nothing but wait.
* *Invariant.* `Inv`: no handler was cut short; the engine keeps its invariant; and either the driver was interrupted (`Interrupted`: restarted, and before the pulse of `Init`), or it is
  `k` steps into a script `S` (`Live`). `Live` has three parts. `Received`: the receiver buffers nothing but a picture, and expects the data of the last
  step if that was a command. `Drawing`: the RAM, with the picture still buffered, is on the panel and is what has been drawn since the last reset, and each picture still to come is aimed as far as the
  script has got (`Ready`). `Shown`: in a call that shows the picture, from its third step on the engine runs with BUSY high, or has stopped with the picture on the panel.
  The pictures to come are part of it because four separate commands aim one picture and a second picture may follow
  without being aimed again; what has been buffered, because the last picture of a call is executed by the next call's first byte, which has to find the window unchanged.

Each action keeps `Inv` by a lemma of its own (`PulseThen`, `CommandThen`, `LostThen`, `DataThen`, `PictureThen`, `WaitThen`, `AnyCallThen`, `TimerThen`, `RestartThen`). Two cases needed an argument
that no test would suggest. After a restart with CS low the pulse of `Init` leaves CS low, no edge arms a transfer, and the reset command that follows may be lost; it does no harm, since the
pulse has just done the same, and the invariant says so (`cs = LOW` only in the first steps of `Init`). And a restart in the middle of a command's data leaves a command the next life's first byte would flush, short of
data; but the next life begins with a pulse, which clears it first (`CutOff`, `PulseThen`). Results: `DriverInvariance`, `NoHandlerCutShort`, `RamAlwaysHoldsDrawing`,
`DriverStaysOnPanel` and `DisplayAlwaysShowsDrawing`. TLC has checked `Inv` on the instance of `driver` too, with scripts and steps enumerated.

**Only model-checked.**

* `RefreshTerminates` and `CallsReturn`: liveness under fairness, which is out of the prover's reach.
* The violations: each is a counterexample.

All other properties of the passing runs are theorems.

## 5. Not modelled, and why

* The attributes' defaults, delays and the lengths of timer periods: only the order of events counts.
* Panels wider than a byte in the composition: `RamWindow` has the windows on its own.
* Coordinates off the panel: what such a write overwrites is undefined.
* Null keys and null data, which `hashmap_base_put` refuses with `-EINVAL` before it does anything (`hashmap.c:301`).
* Attributes, set-up calls and debug output: I/O.
* The handlers that only log (voltages, LUTs, VCOM, OTP programming, user id): they change
  nothing. `on_cmd_write_otp_data` copies into a buffer nobody reads; its bound is `NeverOverfed`.
* `on_timer_event`, `on_reset_timer`, `on_cmd_ctrl_write`, `display_panel_fixed_frame`,
  `cmd_to_key`: never called.
* Hash tables of 2^30 slots and more: `1 <<` of an `int` overflows there (`hashmap.c:50`), and `PowerOfTwo` does not.
* Statistics and hash functions of the hash map: they change nothing, and any hash function will do.
* Fonts, paint library and images of the sketch: third-party, not part of the chip.

## 6. Plan

Done: `Frame`, `Panel`, `PanelService`, `Spi`, `CommandLink`, `ResetLine`, `RamWindow`,
`Hashmap`, `Dictionary`, `Ws29v2`, `EpdDriver`, and the proofs above. Next, in this order:

1. `EpdDriver` two bytes wide, which needs smaller scripts to stay within reach of TLC.
2. The RST watcher (`ResetLine`) inside the composition, with the pulse as two edges.
