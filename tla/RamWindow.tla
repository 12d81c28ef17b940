----------------------------- MODULE RamWindow -----------------------------
(***************************************************************************)
(* The display RAM of the chip and the way data is addressed in it: the    *)
(* window of the coordinate commands, the address pointer, and the writes  *)
(* that move it.                                                           *)
(*                                                                         *)
(* The fields of ws29v2_ctx_t this component owns form the record mem.     *)
(* Addresses are in pixels, as in the code: a byte of RAM holds eight      *)
(* pixels of a line.                                                       *)
(***************************************************************************)
EXTENDS Naturals, Sequences

CONSTANTS
  LineBytes,   \* bytes of a line: chip->width / 8
  Height,      \* chip->height
  ByteSize,    \* values of a byte: 256 in the code
  PorByte,     \* what a reset fills bw_ram with: 0xFF in the code
  Targets,     \* the RAM areas a host writes: on version 1, only "bw"
  Payloads,    \* the data a host sends with one write command
  EntryModes   \* the data entry modes a host sets

ADDR_INCR_MODE_POR == 17     \* 0x11

Columns == 0 .. LineBytes - 1
Rows == 0 .. Height - 1
Offsets == 0 .. LineBytes * Height - 1
Coords == 0 .. 65535         \* uint16_t

ASSUME RamAssumption ==
  /\ LineBytes \in Nat \ {0} /\ 8 * LineBytes < 65536
  /\ Height \in Nat \ {0} /\ Height < 65536
  /\ ByteSize \in Nat \ {0} /\ LineBytes <= ByteSize /\ Height <= ByteSize * ByteSize
  /\ Targets \subseteq {"bw", "color"}
  /\ \A p \in Payloads : p \in Seq(Nat)
  /\ EntryModes \subseteq 0 .. 7

-----------------------------------------------------------------------------
(* Handlers *)

Word(lo, hi) == (hi * ByteSize + lo) % 65536

on_cmd_write_ram_x_coords(m, d) ==
  [m EXCEPT !.x_min = d[1] * 8, !.x_max = (d[2] + 1) * 8 - 1]

on_cmd_write_ram_y_coords(m, d) ==
  [m EXCEPT !.y_min = Word(d[1], d[2]), !.y_max = Word(d[3], d[4])]

on_cmd_write_ram_x_addr_ctr(m, d) == [m EXCEPT !.x_addr = d[1] * 8]

on_cmd_write_ram_y_addr_ctr(m, d) == [m EXCEPT !.y_addr = Word(d[1], d[2])]

on_cmd_data_entry_mode(m, d) == [m EXCEPT !.addr_incr_mode = d[1] % 8]

Store(m, ram, byte) ==
  LET off == (m.y_addr * 8 * LineBytes + m.x_addr) \div 8
  IN  [m EXCEPT ![ram][off] = byte]

NextLine_noWrap(m) == [m EXCEPT !.x_addr = m.x_min, !.y_addr = @ + 1]     \* mutant

NextLine_toOrigin(m) ==                       \* mutant: 0 for x_min
  [m EXCEPT !.x_addr = 0, !.y_addr = IF @ + 1 > m.y_max THEN m.y_min ELSE @ + 1]

NextLine_early(m) ==                          \* mutant: >= for >
  [m EXCEPT !.x_addr = m.x_min, !.y_addr = IF @ + 1 >= m.y_max THEN m.y_min ELSE @ + 1]

(* The end of the window's lines wraps to its first line. *)
NextLine(m) ==
  LET below == (m.y_addr + 1) % 65536
  IN  [m EXCEPT !.x_addr = m.x_min, !.y_addr = IF below > m.y_max THEN m.y_min ELSE below]

(* addr_incr_mode is not consulted. *)
write_ram_byte(m, ram, byte) ==
  LET stored == Store(m, ram, byte)
      right == (m.x_addr + 8) % 65536
  IN  IF right > m.x_max THEN NextLine(stored) ELSE [stored EXCEPT !.x_addr = right]

(* The passes of the loop over the data: the memory after each of them. *)
Passes(m, ram, d) ==
  LET after[i \in 0 .. Len(d)] ==
        IF i = 0 THEN m ELSE write_ram_byte(after[i - 1], ram, d[i])
  IN  after

(* on_cmd_write_ram_bw and on_cmd_write_ram_color. *)
on_cmd_write_ram(m, ram, d) == Passes(m, ram, d)[Len(d)]

ResetMem ==
  [x_addr |-> 0, y_addr |-> 0, x_min |-> 0, x_max |-> 0, y_min |-> 0, y_max |-> 0,
   addr_incr_mode |-> ADDR_INCR_MODE_POR,
   bw |-> [o \in Offsets |-> PorByte], color |-> [o \in Offsets |-> 0]]

-----------------------------------------------------------------------------
(* The component, with a host that stays on the panel but sends the        *)
(* addressing commands in any order, or not at all.                        *)

VARIABLE mem

vars == <<mem>>

YBytes(y) == <<y % ByteSize, y \div ByteSize>>

Init == mem = ResetMem

SetXWindow ==
  \E from, to \in Columns : mem' = on_cmd_write_ram_x_coords(mem, <<from, to>>)

SetYWindow ==
  \E from, to \in Rows : mem' = on_cmd_write_ram_y_coords(mem, YBytes(from) \o YBytes(to))

SetXAddress == \E x \in Columns : mem' = on_cmd_write_ram_x_addr_ctr(mem, <<x>>)

SetYAddress == \E y \in Rows : mem' = on_cmd_write_ram_y_addr_ctr(mem, YBytes(y))

SetEntryMode == \E e \in EntryModes : mem' = on_cmd_data_entry_mode(mem, <<e>>)

WriteRam(ram, d) == mem' = on_cmd_write_ram(mem, ram, d)

Reset == mem' = ResetMem

Next ==
  \/ SetXWindow \/ SetYWindow
  \/ SetXAddress \/ SetYAddress
  \/ SetEntryMode
  \/ \E ram \in Targets, d \in Payloads : WriteRam(ram, d)
  \/ Reset

Spec == Init /\ [][Next]_vars

-----------------------------------------------------------------------------
(* Properties *)

(* The pointer and the window never leave the panel, in whatever order the *)
(* host sets them and wherever the pointer stands relative to the window,  *)
(* so write_ram_byte, which checks nothing, stays inside its buffer.       *)
TypeOK ==
  /\ mem.x_addr \in {8 * c : c \in Columns} /\ mem.y_addr \in Rows
  /\ mem.x_min \in {8 * c : c \in Columns} /\ mem.y_min \in Rows
  /\ mem.x_max \in {0} \cup {8 * c + 7 : c \in Columns} /\ mem.y_max \in Rows
  /\ mem.addr_incr_mode \in 0 .. 7 \cup {ADDR_INCR_MODE_POR}
  /\ DOMAIN mem.bw = Offsets /\ DOMAIN mem.color = Offsets

(* The window as the host set it: the bytes of RAM from its first to its   *)
(* last column and line.                                                   *)
WindowColumns == mem.x_min \div 8 .. mem.x_max \div 8
WindowRows == mem.y_min .. mem.y_max
InWindow(o) == o % LineBytes \in WindowColumns /\ o \div LineBytes \in WindowRows
PointerInWindow == mem.x_addr \div 8 \in WindowColumns /\ mem.y_addr \in WindowRows
Area == (mem.x_max \div 8 - mem.x_min \div 8 + 1) * (mem.y_max - mem.y_min + 1)

(* A write that starts in the window, however long, ends in it and changes *)
(* nothing outside it: a window can be updated without disturbing the      *)
(* rest of the picture.                                                    *)
WindowClosed ==
  [][PointerInWindow /\ ~Reset /\ (mem'.bw # mem.bw \/ mem'.color # mem.color)
     => /\ PointerInWindow'
        /\ \A o \in Offsets : ~InWindow(o) => /\ mem'.bw[o] = mem.bw[o]
                                              /\ mem'.color[o] = mem.color[o]]_vars

(* A write of exactly the window's bytes from its origin fills the window  *)
(* line by line, and takes the pointer back to the origin: the driver      *)
(* sends the colour frame after the black and white frame without setting  *)
(* the pointer again (SetFrameMemory_Base).                                *)
FullWindowWrite ==
  [][\A ram \in Targets, d \in Payloads :
       /\ PointerInWindow /\ mem.x_addr = mem.x_min /\ mem.y_addr = mem.y_min
       /\ Len(d) = Area
       /\ WriteRam(ram, d)
       => /\ mem'.x_addr = mem.x_min /\ mem'.y_addr = mem.y_min
          /\ \A c \in WindowColumns, r \in WindowRows :
               LET row == r - mem.y_min
                   col == c - mem.x_min \div 8
                   width == mem.x_max \div 8 - mem.x_min \div 8 + 1
               IN  mem'[ram][r * LineBytes + c] = d[row * width + col + 1]]_vars

============================================================================
