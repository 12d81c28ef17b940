-------------------------- MODULE RamWindowProofs --------------------------
(***************************************************************************)
(* Proofs about RamWindow, for every size of the panel and every data a    *)
(* host sends: the pointer never leaves the panel, a write that starts in  *)
(* the window stays in it, and a write of the window's bytes from its      *)
(* origin fills it line by line.                                           *)
(*                                                                         *)
(* A write command is a loop over the data.  Each of the three results     *)
(* comes from what one pass of it does (WriteByte) by induction on the     *)
(* passes (CountUp of Counting).                                           *)
(***************************************************************************)
EXTENDS RamWindow, Counting

-----------------------------------------------------------------------------
(* The loop: Passes gives the memory it starts from and, after each pass,  *)
(* write_ram_byte of the memory before it.                                 *)

(* The recursion of Passes has a solution, built one pass at a time. *)
LEMMA PassesFunction ==
  ASSUME NEW m, NEW ram, NEW d \in Seq(Nat)
  PROVE Passes(m, ram, d) =
          [i \in 0 .. Len(d) |->
             IF i = 0 THEN m ELSE write_ram_byte(Passes(m, ram, d)[i - 1], ram, d[i])]
<1> DEFINE G(n, f) == f = [i \in 0 .. n |-> IF i = 0 THEN m ELSE write_ram_byte(f[i - 1], ram, d[i])]
<1> DEFINE S == {n \in Nat : \E f : G(n, f)}
<1>0. Len(d) \in Nat OBVIOUS
<1>1. 0 \in S
  <2>1. G(0, [i \in 0 .. 0 |-> m]) OBVIOUS
  <2> QED BY <2>1
<1>2. ASSUME NEW n \in 0 .. Len(d) - 1, n \in S PROVE n + 1 \in S
  <2>1. PICK f : G(n, f) BY <1>2
  <2> DEFINE g == [i \in 0 .. n + 1 |-> IF i = n + 1 THEN write_ram_byte(f[n], ram, d[n + 1]) ELSE f[i]]
  <2>2. ASSUME NEW i \in 0 .. n + 1 PROVE g[i] = IF i = 0 THEN m ELSE write_ram_byte(g[i - 1], ram, d[i])
    <3>1. CASE i = 0 BY <3>1, <2>1, <1>0
    <3>2. CASE i = n + 1 BY <3>2, <1>0
    <3>3. CASE i # 0 /\ i # n + 1
      <4>1. i \in 0 .. n /\ i - 1 \in 0 .. n BY <3>3, <1>0
      <4>2. g[i] = f[i] BY <3>3
      <4>3. g[i - 1] = f[i - 1] BY <4>1, <1>0
      <4>4. f[i] = write_ram_byte(f[i - 1], ram, d[i]) BY <2>1, <4>1, <3>3
      <4> QED BY <4>2, <4>3, <4>4, <3>3
    <3> QED BY <3>1, <3>2, <3>3
  <2>3. G(n + 1, g) BY <2>2
  <2>4. n + 1 \in Nat BY <1>0
  <2> HIDE DEF G, g
  <2> QED BY <2>3, <2>4
<1>3. Len(d) \in S
  <2> HIDE DEF S
  <2>1. 0 .. Len(d) \subseteq S BY <1>0, <1>1, <1>2, CountUp
  <2> QED BY <2>1, <1>0
<1>4. PICK f : G(Len(d), f) BY <1>3
<1> HIDE DEF G
<1>5. G(Len(d), CHOOSE h : G(Len(d), h)) BY <1>4
<1> USE DEF G
<1>6. Passes(m, ram, d) = CHOOSE h : G(Len(d), h) BY DEF Passes
<1> QED BY <1>5, <1>6

(* The loop, pass by pass. *)
LEMMA PassesStep ==
  ASSUME NEW m, NEW ram, NEW d \in Seq(Nat)
  PROVE  /\ Passes(m, ram, d)[0] = m
         /\ \A i \in 0 .. Len(d) - 1 :
              Passes(m, ram, d)[i + 1] = write_ram_byte(Passes(m, ram, d)[i], ram, d[i + 1])
<1> DEFINE P == Passes(m, ram, d)
<1>1. P = [i \in 0 .. Len(d) |-> IF i = 0 THEN m ELSE write_ram_byte(P[i - 1], ram, d[i])]
  BY PassesFunction
<1>2. Len(d) \in Nat  OBVIOUS
<1> HIDE DEF P
<1>3. P[0] = m  BY <1>1, <1>2
<1>4. ASSUME NEW i \in 0 .. Len(d) - 1  PROVE P[i + 1] = write_ram_byte(P[i], ram, d[i + 1])
  <2>1. i + 1 \in 0 .. Len(d) /\ i + 1 # 0 /\ (i + 1) - 1 = i  BY <1>2
  <2> QED BY <1>1, <2>1
<1> QED BY <1>3, <1>4 DEF P

-----------------------------------------------------------------------------
(* One pass. *)

MemFields ==
  {"x_addr", "y_addr", "x_min", "x_max", "y_min", "y_max", "addr_incr_mode", "bw", "color"}

(* The inductive invariant: TypeOK, and that the memory is a record whose  *)
(* areas have exactly the panel's bytes.                                   *)
OnPanel(m) ==
  /\ m = [f \in MemFields |-> m[f]]
  /\ m.x_addr \in {8 * c : c \in Columns} /\ m.y_addr \in Rows
  /\ m.x_min \in {8 * c : c \in Columns} /\ m.y_min \in Rows
  /\ m.x_max \in {0} \cup {8 * c + 7 : c \in Columns} /\ m.y_max \in Rows
  /\ m.addr_incr_mode \in 0 .. 7 \cup {ADDR_INCR_MODE_POR}
  /\ \A r \in {"bw", "color"} : m[r] = [o \in Offsets |-> m[r][o]]

(* The byte the pointer is at. *)
Here(m) == m.y_addr * LineBytes + m.x_addr \div 8

(* n has the window and the entry mode of m. *)
SameWindow(m, n) ==
  /\ n.x_min = m.x_min /\ n.x_max = m.x_max /\ n.y_min = m.y_min /\ n.y_max = m.y_max
  /\ n.addr_incr_mode = m.addr_incr_mode

(* The byte of a pixel whose column is a multiple of eight. *)
LEMMA ByteOffset ==
  ASSUME NEW w \in Nat, w > 0, NEW y \in Nat, NEW c \in 0 .. w - 1
  PROVE (y * 8 * w + 8 * c) \div 8 = y * w + c
<1> DEFINE p == y * w
<1>1. p \in Nat /\ y * 8 * w = 8 * p OBVIOUS
<1> HIDE DEF p
<1>2. (8 * p + 8 * c) \div 8 = p + c BY <1>1
<1> QED BY <1>1, <1>2 DEF p

(* Store writes the byte the pointer is at, which is on the panel, and     *)
(* nothing else.                                                           *)
LEMMA StoreByte ==
  ASSUME NEW m, OnPanel(m), NEW ram \in {"bw", "color"}, NEW b
  PROVE  /\ Here(m) \in Offsets
         /\ Store(m, ram, b) = [f \in MemFields |-> Store(m, ram, b)[f]]
         /\ \A f \in MemFields \ {ram} : Store(m, ram, b)[f] = m[f]
         /\ Store(m, ram, b)[ram] = [m[ram] EXCEPT ![Here(m)] = b]
<1> DEFINE off == (m.y_addr * 8 * LineBytes + m.x_addr) \div 8
<1>1. PICK c \in Columns : m.x_addr = 8 * c
  BY DEF OnPanel
<1>2. m.y_addr \in Rows /\ m.y_addr \in Nat /\ LineBytes \in Nat /\ LineBytes > 0 /\ Height \in Nat /\ c \in 0 .. LineBytes - 1
  BY RamAssumption DEF OnPanel, Rows, Columns
<1>3. off = m.y_addr * LineBytes + c
  BY <1>1, <1>2, ByteOffset
<1>4. Here(m) = m.y_addr * LineBytes + c
  <2>1. (8 * c) \div 8 = c BY <1>2
  <2> QED BY <1>1, <2>1 DEF Here
<1>5. Here(m) \in Offsets
  BY <1>2, <1>4, InRectangle DEF Rows, Offsets
<1>6. DOMAIN m = MemFields /\ ram \in MemFields
  BY Zenon DEF OnPanel, MemFields
<1>7. Store(m, ram, b) = [m EXCEPT ![ram] = [m[ram] EXCEPT ![off] = b]]
  BY DEF Store
<1> HIDE DEF off
<1>8. /\ Store(m, ram, b) = [f \in MemFields |-> Store(m, ram, b)[f]]
      /\ \A f \in MemFields \ {ram} : Store(m, ram, b)[f] = m[f]
      /\ Store(m, ram, b)[ram] = [m[ram] EXCEPT ![off] = b]
  BY <1>6, <1>7, Zenon
<1> QED BY <1>3, <1>4, <1>5, <1>8

(* The pointer is in the last column of the window, or right of it. *)
AtLineEnd(m) == m.x_addr + 8 > m.x_max

(* A pass writes the pointer's byte and moves the pointer on.  Neither of  *)
(* the 16-bit additions of write_ram_byte wraps.                           *)
LEMMA WriteByte ==
  ASSUME NEW m, OnPanel(m), NEW ram \in {"bw", "color"}, NEW b
  PROVE  LET n == write_ram_byte(m, ram, b)
         IN  /\ n = [f \in MemFields |-> n[f]]
             /\ SameWindow(m, n)
             /\ n.x_addr = IF AtLineEnd(m) THEN m.x_min ELSE m.x_addr + 8
             /\ n.y_addr = IF ~AtLineEnd(m) THEN m.y_addr
                           ELSE IF m.y_addr + 1 > m.y_max THEN m.y_min ELSE m.y_addr + 1
             /\ n[ram] = [m[ram] EXCEPT ![Here(m)] = b]
             /\ \A r \in {"bw", "color"} \ {ram} : n[r] = m[r]
<1> DEFINE s == Store(m, ram, b)
           n == write_ram_byte(m, ram, b)
           right == (m.x_addr + 8) % 65536
           below == (m.y_addr + 1) % 65536
<1>1. /\ s = [f \in MemFields |-> s[f]]
      /\ \A f \in MemFields \ {ram} : s[f] = m[f]
      /\ s[ram] = [m[ram] EXCEPT ![Here(m)] = b]
  BY StoreByte
<1>2. /\ s.x_addr = m.x_addr /\ s.y_addr = m.y_addr
      /\ s.x_min = m.x_min /\ s.x_max = m.x_max /\ s.y_min = m.y_min /\ s.y_max = m.y_max
      /\ s.addr_incr_mode = m.addr_incr_mode
      /\ \A r \in {"bw", "color"} \ {ram} : s[r] = m[r]
  BY <1>1, SMT DEF MemFields
<1>3. right = m.x_addr + 8 /\ below = m.y_addr + 1
  <2>1. PICK c \in 0 .. LineBytes - 1 : m.x_addr = 8 * c
    BY DEF OnPanel, Columns
  <2>2. m.y_addr \in 0 .. Height - 1 /\ LineBytes \in Nat /\ Height \in Nat
        /\ 8 * LineBytes < 65536 /\ Height < 65536
    BY RamAssumption DEF OnPanel, Rows
  <2> HIDE DEF s, n
  <2>3. (8 * c + 8) % 65536 = 8 * c + 8  BY <2>2
  <2>4. \A y \in 0 .. Height - 1 : (y + 1) % 65536 = y + 1  BY <2>2
  <2> QED BY <2>1, <2>2, <2>3, <2>4
<1> HIDE DEF s
<1>4. CASE AtLineEnd(m)
  <2>1. n = [s EXCEPT !.x_addr = s.x_min,
                      !.y_addr = IF below > s.y_max THEN s.y_min ELSE below]
    BY <1>2, <1>3, <1>4 DEF write_ram_byte, NextLine, AtLineEnd, s
  <2>2. /\ n = [f \in MemFields |-> n[f]]
        /\ n.x_addr = s.x_min
        /\ n.y_addr = IF below > s.y_max THEN s.y_min ELSE below
        /\ \A f \in MemFields \ {"x_addr", "y_addr"} : n[f] = s[f]
    <3> HIDE DEF n, below
    <3> QED BY <2>1, <1>1, Zenon DEF MemFields
  <2>4. \A f \in MemFields \ {"x_addr", "y_addr"} : n[f] = s[f]
    BY <2>2
  <2>3. /\ n.bw = s.bw /\ n.color = s.color /\ n.x_min = s.x_min /\ n.x_max = s.x_max
        /\ n.y_min = s.y_min /\ n.y_max = s.y_max /\ n.addr_incr_mode = s.addr_incr_mode
    <3> HIDE DEF n
    <3> QED BY <2>4 DEF MemFields
  <2> HIDE DEF n
  <2> QED BY <2>2, <2>3, <1>1, <1>2, <1>3, <1>4 DEF SameWindow, n
<1>5. CASE ~AtLineEnd(m)
  <2>1. n = [s EXCEPT !.x_addr = right]
    BY <1>2, <1>3, <1>5 DEF write_ram_byte, AtLineEnd, s
  <2>2. /\ n = [f \in MemFields |-> n[f]]
        /\ n.x_addr = right
        /\ \A f \in MemFields \ {"x_addr"} : n[f] = s[f]
    <3> HIDE DEF n, right
    <3> QED BY <2>1, <1>1, Zenon DEF MemFields
  <2>4. \A f \in MemFields \ {"x_addr"} : n[f] = s[f]
    BY <2>2
  <2>3. /\ n.bw = s.bw /\ n.color = s.color /\ n.x_min = s.x_min /\ n.x_max = s.x_max
        /\ n.y_min = s.y_min /\ n.y_max = s.y_max /\ n.addr_incr_mode = s.addr_incr_mode
        /\ n.y_addr = s.y_addr
    <3> HIDE DEF n
    <3> QED BY <2>4 DEF MemFields
  <2> HIDE DEF n
  <2> QED BY <2>2, <2>3, <1>1, <1>2, <1>3, <1>5 DEF SameWindow, n
<1> QED BY <1>4, <1>5

(* A pass from a pointer on the panel, in the window or not, leaves it on  *)
(* the panel.                                                              *)
LEMMA WriteOnPanel ==
  ASSUME NEW m, OnPanel(m), NEW ram \in {"bw", "color"}, NEW b
  PROVE  OnPanel(write_ram_byte(m, ram, b))
<1> DEFINE n == write_ram_byte(m, ram, b)
<1>1. /\ n = [f \in MemFields |-> n[f]]
      /\ SameWindow(m, n)
      /\ n.x_addr = IF AtLineEnd(m) THEN m.x_min ELSE m.x_addr + 8
      /\ n.y_addr = IF ~AtLineEnd(m) THEN m.y_addr
                    ELSE IF m.y_addr + 1 > m.y_max THEN m.y_min ELSE m.y_addr + 1
      /\ n[ram] = [m[ram] EXCEPT ![Here(m)] = b]
      /\ \A r \in {"bw", "color"} \ {ram} : n[r] = m[r]
  BY WriteByte
<1> HIDE DEF n
<1>2. n.x_addr \in {8 * c : c \in Columns}
  <2>1. PICK c \in Columns : m.x_addr = 8 * c  BY DEF OnPanel
  <2>2. CASE AtLineEnd(m)  BY <2>2, <1>1 DEF OnPanel
  <2>3. CASE ~AtLineEnd(m)
    <3>1. n.x_addr = 8 * (c + 1)  BY <2>1, <2>3, <1>1 DEF Columns
    <3>2. c + 1 \in Columns
      <4>1. 8 * c + 8 <= m.x_max /\ c \in 0 .. LineBytes - 1
        BY <2>1, <2>3 DEF AtLineEnd, OnPanel, Columns
      <4>2. m.x_max = 0 \/ \E k \in 0 .. LineBytes - 1 : m.x_max = 8 * k + 7
        BY DEF OnPanel, Columns
      <4> QED BY <4>1, <4>2, RamAssumption DEF Columns
    <3> QED BY <3>1, <3>2
  <2> QED BY <2>2, <2>3
<1>3. n.y_addr \in Rows
  BY <1>1, RamAssumption DEF OnPanel, Rows
<1>4. /\ n.x_min \in {8 * c : c \in Columns} /\ n.y_min \in Rows
      /\ n.x_max \in {0} \cup {8 * c + 7 : c \in Columns} /\ n.y_max \in Rows
      /\ n.addr_incr_mode \in 0 .. 7 \cup {ADDR_INCR_MODE_POR}
  BY <1>1 DEF OnPanel, SameWindow
<1>5. \A r \in {"bw", "color"} : n[r] = [o \in Offsets |-> n[r][o]]
  BY <1>1, Zenon DEF OnPanel
<1>6. n = [f \in MemFields |-> n[f]]
  BY <1>1
<1> QED BY <1>2, <1>3, <1>4, <1>5, <1>6 DEF OnPanel, n

-----------------------------------------------------------------------------
(* The pointer and the window stay on the panel. *)

LEMMA PassesOnPanel ==
  ASSUME NEW m, OnPanel(m), NEW ram \in {"bw", "color"}, NEW d \in Seq(Nat)
  PROVE  \A i \in 0 .. Len(d) : OnPanel(Passes(m, ram, d)[i])
<1> DEFINE P == Passes(m, ram, d)
           S == {i \in 0 .. Len(d) : OnPanel(P[i])}
<1>1. Len(d) \in Nat  OBVIOUS
<1>2. 0 \in S  BY <1>1, PassesStep
<1>3. ASSUME NEW i \in 0 .. Len(d) - 1, i \in S  PROVE i + 1 \in S
  BY <1>1, <1>3, PassesStep, WriteOnPanel
<1>4. 0 .. Len(d) \subseteq S
  <2> HIDE DEF S
  <2> QED BY <1>1, <1>2, <1>3, CountUp
<1> QED BY <1>4

(* The two bytes of a line's number, as the host sends them, make it up    *)
(* again.                                                                  *)
LEMMA WordOfBytes ==
  ASSUME NEW y \in Rows
  PROVE  Word(y % ByteSize, y \div ByteSize) = y
<1>1. y \in Nat /\ y < 65536 /\ ByteSize \in Nat /\ ByteSize > 0
  BY RamAssumption DEF Rows
<1>2. (y \div ByteSize) * ByteSize + (y % ByteSize) = y
  BY <1>1
<1> QED BY <1>1, <1>2 DEF Word

(* A reset puts everything at the corner of the panel. *)
LEMMA InitOnPanel == OnPanel(ResetMem)
BY RamAssumption DEF OnPanel, ResetMem, Columns, Rows, Offsets, MemFields, ADDR_INCR_MODE_POR

(* No command takes the pointer or the window off the panel. *)
LEMMA NextOnPanel ==
  ASSUME OnPanel(mem), [Next]_vars
  PROVE  OnPanel(mem')
<1>1. CASE SetXWindow
  <2>1. PICK from \in Columns, to \in Columns : mem' = on_cmd_write_ram_x_coords(mem, <<from, to>>)
    BY <1>1 DEF SetXWindow
  <2>2. mem' = [mem EXCEPT !.x_min = from * 8, !.x_max = (to + 1) * 8 - 1]
    BY <2>1 DEF on_cmd_write_ram_x_coords
  <2>3. from * 8 = 8 * from /\ (to + 1) * 8 - 1 = 8 * to + 7
    BY RamAssumption DEF Columns
  <2> QED BY <2>2, <2>3, Zenon DEF OnPanel, MemFields
<1>2. CASE SetYWindow
  <2>1. PICK from \in Rows, to \in Rows : mem' = on_cmd_write_ram_y_coords(mem, YBytes(from) \o YBytes(to))
    BY <1>2 DEF SetYWindow
  <2> DEFINE d == YBytes(from) \o YBytes(to)
  <2>2. /\ d[1] = from % ByteSize /\ d[2] = from \div ByteSize
        /\ d[3] = to % ByteSize /\ d[4] = to \div ByteSize
    BY DEF YBytes
  <2>3. mem' = [mem EXCEPT !.y_min = from, !.y_max = to]
    BY <2>1, <2>2, WordOfBytes DEF on_cmd_write_ram_y_coords
  <2> QED BY <2>3, Zenon DEF OnPanel, MemFields
<1>3. CASE SetXAddress
  <2>1. PICK x \in Columns : mem' = on_cmd_write_ram_x_addr_ctr(mem, <<x>>)
    BY <1>3 DEF SetXAddress
  <2>2. mem' = [mem EXCEPT !.x_addr = x * 8] /\ x * 8 = 8 * x
    BY <2>1, RamAssumption DEF on_cmd_write_ram_x_addr_ctr, Columns
  <2> QED BY <2>2, Zenon DEF OnPanel, MemFields
<1>4. CASE SetYAddress
  <2>1. PICK y \in Rows : mem' = on_cmd_write_ram_y_addr_ctr(mem, YBytes(y))
    BY <1>4 DEF SetYAddress
  <2>2. YBytes(y)[1] = y % ByteSize /\ YBytes(y)[2] = y \div ByteSize
    BY DEF YBytes
  <2>3. mem' = [mem EXCEPT !.y_addr = y]
    BY <2>1, <2>2, WordOfBytes DEF on_cmd_write_ram_y_addr_ctr
  <2> QED BY <2>3, Zenon DEF OnPanel, MemFields
<1>5. CASE SetEntryMode
  <2>1. PICK e \in EntryModes : mem' = on_cmd_data_entry_mode(mem, <<e>>)
    BY <1>5 DEF SetEntryMode
  <2>2. mem' = [mem EXCEPT !.addr_incr_mode = e % 8] /\ e % 8 \in 0 .. 7
    BY <2>1, RamAssumption DEF on_cmd_data_entry_mode
  <2> QED BY <2>2, Zenon DEF OnPanel, MemFields
<1>6. CASE \E ram \in Targets, d \in Payloads : WriteRam(ram, d)
  <2>1. PICK ram \in Targets, d \in Payloads : WriteRam(ram, d)  BY <1>6
  <2>2. ram \in {"bw", "color"} /\ d \in Seq(Nat)  BY RamAssumption
  <2>3. Len(d) \in 0 .. Len(d)  BY <2>2
  <2> QED BY <2>1, <2>2, <2>3, PassesOnPanel DEF WriteRam, on_cmd_write_ram
<1>7. CASE Reset
  BY <1>7, InitOnPanel DEF Reset
<1>8. CASE UNCHANGED vars
  BY <1>8 DEF vars
<1> QED BY <1>1, <1>2, <1>3, <1>4, <1>5, <1>6, <1>7, <1>8 DEF Next

(* The invariant, in every state. *)
THEOREM AlwaysOnPanel == Spec => []OnPanel(mem)
<1>1. Init => OnPanel(mem)  BY InitOnPanel DEF Init
<1>2. OnPanel(mem) /\ [Next]_vars => OnPanel(mem)'  BY NextOnPanel
<1> QED BY <1>1, <1>2, PTL DEF Spec

(* The pointer and the window never leave the panel, so that               *)
(* write_ram_byte, which checks nothing, stays inside its buffer.          *)
THEOREM TypeCorrect == Spec => []TypeOK
<1>1. OnPanel(mem) => TypeOK
  BY DEF OnPanel, TypeOK
<1> QED BY <1>1, AlwaysOnPanel, PTL

-----------------------------------------------------------------------------
(* A write that starts in the window stays in it. *)

(* n, in the middle of a write from mem: the pointer is in the window, and *)
(* nothing outside it has changed.                                         *)
Kept(n) ==
  /\ SameWindow(mem, n)
  /\ n.x_addr \div 8 \in WindowColumns /\ n.y_addr \in WindowRows
  /\ \A o \in Offsets : ~InWindow(o) => n.bw[o] = mem.bw[o] /\ n.color[o] = mem.color[o]

(* The pointer's byte determines its column and its line. *)
LEMMA HereAddress ==
  ASSUME NEW m, OnPanel(m)
  PROVE  /\ Here(m) \in Offsets
         /\ Here(m) % LineBytes = m.x_addr \div 8
         /\ Here(m) \div LineBytes = m.y_addr
<1>1. PICK c \in 0 .. LineBytes - 1 : m.x_addr = 8 * c  BY DEF OnPanel, Columns
<1>2. m.x_addr \div 8 = c /\ LineBytes \in Nat /\ LineBytes > 0 /\ Height \in Nat
  BY <1>1, RamAssumption
<1>3. m.y_addr \in 0 .. Height - 1 /\ m.y_addr \in Nat
  BY <1>2 DEF OnPanel, Rows
<1>4. Here(m) = m.y_addr * LineBytes + c
  BY <1>2 DEF Here
<1>5. Here(m) \in Offsets  BY <1>2, <1>3, <1>4, InRectangle DEF Offsets
<1>6. Here(m) % LineBytes = c /\ Here(m) \div LineBytes = m.y_addr
  <2>1. \A y \in Nat : (y * LineBytes + c) \div LineBytes = y /\ (y * LineBytes + c) % LineBytes = c
    BY <1>1, <1>2, DivMod
  <2> QED BY <2>1, <1>3, <1>4
<1> QED BY <1>2, <1>5, <1>6

(* A pass from within the window. *)
LEMMA WriteKeeps ==
  ASSUME OnPanel(mem), NEW n, OnPanel(n), Kept(n), NEW ram \in {"bw", "color"}, NEW b
  PROVE  Kept(write_ram_byte(n, ram, b))
<1> DEFINE t == write_ram_byte(n, ram, b)
<1>1. /\ t = [f \in MemFields |-> t[f]]
      /\ SameWindow(n, t)
      /\ t.x_addr = IF AtLineEnd(n) THEN n.x_min ELSE n.x_addr + 8
      /\ t.y_addr = IF ~AtLineEnd(n) THEN n.y_addr
                    ELSE IF n.y_addr + 1 > n.y_max THEN n.y_min ELSE n.y_addr + 1
      /\ t[ram] = [n[ram] EXCEPT ![Here(n)] = b]
      /\ \A r \in {"bw", "color"} \ {ram} : t[r] = n[r]
  BY WriteByte
<1> HIDE DEF t
<1>2. /\ t[ram] = [n[ram] EXCEPT ![Here(n)] = b]
      /\ \A r \in {"bw", "color"} \ {ram} : t[r] = n[r]
  BY <1>1
<1>3. SameWindow(mem, t)
  BY <1>1 DEF SameWindow, Kept
<1>4. t.x_addr \div 8 \in WindowColumns
  <2>1. PICK c \in 0 .. LineBytes - 1 : n.x_addr = 8 * c  BY DEF OnPanel, Columns
  <2>2. PICK a \in 0 .. LineBytes - 1 : n.x_min = 8 * a  BY DEF OnPanel, Columns
  <2>3. n.x_max \in Int  BY RamAssumption DEF OnPanel, Columns
  <2>4. WindowColumns = a .. n.x_max \div 8
    <3>1. (8 * a) \div 8 = a  BY RamAssumption
    <3> QED BY <2>2, <3>1 DEF WindowColumns, Kept, SameWindow
  <2>5. c \in a .. n.x_max \div 8
    <3>1. (8 * c) \div 8 = c  BY RamAssumption
    <3> QED BY <2>1, <2>4, <3>1 DEF Kept
  <2>6. CASE AtLineEnd(n)
    <3>1. (8 * a) \div 8 = a /\ a \in a .. n.x_max \div 8  BY <2>3, <2>5, RamAssumption
    <3> QED BY <2>6, <1>1, <2>2, <2>4, <3>1
  <2>7. CASE ~AtLineEnd(n)
    <3>1. t.x_addr = 8 * (c + 1) /\ (8 * (c + 1)) \div 8 = c + 1
      BY <2>7, <1>1, <2>1, RamAssumption
    <3>2. c + 1 <= n.x_max \div 8
      <4>1. 8 * c + 8 <= n.x_max  BY <2>7, <2>1, <2>3, RamAssumption DEF AtLineEnd
      <4> QED BY <4>1, <2>3, RamAssumption
    <3> QED BY <3>1, <3>2, <2>3, <2>4, <2>5, RamAssumption
  <2> QED BY <2>6, <2>7
<1>5. t.y_addr \in WindowRows
  BY <1>1, RamAssumption DEF Kept, SameWindow, WindowRows, OnPanel, Rows
<1>6. ASSUME NEW o \in Offsets, ~InWindow(o)
      PROVE  t.bw[o] = mem.bw[o] /\ t.color[o] = mem.color[o]
  <2>1. o # Here(n)
    BY <1>6, HereAddress DEF InWindow, Kept
  <2>2. t[ram][o] = n[ram][o]  BY <1>2, <2>1, Zenon DEF OnPanel
  <2>3. t.bw[o] = n.bw[o] /\ t.color[o] = n.color[o]  BY <1>2, <2>2
  <2> QED BY <2>3, <1>6 DEF Kept
<1> QED BY <1>3, <1>4, <1>5, <1>6 DEF Kept, t

(* A whole write. *)
LEMMA WriteClosed ==
  ASSUME OnPanel(mem), PointerInWindow, NEW ram \in {"bw", "color"}, NEW d \in Seq(Nat), WriteRam(ram, d)
  PROVE  Kept(mem')
<1> DEFINE P == Passes(mem, ram, d)
           S == {i \in 0 .. Len(d) : Kept(P[i])}
<1>1. Len(d) \in Nat  OBVIOUS
<1>2. Kept(mem)  BY DEF Kept, SameWindow, PointerInWindow
<1>3. 0 \in S  BY <1>1, <1>2, PassesStep
<1>4. ASSUME NEW i \in 0 .. Len(d) - 1, i \in S  PROVE i + 1 \in S
  <2>1. Kept(P[i]) /\ i \in 0 .. Len(d)  BY <1>4
  <2>2. OnPanel(P[i])  BY <2>1, PassesOnPanel
  <2>3. P[i + 1] = write_ram_byte(P[i], ram, d[i + 1])  BY PassesStep
  <2>4. Kept(P[i + 1])  BY <2>1, <2>2, <2>3, WriteKeeps
  <2> QED BY <2>4, <1>1
<1>5. 0 .. Len(d) \subseteq S
  <2> HIDE DEF S
  <2> QED BY <1>1, <1>3, <1>4, CountUp
<1> QED BY <1>1, <1>5 DEF WriteRam, on_cmd_write_ram

(* A write that starts in the window ends in it and changes nothing        *)
(* outside it.                                                             *)
THEOREM WritesStayInWindow == Spec => WindowClosed
<1> DEFINE Closed == 
      PointerInWindow /\ ~Reset /\ (mem'.bw # mem.bw \/ mem'.color # mem.color)
      => /\ PointerInWindow'
         /\ \A o \in Offsets : ~InWindow(o) => /\ mem'.bw[o] = mem.bw[o]
                                               /\ mem'.color[o] = mem.color[o]
<1>1. OnPanel(mem) /\ [Next]_vars => [Closed]_vars
  <2> SUFFICES ASSUME OnPanel(mem), [Next]_vars, PointerInWindow, ~Reset,
                      mem'.bw # mem.bw \/ mem'.color # mem.color
               PROVE  /\ PointerInWindow'
                      /\ \A o \in Offsets : ~InWindow(o) => /\ mem'.bw[o] = mem.bw[o]
                                                            /\ mem'.color[o] = mem.color[o]
    OBVIOUS
  <2>1. CASE \E ram \in Targets, d \in Payloads : WriteRam(ram, d)
    <3>1. PICK ram \in Targets, d \in Payloads : WriteRam(ram, d)  BY <2>1
    <3>2. ram \in {"bw", "color"} /\ d \in Seq(Nat)  BY RamAssumption
    <3>3. Kept(mem')  BY <3>1, <3>2, WriteClosed
    <3>4. PointerInWindow'
      BY <3>3 DEF PointerInWindow, WindowColumns, WindowRows, Kept, SameWindow
    <3> QED BY <3>3, <3>4 DEF Kept
  <2>2. CASE SetXWindow \/ SetYWindow \/ SetXAddress \/ SetYAddress \/ SetEntryMode \/ UNCHANGED vars
    <3>1. mem'.bw = mem.bw /\ mem'.color = mem.color
      BY <2>2, Zenon DEF SetXWindow, SetYWindow, SetXAddress, SetYAddress, SetEntryMode, vars,
        on_cmd_write_ram_x_coords, on_cmd_write_ram_y_coords, on_cmd_write_ram_x_addr_ctr,
        on_cmd_write_ram_y_addr_ctr, on_cmd_data_entry_mode, OnPanel, MemFields
    <3> QED BY <3>1
  <2> QED BY <2>1, <2>2 DEF Next
<1> QED BY <1>1, AlwaysOnPanel, PTL DEF Spec, WindowClosed

-----------------------------------------------------------------------------
(* A write of the window's bytes from its origin fills it. *)

(* The window's first column, its bytes per line, and its lines. *)
Left == mem.x_min \div 8
Width == mem.x_max \div 8 - mem.x_min \div 8 + 1
Lines == mem.y_max - mem.y_min + 1

(* The byte of RAM where the write's byte j + 1 belongs. *)
PlaceOf(j) == (mem.y_min + (j \div Width)) * LineBytes + (Left + (j % Width))

(* n, after k bytes of the write d to ram from mem: they are in their      *)
(* places, and the pointer is at the next place, or back at the origin     *)
(* after the last.                                                         *)
Filled(k, n, ram, d) ==
  /\ SameWindow(mem, n)
  /\ n.x_addr = 8 * (Left + (k % Width))
  /\ n.y_addr = IF k = Width * Lines THEN mem.y_min ELSE mem.y_min + (k \div Width)
  /\ \A j \in 0 .. k - 1 : n[ram][PlaceOf(j)] = d[j + 1]

(* What the pointer in it says of the window: it is not empty and on the   *)
(* panel.  Its last column is the pointer's when another eight pixels      *)
(* would pass x_max.                                                       *)
LEMMA WindowSize ==
  ASSUME OnPanel(mem), PointerInWindow
  PROVE  /\ Left \in 0 .. LineBytes - 1 /\ mem.x_min = 8 * Left
         /\ Width \in Nat /\ Width > 0 /\ Left + Width <= LineBytes
         /\ Lines \in Nat /\ Lines > 0 /\ mem.y_min \in Nat /\ mem.y_max \in Nat
         /\ mem.y_min + Lines <= Height
         /\ mem.x_max \div 8 = Left + Width - 1
         /\ \A c \in Nat : (8 * c + 8 > mem.x_max) <=> (c >= mem.x_max \div 8)
<1>0. LineBytes \in Nat /\ LineBytes > 0 /\ Height \in Nat  BY RamAssumption
<1>1. PICK a \in 0 .. LineBytes - 1 : mem.x_min = 8 * a  BY DEF OnPanel, Columns
<1>2. (8 * a) \div 8 = a  BY <1>0
<1>3. mem.x_max = 0 \/ \E z \in 0 .. LineBytes - 1 : mem.x_max = 8 * z + 7
  BY DEF OnPanel, Columns
<1>4. PICK z \in 0 .. LineBytes - 1 : mem.x_max \div 8 = z /\ mem.x_max \in {8 * z, 8 * z + 7}
  BY <1>0, <1>3
<1>5. a <= z  BY <1>1, <1>2, <1>4, <1>0 DEF PointerInWindow, WindowColumns, OnPanel, Columns
<1>6. mem.y_min <= mem.y_max
  BY <1>0 DEF PointerInWindow, WindowRows, OnPanel, Rows
<1>7. mem.y_min \in 0 .. Height - 1 /\ mem.y_max \in 0 .. Height - 1  BY DEF OnPanel, Rows
<1>8. \A c \in Nat : (8 * c + 8 > mem.x_max) <=> (c >= mem.x_max \div 8)
  BY <1>0, <1>4
<1>9. Left = a /\ Width = z - a + 1  BY <1>1, <1>2, <1>4 DEF Left, Width
<1>10. mem.x_max \div 8 = Left + Width - 1  BY <1>0, <1>1, <1>4, <1>9
<1> QED BY <1>0, <1>1, <1>5, <1>6, <1>7, <1>8, <1>9, <1>10 DEF Lines

(* Every place of the window is a byte of the panel ... *)
LEMMA PlaceOnPanel ==
  ASSUME OnPanel(mem), PointerInWindow, NEW j \in Nat, j < Width * Lines
  PROVE  PlaceOf(j) \in Offsets
<1> DEFINE q == j \div Width
           r == j % Width
<1>1. /\ Left \in 0 .. LineBytes - 1
      /\ Width \in Nat /\ Width > 0 /\ Left + Width <= LineBytes /\ Lines \in Nat
      /\ mem.y_min \in Nat /\ LineBytes \in Nat /\ LineBytes > 0 /\ Height \in Nat
      /\ mem.y_min + Lines <= Height
  <2> HIDE DEF q, r
  <2>1. LineBytes \in Nat /\ LineBytes > 0 /\ Height \in Nat  BY RamAssumption
  <2> QED BY <2>1, WindowSize
<1>2. q \in Nat /\ r \in 0 .. Width - 1 /\ j = q * Width + r  BY <1>1, Division
<1>3. q < Lines  BY <1>1, NextPlace
<1> HIDE DEF q, r
<1>4. Left + r \in 0 .. LineBytes - 1 /\ mem.y_min + q \in 0 .. Height - 1
  BY <1>1, <1>2, <1>3
<1>5. (mem.y_min + q) * LineBytes + (Left + r) \in 0 .. LineBytes * Height - 1
  BY <1>1, <1>4, InRectangle
<1> QED BY <1>5 DEF PlaceOf, Offsets, q, r

(* ... and no two bytes of the write have the same one. *)
LEMMA OtherPlace ==
  ASSUME OnPanel(mem), PointerInWindow, NEW j \in Nat, NEW k \in Nat,
         k < Width * Lines, j < k
  PROVE  PlaceOf(j) # PlaceOf(k)
<1> DEFINE q == j \div Width
           r == j % Width
           s == k \div Width
           t == k % Width
<1>1. /\ Left \in 0 .. LineBytes - 1
      /\ Width \in Nat /\ Width > 0 /\ Left + Width <= LineBytes
      /\ mem.y_min \in Nat /\ LineBytes \in Nat /\ LineBytes > 0
  BY WindowSize, RamAssumption
<1>2. q \in Nat /\ r \in 0 .. Width - 1 /\ j = q * Width + r  BY <1>1, Division
<1>3. s \in Nat /\ t \in 0 .. Width - 1 /\ k = s * Width + t  BY <1>1, Division
<1> HIDE DEF q, r, s, t
<1>4. Left + r \in 0 .. LineBytes - 1 /\ Left + t \in 0 .. LineBytes - 1
  BY <1>1, <1>2, <1>3
<1>5. mem.y_min + q \in Nat /\ mem.y_min + s \in Nat  BY <1>1, <1>2, <1>3
<1>6. SUFFICES ASSUME (mem.y_min + q) * LineBytes + (Left + r)
                       = (mem.y_min + s) * LineBytes + (Left + t)
               PROVE  FALSE
  BY DEF PlaceOf, q, r, s, t
<1>7. mem.y_min + q = mem.y_min + s /\ Left + r = Left + t
  <2>1. /\ ((mem.y_min + q) * LineBytes + (Left + r)) \div LineBytes = mem.y_min + q
        /\ ((mem.y_min + q) * LineBytes + (Left + r)) % LineBytes = Left + r
    BY <1>1, <1>4, <1>5, DivMod
  <2>2. /\ ((mem.y_min + s) * LineBytes + (Left + t)) \div LineBytes = mem.y_min + s
        /\ ((mem.y_min + s) * LineBytes + (Left + t)) % LineBytes = Left + t
    BY <1>1, <1>4, <1>5, DivMod
  <2> QED BY <2>1, <2>2, <1>6
<1>8. q = s /\ r = t  BY <1>1, <1>2, <1>3, <1>7
<1> QED BY <1>2, <1>3, <1>8

(* One more byte. *)
LEMMA FillStep ==
  ASSUME OnPanel(mem), PointerInWindow, NEW ram \in {"bw", "color"}, NEW d,
         NEW k \in Nat, k < Width * Lines, NEW n, OnPanel(n), Filled(k, n, ram, d)
  PROVE  Filled(k + 1, write_ram_byte(n, ram, d[k + 1]), ram, d)
<1> DEFINE t == write_ram_byte(n, ram, d[k + 1])
           q == k \div Width
           r == k % Width
<1>1. /\ t = [f \in MemFields |-> t[f]]
      /\ SameWindow(n, t)
      /\ t.x_addr = IF AtLineEnd(n) THEN n.x_min ELSE n.x_addr + 8
      /\ t.y_addr = IF ~AtLineEnd(n) THEN n.y_addr
                    ELSE IF n.y_addr + 1 > n.y_max THEN n.y_min ELSE n.y_addr + 1
      /\ t[ram] = [n[ram] EXCEPT ![Here(n)] = d[k + 1]]
      /\ \A x \in {"bw", "color"} \ {ram} : t[x] = n[x]
  BY WriteByte
<1> HIDE DEF t
<1>1a. t.x_addr = IF AtLineEnd(n) THEN n.x_min ELSE n.x_addr + 8  BY <1>1
<1>1b. t.y_addr = IF ~AtLineEnd(n) THEN n.y_addr
                  ELSE IF n.y_addr + 1 > n.y_max THEN n.y_min ELSE n.y_addr + 1
  BY <1>1
<1>2. SameWindow(mem, t) /\ SameWindow(mem, n)  BY <1>1 DEF SameWindow, Filled
<1>3. /\ Left \in 0 .. LineBytes - 1 /\ mem.x_min = 8 * Left
      /\ Width \in Nat /\ Width > 0 /\ Left + Width <= LineBytes
      /\ Lines \in Nat /\ Lines > 0 /\ mem.y_min \in Nat /\ mem.y_max \in Nat
      /\ mem.y_min + Lines <= Height
      /\ \A c \in Nat : (8 * c + 8 > mem.x_max) <=> (c >= mem.x_max \div 8)
  BY WindowSize
<1>4. q \in Nat /\ r \in 0 .. Width - 1 /\ k = q * Width + r  BY <1>3, Division
<1>5. /\ q < Lines
      /\ r < Width - 1 =>
           (k + 1) \div Width = q /\ (k + 1) % Width = r + 1 /\ k + 1 # Width * Lines
      /\ r = Width - 1 => (k + 1) \div Width = q + 1 /\ (k + 1) % Width = 0
      /\ r = Width - 1 => (k + 1 = Width * Lines <=> q + 1 = Lines)
  BY <1>3, NextPlace
<1>6. n.x_addr = 8 * (Left + r) /\ n.y_addr = mem.y_min + q
  <2>1. k # Width * Lines  BY <1>3
  <2> QED BY <2>1 DEF Filled
<1>6a. PlaceOf(k) = (mem.y_min + q) * LineBytes + (Left + r)  BY DEF PlaceOf
<1> HIDE DEF q, r
<1>7. AtLineEnd(n) <=> r = Width - 1
  <2>1. n.x_max = mem.x_max  BY <1>2 DEF SameWindow
  <2>2. AtLineEnd(n) <=> Left + r >= mem.x_max \div 8
    BY <2>1, <1>3, <1>4, <1>6 DEF AtLineEnd
  <2>3. mem.x_max \div 8 = Left + Width - 1  BY WindowSize
  <2> QED BY <2>2, <2>3, <1>3, <1>4
<1>8. t.x_addr = 8 * (Left + ((k + 1) % Width))
  <2>1. CASE r = Width - 1
    <3>1. t.x_addr = 8 * Left  BY <2>1, <1>1a, <1>2, <1>3, <1>7 DEF SameWindow
    <3>2. (k + 1) % Width = 0 /\ Left \in Nat
      <4>1. Left \in Nat  BY <1>3, RamAssumption
      <4>2. (k + 1) % Width = 0  BY <2>1, <1>5
      <4> QED BY <4>1, <4>2
    <3> QED BY <3>1, <3>2
  <2>2. CASE r < Width - 1
    <3>1. t.x_addr = 8 * (Left + r) + 8
      <4>1. ~AtLineEnd(n)  BY <2>2, <1>3, <1>4, <1>7
      <4> QED BY <4>1, <1>1a, <1>6
    <3>2. (k + 1) % Width = r + 1  BY <2>2, <1>5
    <3>3. Left \in Int /\ r \in Int  BY <1>3, <1>4, RamAssumption
    <3> QED BY <3>1, <3>2, <3>3
  <2> QED BY <2>1, <2>2, <1>3, <1>4
<1>9. t.y_addr = IF k + 1 = Width * Lines THEN mem.y_min ELSE mem.y_min + ((k + 1) \div Width)
  <2>1. CASE r = Width - 1
    <3>1. n.y_max = mem.y_min + Lines - 1 /\ n.y_min = mem.y_min
      BY <1>2, <1>3 DEF SameWindow, Lines
    <3>2. t.y_addr = IF mem.y_min + q + 1 > mem.y_min + Lines - 1 THEN mem.y_min
                     ELSE mem.y_min + q + 1
      BY <2>1, <3>1, <1>1b, <1>6, <1>7
    <3> QED BY <2>1, <3>2, <1>3, <1>4, <1>5
  <2>2. CASE r < Width - 1  BY <2>2, <1>1b, <1>3, <1>4, <1>5, <1>6, <1>7
  <2> QED BY <2>1, <2>2, <1>3, <1>4
<1>10. ASSUME NEW j \in 0 .. k  PROVE t[ram][PlaceOf(j)] = d[j + 1]
  <2>1. Here(n) = PlaceOf(k)
    <3>1. \A x \in Nat : (8 * x) \div 8 = x  OBVIOUS
    <3>2. Left + r \in Nat  BY <1>3, <1>4
    <3> QED BY <3>2, <3>1, <1>6, <1>6a DEF Here
  <2>0. n[ram] = [o \in Offsets |-> n[ram][o]]  BY DEF OnPanel
  <2>4. t[ram] = [n[ram] EXCEPT ![Here(n)] = d[k + 1]]  BY <1>1
  <2>2. CASE j = k
    <3>1. Here(n) \in Offsets  BY HereAddress
    <3>2. t[ram][Here(n)] = d[k + 1]  BY <2>0, <2>4, <3>1, Zenon
    <3> QED BY <2>1, <2>2, <3>2
  <2>3. CASE j # k
    <3>1. j \in 0 .. k - 1 /\ j \in Nat /\ j < k  BY <2>3
    <3>2. PlaceOf(j) # PlaceOf(k)  BY <3>1, OtherPlace
    <3>4. j < Width * Lines  BY <3>1, <1>3
    <3>5. PlaceOf(j) \in Offsets  BY <3>1, <3>4, PlaceOnPanel
    <3>3. t[ram][PlaceOf(j)] = n[ram][PlaceOf(j)]  BY <3>2, <3>5, <2>0, <2>1, <2>4, Zenon
    <3> QED BY <3>1, <3>3 DEF Filled
  <2> QED BY <2>2, <2>3
<1>11. (k + 1) - 1 = k  OBVIOUS
<1> QED BY <1>2, <1>8, <1>9, <1>10, <1>11 DEF Filled, t

(* The window's bytes are its lines of Width bytes. *)
LEMMA AreaIsRectangle == Area = Width * Lines
BY DEF Area, Width, Lines

(* The whole write. *)
LEMMA WriteFills ==
  ASSUME OnPanel(mem), PointerInWindow, mem.x_addr = mem.x_min, mem.y_addr = mem.y_min,
         NEW ram \in {"bw", "color"}, NEW d \in Seq(Nat), Len(d) = Area, WriteRam(ram, d)
  PROVE  Filled(Area, mem', ram, d)
<1> DEFINE P == Passes(mem, ram, d)
           S == {i \in 0 .. Len(d) : Filled(i, P[i], ram, d)}
<1>1. Len(d) \in Nat /\ Len(d) = Width * Lines  BY AreaIsRectangle
<1>2. /\ mem.x_min = 8 * Left /\ Left \in Nat
      /\ Width \in Nat /\ Width > 0 /\ Lines \in Nat /\ Lines > 0 /\ mem.y_min \in Nat
  <2>1. LineBytes \in Nat  BY RamAssumption
  <2> QED BY <2>1, WindowSize
<1>3. 0 \in S
  <2>1. 0 % Width = 0 /\ 0 \div Width = 0  BY <1>2
  <2>2. SameWindow(mem, mem)  BY DEF SameWindow
  <2>3. Filled(0, mem, ram, d)  BY <1>2, <2>1, <2>2 DEF Filled
  <2> QED BY <1>1, <2>3, PassesStep
<1>4. ASSUME NEW i \in 0 .. Len(d) - 1, i \in S  PROVE i + 1 \in S
  <2>1. Filled(i, P[i], ram, d) /\ i \in 0 .. Len(d) /\ i \in Nat /\ i < Width * Lines
    BY <1>1, <1>4
  <2>2. OnPanel(P[i])  BY <2>1, PassesOnPanel
  <2>3. P[i + 1] = write_ram_byte(P[i], ram, d[i + 1])  BY PassesStep
  <2>4. Filled(i + 1, P[i + 1], ram, d)
    <3> HIDE DEF P
    <3> QED BY <2>1, <2>2, <2>3, FillStep
  <2> QED BY <2>4, <1>1
<1>5. 0 .. Len(d) \subseteq S
  <2> HIDE DEF S
  <2> QED BY <1>1, <1>3, <1>4, CountUp
<1>6. Filled(Len(d), P[Len(d)], ram, d)  BY <1>1, <1>5
<1> QED BY <1>6 DEF WriteRam, on_cmd_write_ram

(* A write of exactly the window's bytes from its origin fills the window  *)
(* line by line and takes the pointer back to the origin, on which the     *)
(* driver relies between the two frames of DisplayFrame.                   *)
THEOREM FullWriteFillsWindow == Spec => FullWindowWrite
<1> DEFINE Fills(ram, d) ==
      /\ PointerInWindow /\ mem.x_addr = mem.x_min /\ mem.y_addr = mem.y_min
      /\ Len(d) = Area
      /\ WriteRam(ram, d)
      => /\ mem'.x_addr = mem.x_min /\ mem'.y_addr = mem.y_min
         /\ \A c \in WindowColumns, r \in WindowRows :
              LET row == r - mem.y_min
                  col == c - mem.x_min \div 8
                  width == mem.x_max \div 8 - mem.x_min \div 8 + 1
              IN  mem'[ram][r * LineBytes + c] = d[row * width + col + 1]
<1>1. ASSUME OnPanel(mem), NEW ram \in Targets, NEW d \in Payloads
      PROVE  Fills(ram, d)
  <2> SUFFICES ASSUME PointerInWindow, mem.x_addr = mem.x_min, mem.y_addr = mem.y_min,
                      Len(d) = Area, WriteRam(ram, d)
               PROVE  /\ mem'.x_addr = mem.x_min /\ mem'.y_addr = mem.y_min
                      /\ \A c \in WindowColumns, r \in WindowRows :
                           mem'[ram][r * LineBytes + c]
                             = d[(r - mem.y_min) * Width + (c - Left) + 1]
    BY DEF Width, Left
  <2>1. ram \in {"bw", "color"} /\ d \in Seq(Nat)  BY RamAssumption
  <2>2. Filled(Area, mem', ram, d)  BY <1>1, <2>1, WriteFills
  <2>3. /\ mem.x_min = 8 * Left /\ Left \in Nat
        /\ Width \in Nat /\ Width > 0 /\ Lines \in Nat /\ Lines > 0 /\ mem.y_min \in Nat
        /\ mem.x_max \div 8 = Left + Width - 1
    <3>1. LineBytes \in Nat  BY RamAssumption
    <3> QED BY <1>1, <3>1, WindowSize
  <2>4. Area = Width * Lines  BY AreaIsRectangle
  <2>5. mem'.x_addr = mem.x_min /\ mem'.y_addr = mem.y_min
    <3>1. Area = Lines * Width + 0 /\ 0 \in 0 .. Width - 1  BY <2>3, <2>4
    <3>2. Area % Width = 0  BY <2>3, <3>1, DivMod
    <3> QED BY <2>2, <2>3, <2>4, <3>2 DEF Filled
  <2>6. ASSUME NEW c \in WindowColumns, NEW r \in WindowRows
        PROVE  mem'[ram][r * LineBytes + c] = d[(r - mem.y_min) * Width + (c - Left) + 1]
    <3> DEFINE row == r - mem.y_min
               col == c - Left
               j == row * Width + col
    <3>1. col \in 0 .. Width - 1
      BY <2>3 DEF WindowColumns, Left
    <3>2. row \in 0 .. Lines - 1 /\ row \in Nat
      <4>1. mem.y_max \in Nat  BY <1>1, RamAssumption DEF OnPanel, Rows
      <4> QED BY <2>3, <4>1 DEF WindowRows, Lines
    <3>3. j \div Width = row /\ j % Width = col
      <4> HIDE DEF row, col
      <4> QED BY <2>3, <3>1, <3>2, DivMod
    <3>4. j \in 0 .. Area - 1
      <4> HIDE DEF row, col
      <4> QED BY <2>3, <2>4, <3>1, <3>2, InRectangle
    <3>5. PlaceOf(j) = r * LineBytes + c
      <4>0. r \in Int /\ c \in Int
        <5>1. mem.y_max \in Nat  BY <1>1, RamAssumption DEF OnPanel, Rows
        <5> QED BY <2>3, <5>1 DEF WindowRows, WindowColumns, Left
      <4>1. r = mem.y_min + row /\ c = Left + col
        BY <4>0, <2>3
      <4> HIDE DEF row, col, j
      <4> QED BY <3>3, <4>1 DEF PlaceOf
    <3>6. mem'[ram][PlaceOf(j)] = d[j + 1]
      <4> HIDE DEF j
      <4> QED BY <2>2, <3>4 DEF Filled
    <3> QED BY <3>5, <3>6
  <2> QED BY <2>5, <2>6
<1> HIDE DEF Fills
<1>2. OnPanel(mem) => [\A ram \in Targets, d \in Payloads : Fills(ram, d)]_vars
  BY <1>1
<1>3. Spec => [][\A ram \in Targets, d \in Payloads : Fills(ram, d)]_vars
  BY <1>2, AlwaysOnPanel, PTL DEF Spec
<1> QED BY <1>3 DEF FullWindowWrite, Fills

============================================================================
