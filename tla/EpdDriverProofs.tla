-------------------------- MODULE EpdDriverProofs --------------------------
(***************************************************************************)
(* What the driver's calls leave in the chip, for every height, picture    *)
(* and order of calls, and wherever the microcontroller restarts.          *)
(*                                                                         *)
(* The argument has four parts: what the scripts of the calls are made of, *)
(* what the chip's receiver makes of a command byte and of data, what that *)
(* does to the display RAM and to the display engine (the theorems of      *)
(* RamWindowProofs and PanelProofs, here of the chip's own mem and panel), *)
(* and an invariant that says how far the chip has come with the script.   *)
(***************************************************************************)
EXTENDS EpdDriver, Counting, SequenceTheorems

(* What SPI transfers. *)
Byte == 0 .. 255

(* The theorems of the display engine, for any host ... *)
P == INSTANCE PanelProofs WITH HostWaits <- FALSE, ram <- Device!Picture(mem)
(* ... and for one that sends nothing while BUSY is high; those of the     *)
(* display RAM.                                                            *)
PT == INSTANCE PanelProofs WITH HostWaits <- TRUE, ram <- Device!Picture(mem)
R == INSTANCE RamWindowProofs WITH
       LineBytes <- 1, ByteSize <- 256, PorByte <- 255, Targets <- {"bw", "color"},
       Payloads <- Seq(Byte), EntryModes <- {3}

(* The images SetFrameMemory_Base takes. *)
FullPictures == {p \in Pictures : Len(p) = Height}

(* The scripts of all calls. *)
Scripts ==
  {InitScript, DisplayFrame, DisplayFrame_Partial, Sleep}
    \cup {SetFrameMemory(y, image) : y \in Lines, image \in Pictures}
    \cup {SetFrameMemory_Partial(y, image) : y \in Lines, image \in Pictures}
    \cup {SetFrameMemory_Base(image) : image \in FullPictures}
    \cup {ClearFrameMemory(color) : color \in Shades}

(* The commands the driver sends with data other than a picture. *)
WithData == {1, 3, 4, 16, 17, 33, 34, 44, 50, 55, 60, 63, 68, 69, 78, 79}

(* The steps of the scripts. *)
Steps ==
  [op : {"command"}, code : WithData \cup {18, 32, 36, 38}]
    \cup [op : {"data"}, bytes : Seq(Byte)]
    \cup [op : {"rows"}, ram : {"bw", "color"}, first : Lines, bytes : Seq(Byte)]
    \cup [op : {"pulse", "wait"}]

(* A step that is the command c, or the data bytes. *)
Is(st, c) == st.op = "command" /\ st.code = c
Gives(st, bytes) == st.op = "data" /\ st.bytes = bytes

(* Data that addresses one line of the panel, or two. *)
OneLine(bytes) == \E y \in Lines : bytes = CoordBytes(y)
TwoLines(bytes) == \E from, to \in Lines : bytes = CoordBytes(from) \o CoordBytes(to)

(* The data the driver sends with the command c: as much as the table      *)
(* says, and of the values the chip is asked to hold.                      *)
Proper(c, bytes) ==
  /\ c \in WithData /\ Len(bytes) = Device!Rx!InTable(c)
  /\ c = 16 => bytes[1] \in P!SleepModes
  /\ c = 34 => bytes[1] \in P!UpdSeqs
  /\ c = 17 => bytes = <<3>>
  /\ c = 68 => bytes = <<0, 0>>
  /\ c = 69 => TwoLines(bytes)
  /\ c = 78 => bytes = <<0>>
  /\ c = 79 => OneLine(bytes)

(* The RAM a picture command writes. *)
RamOf(c) == IF c = 36 THEN "bw" ELSE "color"

(* A step that has the data of the command c. *)
Carries(c, st) ==
  \/ st.op = "data" /\ Proper(c, st.bytes)
  \/ /\ st.op = "rows" /\ c \in {36, 38} /\ st.ram = RamOf(c)
     /\ Len(st.bytes) > 0 /\ st.first + Len(st.bytes) <= Height

(* The steps before the commands that aim the picture of step i: a picture *)
(* for the second RAM follows the one for the first, which the same        *)
(* commands aim.                                                           *)
Start(S, i) == IF S[i].ram = "bw" THEN i - 11 ELSE i - 13

(* The rows of step i go where the window and the pointer have been set. *)
Aimed(S, i) ==
  LET p == Start(S, i)
      y == S[i].first
      n == Len(S[i].bytes)
  IN  /\ p >= 0
      /\ Is(S[p + 1], 68) /\ Gives(S[p + 2], <<0, 0>>)
      /\ Is(S[p + 3], 69) /\ Gives(S[p + 4], CoordBytes(y) \o CoordBytes(y + n - 1))
      /\ Is(S[p + 5], 78) /\ Gives(S[p + 6], <<0>>)
      /\ Is(S[p + 7], 79) /\ Gives(S[p + 8], CoordBytes(y))
      /\ S[p + 9].op = "wait" /\ Is(S[p + 10], 36)
      /\ i = p + 13 => /\ S[p + 11].op = "rows" /\ S[p + 11].ram = "bw" 
                       /\ S[p + 11].first = y /\ Len(S[p + 11].bytes) = n
                       /\ Is(S[p + 12], 38)

(* What holds of every script: a command and its data are two steps in a   *)
(* row, an activation follows data, a pulse comes first, pictures are      *)
(* aimed.                                                                  *)
WellFormed(S) ==
  /\ S \in Seq(Steps)
  /\ \A i \in 1 .. Len(S) :
       /\ S[i].op \in {"data", "rows"} =>
            i > 1 /\ S[i - 1].op = "command" /\ Carries(S[i - 1].code, S[i])
       /\ S[i].op = "command" /\ S[i].code \notin {18, 32} =>
            i < Len(S) /\ S[i + 1].op \in {"data", "rows"}
       /\ Is(S[i], 32) => i > 1 /\ S[i - 1].op = "data"
       /\ S[i].op = "pulse" => i = 1
       /\ S[i].op = "rows" => Aimed(S, i)

(* How far the RAM m is aimed at the n rows from y after k steps, the      *)
(* aiming having begun after p.                                            *)
ReadyFrom(m, p, y, n, k) ==
  /\ k >= p + 2 => m.x_min = 0 /\ m.x_max = 7
  /\ k >= p + 4 => m.y_min = y /\ m.y_max = y + n - 1
  /\ k >= p + 6 => m.x_addr = 0
  /\ k >= p + 8 => m.y_addr = y

(* How far it is aimed at the picture of step i. *)
Ready(m, S, i, k) == ReadyFrom(m, Start(S, i), S[i].first, Len(S[i].bytes), k)

(* A call that shows the picture has started the engine with its third     *)
(* step and does not end before the engine does.                           *)
Shown(S, k) ==
  epd.call = "Show" =>
    /\ S \in {DisplayFrame, DisplayFrame_Partial}
    /\ k >= 3 => /\ spi.data_ndx = 0 /\ PT!IndInv
                 /\ IF panel.timer = "off" THEN panel.frame = FinalImage(panel.version, Device!Picture(mem))
                                            ELSE panel.busy = HIGH
    /\ k = 4 => panel.timer = "off"

(* The receiver buffers nothing but a picture, and expects the data of the *)
(* last step if that was a command with data.                              *)
Received(S, k) ==
  /\ spi.data_ndx \in 0 .. MAX_DATA_TXFER - 1
  /\ spi.data_ndx > 0 => spi.cmd \in {36, 38}
  /\ k > 0 /\ S[k].op = "command" /\ S[k].code \notin {18, 32} =>
       spi.cmd = S[k].code /\ spi.data_ndx = 0
  /\ k > 0 /\ S[k].op = "data" => spi.data_ndx = 0

(* The RAM, with the picture that may still be buffered, holds what is     *)
(* drawn, and is aimed as far as the script has come.                      *)
Drawing(S, k) ==
  /\ R!OnPanel(Settled) /\ Device!Picture(Settled) = drawn
  /\ \A i \in k + 1 .. Len(S) : S[i].op = "rows" => Ready(Settled, S, i, k)

(* The driver is k steps into the script S. CS is high, but for the steps  *)
(* of Init up to the first command byte.                                   *)
Live(S, k) ==
  /\ k \in 0 .. Len(S) /\ epd.todo = SubSeq(S, k + 1, Len(S))
  /\ epd.call = "Init" => S = InitScript
  /\ cs \in {LOW, HIGH}
  /\ cs = LOW => S = InitScript /\ k \in {1, 2} /\ spi.data_ndx = 0 /\ mem = Device!Ram!ResetMem
  /\ Received(S, k) /\ Drawing(S, k) /\ Shown(S, k)

(* The receiver, of which the proofs need little more than its fields. *)
IsReceiver(s) ==
  /\ DOMAIN s = {"cmd", "data_ndx", "data", "mode", "armed", "beyond", "calls", "runs"}
  /\ DOMAIN s.data = 1 .. MAX_DATA_TXFER

(* The inductive invariant. After a restart, until the pulse of Init, only *)
(* what no reset restores is known.                                        *)
Inv ==
  /\ IsReceiver(spi) /\ NoneCutShort /\ P!IndInv /\ cs \in {LOW, HIGH} /\ DOMAIN epd = {"call", "todo"}
  /\ \/ Interrupted /\ epd.todo = InitScript
     \/ ~Interrupted /\ \E S \in Scripts : \E k \in 0 .. Len(S) : Live(S, k)

-----------------------------------------------------------------------------
(* The chip's components and the modules of their proofs *)

(* The handlers of the engine are the same, seen from the chip and from    *)
(* the instance of its proofs.                                             *)
LEMMA SameEngine ==
  /\ \A p : P!chip_reset(p) = Device!Engine!chip_reset(p)
  /\ \A p, d : P!on_cmd_disp_upd_ctl2(p, d) = Device!Engine!on_cmd_disp_upd_ctl2(p, d)
  /\ \A p, d : P!on_cmd_deep_sleep(p, d) = Device!Engine!on_cmd_deep_sleep(p, d)
<1>1. \A p : P!chip_reset(p) = Device!Engine!chip_reset(p)
  BY Zenon DEF P!chip_reset, Device!Engine!chip_reset, P!LOW, Device!Engine!LOW
<1>2. \A p, d : P!on_cmd_disp_upd_ctl2(p, d) = Device!Engine!on_cmd_disp_upd_ctl2(p, d)
  BY Zenon DEF P!on_cmd_disp_upd_ctl2, Device!Engine!on_cmd_disp_upd_ctl2
<1>3. \A p, d : P!on_cmd_deep_sleep(p, d) = Device!Engine!on_cmd_deep_sleep(p, d)
  BY Zenon DEF P!on_cmd_deep_sleep, Device!Engine!on_cmd_deep_sleep, P!HIGH, Device!Engine!HIGH
<1> QED BY <1>1, <1>2, <1>3

(* So are the steps of an activation ... *)
LEMMA SameSteps ==
  ASSUME NEW p, NEW r
  PROVE  P!on_activation_step(p, r) = Device!Engine!on_activation_step(p, r)
BY Zenon DEF P!on_activation_step, Device!Engine!on_activation_step, P!SeqEnded, Device!Engine!SeqEnded,
  P!EndActivation, Device!Engine!EndActivation, P!RunStep, Device!Engine!RunStep,
  P!CurrentStep, Device!Engine!CurrentStep, P!ScanAfter, Device!Engine!ScanAfter,
  P!ScanSteps, Device!Engine!ScanSteps, P!WalkSteps, Device!Engine!WalkSteps,
  P!LOW, P!HIGH, Device!Engine!LOW, Device!Engine!HIGH,
  P!Paint, Device!Engine!Paint, P!PaintedLines, Device!Engine!PaintedLines,
  P!Lines, Device!Engine!Lines, P!StepPixel, Device!Engine!StepPixel,
  P!BwPixel, Device!Engine!BwPixel, P!ColorPixel, Device!Engine!ColorPixel,
  P!FadePixel, Device!Engine!FadePixel, P!FB_WHITE, P!FB_BLACK, P!FB_COLOR,
  Device!Engine!FB_WHITE, Device!Engine!FB_BLACK, Device!Engine!FB_COLOR

(* ... and its start. *)
LEMMA SameActivation ==
  ASSUME NEW p, NEW r
  PROVE  P!on_cmd_master_activation(p, r) = Device!Engine!on_cmd_master_activation(p, r)
<1>1. P!SelectedSeq(p) = Device!Engine!SelectedSeq(p)
  BY Zenon DEF P!SelectedSeq, Device!Engine!SelectedSeq, P!AM_IMMEDIATE_UPDATE,
       Device!Engine!AM_IMMEDIATE_UPDATE,
       P!activation_modes, P!v1_act_seq,
       P!v1_act_seq_immediate, P!v1_act_seq_blink, P!v1_act_seq_scanline,
       P!v2_act_seq, P!v2_act_seq_immediate, P!v2_act_seq_scanline,
       Device!Engine!activation_modes, Device!Engine!v1_act_seq,
       Device!Engine!v1_act_seq_immediate, Device!Engine!v1_act_seq_blink, Device!Engine!v1_act_seq_scanline,
       Device!Engine!v2_act_seq, Device!Engine!v2_act_seq_immediate, Device!Engine!v2_act_seq_scanline
<1>2. \A q : P!on_activation_step(q, r) = Device!Engine!on_activation_step(q, r)
  BY SameSteps
<1> QED BY <1>1, <1>2, Zenon DEF P!on_cmd_master_activation, Device!Engine!on_cmd_master_activation

(* So are the handlers of the addressing commands ... *)
LEMMA SameMemory ==
  ASSUME NEW m, NEW d
  PROVE  /\ R!on_cmd_write_ram_x_coords(m, d) = Device!Ram!on_cmd_write_ram_x_coords(m, d)
         /\ R!on_cmd_write_ram_y_coords(m, d) = Device!Ram!on_cmd_write_ram_y_coords(m, d)
         /\ R!on_cmd_write_ram_x_addr_ctr(m, d) = Device!Ram!on_cmd_write_ram_x_addr_ctr(m, d)
         /\ R!on_cmd_write_ram_y_addr_ctr(m, d) = Device!Ram!on_cmd_write_ram_y_addr_ctr(m, d)
         /\ R!on_cmd_data_entry_mode(m, d) = Device!Ram!on_cmd_data_entry_mode(m, d)
         /\ R!ResetMem = Device!Ram!ResetMem
<1>1. R!on_cmd_write_ram_x_coords(m, d) = Device!Ram!on_cmd_write_ram_x_coords(m, d)
  BY DEF R!on_cmd_write_ram_x_coords, Device!Ram!on_cmd_write_ram_x_coords
<1>2. R!on_cmd_write_ram_y_coords(m, d) = Device!Ram!on_cmd_write_ram_y_coords(m, d)
  BY DEF R!on_cmd_write_ram_y_coords, Device!Ram!on_cmd_write_ram_y_coords, R!Word, Device!Ram!Word
<1>3. R!on_cmd_write_ram_x_addr_ctr(m, d) = Device!Ram!on_cmd_write_ram_x_addr_ctr(m, d)
  BY DEF R!on_cmd_write_ram_x_addr_ctr, Device!Ram!on_cmd_write_ram_x_addr_ctr
<1>4. R!on_cmd_write_ram_y_addr_ctr(m, d) = Device!Ram!on_cmd_write_ram_y_addr_ctr(m, d)
  BY DEF R!on_cmd_write_ram_y_addr_ctr, Device!Ram!on_cmd_write_ram_y_addr_ctr, R!Word, Device!Ram!Word
<1>5. R!on_cmd_data_entry_mode(m, d) = Device!Ram!on_cmd_data_entry_mode(m, d)
  BY DEF R!on_cmd_data_entry_mode, Device!Ram!on_cmd_data_entry_mode
<1>6. R!ResetMem = Device!Ram!ResetMem
  BY DEF R!ResetMem, Device!Ram!ResetMem, R!ADDR_INCR_MODE_POR, Device!Ram!ADDR_INCR_MODE_POR,
         R!Offsets, Device!Ram!Offsets
<1> QED BY <1>1, <1>2, <1>3, <1>4, <1>5, <1>6

(* ... and those that write the display RAM. *)
LEMMA SameWrite ==
  ASSUME NEW m, NEW ram, NEW d
  PROVE  R!on_cmd_write_ram(m, ram, d) = Device!Ram!on_cmd_write_ram(m, ram, d)
<1>1. \A n, b : R!Store(n, ram, b) = Device!Ram!Store(n, ram, b)
  BY DEF R!Store, Device!Ram!Store
<1>2. \A n : R!NextLine(n) = Device!Ram!NextLine(n)
  BY DEF R!NextLine, Device!Ram!NextLine
<1>3. \A n, b : R!write_ram_byte(n, ram, b) = Device!Ram!write_ram_byte(n, ram, b)
  <2> SUFFICES ASSUME NEW n, NEW b
               PROVE  R!write_ram_byte(n, ram, b) = Device!Ram!write_ram_byte(n, ram, b)
    OBVIOUS
  <2> DEFINE right == (n.x_addr + 8) % 65536
  <2>1. R!write_ram_byte(n, ram, b)
          = IF right > n.x_max THEN R!NextLine(R!Store(n, ram, b))
                               ELSE [R!Store(n, ram, b) EXCEPT !.x_addr = right]
    BY DEF R!write_ram_byte
  <2>2. Device!Ram!write_ram_byte(n, ram, b)
          = IF right > n.x_max THEN Device!Ram!NextLine(Device!Ram!Store(n, ram, b))
                               ELSE [Device!Ram!Store(n, ram, b) EXCEPT !.x_addr = right]
    BY DEF Device!Ram!write_ram_byte
  <2> HIDE DEF right
  <2>3. R!Store(n, ram, b) = Device!Ram!Store(n, ram, b)
    BY <1>1
  <2>4. R!NextLine(R!Store(n, ram, b)) = Device!Ram!NextLine(Device!Ram!Store(n, ram, b))
    BY <1>2, <2>3
  <2> QED BY <2>1, <2>2, <2>3, <2>4, Zenon
<1>4. R!Passes(m, ram, d) = Device!Ram!Passes(m, ram, d)
  <2>1. ASSUME NEW f
        PROVE  [i \in 0 .. Len(d) |-> IF i = 0 THEN m ELSE R!write_ram_byte(f[i - 1], ram, d[i])]
                 = [i \in 0 .. Len(d) |->
                      IF i = 0 THEN m ELSE Device!Ram!write_ram_byte(f[i - 1], ram, d[i])]
    BY <1>3
  <2> QED BY <2>1 DEF R!Passes, Device!Ram!Passes
<1> QED BY <1>4, Zenon DEF R!on_cmd_write_ram, Device!Ram!on_cmd_write_ram

(* The assumptions of those modules hold for this driver. *)
LEMMA PanelFacts == P!PanelAssumption /\ PT!PanelAssumption
BY DriverAssumption
   DEF P!PanelAssumption, PT!PanelAssumption, P!Colours, PT!Colours, Colours, P!FB_BLACK, P!FB_WHITE,
       P!FB_COLOR, P!FB_OTHER, PT!FB_BLACK, PT!FB_WHITE, PT!FB_COLOR, PT!FB_OTHER, FB_BLACK,
       FB_WHITE, FB_COLOR, FB_OTHER

(* The RAM is one byte wide, and a byte is one. *)
LEMMA RamFacts == R!RamAssumption
<1>1. ASSUME NEW p \in Seq(Byte) PROVE p \in Seq(Nat)
  <2>1. Byte \subseteq Nat BY DEF Byte
  <2> QED BY <2>1, SeqMonotonic
<1> QED BY <1>1, DriverAssumption DEF R!RamAssumption

-----------------------------------------------------------------------------
(* Scripts *)

(* The first of the steps left, and the others. *)
LEMMA Suffix ==
  ASSUME NEW S \in Seq(Steps), NEW k \in 0 .. Len(S)
  PROVE  LET left == SubSeq(S, k + 1, Len(S))
         IN  /\ left = <<>> <=> k = Len(S)
             /\ left # <<>> => Head(left) = S[k + 1] /\ Tail(left) = SubSeq(S, (k + 1) + 1, Len(S))
<1> DEFINE left == SubSeq(S, k + 1, Len(S))
<1>1. CASE k = Len(S)
  <2>1. left = <<>>
    BY <1>1, SubSeqEmpty
  <2> HIDE DEF left
  <2> QED BY <1>1, <2>1 DEF left
<1>2. CASE k < Len(S)
  <2>1. k + 1 \in 1 .. Len(S) /\ Len(S) \in k + 1 .. Len(S)
    BY <1>2
  <2>2. Head(left) = S[k + 1] /\ Tail(left) = SubSeq(S, (k + 1) + 1, Len(S))
    BY <2>1, HeadTailOfSubSeq
  <2>3. Len(left) = Len(S) - k
    BY <2>1
  <2> HIDE DEF left
  <2>4. left # <<>>
    BY <1>2, <2>3
  <2> QED BY <1>2, <2>2, <2>4 DEF left
<1> QED BY <1>1, <1>2

(* T's steps up to j stand in S, d places on. *)
Shifted(S, T, d, j) == \A q \in 1 .. j : S[d + q] = T[q]

(* What aims a picture does so wherever it stands in a script. *)
LEMMA AimedAnywhere ==
  ASSUME NEW S, NEW T, NEW d \in Nat, NEW j \in Nat, j > 0, Shifted(S, T, d, j), Aimed(T, j)
  PROVE  Aimed(S, d + j)
<1> DEFINE p == Start(T, j)
           b == Start(S, d + j)
<1>0. p >= 0
  BY DEF Aimed
<1>1. S[d + j] = T[j]
  BY DEF Shifted
<1>2. p \in 0 .. j - 11 /\ b = d + p /\ (d + j = b + 13 <=> j = p + 13) /\ b >= 0
  BY <1>0, <1>1 DEF Start
<1> HIDE DEF p, b
<1>3. ASSUME NEW q \in 1 .. 12, p + q <= j
      PROVE  S[b + q] = T[p + q]
  <2>1. p + q \in 1 .. j /\ b + q = d + (p + q)
    BY <1>2, <1>3
  <2> QED BY <2>1 DEF Shifted
<1>4. /\ S[b + 1] = T[p + 1] /\ S[b + 2] = T[p + 2] /\ S[b + 3] = T[p + 3]
      /\ S[b + 4] = T[p + 4] /\ S[b + 5] = T[p + 5] /\ S[b + 6] = T[p + 6]
      /\ S[b + 7] = T[p + 7] /\ S[b + 8] = T[p + 8] /\ S[b + 9] = T[p + 9]
      /\ S[b + 10] = T[p + 10]
  BY <1>2, <1>3
<1>5. j = p + 13 => S[b + 11] = T[p + 11] /\ S[b + 12] = T[p + 12]
  BY <1>2, <1>3
<1> QED BY <1>1, <1>2, <1>4, <1>5 DEF Aimed, p, b

(* Calls made of calls. *)
LEMMA Join ==
  ASSUME NEW a, NEW b, WellFormed(a), WellFormed(b), b = <<>> \/ b[1].op # "pulse"
  PROVE  WellFormed(a \o b)
<1> DEFINE S == a \o b
<1>1. a \in Seq(Steps) /\ b \in Seq(Steps)
  BY DEF WellFormed
<1>2. /\ S \in Seq(Steps) /\ Len(S) = Len(a) + Len(b)
      /\ \A i \in 1 .. Len(S) : S[i] = IF i <= Len(a) THEN a[i] ELSE b[i - Len(a)]
      /\ Len(a) \in Nat /\ Len(b) \in Nat
  BY <1>1, ConcatProperties
<1> HIDE DEF S
<1>3. ASSUME NEW i \in 1 .. Len(S), S[i].op = "rows"
      PROVE  Aimed(S, i)
  <2>1. CASE i <= Len(a)
    <3>1. i \in 1 .. Len(a) /\ a[i].op = "rows"
      BY <1>2, <1>3, <2>1
    <3>2. Aimed(a, i) /\ Shifted(S, a, 0, i) /\ 0 + i = i /\ i > 0 /\ i \in Nat
      BY <1>2, <3>1 DEF WellFormed, Shifted
    <3>3. Aimed(S, 0 + i)
      BY <3>2, AimedAnywhere
    <3> QED BY <3>2, <3>3
  <2>2. CASE i > Len(a)
    <3> DEFINE j == i - Len(a)
    <3>1. j \in 1 .. Len(b) /\ b[j].op = "rows" /\ Len(a) + j = i
      BY <1>2, <1>3, <2>2
    <3> HIDE DEF j
    <3>2. Shifted(S, b, Len(a), j)
      <4> SUFFICES ASSUME NEW q \in 1 .. j PROVE S[Len(a) + q] = b[q]
        BY DEF Shifted
      <4>1. Len(a) + q \in 1 .. Len(S) /\ Len(a) + q > Len(a) /\ Len(a) + q - Len(a) = q
        BY <1>2, <3>1
      <4> QED BY <1>2, <4>1
    <3>3. Aimed(b, j) /\ j > 0 /\ j \in Nat
      BY <1>2, <3>1 DEF WellFormed
    <3>4. Aimed(S, Len(a) + j)
      BY <1>2, <3>2, <3>3, AimedAnywhere
    <3> QED BY <3>1, <3>4
  <2> QED BY <1>2, <2>1, <2>2
<1>4. ASSUME NEW i \in 1 .. Len(S)
      PROVE  /\ S[i].op \in {"data", "rows"} =>
                  i > 1 /\ S[i - 1].op = "command" /\ Carries(S[i - 1].code, S[i])
             /\ S[i].op = "command" /\ S[i].code \notin {18, 32} =>
                  i < Len(S) /\ S[i + 1].op \in {"data", "rows"}
             /\ Is(S[i], 32) => i > 1 /\ S[i - 1].op = "data"
             /\ S[i].op = "pulse" => i = 1
  <2>1. CASE i <= Len(a)
    <3>1. /\ i \in 1 .. Len(a) /\ S[i] = a[i] /\ (i > 1 => S[i - 1] = a[i - 1])
          /\ (i < Len(a) => S[i + 1] = a[i + 1] /\ i < Len(S))
      BY <1>2, <2>1
    <3> QED BY <3>1 DEF WellFormed
  <2>2. CASE i > Len(a)
    <3> DEFINE j == i - Len(a)
    <3>1. j \in 1 .. Len(b) /\ S[i] = b[j] /\ (j > 1 => i > 1) /\ (j < Len(b) => i < Len(S))
      BY <1>2, <2>2
    <3>2. j > 1 => S[i - 1] = b[j - 1]
      <4>1. j > 1 => i - 1 \in 1 .. Len(S) /\ i - 1 > Len(a) /\ (i - 1) - Len(a) = j - 1
        BY <1>2, <2>2
      <4> QED BY <1>2, <4>1
    <3>3. j < Len(b) => S[i + 1] = b[j + 1]
      <4>1. j < Len(b) => i + 1 \in 1 .. Len(S) /\ i + 1 > Len(a) /\ (i + 1) - Len(a) = j + 1
        BY <1>2, <2>2
      <4> QED BY <1>2, <4>1
    <3>4. j = 1 => b[j].op # "pulse"
      BY <3>1
    <3> HIDE DEF j
    <3> QED BY <3>1, <3>2, <3>3, <3>4 DEF WellFormed
  <2> QED BY <1>2, <2>1, <2>2
<1> QED BY <1>2, <1>3, <1>4 DEF WellFormed, S

(* A part of a call that does not begin with a pulse. *)
Plain(S) == WellFormed(S) /\ S # <<>> /\ S[1].op # "pulse"

(* Such a part may follow any other. *)
LEMMA JoinPlain ==
  ASSUME NEW a, NEW b, Plain(b)
  PROVE  /\ WellFormed(a) => WellFormed(a \o b)
         /\ Plain(a) => Plain(a \o b)
<1>1. WellFormed(a) => WellFormed(a \o b)
  BY Join DEF Plain
<1>2. ASSUME Plain(a) PROVE a \o b # <<>> /\ (a \o b)[1].op # "pulse"
  <2>1. a \in Seq(Steps) /\ b \in Seq(Steps) /\ Len(a) > 0
    BY <1>2 DEF Plain, WellFormed
  <2>2. (a \o b)[1] = a[1] /\ Len(a \o b) > 0
    BY <2>1, ConcatProperties
  <2> QED BY <1>2, <2>2 DEF Plain
<1> QED BY <1>1, <1>2 DEF Plain

(* Pulses, waits and the reset command. *)
LEMMA SingleSteps == WellFormed(Pulse) /\ Plain(WaitUntilIdle) /\ Plain(Cmd(18))
<1>1. ASSUME NEW st \in Steps, st.op \in {"pulse", "wait"} \/ Is(st, 18)
      PROVE  WellFormed(<<st>>)
  BY <1>1 DEF WellFormed, Is
<1>2. /\ [op |-> "pulse"] \in Steps /\ [op |-> "wait"] \in Steps
      /\ [op |-> "command", code |-> 18] \in Steps
  BY DEF Steps
<1> QED BY <1>1, <1>2 DEF Plain, Pulse, WaitUntilIdle, Cmd, Is

(* The command c and its data. *)
LEMMA SendSteps ==
  ASSUME NEW c, NEW bytes \in Seq(Byte), Proper(c, bytes), NEW S, S = Send(c, bytes)
  PROVE  /\ S \in Seq(Steps) /\ Len(S) = 2 /\ Is(S[1], c) /\ Gives(S[2], bytes)
         /\ Plain(S)
<1> DEFINE first == [op |-> "command", code |-> c]
           second == [op |-> "data", bytes |-> bytes]
<1>1. first \in Steps /\ Is(first, c)
  BY DEF Steps, Is, Proper
<1>2. second \in Steps /\ Gives(second, bytes) /\ Carries(c, second)
  BY DEF Steps, Gives, Carries
<1>3. S = <<first>> \o <<second>>
  BY Zenon DEF Send, Cmd, Data
<1> HIDE DEF first, second
<1>4. S \in Seq(Steps) /\ Len(S) = 2 /\ S[1] = first /\ S[2] = second
  BY <1>1, <1>2, <1>3
<1>5. first.op = "command" /\ first.code = c /\ c \notin {18, 32} /\ second.op = "data"
  BY <1>1, <1>2 DEF Is, Gives, Proper, WithData
<1>6. WellFormed(S)
  BY <1>2, <1>4, <1>5 DEF WellFormed, Is
<1>7. S # <<>> /\ S[1].op # "pulse"
  <2>1. S = <<>> => Len(S) = 0
    OBVIOUS
  <2>2. S[1].op # "pulse"
    BY <1>4, <1>5
  <2> QED BY <1>4, <2>1, <2>2
<1> QED BY <1>1, <1>2, <1>4, <1>6, <1>7 DEF Plain

(* S is a and then b. *)
Made(S, a, b) ==
  /\ Len(S) = Len(a) + Len(b)
  /\ \A i \in 1 .. Len(a) : S[i] = a[i]
  /\ \A i \in 1 .. Len(b) : S[Len(a) + i] = b[i]

(* A concatenation, part by part. *)
LEMMA Parts ==
  ASSUME NEW T, NEW a \in Seq(T), NEW b \in Seq(T)
  PROVE  a \o b \in Seq(T) /\ Made(a \o b, a, b)
<1> DEFINE S == a \o b
<1>1. /\ S \in Seq(T) /\ Len(S) = Len(a) + Len(b) /\ Len(a) \in Nat /\ Len(b) \in Nat
      /\ \A i \in 1 .. Len(a) + Len(b) : S[i] = IF i <= Len(a) THEN a[i] ELSE b[i - Len(a)]
  BY ConcatProperties
<1> HIDE DEF S
<1>2. ASSUME NEW i \in 1 .. Len(b) PROVE S[Len(a) + i] = b[i]
  <2>1. Len(a) + i \in 1 .. Len(a) + Len(b) /\ ~(Len(a) + i <= Len(a)) /\ Len(a) + i - Len(a) = i
    BY <1>1
  <2> QED BY <1>1, <2>1
<1> QED BY <1>1, <1>2 DEF S, Made

(* What the constants are assumed to be. *)
LEMMA Sizes ==
  /\ Height \in Nat /\ Height > 0 /\ Height < 65536
  /\ MAX_DATA_TXFER \in Nat /\ MAX_DATA_TXFER > 154 /\ MAX_DATA_TXFER > Height
BY DriverAssumption

(* What a byte may be. *)
LEMMA Bytes == /\ \A n \in Nat : n <= 255 => n \in Byte
               /\ \A n \in Byte : n \in Nat /\ n <= 255
<1>1. ASSUME NEW b \in Nat, NEW n \in Nat, n <= b PROVE n \in 0 .. b
  BY <1>1
<1>2. 255 \in Nat
  OBVIOUS
<1>3. \A n \in Nat : n <= 255 => n \in 0 .. 255
  BY <1>1, <1>2, Zenon
<1>4. \A n \in 0 .. 255 : n \in Nat /\ n <= 255
  OBVIOUS
<1> QED BY <1>3, <1>4, Zenon DEF Byte

(* The two bytes of a line's number. *)
LEMMA LineBytes ==
  ASSUME NEW y \in Lines
  PROVE  /\ CoordBytes(y) \in Seq(Byte) /\ Len(CoordBytes(y)) = 2
         /\ \A z \in Lines : /\ CoordBytes(y) \o CoordBytes(z) \in Seq(Byte)
                            /\ Len(CoordBytes(y) \o CoordBytes(z)) = 4
<1>1. ASSUME NEW n \in Lines PROVE CoordBytes(n) \in Seq(Byte) /\ Len(CoordBytes(n)) = 2
  <2>1. n \in Nat /\ n < 65536
    BY Sizes DEF Lines
  <2>2. n % 256 \in Nat /\ n % 256 <= 255 /\ n \div 256 \in Nat /\ n \div 256 <= 255
    BY ONLY <2>1
  <2>3. n % 256 \in Byte /\ n \div 256 \in Byte
    BY <2>2, Bytes, Zenon
  <2> QED BY <2>3 DEF CoordBytes
<1>2. ASSUME NEW z \in Lines
      PROVE  /\ CoordBytes(y) \o CoordBytes(z) \in Seq(Byte)
             /\ Len(CoordBytes(y) \o CoordBytes(z)) = 4
  <2>1. /\ CoordBytes(y) \in Seq(Byte) /\ Len(CoordBytes(y)) = 2
        /\ CoordBytes(z) \in Seq(Byte) /\ Len(CoordBytes(z)) = 2
    BY <1>1
  <2>2. /\ CoordBytes(y) \o CoordBytes(z) \in Seq(Byte)
        /\ Made(CoordBytes(y) \o CoordBytes(z), CoordBytes(y), CoordBytes(z))
    BY <2>1, Parts
  <2> QED BY <2>1, <2>2 DEF Made
<1> QED BY <1>1, <1>2

(* The length of each command's data in the chip's table. *)
LEMMA TableLengths ==
  /\ \A c \in {16, 17, 34, 44, 60, 63, 78, 3} : Device!Rx!InTable(c) = 1
  /\ Device!Rx!InTable(33) = 2 /\ Device!Rx!InTable(68) = 2 /\ Device!Rx!InTable(79) = 2
  /\ Device!Rx!InTable(1) = 3 /\ Device!Rx!InTable(4) = 3 /\ Device!Rx!InTable(69) = 4
  /\ Device!Rx!InTable(55) = 10 /\ Device!Rx!InTable(50) = 153
  /\ Device!Rx!InTable(18) = 0 /\ Device!Rx!InTable(32) = 0
  /\ Device!Rx!InTable(36) = 255 /\ Device!Rx!InTable(38) = 255
BY DEF Device!Rx!InTable, Device!Rx!cmd_data_bytes

(* The window of the lines from y to z. *)
LEMMA AreaSteps ==
  ASSUME NEW y \in Lines, NEW z \in Lines, NEW S, S = SetMemoryArea(y, z)
  PROVE  /\ S \in Seq(Steps) /\ Len(S) = 4 /\ Plain(S)
         /\ Is(S[1], 68) /\ Gives(S[2], <<0, 0>>)
         /\ Is(S[3], 69) /\ Gives(S[4], CoordBytes(y) \o CoordBytes(z))
<1> DEFINE a == Send(68, <<0, 0>>)
           b == Send(69, CoordBytes(y) \o CoordBytes(z))
<1>1. <<0, 0>> \in Seq(Byte) /\ Proper(68, <<0, 0>>)
  <2>1. 0 \in Byte
    BY Bytes
  <2>2. <<0, 0>> \in Seq(Byte) /\ Len(<<0, 0>>) = 2
    BY <2>1
  <2> QED BY TableLengths, <2>2 DEF Proper, WithData
<1>2. /\ CoordBytes(y) \o CoordBytes(z) \in Seq(Byte)
      /\ Proper(69, CoordBytes(y) \o CoordBytes(z))
  <2> DEFINE bytes == CoordBytes(y) \o CoordBytes(z)
  <2>1. bytes \in Seq(Byte) /\ Len(bytes) = 4
    BY LineBytes
  <2>2. TwoLines(bytes)
    BY DEF TwoLines
  <2> HIDE DEF bytes
  <2>3. Proper(69, bytes)
    BY TableLengths, <2>1, <2>2 DEF Proper, WithData
  <2> QED BY <2>1, <2>3 DEF bytes
<1>3. S = a \o b
  BY DEF SetMemoryArea
<1>4. a \in Seq(Steps) /\ Len(a) = 2 /\ Is(a[1], 68) /\ Gives(a[2], <<0, 0>>) /\ Plain(a)
  BY <1>1, SendSteps
<1>5. /\ b \in Seq(Steps) /\ Len(b) = 2 /\ Plain(b)
      /\ Is(b[1], 69) /\ Gives(b[2], CoordBytes(y) \o CoordBytes(z))
  BY <1>2, SendSteps
<1> HIDE DEF a, b
<1>6. /\ S \in Seq(Steps) /\ Len(S) = 4
      /\ S[1] = a[1] /\ S[2] = a[2] /\ S[3] = b[1] /\ S[4] = b[2]
  <2>1. S \in Seq(Steps) /\ Made(S, a, b)
    BY <1>3, <1>4, <1>5, Parts
  <2> QED BY <1>4, <1>5, <2>1 DEF Made
<1>7. Plain(S)
  BY <1>3, <1>4, <1>5, JoinPlain
<1> QED BY <1>4, <1>5, <1>6, <1>7

(* The pointer at the start of line y. *)
LEMMA PointerSteps ==
  ASSUME NEW y \in Lines, NEW S, S = SetMemoryPointer(y)
  PROVE  /\ S \in Seq(Steps) /\ Len(S) = 5 /\ Plain(S)
         /\ Is(S[1], 78) /\ Gives(S[2], <<0>>)
         /\ Is(S[3], 79) /\ Gives(S[4], CoordBytes(y)) /\ S[5].op = "wait"
<1> DEFINE a == Send(78, <<0>>)
           b == Send(79, CoordBytes(y))
<1>1. <<0>> \in Seq(Byte) /\ Proper(78, <<0>>)
  <2>1. 0 \in Byte
    BY Bytes
  <2>2. <<0>> \in Seq(Byte) /\ Len(<<0>>) = 1
    BY <2>1
  <2> QED BY TableLengths, <2>2 DEF Proper, WithData
<1>2. CoordBytes(y) \in Seq(Byte) /\ Proper(79, CoordBytes(y))
  <2>1. CoordBytes(y) \in Seq(Byte) /\ Len(CoordBytes(y)) = 2
    BY LineBytes
  <2>2. OneLine(CoordBytes(y))
    BY DEF OneLine
  <2> QED BY TableLengths, <2>1, <2>2 DEF Proper, WithData
<1>3. S = (a \o b) \o WaitUntilIdle
  BY DEF SetMemoryPointer
<1>4. a \in Seq(Steps) /\ Len(a) = 2 /\ Is(a[1], 78) /\ Gives(a[2], <<0>>) /\ Plain(a)
  BY <1>1, SendSteps
<1>5. b \in Seq(Steps) /\ Len(b) = 2 /\ Is(b[1], 79) /\ Gives(b[2], CoordBytes(y)) /\ Plain(b)
  BY <1>2, SendSteps
<1>6. /\ WaitUntilIdle \in Seq(Steps) /\ Len(WaitUntilIdle) = 1 /\ WaitUntilIdle[1].op = "wait"
      /\ Plain(WaitUntilIdle)
  BY SingleSteps DEF WaitUntilIdle, Plain, WellFormed
<1> DEFINE ab == a \o b
<1> HIDE DEF a, b
<1>7. /\ ab \in Seq(Steps) /\ Len(ab) = 4
      /\ ab[1] = a[1] /\ ab[2] = a[2] /\ ab[3] = b[1] /\ ab[4] = b[2]
  <2>1. ab \in Seq(Steps) /\ Made(ab, a, b)
    BY <1>4, <1>5, Parts
  <2> HIDE DEF ab
  <2> QED BY <1>4, <1>5, <2>1 DEF Made
<1>8. Plain(ab)
  BY <1>4, <1>5, JoinPlain
<1>9. S = ab \o WaitUntilIdle
  BY <1>3
<1> HIDE DEF ab
<1>10. /\ S \in Seq(Steps) /\ Len(S) = 5
       /\ S[1] = ab[1] /\ S[2] = ab[2] /\ S[3] = ab[3] /\ S[4] = ab[4] /\ S[5] = WaitUntilIdle[1]
  <2> DEFINE w == WaitUntilIdle
  <2> HIDE DEF w
  <2>1. w \in Seq(Steps) /\ Len(w) = 1 /\ S = ab \o w
    BY <1>6, <1>9 DEF w
  <2>2. S \in Seq(Steps) /\ Made(S, ab, w)
    BY <1>7, <2>1, Parts
  <2> QED BY <1>6, <1>7, <2>1, <2>2 DEF w, Made
<1>11. Plain(S)
  BY <1>6, <1>8, <1>9, JoinPlain
<1> QED BY <1>4, <1>5, <1>6, <1>7, <1>10, <1>11

(* The steps of a picture's rows. *)
IsRows(st, ram, y, rows) == st.op = "rows" /\ st.ram = ram /\ st.first = y /\ st.bytes = rows

(* Rows that lie on the panel from line y on. *)
Fit(y, rows) == y \in Lines /\ rows \in Seq(Byte) /\ Len(rows) > 0 /\ y + Len(rows) <= Height

(* What PutRows does with the rows on the panel. *)
Put(y, rows) ==
  SetMemoryArea(y, y + Len(rows) - 1) \o SetMemoryPointer(y) \o SendRows(36, "bw", y, rows)

(* The two steps of a picture. *)
LEMMA RowSteps ==
  ASSUME NEW y, NEW rows, Fit(y, rows), NEW ram \in {"bw", "color"}, NEW c \in {36, 38}
  PROVE  LET S == SendRows(c, ram, y, rows)
         IN  S \in Seq(Steps) /\ Len(S) = 2 /\ Is(S[1], c) /\ IsRows(S[2], ram, y, rows)
<1> DEFINE first == [op |-> "command", code |-> c]
           second == [op |-> "rows", ram |-> ram, first |-> y, bytes |-> rows]
           S == SendRows(c, ram, y, rows)
<1>1. first \in Steps /\ Is(first, c)
  BY DEF Steps, Is
<1>2. second \in Steps /\ IsRows(second, ram, y, rows)
  BY DEF Steps, IsRows, Fit
<1>3. S = <<first>> \o <<second>>
  BY Zenon DEF SendRows, Cmd
<1> HIDE DEF first, second
<1>4. S \in Seq(Steps) /\ Len(S) = 2 /\ S[1] = first /\ S[2] = second
  BY <1>1, <1>2, <1>3
<1> QED BY <1>1, <1>2, <1>4

(* The steps of PutRows, one by one. *)
PutSteps(S, y, rows) ==
  /\ Is(S[1], 68) /\ Gives(S[2], <<0, 0>>)
  /\ Is(S[3], 69) /\ Gives(S[4], CoordBytes(y) \o CoordBytes(y + Len(rows) - 1))
  /\ Is(S[5], 78) /\ Gives(S[6], <<0>>)
  /\ Is(S[7], 79) /\ Gives(S[8], CoordBytes(y)) /\ S[9].op = "wait"
  /\ Is(S[10], 36) /\ IsRows(S[11], "bw", y, rows)

(* The calls of PutRows, step by step. *)
LEMMA PutIsSteps ==
  ASSUME NEW y, NEW rows, Fit(y, rows)
  PROVE  /\ Put(y, rows) \in Seq(Steps) /\ Len(Put(y, rows)) = 11
         /\ PutSteps(Put(y, rows), y, rows)
         /\ LET aim == SetMemoryArea(y, y + Len(rows) - 1) \o SetMemoryPointer(y)
            IN  Plain(aim) /\ Len(aim) = 9
<1> DEFINE a == SetMemoryArea(y, y + Len(rows) - 1)
           b == SetMemoryPointer(y)
           ab == a \o b
           w == SendRows(36, "bw", y, rows)
           S == Put(y, rows)
<1>1. y \in Lines /\ y + Len(rows) - 1 \in Lines
  BY Sizes DEF Fit, Lines
<1>2. /\ a \in Seq(Steps) /\ Len(a) = 4 /\ Plain(a)
      /\ Is(a[1], 68) /\ Gives(a[2], <<0, 0>>)
      /\ Is(a[3], 69) /\ Gives(a[4], CoordBytes(y) \o CoordBytes(y + Len(rows) - 1))
  BY <1>1, AreaSteps
<1>3. /\ b \in Seq(Steps) /\ Len(b) = 5 /\ Plain(b)
      /\ Is(b[1], 78) /\ Gives(b[2], <<0>>)
      /\ Is(b[3], 79) /\ Gives(b[4], CoordBytes(y)) /\ b[5].op = "wait"
  BY <1>1, PointerSteps
<1>4. w \in Seq(Steps) /\ Len(w) = 2 /\ Is(w[1], 36) /\ IsRows(w[2], "bw", y, rows)
  BY RowSteps
<1>5. S = ab \o w
  BY DEF Put
<1> HIDE DEF a, b, w, S
<1>6. ab \in Seq(Steps) /\ Made(ab, a, b) /\ Plain(ab)
  BY <1>2, <1>3, Parts, JoinPlain
<1> HIDE DEF ab
<1>7. S \in Seq(Steps) /\ Made(S, ab, w)
  BY <1>4, <1>5, <1>6, Parts
<1>8. /\ Len(ab) = 9 /\ ab[1] = a[1] /\ ab[2] = a[2] /\ ab[3] = a[3] /\ ab[4] = a[4]
      /\ ab[5] = b[1] /\ ab[6] = b[2] /\ ab[7] = b[3] /\ ab[8] = b[4] /\ ab[9] = b[5]
  BY <1>2, <1>3, <1>6 DEF Made
<1>9. /\ Len(S) = 11 /\ S[1] = ab[1] /\ S[2] = ab[2] /\ S[3] = ab[3] /\ S[4] = ab[4]
      /\ S[5] = ab[5] /\ S[6] = ab[6] /\ S[7] = ab[7] /\ S[8] = ab[8] /\ S[9] = ab[9]
      /\ S[10] = w[1] /\ S[11] = w[2]
  BY <1>4, <1>7, <1>8 DEF Made
<1>10. PutSteps(S, y, rows)
  BY <1>2, <1>3, <1>4, <1>8, <1>9 DEF PutSteps
<1> QED BY <1>6, <1>7, <1>8, <1>9, <1>10 DEF S, ab, a, b

(* Rows preceded by what aims them. *)
LEMMA PutAims ==
  ASSUME NEW S, NEW y, NEW rows, Fit(y, rows), PutSteps(S, y, rows)
  PROVE  Aimed(S, 11) /\ Carries(36, S[11])
<1>1. Start(S, 11) = 0
  BY DEF PutSteps, IsRows, Start
<1>2. S[11].op = "rows" /\ S[11].ram = "bw" /\ S[11].first = y /\ S[11].bytes = rows
  BY DEF PutSteps, IsRows
<1>3. Carries(36, S[11])
  BY <1>2 DEF Carries, RamOf, Fit
<1>4. Aimed(S, 11)
  BY <1>1, <1>2 DEF Aimed, PutSteps
<1> QED BY <1>3, <1>4

(* Rows that fit the panel are put there as the chip expects. *)
LEMMA PutPlain ==
  ASSUME NEW y, NEW rows, Fit(y, rows)
  PROVE  Plain(Put(y, rows))
<1> DEFINE S == Put(y, rows)
           ab == SetMemoryArea(y, y + Len(rows) - 1) \o SetMemoryPointer(y)
           w == SendRows(36, "bw", y, rows)
<1>1. /\ S \in Seq(Steps) /\ Len(S) = 11 /\ PutSteps(S, y, rows) /\ Plain(ab) /\ Len(ab) = 9
  BY PutIsSteps
<1>2. w \in Seq(Steps) /\ Len(w) = 2
  BY RowSteps
<1>3. S = ab \o w
  BY DEF Put
<1> HIDE DEF S, ab, w
<1>4. Made(S, ab, w) /\ ab \in Seq(Steps) /\ Len(ab) = 9 /\ WellFormed(ab)
  <2>1. ab \in Seq(Steps) /\ WellFormed(ab)
    BY <1>1 DEF Plain, WellFormed
  <2>2. Made(S, ab, w)
    BY <1>2, <1>3, <2>1, Parts
  <2> QED BY <1>1, <2>1, <2>2
<1>5. /\ S[10].op = "command" /\ S[10].code = 36 /\ S[11].op = "rows"
      /\ S[1].op = "command" /\ S[9].op = "wait"
  BY <1>1 DEF PutSteps, Is, IsRows
<1>6. Aimed(S, 11) /\ Carries(36, S[11])
  BY <1>1, PutAims
<1>7. ASSUME NEW i \in 1 .. Len(S), S[i].op = "rows"
      PROVE  Aimed(S, i)
  <2>1. CASE i <= 9
    <3>1. i \in 1 .. Len(ab) /\ ab[i].op = "rows"
      BY <1>4, <1>7, <2>1 DEF Made
    <3>2. Aimed(ab, i) /\ Shifted(S, ab, 0, i) /\ 0 + i = i /\ i > 0 /\ i \in Nat
      BY <1>4, <3>1 DEF WellFormed, Shifted, Made
    <3>3. Aimed(S, 0 + i)
      BY <3>2, AimedAnywhere
    <3> QED BY <3>2, <3>3
  <2>2. CASE i > 9
    <3>1. i = 10 \/ i = 11
      BY <1>1, <2>2
    <3> QED BY <1>5, <1>6, <1>7, <3>1
  <2> QED BY <1>1, <2>1, <2>2
<1>8. ASSUME NEW i \in 1 .. Len(S)
      PROVE  /\ S[i].op \in {"data", "rows"} =>
                  i > 1 /\ S[i - 1].op = "command" /\ Carries(S[i - 1].code, S[i])
             /\ S[i].op = "command" /\ S[i].code \notin {18, 32} =>
                  i < Len(S) /\ S[i + 1].op \in {"data", "rows"}
             /\ Is(S[i], 32) => i > 1 /\ S[i - 1].op = "data"
             /\ S[i].op = "pulse" => i = 1
  <2>1. CASE i <= 9
    <3>1. /\ i \in 1 .. Len(ab) /\ S[i] = ab[i] /\ (i > 1 => S[i - 1] = ab[i - 1])
          /\ (i < Len(ab) => S[i + 1] = ab[i + 1] /\ i < Len(S))
      BY <1>1, <1>4, <2>1 DEF Made
    <3>2. /\ ab[i].op \in {"data", "rows"} =>
               i > 1 /\ ab[i - 1].op = "command" /\ Carries(ab[i - 1].code, ab[i])
          /\ ab[i].op = "command" /\ ab[i].code \notin {18, 32} =>
               i < Len(ab) /\ ab[i + 1].op \in {"data", "rows"}
          /\ Is(ab[i], 32) => i > 1 /\ ab[i - 1].op = "data"
          /\ ab[i].op = "pulse" => i = 1
      BY <1>4, <3>1 DEF WellFormed
    <3> QED BY <3>1, <3>2
  <2>2. CASE i = 10
    BY <1>1, <1>5, <2>2 DEF Is
  <2>3. CASE i = 11
    BY <1>1, <1>5, <1>6, <2>3 DEF Is
  <2> QED BY <1>1, <2>1, <2>2, <2>3
<1>9. S # <<>>
  <2>1. S = <<>> => Len(S) = 0
    OBVIOUS
  <2> QED BY <1>1, <2>1
<1> QED BY <1>1, <1>5, <1>7, <1>8, <1>9 DEF WellFormed, Plain, S

(* The rows of an image that lie on the panel are some, and fit. *)
LEMMA ImageFits ==
  ASSUME NEW y \in Lines, NEW image \in Seq(Byte), image # <<>>
  PROVE  /\ Fit(y, OnPanel(y, image)) /\ PutRows(y, image) = Put(y, OnPanel(y, image))
         /\ y = 0 /\ Len(image) = Height => OnPanel(y, image) = image
<1> DEFINE rows == OnPanel(y, image)
<1>1. y \in Nat /\ y < Height /\ Len(image) \in Nat /\ Len(image) > 0
  BY Sizes DEF Lines
<1>2. CASE y + Len(image) >= Height
  <2>1. rows = SubSeq(image, 1, Height - y)
    BY <1>2 DEF OnPanel
  <2>2. 1 \in 1 .. Len(image) /\ Height - y \in 1 .. Len(image) /\ Height - y > 0
    BY <1>1, <1>2, Sizes
  <2>3. rows \in Seq(Byte) /\ Len(rows) = Height - y
    BY <2>1, <2>2
  <2>4. y = 0 /\ Len(image) = Height => rows = image
    BY <2>1, <2>2, SubSeqProperties
  <2> HIDE DEF rows
  <2>5. Fit(y, rows)
    BY <1>1, <2>2, <2>3, Sizes DEF Fit
  <2> QED BY <2>4, <2>5 DEF rows, PutRows, Put
<1>3. CASE ~(y + Len(image) >= Height)
  <2>1. rows = image
    BY <1>3 DEF OnPanel
  <2>2. Fit(y, rows)
    BY <1>1, <1>3, <2>1, Sizes DEF Fit
  <2> QED BY <2>1, <2>2 DEF PutRows, Put
<1> QED BY <1>2, <1>3

(* Both areas of the RAM, one after the other. *)
LEMMA BasePlain ==
  ASSUME NEW rows, Fit(0, rows)
  PROVE  Plain(Put(0, rows) \o SendRows(38, "color", 0, rows))
<1> DEFINE put == Put(0, rows)
           w == SendRows(38, "color", 0, rows)
           S == put \o w
<1>1. /\ put \in Seq(Steps) /\ Len(put) = 11 /\ PutSteps(put, 0, rows) /\ WellFormed(put)
  BY PutIsSteps, PutPlain DEF Plain
<1>2. w \in Seq(Steps) /\ Len(w) = 2 /\ Is(w[1], 38) /\ IsRows(w[2], "color", 0, rows)
  BY RowSteps
<1> HIDE DEF put, w
<1>3. S \in Seq(Steps) /\ Made(S, put, w)
  BY <1>1, <1>2, Parts
<1> HIDE DEF S
<1>4. Len(S) = 13 /\ S[12] = w[1] /\ S[13] = w[2]
  BY <1>1, <1>2, <1>3 DEF Made
<1>5. \A i \in 1 .. 11 : S[i] = put[i]
  BY <1>1, <1>3 DEF Made
<1>6. PutSteps(S, 0, rows)
  BY <1>1, <1>5 DEF PutSteps
<1>7. /\ S[12].op = "command" /\ S[12].code = 38 /\ S[13].op = "rows" /\ S[13].ram = "color"
      /\ S[13].first = 0 /\ S[13].bytes = rows
  BY <1>2, <1>4 DEF Is, IsRows
<1>8. Aimed(S, 13) /\ Carries(38, S[13])
  <2>1. Start(S, 13) = 0
    BY <1>7 DEF Start
  <2>2. Aimed(S, 13)
    <3>1. /\ S[11].op = "rows" /\ S[11].ram = "bw" /\ S[11].first = 0 /\ S[11].bytes = rows
          /\ Is(S[12], 38)
      BY <1>2, <1>4, <1>6 DEF PutSteps, IsRows
    <3>2. PutSteps(S, S[13].first, S[13].bytes)
      BY <1>6, <1>7
    <3> QED BY <1>7, <2>1, <3>1, <3>2 DEF Aimed, PutSteps
  <2>3. Carries(38, S[13])
    BY <1>7 DEF Carries, RamOf, Fit
  <2> QED BY <2>2, <2>3
<1>9. S[1].op = "command" /\ S[11].op = "rows"
  BY <1>6 DEF PutSteps, Is, IsRows
<1>10. ASSUME NEW i \in 1 .. Len(S), S[i].op = "rows"
       PROVE  Aimed(S, i)
  <2>1. CASE i <= 11
    <3>1. i \in 1 .. Len(put) /\ put[i].op = "rows"
      BY <1>1, <1>5, <1>10, <2>1
    <3>2. Aimed(put, i) /\ Shifted(S, put, 0, i) /\ 0 + i = i /\ i > 0 /\ i \in Nat
      BY <1>1, <1>5, <3>1 DEF WellFormed, Shifted
    <3>3. Aimed(S, 0 + i)
      BY <3>2, AimedAnywhere
    <3> QED BY <3>2, <3>3
  <2>2. CASE i > 11
    <3>1. i = 12 \/ i = 13
      BY <1>4, <2>2
    <3> QED BY <1>7, <1>8, <1>10, <3>1
  <2> QED BY <1>4, <2>1, <2>2
<1>11. ASSUME NEW i \in 1 .. Len(S)
       PROVE  /\ S[i].op \in {"data", "rows"} =>
                   i > 1 /\ S[i - 1].op = "command" /\ Carries(S[i - 1].code, S[i])
              /\ S[i].op = "command" /\ S[i].code \notin {18, 32} =>
                   i < Len(S) /\ S[i + 1].op \in {"data", "rows"}
              /\ Is(S[i], 32) => i > 1 /\ S[i - 1].op = "data"
              /\ S[i].op = "pulse" => i = 1
  <2>1. CASE i <= 11
    <3>1. /\ i \in 1 .. Len(put) /\ S[i] = put[i] /\ (i > 1 => S[i - 1] = put[i - 1])
          /\ (i < Len(put) => S[i + 1] = put[i + 1] /\ i < Len(S))
      BY <1>1, <1>4, <1>5, <2>1
    <3>2. /\ put[i].op \in {"data", "rows"} =>
               i > 1 /\ put[i - 1].op = "command" /\ Carries(put[i - 1].code, put[i])
          /\ put[i].op = "command" /\ put[i].code \notin {18, 32} =>
               i < Len(put) /\ put[i + 1].op \in {"data", "rows"}
          /\ Is(put[i], 32) => i > 1 /\ put[i - 1].op = "data"
          /\ put[i].op = "pulse" => i = 1
      BY <1>1, <3>1 DEF WellFormed
    <3> QED BY <3>1, <3>2
  <2>2. CASE i = 12
    BY <1>4, <1>7, <2>2 DEF Is
  <2>3. CASE i = 13
    BY <1>4, <1>7, <1>8, <2>3 DEF Is
  <2> QED BY <1>4, <2>1, <2>2, <2>3
<1>12. S # <<>>
  <2>1. S = <<>> => Len(S) = 0
    OBVIOUS
  <2> QED BY <1>4, <2>1
<1>13. WellFormed(S)
  BY <1>3, <1>10, <1>11 DEF WellFormed
<1> QED BY <1>9, <1>12, <1>13 DEF Plain, S, put, w

(* The steps of an activation, one by one. *)
ActivateSteps(S, sequence) ==
  /\ S \in Seq(Steps) /\ Len(S) = 4
  /\ Is(S[1], 34) /\ Gives(S[2], <<sequence>>) /\ Is(S[3], 32) /\ S[4].op = "wait"

(* An activation is these four steps. *)
LEMMA ActivateIsSteps ==
  ASSUME NEW sequence \in {192, 199, 15}
  PROVE  ActivateSteps(Activate(sequence), sequence) /\ Plain(Activate(sequence))
<1> DEFINE a == Send(34, <<sequence>>)
           first == [op |-> "command", code |-> 32]
           last == [op |-> "wait"]
           ab == a \o <<first>>
           S == ab \o <<last>>
<1>1. /\ a \in Seq(Steps) /\ Len(a) = 2 /\ Is(a[1], 34) /\ Gives(a[2], <<sequence>>)
      /\ WellFormed(a)
  <2> DEFINE bytes == <<sequence>>
  <2>1. sequence \in Byte /\ sequence \in P!UpdSeqs
    BY Bytes DEF P!UpdSeqs
  <2>2. bytes \in Seq(Byte) /\ Len(bytes) = 1 /\ bytes[1] = sequence
    BY <2>1
  <2> HIDE DEF bytes
  <2>3. Proper(34, bytes)
    BY TableLengths, <2>1, <2>2 DEF Proper, WithData
  <2>4. /\ a \in Seq(Steps) /\ Len(a) = 2 /\ Is(a[1], 34) /\ Gives(a[2], bytes) /\ Plain(a)
    BY <2>2, <2>3, SendSteps DEF bytes
  <2> QED BY <2>4 DEF Plain, bytes
<1>2. first \in Steps /\ Is(first, 32) /\ last \in Steps /\ last.op = "wait"
  BY DEF Steps, Is
<1>3. Activate(sequence) = S
  BY DEF Activate, Cmd, WaitUntilIdle
<1> HIDE DEF a, first, last
<1>4. ab \in Seq(Steps) /\ Len(ab) = 3 /\ ab[1] = a[1] /\ ab[2] = a[2] /\ ab[3] = first
  <2>1. <<first>> \in Seq(Steps) /\ Len(<<first>>) = 1 /\ <<first>>[1] = first
    BY <1>2
  <2>2. ab \in Seq(Steps) /\ Made(ab, a, <<first>>)
    BY <1>1, <2>1, Parts
  <2> HIDE DEF ab
  <2> QED BY <1>1, <2>1, <2>2 DEF Made
<1> HIDE DEF ab
<1>5. S \in Seq(Steps) /\ Len(S) = 4 /\ S[1] = a[1] /\ S[2] = a[2] /\ S[3] = first /\ S[4] = last
  <2>1. <<last>> \in Seq(Steps) /\ Len(<<last>>) = 1 /\ <<last>>[1] = last
    BY <1>2
  <2>2. S \in Seq(Steps) /\ Made(S, ab, <<last>>)
    BY <1>4, <2>1, Parts
  <2> HIDE DEF S
  <2> QED BY <1>4, <2>1, <2>2 DEF Made
<1> HIDE DEF S
<1>6. ActivateSteps(S, sequence)
  BY <1>1, <1>2, <1>5 DEF ActivateSteps
<1>7. /\ S[1].op = "command" /\ S[1].code = 34 /\ S[2].op = "data" /\ S[3].op = "command"
      /\ S[3].code = 32 /\ S[4].op = "wait"
  BY <1>6 DEF ActivateSteps, Is, Gives
<1>8. Carries(34, S[2])
  <2>1. /\ a[2].op = "data" /\ 2 \in 1 .. Len(a) /\ a[1].code = 34
    BY <1>1 DEF Is, Gives
  <2>2. Carries(a[1].code, a[2])
    BY <1>1, <2>1 DEF WellFormed
  <2> QED BY <1>5, <2>1, <2>2
<1>9. WellFormed(S)
  <2>1. ASSUME NEW i \in 1 .. Len(S)
        PROVE  i = 1 \/ i = 2 \/ i = 3 \/ i = 4
    BY <1>5
  <2> QED BY <1>5, <1>7, <1>8, <2>1 DEF WellFormed, Is
<1>10. S # <<>>
  <2>1. S = <<>> => Len(S) = 0
    OBVIOUS
  <2> QED BY <1>5, <2>1
<1> QED BY <1>3, <1>6, <1>7, <1>9, <1>10 DEF Plain

(* A command whose bytes say nothing the proofs need. *)
LEMMA PlainSend ==
  ASSUME NEW c \in WithData \ {17, 68, 69, 78, 79, 16, 34}, NEW bytes \in Seq(Byte),
         Len(bytes) = Device!Rx!InTable(c)
  PROVE  Plain(Send(c, bytes))
<1>1. Proper(c, bytes)
  BY DEF Proper
<1> QED BY <1>1, SendSteps

(* The codes of such commands. *)
LEMMA PlainCodes ==
  {50, 63, 3, 4, 44, 1, 33, 55, 60} \subseteq WithData \ {17, 68, 69, 78, 79, 16, 34}
BY DEF WithData

(* The look-up table, and what goes with it. *)
LEMMA LutPlain == Plain(SetLut) /\ Plain(SetLut_by_host)
<1>1. \A n \in Nat : n <= 255 => n \in Byte
  BY Bytes
<1>2. Plain(SetLut)
  <2> DEFINE lut == [i \in 1 .. 153 |-> 128]
  <2>1. lut \in Seq(Byte) /\ Len(lut) = 153
    <3>1. 128 \in Byte
      BY <1>1
    <3> QED BY <3>1
  <2> HIDE DEF lut
  <2>2. Plain(Send(50, lut))
    <3>1. Device!Rx!InTable(50) = 153 /\ 50 \in WithData \ {17, 68, 69, 78, 79, 16, 34}
      BY TableLengths, PlainCodes
    <3>2. lut \in Seq(Byte) /\ Len(lut) = Device!Rx!InTable(50)
      BY <2>1, <3>1
    <3> QED BY <3>1, <3>2, PlainSend
  <2>3. SetLut = Send(50, lut) \o WaitUntilIdle
    BY DEF SetLut, lut
  <2> QED BY <2>2, <2>3, SingleSteps, JoinPlain
<1>3. Plain(Send(63, <<34>>)) /\ Plain(Send(3, <<23>>)) /\ Plain(Send(44, <<54>>))
  <2>1. ASSUME NEW c \in {63, 3, 44}, NEW b \in Byte
        PROVE  Plain(Send(c, <<b>>))
    <3>1. <<b>> \in Seq(Byte) /\ Len(<<b>>) = 1
      OBVIOUS
    <3>2. Device!Rx!InTable(c) = 1 /\ c \in WithData \ {17, 68, 69, 78, 79, 16, 34}
      BY TableLengths DEF WithData
    <3> QED BY <3>1, <3>2, PlainSend
  <2>2. 34 \in Byte /\ 23 \in Byte /\ 54 \in Byte
    BY <1>1
  <2> QED BY <2>1, <2>2
<1>4. Plain(Send(4, <<65, 0, 50>>))
  <2>1. 65 \in Byte /\ 0 \in Byte /\ 50 \in Byte
    BY <1>1
  <2>2. <<65, 0, 50>> \in Seq(Byte) /\ Len(<<65, 0, 50>>) = 3
    BY <2>1
  <2>3. Device!Rx!InTable(4) = 3 /\ 4 \in WithData \ {17, 68, 69, 78, 79, 16, 34}
    BY TableLengths, PlainCodes
  <2> QED BY <2>2, <2>3, PlainSend
<1>5. Plain(SetLut_by_host)
  <2> DEFINE a == Send(63, <<34>>)
             b == Send(3, <<23>>)
             c == Send(4, <<65, 0, 50>>)
             d == Send(44, <<54>>)
             l == SetLut
  <2>1. SetLut_by_host = (((l \o a) \o b) \o c) \o d
    BY DEF SetLut_by_host
  <2>2. Plain(a) /\ Plain(b) /\ Plain(c) /\ Plain(d) /\ Plain(l)
    BY <1>2, <1>3, <1>4
  <2> HIDE DEF a, b, c, d, l
  <2>3. Plain(l \o a)
    BY <2>2, JoinPlain
  <2>4. Plain((l \o a) \o b)
    BY <2>2, <2>3, JoinPlain
  <2>5. Plain(((l \o a) \o b) \o c)
    BY <2>2, <2>4, JoinPlain
  <2>6. Plain((((l \o a) \o b) \o c) \o d)
    BY <2>2, <2>5, JoinPlain
  <2> QED BY <2>1, <2>6
<1> QED BY <1>2, <1>5

(* A call that begins with a pulse, a wait and the reset command. *)
Opens(S) ==
  /\ WellFormed(S) /\ Len(S) > 2
  /\ S[1].op = "pulse" /\ S[2].op = "wait" /\ Is(S[3], 18)

(* It stays so, whatever follows. *)
LEMMA OpensJoin ==
  ASSUME NEW a, NEW b, Opens(a), Plain(b)
  PROVE  Opens(a \o b)
<1> DEFINE S == a \o b
<1>1. WellFormed(S)
  BY JoinPlain DEF Opens
<1>2. a \in Seq(Steps) /\ b \in Seq(Steps)
  BY DEF Opens, Plain, WellFormed
<1>3. Made(S, a, b)
  BY <1>2, Parts
<1> HIDE DEF S
<1>4. Len(a) \in Nat /\ Len(b) \in Nat /\ Len(S) = Len(a) + Len(b) /\ Len(a) > 2
  BY <1>2, <1>3 DEF Made, Opens
<1>5. S[1] = a[1] /\ S[2] = a[2] /\ S[3] = a[3]
  BY <1>3, <1>4 DEF Made
<1>6. Len(S) > 2
  BY <1>4
<1> QED BY <1>1, <1>5, <1>6 DEF Opens, S

(* Init is such a call. *)
LEMMA InitOpens == Opens(InitScript)
<1> DEFINE a == (Pulse \o WaitUntilIdle) \o Cmd(18)
           w == WaitUntilIdle
           c == Send(1, <<39, 1, 0>>)
           d == Send(17, <<3>>)
           e == SetMemoryArea(0, Height - 1)
           f == Send(33, <<0, 128>>)
           g == SetMemoryPointer(0)
           h == SetLut_by_host
<1>1. \A n \in Nat : n <= 255 => n \in Byte
  BY Bytes
<1>2. Opens(a)
  <2> DEFINE p == [op |-> "pulse"]
             q == [op |-> "wait"]
             r == [op |-> "command", code |-> 18]
  <2>1. a = (<<p>> \o <<q>>) \o <<r>>
    BY DEF Pulse, WaitUntilIdle, Cmd
  <2>2. p.op = "pulse" /\ q.op = "wait" /\ Is(r, 18)
    BY DEF Is
  <2>3. WellFormed(a)
    BY SingleSteps, JoinPlain
  <2> HIDE DEF a, p, q, r
  <2>4. a[1] = p /\ a[2] = q /\ a[3] = r /\ Len(a) = 3
    <3>1. <<p>> \in Seq({p, q, r}) /\ <<q>> \in Seq({p, q, r}) /\ <<r>> \in Seq({p, q, r})
      OBVIOUS
    <3> DEFINE two == <<p>> \o <<q>>
    <3>2. two \in Seq({p, q, r}) /\ Len(two) = 2 /\ two[1] = p /\ two[2] = q
      BY <3>1
    <3>3. a = two \o <<r>>
      BY <2>1
    <3> HIDE DEF two
    <3>4. Made(a, two, <<r>>)
      BY <3>1, <3>2, <3>3, Parts
    <3>5. Len(<<r>>) = 1 /\ <<r>>[1] = r
      OBVIOUS
    <3> QED BY <3>2, <3>4, <3>5 DEF Made
  <2> QED BY <2>2, <2>3, <2>4 DEF Opens
<1>3. Plain(w) /\ Plain(h)
  BY SingleSteps, LutPlain
<1>4. Plain(c) /\ Plain(f)
  <2>1. 39 \in Byte /\ 1 \in Byte /\ 0 \in Byte /\ 128 \in Byte
    BY <1>1
  <2>2. /\ <<39, 1, 0>> \in Seq(Byte) /\ Len(<<39, 1, 0>>) = 3
        /\ <<0, 128>> \in Seq(Byte) /\ Len(<<0, 128>>) = 2
    BY <2>1
  <2>3. Plain(c)
    <3>1. Device!Rx!InTable(1) = 3 /\ 1 \in WithData \ {17, 68, 69, 78, 79, 16, 34}
      BY TableLengths, PlainCodes
    <3> QED BY <2>2, <3>1, PlainSend
  <2>4. Plain(f)
    <3>1. Device!Rx!InTable(33) = 2 /\ 33 \in WithData \ {17, 68, 69, 78, 79, 16, 34}
      BY TableLengths, PlainCodes
    <3> QED BY <2>2, <3>1, PlainSend
  <2> QED BY <2>3, <2>4
<1>5. Plain(d)
  <2>1. <<3>> \in Seq(Byte) /\ Len(<<3>>) = 1
    <3>1. 3 \in Byte
      BY <1>1
    <3> QED BY <3>1
  <2>2. Proper(17, <<3>>)
    BY <2>1, TableLengths DEF Proper, WithData
  <2> QED BY <2>1, <2>2, SendSteps
<1>6. 0 \in Lines /\ Height - 1 \in Lines
  BY Sizes DEF Lines
<1>7. Plain(e) /\ Plain(g)
  BY <1>6, AreaSteps, PointerSteps
<1>8. InitScript = (((((((a \o w) \o c) \o d) \o e) \o f) \o g) \o w) \o h
  BY DEF InitScript
<1> HIDE DEF a, w, c, d, e, f, g, h
<1>9. Opens(a \o w)
  BY <1>2, <1>3, OpensJoin
<1>10. Opens((a \o w) \o c)
  BY <1>9, <1>4, OpensJoin
<1>11. Opens(((a \o w) \o c) \o d)
  BY <1>10, <1>5, OpensJoin
<1>12. Opens((((a \o w) \o c) \o d) \o e)
  BY <1>11, <1>7, OpensJoin
<1>13. Opens(((((a \o w) \o c) \o d) \o e) \o f)
  BY <1>12, <1>4, OpensJoin
<1>14. Opens((((((a \o w) \o c) \o d) \o e) \o f) \o g)
  BY <1>13, <1>7, OpensJoin
<1>15. Opens(((((((a \o w) \o c) \o d) \o e) \o f) \o g) \o w)
  BY <1>14, <1>3, OpensJoin
<1>16. Opens((((((((a \o w) \o c) \o d) \o e) \o f) \o g) \o w) \o h)
  BY <1>15, <1>3, OpensJoin
<1> QED BY <1>8, <1>16

(* What the driver draws: an image of its caller, or one shade. *)
Image(image) == image \in Seq(Byte) /\ image # <<>>

(* They are bytes, and some. *)
LEMMA DrawnImages ==
  /\ \A image \in Pictures : Image(image)
  /\ \A color \in Shades : Image([l \in 1 .. Height |-> color])
<1>1. \A image \in Pictures : Image(image)
  BY DriverAssumption DEF Image, Byte
<1>2. ASSUME NEW color \in Shades PROVE Image([l \in 1 .. Height |-> color])
  <2> DEFINE all == [l \in 1 .. Height |-> color]
  <2>1. color \in Byte
    BY DriverAssumption DEF Byte
  <2>2. all \in Seq(Byte) /\ Len(all) = Height
    BY <2>1, Sizes
  <2> HIDE DEF all
  <2>3. all = <<>> => Len(all) = 0
    OBVIOUS
  <2>4. all # <<>>
    BY <2>2, <2>3, Sizes
  <2> QED BY <2>2, <2>4 DEF Image, all
<1> QED BY <1>1, <1>2

(* So is what puts any image at any line: OnPanel cuts it to fit. *)
LEMMA PutRowsPlain ==
  ASSUME NEW y \in Lines, NEW image, Image(image)
  PROVE  Plain(PutRows(y, image))
BY ImageFits, PutPlain DEF Image

(* Each call of the driver is made as the chip expects. *)
LEMMA AllWellFormed == \A S \in Scripts : WellFormed(S) /\ S # <<>>
<1>0. 0 \in Lines
  BY Sizes DEF Lines
<1>1. WellFormed(InitScript) /\ InitScript # <<>>
  <2>1. InitScript = <<>> => Len(InitScript) = 0
    OBVIOUS
  <2> QED BY <2>1, InitOpens DEF Opens
<1>2. Plain(DisplayFrame) /\ Plain(DisplayFrame_Partial)
  BY ActivateIsSteps DEF DisplayFrame, DisplayFrame_Partial
<1>3. Plain(Sleep)
  <2>1. <<1>> \in Seq(Byte) /\ Len(<<1>>) = 1
    <3>1. 1 \in Byte
      BY Bytes
    <3> QED BY <3>1
  <2>2. Proper(16, <<1>>)
    BY <2>1, TableLengths DEF Proper, WithData, P!SleepModes
  <2> QED BY <2>1, <2>2, SendSteps DEF Sleep
<1>4. ASSUME NEW y \in Lines, NEW image \in Pictures
      PROVE  Plain(SetFrameMemory(y, image))
  BY DrawnImages, PutRowsPlain DEF SetFrameMemory
<1>5. ASSUME NEW color \in Shades PROVE Plain(ClearFrameMemory(color))
  BY <1>0, DrawnImages, PutRowsPlain DEF ClearFrameMemory
<1>6. ASSUME NEW image \in FullPictures
      PROVE  Plain(SetFrameMemory_Base(image))
  <2>0. image \in Pictures /\ Len(image) = Height
    BY DEF FullPictures
  <2>1. /\ Fit(0, OnPanel(0, image)) /\ PutRows(0, image) = Put(0, OnPanel(0, image))
        /\ OnPanel(0, image) = image
    BY <1>0, <2>0, DrawnImages, ImageFits DEF Image
  <2>2. Fit(0, image) /\ PutRows(0, image) = Put(0, image)
    BY <2>1
  <2> QED BY <2>2, BasePlain DEF SetFrameMemory_Base
<1>7. ASSUME NEW y \in Lines, NEW image \in Pictures
      PROVE  LET S == SetFrameMemory_Partial(y, image) IN WellFormed(S) /\ S # <<>>
  <2> DEFINE a == Pulse
             b == SetLut
             c == Send(55, <<0, 0, 0, 0, 0, 64, 0, 0, 0, 0>>)
             d == Send(60, <<128>>)
             e == Activate(192)
             f == PutRows(y, image)
             S == SetFrameMemory_Partial(y, image)
  <2>1. 0 \in Byte /\ 64 \in Byte /\ 128 \in Byte
    BY Bytes
  <2>2. Plain(c)
    <3> DEFINE bytes == <<0, 0, 0, 0, 0, 64, 0, 0, 0, 0>>
    <3>1. bytes \in Seq(Byte) /\ Len(bytes) = 10
      BY <2>1
    <3> HIDE DEF bytes
    <3>2. Plain(Send(55, bytes))
      <4>1. Device!Rx!InTable(55) = 10 /\ 55 \in WithData \ {17, 68, 69, 78, 79, 16, 34}
        BY TableLengths, PlainCodes
      <4> QED BY <3>1, <4>1, PlainSend
    <3> QED BY <3>2 DEF bytes
  <2>3. Plain(d)
    <3>1. <<128>> \in Seq(Byte) /\ Len(<<128>>) = 1
      BY <2>1
    <3>2. Device!Rx!InTable(60) = 1 /\ 60 \in WithData \ {17, 68, 69, 78, 79, 16, 34}
      BY TableLengths, PlainCodes
    <3> QED BY <3>1, <3>2, PlainSend
  <2>4. WellFormed(a) /\ Plain(b) /\ Plain(e) /\ Plain(f)
    BY SingleSteps, LutPlain, ActivateIsSteps, DrawnImages, PutRowsPlain
  <2>5. S = ((((a \o b) \o c) \o d) \o e) \o f
    BY DEF SetFrameMemory_Partial
  <2> HIDE DEF a, b, c, d, e, f
  <2>6. WellFormed(a \o b)
    BY <2>4, JoinPlain
  <2>7. WellFormed((a \o b) \o c)
    BY <2>2, <2>6, JoinPlain
  <2>8. WellFormed(((a \o b) \o c) \o d)
    BY <2>3, <2>7, JoinPlain
  <2> DEFINE abcd == ((a \o b) \o c) \o d
             abcde == abcd \o e
  <2>9. WellFormed(abcde)
    BY <2>4, <2>8, JoinPlain
  <2> HIDE DEF S, abcde
  <2>10. S = abcde \o f
    BY <2>5 DEF abcde
  <2>11. WellFormed(S)
    BY <2>4, <2>9, <2>10, JoinPlain
  <2>12. S # <<>>
    <3>1. abcde \in Seq(Steps) /\ f \in Seq(Steps) /\ f # <<>>
      BY <2>4, <2>9 DEF Plain, WellFormed
    <3>2. Len(f) > 0 /\ Len(S) = Len(abcde) + Len(f) /\ Len(abcde) \in Nat /\ Len(f) \in Nat
      BY <2>10, <3>1
    <3>3. S = <<>> => Len(S) = 0
      OBVIOUS
    <3> QED BY <3>2, <3>3
  <2> QED BY <2>11, <2>12 DEF S
<1>8. ASSUME NEW S, Plain(S) PROVE WellFormed(S) /\ S # <<>>
  BY <1>8 DEF Plain
<1>9. ASSUME NEW S \in Scripts PROVE WellFormed(S) /\ S # <<>>
  <2>1. CASE S \in {InitScript, DisplayFrame, DisplayFrame_Partial, Sleep}
    <3>1. S = InitScript \/ Plain(S)
      BY <1>2, <1>3, <2>1
    <3> QED BY <1>1, <1>8, <3>1
  <2>2. CASE \E y \in Lines, image \in Pictures : S = SetFrameMemory(y, image)
    BY <1>4, <1>8, <2>2
  <2>3. CASE \E y \in Lines, image \in Pictures : S = SetFrameMemory_Partial(y, image)
    <3>1. PICK y \in Lines, image \in Pictures : S = SetFrameMemory_Partial(y, image)
      BY <2>3
    <3> QED BY <1>7, <3>1
  <2>4. CASE \E image \in FullPictures : S = SetFrameMemory_Base(image)
    <3>1. PICK image \in FullPictures : S = SetFrameMemory_Base(image)
      BY <2>4
    <3>2. Plain(SetFrameMemory_Base(image))
      BY <1>6, <3>1
    <3> QED BY <1>8, <3>1, <3>2
  <2>5. CASE \E color \in Shades : S = ClearFrameMemory(color)
    BY <1>5, <1>8, <2>5
  <2>6. \/ S \in {InitScript, DisplayFrame, DisplayFrame_Partial, Sleep}
        \/ S \in {SetFrameMemory(y, image) : y \in Lines, image \in Pictures}
        \/ S \in {SetFrameMemory_Partial(y, image) : y \in Lines, image \in Pictures}
        \/ S \in {SetFrameMemory_Base(image) : image \in FullPictures}
        \/ S \in {ClearFrameMemory(color) : color \in Shades}
    BY DEF Scripts
  <2>7. /\ S \in {SetFrameMemory(y, image) : y \in Lines, image \in Pictures}
             => \E y \in Lines, image \in Pictures : S = SetFrameMemory(y, image)
        /\ S \in {SetFrameMemory_Partial(y, image) : y \in Lines, image \in Pictures}
             => \E y \in Lines, image \in Pictures : S = SetFrameMemory_Partial(y, image)
    OBVIOUS
  <2>8. /\ S \in {SetFrameMemory_Base(image) : image \in FullPictures}
             => \E image \in FullPictures : S = SetFrameMemory_Base(image)
        /\ S \in {ClearFrameMemory(color) : color \in Shades}
             => \E color \in Shades : S = ClearFrameMemory(color)
    OBVIOUS
  <2> QED BY <2>1, <2>2, <2>3, <2>4, <2>5, <2>6, <2>7, <2>8
<1> QED BY <1>9

-----------------------------------------------------------------------------
(* The receiver *)

(* The commands the driver sends. *)
Sent == WithData \cup {18, 32, 36, 38}

(* The handler the receiver calls for the command it holds. *)
CallOf(s) == [cmd |-> s.cmd, args |-> Device!Rx!Args(s), nth |-> s.runs + 1]

(* What a command byte finds to be run first. *)
Flushed(s) == IF s.data_ndx > 0 THEN <<CallOf(s)>> ELSE <<>>

(* The receiver of a chip that holds a picture, a command without its data, *)
(* or nothing.                                                              *)
Waits(s) ==
  /\ IsReceiver(s) /\ s.data_ndx \in 0 .. MAX_DATA_TXFER - 1
  /\ s.data_ndx > 0 => s.cmd \in {36, 38}

(* The chip knows the commands, and their lengths from its table. *)
LEMMA KnownCodes ==
  /\ Sent \subseteq Device!Rx!Known /\ Sent \subseteq 0 .. 79
  /\ \A s : \A c \in Sent : Device!Rx!DataBytes(s, c) = Device!Rx!InTable(c)
  /\ \A c \in Sent \ {18, 32} : Device!Rx!InTable(c) \in Nat \ {0}
<1>1. Sent \subseteq Device!Rx!Known /\ Sent \subseteq 0 .. 79
  BY DEF Sent, WithData, Device!Rx!Known
<1>2. \A c \in Sent : c < Device!Rx!TableSize
  BY <1>1 DEF Device!Rx!TableSize
<1>3. \A c \in WithData \ {16, 17, 34, 44, 60, 63, 78, 3} : c \in {1, 4, 33, 50, 55, 68, 69, 79}
  BY DEF WithData
<1>4. \A c \in Sent \ {18, 32} : Device!Rx!InTable(c) \in Nat \ {0}
  <2> SUFFICES ASSUME NEW c \in Sent \ {18, 32} PROVE Device!Rx!InTable(c) \in Nat \ {0}
    OBVIOUS
  <2>1. c \in {16, 17, 34, 44, 60, 63, 78, 3} \/ c \in {1, 4, 33, 50, 55, 68, 69, 79} \/ c \in {36, 38}
    BY <1>3 DEF Sent
  <2> QED BY <2>1, TableLengths
<1> QED BY <1>1, <1>2, <1>4 DEF Device!Rx!DataBytes

(* on_command, for a command the driver has sent. *)
LEMMA CommandRuns ==
  ASSUME NEW s, IsReceiver(s), s.cmd \in Sent
  PROVE  LET r == Device!Rx!on_command(s)
         IN  /\ IsReceiver(r) /\ r.cmd = 0 /\ r.data_ndx = 0 /\ r.data = s.data
             /\ r.calls = Append(s.calls, CallOf(s)) /\ r.mode = s.mode
<1>1. Device!Rx!on_command(s)
        = [s EXCEPT !.calls = Append(@, CallOf(s)), !.runs = @ + 1, !.data_ndx = 0, !.cmd = 0]
  BY KnownCodes DEF Device!Rx!on_command, CallOf
<1> QED BY <1>1 DEF IsReceiver

(* ... and the call of a command without data. *)
OwnCall(b) == [cmd |-> b, args |-> <<>>, nth |-> 1]

(* A command byte runs the picture buffered before it and, if it is a      *)
(* command without data, itself.                                           *)
LEMMA CommandReceived ==
  ASSUME NEW s, Waits(s), s.mode = LOW, s.calls = <<>>, NEW b \in Sent
  PROVE  LET r == Device!Rx!on_spi_done(s, b)
         IN  /\ IsReceiver(r) /\ r.data_ndx = 0 /\ r.data = s.data
             /\ b \notin {18, 32} => r.cmd = b /\ r.calls = Flushed(s)
             /\ b \in {18, 32} =>
                  r.calls = Append(Flushed(s), OwnCall(b))
<1> DEFINE t == IF s.data_ndx > 0 THEN Device!Rx!on_command(s) ELSE s
           u == [t EXCEPT !.cmd = b, !.data_ndx = 0, !.runs = 0]
           r == Device!Rx!on_spi_done(s, b)
<1>1. r = Device!Rx!on_spi_command_byte(t, b)
  BY DEF Device!Rx!on_spi_done, Device!Rx!OnCommandByte, Device!Rx!LOW, LOW
<1>2. /\ IsReceiver(t) /\ t.data = s.data /\ t.calls = Flushed(s)
  <2>1. CASE s.data_ndx > 0
    <3>1. s.cmd \in Sent /\ IsReceiver(s)
      BY <2>1 DEF Waits, Sent
    <3>2. t = Device!Rx!on_command(s) /\ Flushed(s) = <<CallOf(s)>>
      BY <2>1 DEF Flushed
    <3>3. Append(<<>>, CallOf(s)) = <<CallOf(s)>>
      OBVIOUS
    <3> QED BY <3>1, <3>2, <3>3, CommandRuns
  <2>2. CASE ~(s.data_ndx > 0)
    BY <2>2 DEF Flushed, Waits
  <2> QED BY <2>1, <2>2
<1> HIDE DEF t
<1>3. /\ IsReceiver(u) /\ u.cmd = b /\ u.data_ndx = 0 /\ u.runs = 0 /\ u.data = s.data
      /\ u.calls = Flushed(s)
  BY <1>2 DEF IsReceiver
<1>4. r = IF Device!Rx!InTable(b) # 0 THEN Device!Rx!start_spi_transfer(u)
                                      ELSE Device!Rx!on_command(u)
  BY <1>1, KnownCodes DEF Device!Rx!on_spi_command_byte
<1> HIDE DEF u, r
<1>5. CASE b \notin {18, 32}
  <2>1. Device!Rx!InTable(b) # 0
    BY <1>5, KnownCodes
  <2>2. r = [u EXCEPT !.armed = TRUE]
    BY <1>4, <2>1 DEF Device!Rx!start_spi_transfer
  <2> QED BY <1>3, <1>5, <2>2 DEF IsReceiver, r
<1>6. CASE b \in {18, 32}
  <2>1. Device!Rx!InTable(b) = 0
    BY <1>6, TableLengths
  <2>2. r = Device!Rx!on_command(u)
    BY <1>4, <2>1
  <2>3. CallOf(u) = OwnCall(b)
    <3>1. Device!Rx!Args(u) = <<>>
      BY <1>3 DEF Device!Rx!Args
    <3> QED BY <1>3, <3>1 DEF CallOf, OwnCall
  <2> QED BY <1>3, <1>6, <2>2, <2>3, CommandRuns DEF r
<1> QED BY <1>5, <1>6

(* The chip's parts. *)
ChipOf(s, m, p) == [spi |-> s, mem |-> m, panel |-> p]

(* The RAM once the buffered picture is written. *)
SettledOf(s, m) ==
  IF s.data_ndx > 0 /\ s.cmd \in {36, 38}
  THEN Device!Ram!on_cmd_write_ram(m, IF s.cmd = 36 THEN "bw" ELSE "color", Device!Rx!Args(s))
  ELSE m

(* The handler of a buffered picture. *)
LEMMA FlushEffect ==
  ASSUME NEW s, NEW r, NEW m, NEW p, s.cmd \in {36, 38}, s.data_ndx > 0
  PROVE  Device!handler(ChipOf(r, m, p), CallOf(s)) = ChipOf(r, SettledOf(s, m), p)
<1> DEFINE call == CallOf(s)
<1>1. call.cmd = s.cmd /\ call.args = Device!Rx!Args(s)
  BY DEF CallOf
<1> HIDE DEF call
<1>2. Device!EngineHandler(p, m, call, r.data) = p
  BY <1>1 DEF Device!EngineHandler, Device!CMD_DEEP_SLEEP, Device!CMD_MASTER_ACTIVATION,
              Device!CMD_DISP_UPD_CTL2
<1>3. Device!RamHandler(m, call, r.data) = SettledOf(s, m)
  BY <1>1 DEF Device!RamHandler, SettledOf, Device!CMD_DATA_ENTRY_MODE, Device!CMD_WRITE_RAM_BW,
              Device!CMD_WRITE_RAM_COLOR, Device!CMD_WRITE_RAM_X_COORDS,
              Device!CMD_WRITE_RAM_Y_COORDS, Device!CMD_WRITE_RAM_X_ADDR_CTR,
              Device!CMD_WRITE_RAM_Y_ADDR_CTR
<1>4. Device!handler(ChipOf(r, m, p), call)
        = [ChipOf(r, m, p) EXCEPT !.panel = Device!EngineHandler(p, m, call, r.data),
                                  !.mem = Device!RamHandler(m, call, r.data)]
  BY <1>1 DEF Device!handler, Device!CMD_SW_RESET, ChipOf
<1> QED BY <1>2, <1>3, <1>4 DEF ChipOf, call

(* A command byte's own effect, once nothing is buffered. *)
OwnMem(b, m) == IF b = 18 THEN Device!Ram!ResetMem ELSE m
(* ... and on the engine. *)
OwnPanel(b, m, p) ==
  IF b = 18 THEN Device!Engine!chip_reset(p)
  ELSE IF b = 32 THEN Device!Engine!on_cmd_master_activation(p, Device!Picture(m))
  ELSE p

(* It is what the handler of the reset or of the activation does. *)
LEMMA OwnEffect ==
  ASSUME NEW b \in {18, 32}, NEW r, NEW m, NEW p
  PROVE  LET c == Device!handler(ChipOf(r, m, p), OwnCall(b))
         IN  c = ChipOf(c.spi, OwnMem(b, m), OwnPanel(b, m, p))
<1> DEFINE call == OwnCall(b)
<1>1. call.cmd = b
  BY DEF OwnCall
<1> HIDE DEF call
<1>2. CASE b = 18
  <2>1. Device!handler(ChipOf(r, m, p), call) = Device!chip_reset(ChipOf(r, m, p))
    BY <1>1, <1>2 DEF Device!handler, Device!CMD_SW_RESET
  <2>2. Device!chip_reset(ChipOf(r, m, p))
          = ChipOf(Device!Rx!chip_reset(r), Device!Ram!ResetMem, Device!Engine!chip_reset(p))
    BY DEF Device!chip_reset, ChipOf
  <2>3. \A x, y, z : ChipOf(x, y, z) = ChipOf(ChipOf(x, y, z).spi, y, z)
    BY DEF ChipOf
  <2>4. OwnMem(b, m) = Device!Ram!ResetMem /\ OwnPanel(b, m, p) = Device!Engine!chip_reset(p)
    BY <1>2 DEF OwnMem, OwnPanel
  <2> QED BY <2>1, <2>2, <2>3, <2>4 DEF call
<1>3. CASE b = 32
  <2>1. Device!EngineHandler(p, m, call, r.data)
          = Device!Engine!on_cmd_master_activation(p, Device!Picture(m))
    BY <1>1, <1>3 DEF Device!EngineHandler, Device!CMD_DEEP_SLEEP, Device!CMD_MASTER_ACTIVATION,
              Device!CMD_DISP_UPD_CTL2
  <2>2. Device!RamHandler(m, call, r.data) = m
    BY <1>1, <1>3 DEF Device!RamHandler, Device!CMD_DATA_ENTRY_MODE, Device!CMD_WRITE_RAM_BW,
              Device!CMD_WRITE_RAM_COLOR, Device!CMD_WRITE_RAM_X_COORDS,
              Device!CMD_WRITE_RAM_Y_COORDS, Device!CMD_WRITE_RAM_X_ADDR_CTR,
              Device!CMD_WRITE_RAM_Y_ADDR_CTR
  <2>3. Device!handler(ChipOf(r, m, p), call)
        = [ChipOf(r, m, p) EXCEPT !.panel = Device!EngineHandler(p, m, call, r.data),
                                  !.mem = Device!RamHandler(m, call, r.data)]
    BY <1>1, <1>3 DEF Device!handler, Device!CMD_SW_RESET, ChipOf
  <2>4. Device!handler(ChipOf(r, m, p), call)
          = ChipOf(r, m, Device!Engine!on_cmd_master_activation(p, Device!Picture(m)))
    BY <2>1, <2>2, <2>3 DEF ChipOf
  <2>5. \A x, y, z : ChipOf(x, y, z) = ChipOf(ChipOf(x, y, z).spi, y, z)
    BY DEF ChipOf
  <2>6. /\ OwnMem(b, m) = m
        /\ OwnPanel(b, m, p) = Device!Engine!on_cmd_master_activation(p, Device!Picture(m))
    BY <1>3 DEF OwnMem, OwnPanel
  <2> QED BY <2>4, <2>5, <2>6 DEF call
<1> QED BY <1>2, <1>3

(* The list of two calls. *)
LEMMA PairOf ==
  ASSUME NEW x, NEW y
  PROVE  Append(<<x>>, y) = <<x, y>>
<1> DEFINE T == {x, y}
           a == Append(<<x>>, y)
           b == <<x, y>>
<1>1. x \in T /\ y \in T
  OBVIOUS
<1> HIDE DEF T
<1>2. a \in Seq(T) /\ Len(a) = 2 /\ a[1] = x /\ a[2] = y
  BY <1>1, AppendProperties
<1>3. b \in Seq(T) /\ Len(b) = 2 /\ b[1] = x /\ b[2] = y
  BY <1>1
<1> HIDE DEF a, b
<1>4. \A i \in 1 .. Len(a) : a[i] = b[i]
  BY <1>2, <1>3
<1> QED BY <1>2, <1>3, <1>4, SeqEqual DEF a, b

(* The handlers a command byte calls. *)
CallsAt(s, b) == IF b \in {18, 32} THEN Append(Flushed(s), OwnCall(b)) ELSE Flushed(s)

(* The handlers a command byte runs, one after the other. *)
LEMMA HandlersOfCommand ==
  ASSUME NEW s, Waits(s), NEW b \in Sent, NEW r, NEW m, NEW p
  PROVE  LET c == Device!HandleAll(ChipOf(r, m, p), CallsAt(s, b))
             n == SettledOf(s, m)
         IN  c = ChipOf(c.spi, OwnMem(b, n), OwnPanel(b, n, p))
<1> DEFINE own == OwnCall(b)
           flush == CallOf(s)
           n == SettledOf(s, m)
           c0 == ChipOf(r, m, p)
           calls == CallsAt(s, b)
           c == Device!HandleAll(c0, calls)
<1>1. b \notin {18, 32} => OwnMem(b, n) = n /\ OwnPanel(b, n, p) = p
  BY DEF OwnMem, OwnPanel
<1>2. \A x, y, z : ChipOf(x, y, z) = ChipOf(ChipOf(x, y, z).spi, y, z)
  BY DEF ChipOf
<1>3. /\ calls = <<>> => c = c0
      /\ \A x : calls = <<x>> => c = Device!handler(c0, x)
      /\ \A x, y : calls = <<x, y>> => c = Device!handler(Device!handler(c0, x), y)
  <2> HIDE DEF c0
  <2>1. CASE calls = <<>>
    <3>1. Len(calls) = 0
      BY <2>1
    <3> QED BY <2>1, <3>1 DEF Device!HandleAll
  <2>2. ASSUME NEW x, calls = <<x>>
        PROVE  c = Device!handler(c0, x)
    <3>1. Len(calls) = 1 /\ calls[1] = x
      BY <2>2
    <3> QED BY <3>1 DEF Device!HandleAll
  <2>3. ASSUME NEW x, NEW y, calls = <<x, y>>
        PROVE  c = Device!handler(Device!handler(c0, x), y)
    <3>1. Len(<<x, y>>) = 2 /\ <<x, y>>[1] = x /\ <<x, y>>[2] = y
      OBVIOUS
    <3>2. Len(calls) = 2 /\ calls[1] = x /\ calls[2] = y
      BY <2>3, <3>1
    <3> QED BY <3>2 DEF Device!HandleAll
  <2> HIDE DEF c
  <2> QED BY <2>1, <2>2, <2>3
<1>4. /\ \A x : Append(<<>>, x) = <<x>>
      /\ \A x, y : Append(<<x>>, y) = <<x, y>>
  <2>1. ASSUME NEW x PROVE Append(<<>>, x) = <<x>>
    OBVIOUS
  <2> QED BY <2>1, PairOf
<1>5. b \in {18, 32} => \A x, y, z : LET d == Device!handler(ChipOf(x, y, z), own)
                                   IN  d = ChipOf(d.spi, OwnMem(b, y), OwnPanel(b, y, z))
  BY OwnEffect
<1>8. calls = IF b \in {18, 32} THEN Append(Flushed(s), own) ELSE Flushed(s)
  BY DEF CallsAt
<1>9. s.data_ndx > 0 => s.cmd \in {36, 38}
  BY DEF Waits
<1> HIDE DEF own, flush, calls, c, c0
<1>6. CASE s.data_ndx > 0
  <2>1. Device!handler(c0, flush) = ChipOf(r, n, p)
    BY <1>6, <1>9, FlushEffect DEF flush, c0
  <2>2. Flushed(s) = <<flush>>
    BY <1>6 DEF Flushed, flush
  <2> HIDE DEF n
  <2>3. CASE b \in {18, 32}
    <3>1. calls = <<flush, own>>
      BY <1>4, <1>8, <2>2, <2>3
    <3>2. c = Device!handler(ChipOf(r, n, p), own)
      BY <1>3, <2>1, <3>1
    <3> QED BY <1>5, <2>3, <3>2 DEF c, n, c0, calls, own
  <2>4. CASE b \notin {18, 32}
    <3>1. c = ChipOf(r, n, p)
      BY <1>3, <1>8, <2>1, <2>2, <2>4
    <3> QED BY <1>1, <1>2, <2>4, <3>1 DEF c, n, c0, calls
  <2> QED BY <2>3, <2>4
<1>7. CASE ~(s.data_ndx > 0)
  <2>1. n = m /\ Flushed(s) = <<>>
    BY <1>7 DEF SettledOf, Flushed
  <2> HIDE DEF n
  <2>2. CASE b \in {18, 32}
    <3>1. calls = <<own>>
      BY <1>4, <1>8, <2>1, <2>2
    <3>2. c = Device!handler(ChipOf(r, n, p), own)
      BY <1>3, <2>1, <3>1 DEF c0
    <3> QED BY <1>5, <2>2, <3>2 DEF c, n, c0, calls, own
  <2>3. CASE b \notin {18, 32}
    <3>1. c = ChipOf(r, n, p)
      BY <1>3, <1>8, <2>1, <2>3 DEF c0
    <3> QED BY <1>1, <1>2, <2>3, <3>1 DEF c, n, c0, calls
  <2> QED BY <2>2, <2>3
<1> QED BY <1>6, <1>7

(* A command byte, in a CS window of its own or in one left open. *)
LEMMA CommandEffect ==
  ASSUME NEW s, Waits(s), NEW m, NEW p, NEW b \in Sent, NEW level, level = HIGH \/ s.armed
  PROVE  LET c == Clocked(ChipOf(s, m, p), LOW, b, level)
             n == SettledOf(s, m)
         IN  /\ IsReceiver(c.spi) /\ c.spi.data_ndx = 0
             /\ b \notin {18, 32} => c.spi.cmd = b
             /\ c.spi.calls = CallsAt(s, b)
             /\ c.mem = OwnMem(b, n) /\ c.panel = OwnPanel(b, n, p)
<1> DEFINE dc == Device!Rx!on_dc_pin_change(s, LOW)
           t == Select(dc, level)
           u == [t EXCEPT !.calls = <<>>]
           v == [u EXCEPT !.armed = FALSE]
           r == Device!Rx!on_spi_done(v, b)
           c == Clocked(ChipOf(s, m, p), LOW, b, level)
           calls == CallsAt(s, b)
<1>1. IsReceiver(s) /\ s.data_ndx \in 0 .. MAX_DATA_TXFER - 1 /\ s.data_ndx \in Nat
  BY Sizes DEF Waits
<1>2. dc = [s EXCEPT !.mode = LOW]
  BY DEF Device!Rx!on_dc_pin_change
<1>3. /\ IsReceiver(dc) /\ dc.mode = LOW /\ dc.cmd = s.cmd /\ dc.data_ndx = s.data_ndx
      /\ dc.data = s.data /\ dc.runs = s.runs /\ dc.armed = s.armed
  BY <1>1, <1>2 DEF IsReceiver
<1> HIDE DEF dc
<1>4. t = IF level = HIGH THEN [dc EXCEPT !.armed = TRUE] ELSE dc
  BY DEF Select, Device!Rx!on_cs_pin_change, Device!Rx!start_spi_transfer, Device!Rx!LOW, LOW
<1>5. /\ IsReceiver(t) /\ t.mode = LOW /\ t.cmd = s.cmd /\ t.data_ndx = s.data_ndx
      /\ t.data = s.data /\ t.runs = s.runs /\ t.armed
  BY <1>3, <1>4 DEF IsReceiver
<1> HIDE DEF t
<1>6. /\ IsReceiver(u) /\ u.mode = LOW /\ u.cmd = s.cmd /\ u.data_ndx = s.data_ndx
      /\ u.data = s.data /\ u.runs = s.runs /\ u.armed /\ u.calls = <<>>
  BY <1>5 DEF IsReceiver
<1> HIDE DEF u
<1>7. /\ IsReceiver(v) /\ v.mode = LOW /\ v.cmd = s.cmd /\ v.data_ndx = s.data_ndx
      /\ v.data = s.data /\ v.runs = s.runs /\ v.calls = <<>>
  BY <1>6 DEF IsReceiver
<1> HIDE DEF v
<1>8. CallOf(v) = CallOf(s) /\ Flushed(v) = Flushed(s) /\ Waits(v)
  <2>1. Device!Rx!Args(v) = Device!Rx!Args(s)
    BY <1>7 DEF Device!Rx!Args
  <2>2. CallOf(v) = CallOf(s)
    BY <1>7, <2>1 DEF CallOf
  <2> QED BY <1>1, <1>7, <2>2 DEF Flushed, Waits
<1>9. /\ IsReceiver(r) /\ r.data_ndx = 0
      /\ b \notin {18, 32} => r.cmd = b
      /\ r.calls = calls
  <2>1. /\ IsReceiver(r) /\ r.data_ndx = 0 /\ r.data = v.data
        /\ b \notin {18, 32} => r.cmd = b /\ r.calls = Flushed(v)
        /\ b \in {18, 32} => r.calls = Append(Flushed(v), OwnCall(b))
    <3> HIDE DEF r
    <3> QED BY <1>7, <1>8, CommandReceived DEF r
  <2> HIDE DEF r
  <2> QED BY <1>8, <2>1 DEF CallsAt
<1> HIDE DEF r
<1>10. ~Device!Overflows(u)
  BY <1>6 DEF Device!Overflows, Device!HIGH, LOW
<1>11. c = [Device!HandleAll(ChipOf(r, m, p), r.calls) EXCEPT !.spi = r]
  <2>1. c = Device!Receive(ChipOf(t, m, p), b)
    BY DEF Clocked, ChipOf, t, dc
  <2>2. [ChipOf(t, m, p) EXCEPT !.spi = r] = ChipOf(r, m, p)
    BY DEF ChipOf
  <2>3. ChipOf(t, m, p).spi = t
    BY DEF ChipOf
  <2> QED BY <1>6, <1>10, <2>1, <2>2, <2>3 DEF Device!Receive, r, v, u
<1> HIDE DEF c, calls
<1> DEFINE h == Device!HandleAll(ChipOf(r, m, p), r.calls)
           n == SettledOf(s, m)
<1>12. h = ChipOf(h.spi, OwnMem(b, n), OwnPanel(b, n, p))
  BY <1>9, HandlersOfCommand DEF calls
<1> HIDE DEF h, n
<1>13. c.spi = r /\ c.mem = OwnMem(b, n) /\ c.panel = OwnPanel(b, n, p)
  BY <1>11, <1>12 DEF h, ChipOf
<1> QED BY <1>9, <1>13 DEF c, calls, n

(* What NoneCutShort says of a list of calls. *)
NotShort(calls) ==
  \A i \in DOMAIN calls : Device!Rx!InTable(calls[i].cmd) \in {Len(calls[i].args), 255}

(* A command byte runs no handler that is short of data. *)
LEMMA CallsNotShort ==
  /\ NotShort(<<>>)
  /\ \A call : Device!Rx!InTable(call.cmd) \in {Len(call.args), 255} => NotShort(<<call>>)
  /\ \A s : \A b \in Sent : Waits(s) => NotShort(CallsAt(s, b))
<1>1. NotShort(<<>>)
  BY DEF NotShort
<1>2. ASSUME NEW call, Device!Rx!InTable(call.cmd) \in {Len(call.args), 255}
      PROVE  NotShort(<<call>>)
  BY <1>2 DEF NotShort
<1>3. ASSUME NEW a, NEW b, NotShort(<<a>>), NotShort(<<b>>)
      PROVE  NotShort(<<a, b>>)
  <2>1. <<a>>[1] = a /\ 1 \in DOMAIN <<a>> /\ <<b>>[1] = b /\ 1 \in DOMAIN <<b>>
    OBVIOUS
  <2>2. /\ Device!Rx!InTable(a.cmd) \in {Len(a.args), 255}
        /\ Device!Rx!InTable(b.cmd) \in {Len(b.args), 255}
    BY <1>3, <2>1 DEF NotShort
  <2>3. ASSUME NEW i \in DOMAIN <<a, b>>
        PROVE  \/ i = 1 /\ <<a, b>>[i] = a
               \/ i = 2 /\ <<a, b>>[i] = b
    OBVIOUS
  <2> QED BY <2>2, <2>3 DEF NotShort
<1>4. ASSUME NEW s, NEW b \in Sent, Waits(s) PROVE NotShort(CallsAt(s, b))
  <2> DEFINE own == OwnCall(b)
             flush == CallOf(s)
  <2>1. b \in {18, 32} => NotShort(<<own>>)
    <3>1. own.cmd = b /\ Len(own.args) = 0
      BY DEF OwnCall
    <3>2. b \in {18, 32} => Device!Rx!InTable(b) = 0
      BY TableLengths
    <3> HIDE DEF own
    <3> QED BY <1>2, <3>1, <3>2
  <2>2. s.data_ndx > 0 => NotShort(<<flush>>)
    <3>1. flush.cmd = s.cmd
      BY DEF CallOf
    <3>2. s.data_ndx > 0 => Device!Rx!InTable(s.cmd) = 255
      BY <1>4, TableLengths DEF Waits
    <3> HIDE DEF flush
    <3> QED BY <1>2, <3>1, <3>2
  <2> HIDE DEF own, flush
  <2>3. Append(<<>>, own) = <<own>> /\ Append(<<flush>>, own) = <<flush, own>>
    BY PairOf
  <2>4. /\ b \notin {18, 32} => CallsAt(s, b) = IF s.data_ndx > 0 THEN <<flush>> ELSE <<>>
        /\ b \in {18, 32} => CallsAt(s, b) = IF s.data_ndx > 0 THEN <<flush, own>> ELSE <<own>>
    BY <2>3 DEF CallsAt, Flushed, own, flush
  <2> QED BY <1>1, <1>3, <2>1, <2>2, <2>4
<1> QED BY <1>1, <1>2, <1>4

(* A command byte in a CS window that has had its byte is lost. *)
LEMMA CommandLost ==
  ASSUME NEW s, Waits(s), NEW m, NEW p, NEW b, ~s.armed
  PROVE  LET c == Clocked(ChipOf(s, m, p), LOW, b, LOW)
         IN  /\ IsReceiver(c.spi) /\ c.spi.data_ndx = s.data_ndx /\ c.spi.cmd = s.cmd
             /\ c.spi.data = s.data /\ c.spi.calls = <<>> /\ c.mem = m /\ c.panel = p
<1> DEFINE dc == Device!Rx!on_dc_pin_change(s, LOW)
           u == [dc EXCEPT !.calls = <<>>]
           c == Clocked(ChipOf(s, m, p), LOW, b, LOW)
<1>1. IsReceiver(s)
  BY DEF Waits
<1>2. dc = [s EXCEPT !.mode = LOW]
  BY DEF Device!Rx!on_dc_pin_change
<1>3. /\ IsReceiver(dc) /\ dc.cmd = s.cmd /\ dc.data_ndx = s.data_ndx
      /\ dc.data = s.data /\ ~dc.armed
  BY <1>1, <1>2 DEF IsReceiver
<1>4. c = Device!Receive(ChipOf(dc, m, p), b)
  BY DEF Clocked, ChipOf, Select, LOW, HIGH
<1> HIDE DEF dc
<1>5. /\ IsReceiver(u) /\ u.cmd = s.cmd /\ u.data_ndx = s.data_ndx
      /\ u.data = s.data /\ ~u.armed /\ u.calls = <<>>
  BY <1>3 DEF IsReceiver
<1>6. c = ChipOf(u, m, p)
  <2>1. ChipOf(dc, m, p).spi = dc
    BY DEF ChipOf
  <2>2. c = [ChipOf(dc, m, p) EXCEPT !.spi = u]
    BY <1>4, <1>5, <2>1 DEF Device!Receive
  <2> QED BY <2>2 DEF ChipOf
<1> HIDE DEF u, c
<1> QED BY <1>5, <1>6 DEF ChipOf, c

(* What a data byte leaves: the command waits for more, or has run. *)
Pending(c, s, m, p, n) ==
  /\ c.spi.cmd = s.cmd /\ c.spi.data_ndx = n /\ c.spi.calls = <<>>
  /\ c.mem = m /\ c.panel = p

(* ... or it has run. *)
Ran(c, s, m, p, n) ==
  /\ c.spi.cmd = 0 /\ c.spi.data_ndx = 0
  /\ \E call : /\ call.cmd = s.cmd /\ Len(call.args) = n /\ c.spi.calls = <<call>>
               /\ c.mem = Device!RamHandler(m, call, c.spi.data)
               /\ c.panel = Device!EngineHandler(p, m, call, c.spi.data)

(* A data byte in a CS window of its own. *)
LEMMA ByteEffect ==
  ASSUME NEW s, IsReceiver(s), NEW k \in Nat, s.data_ndx = k, k + 1 < MAX_DATA_TXFER,
         s.cmd \in Sent \ {18, 32}, NEW m, NEW p, NEW b
  PROVE  LET c == Clocked(ChipOf(s, m, p), HIGH, b, HIGH)
         IN  /\ c = ChipOf(c.spi, c.mem, c.panel)
             /\ IsReceiver(c.spi) /\ c.spi.data = [s.data EXCEPT ![k + 1] = b]
             /\ IF Device!Rx!InTable(s.cmd) = 255 \/ k + 1 < Device!Rx!InTable(s.cmd)
                THEN Pending(c, s, m, p, k + 1) ELSE Ran(c, s, m, p, k + 1)
<1> DEFINE dc == Device!Rx!on_dc_pin_change(s, HIGH)
           t == Select(dc, HIGH)
           u == [t EXCEPT !.calls = <<>>]
           v == [u EXCEPT !.armed = FALSE]
           w == [v EXCEPT !.data[k + 1] = b, !.data_ndx = @ + 1]
           r == Device!Rx!on_spi_done(v, b)
           c == Clocked(ChipOf(s, m, p), HIGH, b, HIGH)
           more == Device!Rx!InTable(s.cmd) = 255 \/ k + 1 < Device!Rx!InTable(s.cmd)
<1>1. dc = [s EXCEPT !.mode = HIGH]
  BY DEF Device!Rx!on_dc_pin_change
<1>2. IsReceiver(dc) /\ dc.mode = HIGH /\ dc.cmd = s.cmd /\ dc.data_ndx = k /\ dc.data = s.data
  BY <1>1 DEF IsReceiver
<1> HIDE DEF dc
<1>3. t = [dc EXCEPT !.armed = TRUE]
  BY DEF Select, Device!Rx!on_cs_pin_change, Device!Rx!start_spi_transfer, Device!Rx!LOW, LOW
<1>4. /\ IsReceiver(t) /\ t.mode = HIGH /\ t.cmd = s.cmd /\ t.data_ndx = k /\ t.data = s.data
      /\ t.armed
  BY <1>2, <1>3 DEF IsReceiver
<1> HIDE DEF t
<1>5. /\ IsReceiver(u) /\ u.mode = HIGH /\ u.cmd = s.cmd /\ u.data_ndx = k /\ u.data = s.data
      /\ u.armed /\ u.calls = <<>>
  BY <1>4 DEF IsReceiver
<1> HIDE DEF u
<1>6. /\ IsReceiver(v) /\ v.mode = HIGH /\ v.cmd = s.cmd /\ v.data_ndx = k /\ v.data = s.data
      /\ v.calls = <<>>
  BY <1>5 DEF IsReceiver
<1> HIDE DEF v
<1>7. /\ IsReceiver(w) /\ w.cmd = s.cmd /\ w.data_ndx = k + 1 /\ w.calls = <<>>
      /\ w.data = [s.data EXCEPT ![k + 1] = b]
  BY <1>6 DEF IsReceiver
<1>8. r = IF more THEN w ELSE Device!Rx!on_command(w)
  <2>1. w = [v EXCEPT !.data[v.data_ndx + 1] = b, !.data_ndx = @ + 1]
    BY <1>6
  <2>2. w.data_ndx < MAX_DATA_TXFER /\ Device!Rx!DataBytes(v, v.cmd) = Device!Rx!InTable(s.cmd)
    BY <1>6, <1>7, KnownCodes
  <2> HIDE DEF w
  <2>3. ~(w.data_ndx >= MAX_DATA_TXFER)
    BY <1>7, <2>2, Sizes
  <2>4. r = Device!Rx!OnDataByte(v, b)
    BY <1>6 DEF Device!Rx!on_spi_done, Device!Rx!LOW, HIGH
  <2> QED BY <1>7, <2>1, <2>2, <2>3, <2>4 DEF Device!Rx!OnDataByte, Device!Rx!OPEN
<1> HIDE DEF w
<1>9. ~Device!Overflows(u)
  BY <1>5, Sizes DEF Device!Overflows
<1>10. c = [Device!HandleAll(ChipOf(r, m, p), r.calls) EXCEPT !.spi = r]
  <2>1. c = Device!Receive(ChipOf(t, m, p), b)
    BY DEF Clocked, ChipOf, t, dc
  <2>2. [ChipOf(t, m, p) EXCEPT !.spi = r] = ChipOf(r, m, p)
    BY DEF ChipOf
  <2>3. ChipOf(t, m, p).spi = t
    BY DEF ChipOf
  <2> HIDE DEF c
  <2> QED BY <1>5, <1>9, <2>1, <2>2, <2>3 DEF Device!Receive, r, v, u
<1> HIDE DEF c, r, more
<1>11. CASE more
  <2>1. r = w /\ Len(r.calls) = 0
    BY <1>7, <1>8, <1>11
  <2>2. c = ChipOf(w, m, p)
    BY <1>10, <2>1 DEF Device!HandleAll, ChipOf
  <2> QED BY <1>7, <1>11, <2>2 DEF ChipOf, Pending, more, c
<1>12. CASE ~more
  <2> DEFINE call == CallOf(w)
  <2>1. /\ r = Device!Rx!on_command(w) /\ IsReceiver(r) /\ r.cmd = 0 /\ r.data_ndx = 0
        /\ r.data = w.data /\ r.calls = Append(<<>>, call)
    BY <1>7, <1>8, <1>12, CommandRuns
  <2>2. call.cmd = s.cmd /\ Len(call.args) = k + 1
    <3>1. call.args = [i \in 1 .. k + 1 |-> w.data[i]] /\ call.cmd = s.cmd
      BY <1>7 DEF CallOf, Device!Rx!Args
    <3>2. \A g : Len([i \in 1 .. k + 1 |-> g[i]]) = k + 1
      OBVIOUS
    <3> QED BY <3>1, <3>2
  <2> HIDE DEF call
  <2>3. r.calls = <<call>> /\ Len(r.calls) = 1 /\ r.calls[1] = call
    BY <2>1
  <2>4. Device!HandleAll(ChipOf(r, m, p), r.calls) = Device!handler(ChipOf(r, m, p), call)
    BY <2>3 DEF Device!HandleAll
  <2>5. Device!handler(ChipOf(r, m, p), call)
          = [ChipOf(r, m, p) EXCEPT !.panel = Device!EngineHandler(p, m, call, r.data),
                                    !.mem = Device!RamHandler(m, call, r.data)]
    <3>1. call.cmd # 18
      BY <2>2
    <3> QED BY <3>1 DEF Device!handler, Device!CMD_SW_RESET, ChipOf
  <2>6. c = ChipOf(r, Device!RamHandler(m, call, r.data), Device!EngineHandler(p, m, call, r.data))
    BY <1>10, <2>4, <2>5 DEF ChipOf
  <2>7. /\ c.spi = r /\ c.mem = Device!RamHandler(m, call, c.spi.data)
        /\ c.panel = Device!EngineHandler(p, m, call, c.spi.data)
    BY <2>6 DEF ChipOf
  <2>8. Ran(c, s, m, p, k + 1)
    BY <2>1, <2>2, <2>3, <2>7 DEF Ran
  <2>9. c = ChipOf(c.spi, c.mem, c.panel)
    BY <2>6 DEF ChipOf
  <2> QED BY <1>7, <1>12, <2>1, <2>7, <2>8, <2>9 DEF more, c
<1> QED BY <1>11, <1>12

(* The bytes that only fill the buffer, all at once. *)
LEMMA FilledBuffer ==
  ASSUME NEW s, IsReceiver(s), s.data_ndx = 0, NEW m, NEW p, NEW bytes \in Seq(Byte),
         Len(bytes) < MAX_DATA_TXFER
  PROVE  LET c == Filled(ChipOf(s, m, p), bytes)
         IN  /\ c = ChipOf(c.spi, m, p) /\ IsReceiver(c.spi) /\ c.spi.data_ndx = Len(bytes)
             /\ c.spi.cmd = s.cmd
             /\ \A i \in 1 .. Len(bytes) : c.spi.data[i] = bytes[i]
<1> DEFINE n == Len(bytes)
           from == s.data_ndx
           to == from + Len(bytes)
           d == [i \in DOMAIN s.data |-> IF i \in from + 1 .. to THEN bytes[i - from] ELSE s.data[i]]
           r == [s EXCEPT !.data = d, !.data_ndx = to, !.calls = <<>>, !.mode = HIGH]
           c == Filled(ChipOf(s, m, p), bytes)
<1>1. c = ChipOf(r, m, p)
  <2>1. ChipOf(s, m, p).spi = s /\ \A x : [ChipOf(s, m, p) EXCEPT !.spi = x] = ChipOf(x, m, p)
    BY DEF ChipOf
  <2> DEFINE c0 == ChipOf(s, m, p)
  <2> HIDE DEF c0
  <2>2. c0.spi = s /\ \A x : [c0 EXCEPT !.spi = x] = ChipOf(x, m, p)
    BY <2>1 DEF c0
  <2>3. Filled(c0, bytes) = ChipOf(r, m, p)
    BY <2>2, Zenon DEF Filled
  <2> QED BY <2>3 DEF c0
<1>2. n \in Nat /\ n < MAX_DATA_TXFER /\ from = 0 /\ to = n
  OBVIOUS
<1>3. DOMAIN s.data = 1 .. MAX_DATA_TXFER
  BY DEF IsReceiver
<1>4. DOMAIN d = 1 .. MAX_DATA_TXFER /\ \A i \in 1 .. n : d[i] = bytes[i]
  <2>1. ASSUME NEW i \in 1 .. n PROVE d[i] = bytes[i]
    <3>1. i \in 1 .. MAX_DATA_TXFER /\ i \in from + 1 .. to /\ i - from = i
      BY <1>2, Sizes
    <3> QED BY <1>3, <3>1
  <2> QED BY <1>3, <2>1
<1> HIDE DEF d, c, to
<1>5. IsReceiver(r) /\ r.data = d /\ r.data_ndx = n /\ r.cmd = s.cmd
  BY <1>2, <1>4 DEF IsReceiver
<1> HIDE DEF r
<1>6. c.spi = r
  BY <1>1 DEF ChipOf
<1> QED BY <1>1, <1>4, <1>5, <1>6 DEF c

(* All bytes of a command, or the first of them, after its command byte. *)
LEMMA DataEffect ==
  ASSUME NEW s, IsReceiver(s), s.data_ndx = 0, s.cmd \in Sent \ {18, 32},
         NEW m, NEW p, NEW bytes \in Seq(Byte), Len(bytes) > 0, Len(bytes) < MAX_DATA_TXFER,
         Device!Rx!InTable(s.cmd) = 255 \/ Len(bytes) <= Device!Rx!InTable(s.cmd)
  PROVE  LET c == DataClocked(ChipOf(s, m, p), bytes)
             n == Len(bytes)
         IN  /\ c = ChipOf(c.spi, c.mem, c.panel)
             /\ IsReceiver(c.spi) /\ \A i \in 1 .. n : c.spi.data[i] = bytes[i]
             /\ IF Device!Rx!InTable(s.cmd) = 255 \/ n < Device!Rx!InTable(s.cmd)
                THEN Pending(c, s, m, p, n) ELSE Ran(c, s, m, p, n)
<1> DEFINE n == Len(bytes)
           k == n - 1
           c0 == ChipOf(s, m, p)
           base == IF k = 0 THEN c0 ELSE Filled(c0, SubSeq(bytes, 1, k))
           end == Clocked(base, HIGH, bytes[n], HIGH)
           Body(g) == [i \in k .. n |-> IF i = k THEN base
                                                 ELSE Clocked(g[i - 1], HIGH, bytes[i], HIGH)]
<1>1. n \in Nat /\ k \in Nat /\ n = k + 1 /\ n > 0 /\ n < MAX_DATA_TXFER
  OBVIOUS
<1>2. Device!Rx!InTable(s.cmd) \in Nat
  BY KnownCodes
<1>3. OnlyFill(s, k)
  BY <1>1, <1>2, Sizes DEF OnlyFill, Device!Rx!OPEN
<1> HIDE DEF k, n, base
<1>4. DataClocked(c0, bytes) = (CHOOSE g : g = Body(g))[n]
  <2>1. c0.spi = s
    BY DEF ChipOf
  <2>2. (IF n > 0 /\ OnlyFill(c0.spi, n - 1) THEN n - 1 ELSE 0) = k
    BY <1>1, <1>3, <2>1 DEF k
  <2>3. DataClocked(c0, bytes)
          = LET fill == IF n > 0 /\ OnlyFill(c0.spi, n - 1) THEN n - 1 ELSE 0
            IN  (CHOOSE g : g = [i \in fill .. n |->
                   IF i = fill THEN (IF fill = 0 THEN c0 ELSE Filled(c0, SubSeq(bytes, 1, fill)))
                               ELSE Clocked(g[i - 1], HIGH, bytes[i], HIGH)])[n]
    BY Zenon DEF DataClocked, n
  <2> DEFINE At(fill) ==
        (CHOOSE g : g = [i \in fill .. n |->
           IF i = fill THEN (IF fill = 0 THEN c0 ELSE Filled(c0, SubSeq(bytes, 1, fill)))
                       ELSE Clocked(g[i - 1], HIGH, bytes[i], HIGH)])[n]
  <2>4. DataClocked(c0, bytes) = At(IF n > 0 /\ OnlyFill(c0.spi, n - 1) THEN n - 1 ELSE 0)
    BY <2>3, Zenon
  <2> HIDE DEF c0, At
  <2>5. DataClocked(c0, bytes) = At(k)
    BY <2>2, <2>4
  <2> QED BY <2>5 DEF base, At
<1>5. \E g : g = Body(g)
  <2> DEFINE g == [i \in k .. n |-> IF i = k THEN base ELSE end]
  <2>1. ASSUME NEW i \in k .. n
        PROVE  g[i] = IF i = k THEN base ELSE Clocked(g[i - 1], HIGH, bytes[i], HIGH)
    <3>1. CASE i = k
      BY <3>1
    <3>2. CASE i # k
      <4>1. i = n /\ i - 1 = k /\ k \in k .. n
        BY <1>1, <3>2
      <4>2. g[i - 1] = base /\ g[i] = end
        BY <1>1, <3>2, <4>1
      <4> HIDE DEF g
      <4> QED BY <3>2, <4>1, <4>2
    <3> QED BY <3>1, <3>2
  <2>2. g = Body(g)
    BY <2>1
  <2> QED BY <2>2
<1> DEFINE h == CHOOSE g : g = Body(g)
<1>6. h = Body(h)
  <2> HIDE DEF Body
  <2> QED BY <1>5
<1> HIDE DEF h
<1>7. h[n] = end
  <2>1. k \in k .. n /\ n \in k .. n /\ n # k /\ n - 1 = k
    BY <1>1
  <2>2. h[k] = base /\ h[n] = Clocked(h[n - 1], HIGH, bytes[n], HIGH)
    BY <1>6, <2>1
  <2> QED BY <2>1, <2>2
<1>8. /\ base = ChipOf(base.spi, m, p) /\ IsReceiver(base.spi) /\ base.spi.data_ndx = k
      /\ base.spi.cmd = s.cmd /\ \A i \in 1 .. k : base.spi.data[i] = bytes[i]
  <2>1. CASE k = 0
    BY <2>1, <1>1 DEF base, ChipOf
  <2>2. CASE k # 0
    <3> DEFINE first == SubSeq(bytes, 1, k)
    <3>1. first \in Seq(Byte) /\ Len(first) = k /\ \A i \in 1 .. k : first[i] = bytes[i]
      BY <1>1, <2>2 DEF n
    <3>2. base = Filled(c0, first)
      BY <2>2 DEF base
    <3> HIDE DEF first, c0
    <3>3. k < MAX_DATA_TXFER
      BY <1>1, Sizes
    <3> QED BY <3>1, <3>2, <3>3, FilledBuffer DEF c0
  <2> QED BY <2>1, <2>2
<1>9. /\ end = ChipOf(end.spi, end.mem, end.panel)
      /\ IsReceiver(end.spi) /\ end.spi.data = [base.spi.data EXCEPT ![k + 1] = bytes[n]]
      /\ IF Device!Rx!InTable(s.cmd) = 255 \/ n < Device!Rx!InTable(s.cmd)
         THEN Pending(end, base.spi, m, p, n) ELSE Ran(end, base.spi, m, p, n)
  <2> DEFINE t == base.spi
  <2> HIDE DEF t
  <2>1. /\ base = ChipOf(t, m, p) /\ IsReceiver(t) /\ t.data_ndx = k /\ t.cmd = s.cmd
    BY <1>8 DEF t
  <2>2. k + 1 < MAX_DATA_TXFER /\ k \in Nat /\ k + 1 = n
    BY <1>1
  <2>3. LET c == Clocked(ChipOf(t, m, p), HIGH, bytes[n], HIGH)
        IN  /\ c = ChipOf(c.spi, c.mem, c.panel)
            /\ IsReceiver(c.spi) /\ c.spi.data = [t.data EXCEPT ![k + 1] = bytes[n]]
            /\ IF Device!Rx!InTable(s.cmd) = 255 \/ k + 1 < Device!Rx!InTable(s.cmd)
               THEN Pending(c, t, m, p, k + 1) ELSE Ran(c, t, m, p, k + 1)
    BY <2>1, <2>2, ByteEffect
  <2> QED BY <2>1, <2>2, <2>3 DEF t
<1>10. Pending(end, base.spi, m, p, n) => Pending(end, s, m, p, n)
  BY <1>8 DEF Pending
<1>11. Ran(end, base.spi, m, p, n) => Ran(end, s, m, p, n)
  BY <1>8 DEF Ran
<1> HIDE DEF end
<1>12. \A i \in 1 .. n : end.spi.data[i] = bytes[i]
  <2>1. DOMAIN base.spi.data = 1 .. MAX_DATA_TXFER
    BY <1>8 DEF IsReceiver
  <2> SUFFICES ASSUME NEW i \in 1 .. n PROVE end.spi.data[i] = bytes[i]
    OBVIOUS
  <2>2. i \in 1 .. MAX_DATA_TXFER /\ ((i = k + 1 /\ i = n) \/ (i # k + 1 /\ i \in 1 .. k))
    BY <1>1, Sizes
  <2>3. CASE i = k + 1
    BY <1>1, <1>9, <2>1, <2>2, <2>3
  <2>4. CASE i # k + 1
    <3>1. end.spi.data[i] = base.spi.data[i]
      BY <1>9, <2>1, <2>2, <2>4
    <3> QED BY <1>8, <2>2, <2>4, <3>1
  <2> QED BY <2>3, <2>4
<1>13. DataClocked(c0, bytes) = end
  BY <1>4, <1>7 DEF h
<1> QED BY <1>9, <1>10, <1>11, <1>12, <1>13 DEF n

-----------------------------------------------------------------------------
(* The display RAM *)

(* The registers as the driver sets them. *)
LEMMA RegistersOnPanel ==
  ASSUME NEW m, R!OnPanel(m), NEW y \in Lines, NEW z \in Lines
  PROVE  /\ R!OnPanel([m EXCEPT !.x_min = 0, !.x_max = 7])
         /\ R!OnPanel([m EXCEPT !.y_min = y, !.y_max = z])
         /\ R!OnPanel([m EXCEPT !.x_addr = 0]) /\ R!OnPanel([m EXCEPT !.y_addr = y])
         /\ R!OnPanel([m EXCEPT !.addr_incr_mode = 3])
<1>1. R!Rows = Lines
  BY DEF R!Rows, Lines
<1>2. 0 \in {8 * c : c \in R!Columns} /\ 7 \in {0} \cup {8 * c + 7 : c \in R!Columns} /\ 3 \in 0 .. 7
  BY DEF R!Columns
<1>3. R!OnPanel([m EXCEPT !.x_min = 0, !.x_max = 7])
  BY <1>2, Zenon DEF R!OnPanel, R!MemFields
<1>4. R!OnPanel([m EXCEPT !.y_min = y, !.y_max = z])
  BY <1>1, Zenon DEF R!OnPanel, R!MemFields
<1>5. R!OnPanel([m EXCEPT !.x_addr = 0])
  BY <1>2, Zenon DEF R!OnPanel, R!MemFields
<1>6. R!OnPanel([m EXCEPT !.y_addr = y])
  BY <1>1, Zenon DEF R!OnPanel, R!MemFields
<1>7. R!OnPanel([m EXCEPT !.addr_incr_mode = 3])
  BY <1>2, Zenon DEF R!OnPanel, R!MemFields
<1> QED BY <1>3, <1>4, <1>5, <1>6, <1>7

(* The window is the rows from line y on, the pointer is at its start. *)
AimedAt(m, y, n) ==
  /\ m.x_min = 0 /\ m.x_max = 7 /\ m.y_min = y /\ m.y_max = y + n - 1
  /\ m.x_addr = 0 /\ m.y_addr = y

(* k is m with the rows d written from line y on. *)
RowsIn(k, m, ram, y, d) ==
  /\ \A l \in Lines : k[ram][l] = IF l \in y .. y + Len(d) - 1 THEN d[l - y + 1] ELSE m[ram][l]
  /\ \A r \in {"bw", "color"} \ {ram} : k[r] = m[r]

(* A write of the window's rows from its start puts each in its line,      *)
(* leaves all else, and takes the pointer back to the start.               *)
LEMMA RowsWritten ==
  ASSUME NEW m, R!OnPanel(m), NEW ram \in {"bw", "color"}, NEW y, NEW d, Fit(y, d),
         AimedAt(m, y, Len(d))
  PROVE  LET k == Device!Ram!on_cmd_write_ram(m, ram, d)
         IN  R!OnPanel(k) /\ AimedAt(k, y, Len(d)) /\ RowsIn(k, m, ram, y, d)
<1> DEFINE n == Len(d)
           after == R!Passes(m, ram, d)
           Written(i, k) ==
             /\ R!SameWindow(m, k) /\ k.x_addr = 0 /\ k.y_addr = IF i = n THEN y ELSE y + i
             /\ \A l \in Lines : k[ram][l] = IF l \in y .. y + i - 1 THEN d[l - y + 1] ELSE m[ram][l]
             /\ \A r \in {"bw", "color"} \ {ram} : k[r] = m[r]
           T == {i \in 0 .. n : Written(i, after[i])}
<1>1. /\ n \in Nat /\ n > 0 /\ y \in Nat /\ y < Height /\ y + n <= Height /\ d \in Seq(Nat)
      /\ Height \in Nat
  <2>1. Byte \subseteq Nat
    BY Bytes
  <2>2. d \in Seq(Nat)
    BY <2>1, SeqMonotonic DEF Fit
  <2> QED BY <2>2, Sizes DEF Fit, Lines
<1>2. /\ after[0] = m
      /\ \A i \in 0 .. n - 1 : after[i + 1] = R!write_ram_byte(after[i], ram, d[i + 1])
  BY <1>1, RamFacts, R!PassesStep
<1>3. \A i \in 0 .. n : R!OnPanel(after[i])
  BY <1>1, RamFacts, R!PassesOnPanel
<1> HIDE DEF n, after
<1>4. 0 \in T
  <2>1. \A l \in Lines : l \notin y .. y + 0 - 1
    BY <1>1 DEF Lines
  <2>2. Written(0, m)
    BY <1>1, <2>1 DEF AimedAt, R!SameWindow, n
  <2> QED BY <1>1, <1>2, <2>2
<1>5. ASSUME NEW i \in 0 .. n - 1, i \in T PROVE i + 1 \in T
  <2> DEFINE k == after[i]
             t == after[i + 1]
  <2>1. i \in Nat /\ i < n /\ R!OnPanel(k) /\ t = R!write_ram_byte(k, ram, d[i + 1]) /\ Written(i, k)
    BY <1>1, <1>2, <1>3, <1>5
  <2>2. /\ R!SameWindow(k, t)
        /\ t.x_addr = IF R!AtLineEnd(k) THEN k.x_min ELSE k.x_addr + 8
        /\ t.y_addr = IF ~R!AtLineEnd(k) THEN k.y_addr
                      ELSE IF k.y_addr + 1 > k.y_max THEN k.y_min ELSE k.y_addr + 1
        /\ t[ram] = [k[ram] EXCEPT ![R!Here(k)] = d[i + 1]]
        /\ \A r \in {"bw", "color"} \ {ram} : t[r] = k[r]
    <3> HIDE DEF k, Written
    <3> QED BY <2>1, RamFacts, R!WriteByte
  <2> HIDE DEF k, t
  <2>3. /\ k.x_min = 0 /\ k.x_max = 7 /\ k.y_min = y /\ k.y_max = y + n - 1
        /\ k.x_addr = 0 /\ k.y_addr = y + i
    BY <1>1, <2>1 DEF AimedAt, R!SameWindow, n
  <2>4. R!AtLineEnd(k) /\ R!Here(k) = y + i
    BY <1>1, <2>1, <2>3 DEF R!AtLineEnd, R!Here
  <2>5. t.x_addr = 0 /\ t.y_addr = IF i + 1 = n THEN y ELSE y + (i + 1)
    BY <1>1, <2>1, <2>2, <2>3, <2>4
  <2>6. R!SameWindow(m, t)
    BY <2>1, <2>2 DEF R!SameWindow
  <2>7. DOMAIN k[ram] = Lines
    BY <2>1, <1>1 DEF R!OnPanel, R!Offsets, Lines
  <2>8. ASSUME NEW l \in Lines
        PROVE  t[ram][l] = IF l \in y .. y + (i + 1) - 1 THEN d[l - y + 1] ELSE m[ram][l]
    <3>1. l \in Int /\ (l \in y .. y + (i + 1) - 1 <=> l = y + i \/ l \in y .. y + i - 1)
      BY <1>1, <2>1 DEF Lines
    <3>2. CASE l = y + i
      <4>1. t[ram][l] = d[i + 1] /\ l - y + 1 = i + 1
        BY <1>1, <2>1, <2>2, <2>4, <2>7, <3>2
      <4> QED BY <3>1, <3>2, <4>1
    <3>3. CASE l # y + i
      <4>1. t[ram][l] = k[ram][l]
        BY <2>2, <2>4, <2>7, <3>3
      <4> QED BY <2>1, <3>1, <3>3, <4>1
    <3> QED BY <3>2, <3>3
  <2>9. \A r \in {"bw", "color"} \ {ram} : t[r] = m[r]
    BY <2>1, <2>2
  <2>10. Written(i + 1, t)
    BY <2>5, <2>6, <2>8, <2>9
  <2>11. i + 1 \in 0 .. n
    BY <1>1, <2>1
  <2> QED BY <2>10, <2>11 DEF t
<1>6. 0 .. n \subseteq T
  <2> HIDE DEF T
  <2> QED BY <1>1, <1>4, <1>5, CountUp
<1>7. Written(n, after[n]) /\ R!OnPanel(after[n])
  BY <1>1, <1>3, <1>6
<1> DEFINE k == after[n]
<1>8. k = Device!Ram!on_cmd_write_ram(m, ram, d)
  BY SameWrite DEF R!on_cmd_write_ram, after, n
<1> HIDE DEF k
<1>9. R!OnPanel(k) /\ AimedAt(k, y, n) /\ RowsIn(k, m, ram, y, d)
  BY <1>7 DEF k, AimedAt, RowsIn, R!SameWindow, n
<1> QED BY <1>8, <1>9 DEF n

-----------------------------------------------------------------------------
(* Effects of a step *)

(* No bytes, no effect. *)
LEMMA NothingSent ==
  ASSUME NEW c
  PROVE  DataClocked(c, <<>>) = c
<1> DEFINE At(fill, n) ==
      (CHOOSE g : g = [i \in fill .. n |->
         IF i = fill THEN (IF fill = 0 THEN c ELSE Filled(c, SubSeq(<<>>, 1, fill)))
                     ELSE Clocked(g[i - 1], HIGH, <<>>[i], HIGH)])[n]
<1>1. DataClocked(c, <<>>) = At(IF Len(<<>>) > 0 /\ OnlyFill(c.spi, Len(<<>>) - 1)
                                THEN Len(<<>>) - 1 ELSE 0, Len(<<>>))
  BY Zenon DEF DataClocked
<1>2. Len(<<>>) = 0 /\ ~(0 > 0)
  OBVIOUS
<1>3. DataClocked(c, <<>>) = At(0, 0)
  <2> HIDE DEF At
  <2> QED BY <1>1, <1>2
<1> DEFINE Body(g) == [i \in 0 .. 0 |->
      IF i = 0 THEN (IF 0 = 0 THEN c ELSE Filled(c, SubSeq(<<>>, 1, 0)))
               ELSE Clocked(g[i - 1], HIGH, <<>>[i], HIGH)]
           h == CHOOSE g : g = Body(g)
<1>4. \A g : Body(g) = [i \in 0 .. 0 |-> c]
  OBVIOUS
<1>5. h = Body(h)
  <2>1. \E g : g = Body(g)
    BY <1>4
  <2> HIDE DEF Body
  <2> QED BY <2>1
<1> HIDE DEF h
<1>6. h[0] = c
  <2>1. h = [i \in 0 .. 0 |-> c]
    BY <1>4, <1>5
  <2> QED BY <2>1
<1> QED BY <1>3, <1>6, Zenon DEF h

(* The bits of a byte, and the pictures they make. *)
LEMMA PictureFacts ==
  /\ \A m : Device!Picture(m) \in Rams
  /\ \A m, n : m.bw = n.bw /\ m.color = n.color => Device!Picture(m) = Device!Picture(n)
  /\ Device!Picture(Device!Ram!ResetMem) = ResetRam
<1>1. \A b : Device!LineBit(b) \in {0, 1}
  BY DEF Device!LineBit
<1>2. \A m : Device!Picture(m) \in Rams
  BY <1>1 DEF Device!Picture, Rams, Device!Lines, Lines
<1>3. ASSUME NEW m, NEW n, m.bw = n.bw, m.color = n.color
      PROVE  Device!Picture(m) = Device!Picture(n)
  BY <1>3 DEF Device!Picture
<1>4. Device!Picture(Device!Ram!ResetMem) = ResetRam
  <2> DEFINE m == Device!Ram!ResetMem
  <2>1. \A l \in Lines : m.bw[l] = 255 /\ m.color[l] = 0
    BY Sizes DEF Device!Ram!ResetMem, Device!Ram!Offsets, Lines
  <2>2. Device!LineBit(255) = 1 /\ Device!LineBit(0) = 0
    BY DEF Device!LineBit
  <2> HIDE DEF m
  <2>3. \A l \in Lines : Device!LineBit(m.bw[l]) = 1 /\ Device!LineBit(m.color[l]) = 0
    BY <2>1, <2>2
  <2>4. Device!Picture(m) = ResetRam
    BY <2>3 DEF Device!Picture, ResetRam, Device!Lines, Lines
  <2> QED BY <2>4 DEF m
<1> QED BY <1>2, <1>3, <1>4

(* A picture with rows written is the picture overlaid with them. *)
LEMMA PictureOfRows ==
  ASSUME NEW k, NEW m, NEW ram \in {"bw", "color"}, NEW y, NEW d, Fit(y, d), RowsIn(k, m, ram, y, d)
  PROVE  Device!Picture(k) = [Device!Picture(m) EXCEPT ![ram] = Overlay(@, y, d)]
<1> DEFINE old == Device!Picture(m)
           new == Device!Picture(k)
<1>1. /\ \A r \in {"bw", "color"} : old[r] = [l \in Lines |-> Device!LineBit(m[r][l])]
      /\ \A r \in {"bw", "color"} : new[r] = [l \in Lines |-> Device!LineBit(k[r][l])]
  BY DEF Device!Picture, Device!Lines, Lines
<1>2. /\ old = [bw |-> old.bw, color |-> old.color]
      /\ new = [bw |-> new.bw, color |-> new.color]
  BY DEF Device!Picture
<1> HIDE DEF old, new
<1>3. new[ram] = Overlay(old[ram], y, d)
  <2>1. ASSUME NEW l \in Lines
        PROVE  Device!LineBit(k[ram][l]) = IF l \in y .. y + Len(d) - 1
                                           THEN Device!LineBit(d[l - y + 1]) ELSE old[ram][l]
    <3>1. old[ram][l] = Device!LineBit(m[ram][l])
      BY <1>1
    <3>2. k[ram][l] = IF l \in y .. y + Len(d) - 1 THEN d[l - y + 1] ELSE m[ram][l]
      BY DEF RowsIn
    <3> QED BY <3>1, <3>2
  <2>2. [l \in Lines |-> Device!LineBit(k[ram][l])] = Overlay(old[ram], y, d)
    BY <2>1 DEF Overlay
  <2> QED BY <1>1, <2>2
<1>4. \A r \in {"bw", "color"} \ {ram} : new[r] = old[r]
  BY <1>1 DEF RowsIn
<1>5. new = [old EXCEPT ![ram] = Overlay(old[ram], y, d)]
  BY <1>2, <1>3, <1>4
<1> QED BY <1>5 DEF old, new

(* The registers k, which the command c with its data makes of those of m. *)
Registers(k, m, c, bytes) ==
  /\ k.bw = m.bw /\ k.color = m.color
  /\ c = 68 => k.x_min = 0 /\ k.x_max = 7
  /\ c # 68 => k.x_min = m.x_min /\ k.x_max = m.x_max
  /\ c = 69 => \A y, z \in Lines : bytes = CoordBytes(y) \o CoordBytes(z) => k.y_min = y /\ k.y_max = z
  /\ c # 69 => k.y_min = m.y_min /\ k.y_max = m.y_max
  /\ c = 78 => k.x_addr = 0
  /\ c # 78 => k.x_addr = m.x_addr
  /\ c = 79 => \A y \in Lines : bytes = CoordBytes(y) => k.y_addr = y
  /\ c # 79 => k.y_addr = m.y_addr

(* The word of a line's two bytes. *)
LEMMA WordOfLine ==
  ASSUME NEW y \in Lines
  PROVE  Device!Ram!Word(y % 256, y \div 256) = y
<1>1. y \in R!Rows
  BY DEF R!Rows, Lines
<1>2. R!Word(y % 256, y \div 256) = y
  BY <1>1, RamFacts, R!WordOfBytes
<1> QED BY <1>2 DEF R!Word, Device!Ram!Word

(* The bytes of one line's number and of two, at the start of the buffer. *)
LEMMA WordsOf ==
  ASSUME NEW y \in Lines, NEW z \in Lines, NEW d
  PROVE  /\ (\A i \in 1 .. 2 : d[i] = CoordBytes(y)[i]) => Device!Ram!Word(d[1], d[2]) = y
         /\ (\A i \in 1 .. 4 : d[i] = (CoordBytes(y) \o CoordBytes(z))[i]) =>
              Device!Ram!Word(d[1], d[2]) = y /\ Device!Ram!Word(d[3], d[4]) = z
<1>1. \A l \in Lines : /\ CoordBytes(l) \in Seq(Byte) /\ Len(CoordBytes(l)) = 2
                       /\ CoordBytes(l)[1] = l % 256 /\ CoordBytes(l)[2] = l \div 256
  BY LineBytes DEF CoordBytes
<1> DEFINE b == CoordBytes(y) \o CoordBytes(z)
<1>2. b[1] = y % 256 /\ b[2] = y \div 256 /\ b[3] = z % 256 /\ b[4] = z \div 256
  <2>1. Made(b, CoordBytes(y), CoordBytes(z))
    BY <1>1, Parts
  <2>2. b[1] = CoordBytes(y)[1] /\ b[2] = CoordBytes(y)[2] /\ b[3] = CoordBytes(z)[1]
          /\ b[4] = CoordBytes(z)[2]
    <3> HIDE DEF b
    <3>1. Len(CoordBytes(y)) = 2 /\ Len(CoordBytes(z)) = 2
      BY <1>1
    <3> QED BY <2>1, <3>1 DEF Made
  <2> QED BY <1>1, <2>2
<1> HIDE DEF b
<1>3. 1 \in 1 .. 4 /\ 2 \in 1 .. 4 /\ 3 \in 1 .. 4 /\ 4 \in 1 .. 4 /\ 1 \in 1 .. 2 /\ 2 \in 1 .. 2
  OBVIOUS
<1>4. ASSUME \A i \in 1 .. 2 : d[i] = CoordBytes(y)[i]
      PROVE  Device!Ram!Word(d[1], d[2]) = y
  BY <1>1, <1>3, <1>4, WordOfLine
<1>5. ASSUME \A i \in 1 .. 4 : d[i] = b[i]
      PROVE  Device!Ram!Word(d[1], d[2]) = y /\ Device!Ram!Word(d[3], d[4]) = z
  <2>1. d[1] = y % 256 /\ d[2] = y \div 256 /\ d[3] = z % 256 /\ d[4] = z \div 256
    BY <1>2, <1>3, <1>5
  <2> QED BY <2>1, WordOfLine
<1> QED BY <1>4, <1>5 DEF b

(* The handler of the RAM a command with data calls. *)
LEMMA RamHandlers ==
  ASSUME NEW m, NEW d, NEW call
  PROVE  LET k == Device!RamHandler(m, call, d)
         IN  /\ call.cmd = 17 => k = Device!Ram!on_cmd_data_entry_mode(m, d)
             /\ call.cmd = 68 => k = Device!Ram!on_cmd_write_ram_x_coords(m, d)
             /\ call.cmd = 69 => k = Device!Ram!on_cmd_write_ram_y_coords(m, d)
             /\ call.cmd = 78 => k = Device!Ram!on_cmd_write_ram_x_addr_ctr(m, d)
             /\ call.cmd = 79 => k = Device!Ram!on_cmd_write_ram_y_addr_ctr(m, d)
             /\ call.cmd \notin {17, 36, 38, 68, 69, 78, 79} => k = m
BY DEF Device!RamHandler, Device!CMD_DATA_ENTRY_MODE, Device!CMD_WRITE_RAM_BW,
       Device!CMD_WRITE_RAM_COLOR, Device!CMD_WRITE_RAM_X_COORDS, Device!CMD_WRITE_RAM_Y_COORDS,
       Device!CMD_WRITE_RAM_X_ADDR_CTR, Device!CMD_WRITE_RAM_Y_ADDR_CTR

(* The handler of the engine a command with data calls. *)
LEMMA EngineHandlers ==
  ASSUME NEW p, NEW m, NEW d, NEW call
  PROVE  LET q == Device!EngineHandler(p, m, call, d)
         IN  /\ call.cmd = 16 => q = Device!Engine!on_cmd_deep_sleep(p, d[1])
             /\ call.cmd = 34 => q = Device!Engine!on_cmd_disp_upd_ctl2(p, d[1])
             /\ call.cmd \notin {16, 32, 34} => q = p
BY DEF Device!EngineHandler, Device!CMD_DEEP_SLEEP, Device!CMD_MASTER_ACTIVATION,
       Device!CMD_DISP_UPD_CTL2

(* A command of the driver keeps the registers on the panel. *)
LEMMA DataOnRam ==
  ASSUME NEW m, R!OnPanel(m), NEW c, NEW bytes \in Seq(Byte), Proper(c, bytes), NEW d,
         \A i \in 1 .. Len(bytes) : d[i] = bytes[i], NEW call, call.cmd = c
  PROVE  LET k == Device!RamHandler(m, call, d)
         IN  R!OnPanel(k) /\ Registers(k, m, c, bytes)
<1> DEFINE k == Device!RamHandler(m, call, d)
<1>0. c \in WithData
  BY DEF Proper
<1>7. 0 \in Lines
  BY Sizes DEF Lines
<1>1. CASE c \notin {17, 68, 69, 78, 79}
  <2>1. c \notin {36, 38}
    BY <1>0 DEF WithData
  <2>2. k = m
    BY <1>1, <2>1, RamHandlers
  <2> HIDE DEF k
  <2> QED BY <1>1, <2>2 DEF Registers, k
<1>2. CASE c = 17
  <2>1. k = [m EXCEPT !.addr_incr_mode = d[1] % 8]
    BY <1>2, RamHandlers DEF Device!Ram!on_cmd_data_entry_mode
  <2>2. d[1] = 3
    BY <1>2 DEF Proper
  <2>3. k = [m EXCEPT !.addr_incr_mode = 3]
    BY <2>1, <2>2
  <2> HIDE DEF k
  <2>4. Registers(k, m, c, bytes)
    BY <1>2, <2>3 DEF Registers, R!OnPanel, R!MemFields
  <2>5. R!OnPanel(k)
    BY <1>7, <2>3, RegistersOnPanel, Zenon
  <2> QED BY <2>4, <2>5 DEF k
<1>3. CASE c = 68
  <2>1. k = [m EXCEPT !.x_min = d[1] * 8, !.x_max = (d[2] + 1) * 8 - 1]
    <3>1. k = Device!Ram!on_cmd_write_ram_x_coords(m, d)
      BY <1>3, RamHandlers
    <3> HIDE DEF k
    <3> QED BY <3>1, Zenon DEF Device!Ram!on_cmd_write_ram_x_coords
  <2>2. d[1] = 0 /\ d[2] = 0
    <3>1. Len(<<0, 0>>) = 2 /\ <<0, 0>>[1] = 0 /\ <<0, 0>>[2] = 0
      OBVIOUS
    <3>2. bytes = <<0, 0>>
      BY <1>3 DEF Proper
    <3> QED BY <3>1, <3>2
  <2>3. k = [m EXCEPT !.x_min = 0, !.x_max = 7]
    BY <2>1, <2>2
  <2> HIDE DEF k
  <2>4. Registers(k, m, c, bytes)
    BY <1>3, <2>3 DEF Registers, R!OnPanel, R!MemFields
  <2>5. R!OnPanel(k)
    BY <1>7, <2>3, RegistersOnPanel, Zenon
  <2> QED BY <2>4, <2>5 DEF k
<1>4. CASE c = 69
  <2>1. k = [m EXCEPT !.y_min = Device!Ram!Word(d[1], d[2]), !.y_max = Device!Ram!Word(d[3], d[4])]
    <3>1. k = Device!Ram!on_cmd_write_ram_y_coords(m, d)
      BY <1>4, RamHandlers
    <3> HIDE DEF k
    <3> QED BY <3>1, Zenon DEF Device!Ram!on_cmd_write_ram_y_coords
  <2> HIDE DEF k
  <2>2. ASSUME NEW y \in Lines, NEW z \in Lines, bytes = CoordBytes(y) \o CoordBytes(z)
        PROVE  k = [m EXCEPT !.y_min = y, !.y_max = z] /\ k.y_min = y /\ k.y_max = z
    <3>1. Len(bytes) = 4
      BY <2>2, LineBytes
    <3>2. \A i \in 1 .. 4 : d[i] = (CoordBytes(y) \o CoordBytes(z))[i]
      BY <2>2, <3>1
    <3>3. k = [m EXCEPT !.y_min = y, !.y_max = z]
      BY <2>1, <3>2, WordsOf
    <3> QED BY <3>3 DEF R!OnPanel, R!MemFields
  <2>3. PICK y \in Lines, z \in Lines : bytes = CoordBytes(y) \o CoordBytes(z)
    BY <1>4 DEF Proper, TwoLines
  <2>4. k = [m EXCEPT !.y_min = y, !.y_max = z]
    BY <2>2, <2>3, Zenon
  <2>5. \A u, v \in Lines : bytes = CoordBytes(u) \o CoordBytes(v) => k.y_min = u /\ k.y_max = v
    BY <2>2, Zenon
  <2>6. Registers(k, m, c, bytes)
    BY <1>4, <2>4, <2>5 DEF Registers, R!OnPanel, R!MemFields
  <2>7. R!OnPanel(k)
    BY <2>4, RegistersOnPanel, Zenon
  <2> QED BY <2>6, <2>7 DEF k
<1>5. CASE c = 78
  <2>1. k = [m EXCEPT !.x_addr = d[1] * 8]
    BY <1>5, RamHandlers DEF Device!Ram!on_cmd_write_ram_x_addr_ctr
  <2>2. d[1] = 0
    BY <1>5 DEF Proper
  <2>3. k = [m EXCEPT !.x_addr = 0]
    BY <2>1, <2>2
  <2> HIDE DEF k
  <2>4. Registers(k, m, c, bytes)
    BY <1>5, <2>3 DEF Registers, R!OnPanel, R!MemFields
  <2>5. R!OnPanel(k)
    BY <1>7, <2>3, RegistersOnPanel, Zenon
  <2> QED BY <2>4, <2>5 DEF k
<1>6. CASE c = 79
  <2>1. k = [m EXCEPT !.y_addr = Device!Ram!Word(d[1], d[2])]
    BY <1>6, RamHandlers DEF Device!Ram!on_cmd_write_ram_y_addr_ctr
  <2> HIDE DEF k
  <2>2. ASSUME NEW y \in Lines, bytes = CoordBytes(y)
        PROVE  k = [m EXCEPT !.y_addr = y] /\ k.y_addr = y
    <3>1. Len(bytes) = 2
      BY <2>2, LineBytes
    <3>2. \A i \in 1 .. 2 : d[i] = CoordBytes(y)[i]
      BY <2>2, <3>1
    <3>3. k = [m EXCEPT !.y_addr = y]
      BY <2>1, <3>2, WordsOf
    <3> QED BY <3>3 DEF R!OnPanel, R!MemFields
  <2>3. PICK y \in Lines : bytes = CoordBytes(y)
    BY <1>6 DEF Proper, OneLine
  <2>4. k = [m EXCEPT !.y_addr = y]
    BY <2>2, <2>3, Zenon
  <2>5. \A u \in Lines : bytes = CoordBytes(u) => k.y_addr = u
    BY <2>2
  <2>6. Registers(k, m, c, bytes)
    BY <1>6, <2>4, <2>5 DEF Registers, R!OnPanel, R!MemFields
  <2>7. R!OnPanel(k)
    BY <2>4, RegistersOnPanel, Zenon
  <2> QED BY <2>6, <2>7 DEF k
<1> QED BY <1>1, <1>2, <1>3, <1>4, <1>5, <1>6

(* The lengths of what the driver sends. *)
LEMMA ProperLengths ==
  ASSUME NEW c, NEW bytes, Proper(c, bytes)
  PROVE  /\ c \in Sent \ {18, 32} /\ c \notin {36, 38} /\ Device!Rx!InTable(c) # 255
         /\ Len(bytes) = Device!Rx!InTable(c) /\ Len(bytes) > 0 /\ Len(bytes) < MAX_DATA_TXFER
<1>1. c \in WithData /\ Len(bytes) = Device!Rx!InTable(c)
  BY DEF Proper
<1>2. c \in Sent \ {18, 32} /\ c \notin {36, 38}
  BY <1>1 DEF Sent, WithData
<1>3. Device!Rx!InTable(c) \in Nat /\ Device!Rx!InTable(c) > 0 /\ Device!Rx!InTable(c) <= 153
  <2>1. c \in {16, 17, 34, 44, 60, 63, 78, 3} \/ c \in {1, 4, 33, 50, 55, 68, 69, 79}
    BY <1>1 DEF WithData
  <2> QED BY <2>1, TableLengths
<1>4. 153 < MAX_DATA_TXFER /\ MAX_DATA_TXFER \in Nat
  BY Sizes
<1> QED BY <1>1, <1>2, <1>3, <1>4

(* A command with all its data: its handler has run. *)
LEMMA DataRuns ==
  ASSUME NEW s, IsReceiver(s), s.data_ndx = 0, NEW m, R!OnPanel(m), NEW p,
         NEW bytes \in Seq(Byte), Proper(s.cmd, bytes)
  PROVE  LET e == DataClocked(ChipOf(s, m, p), bytes)
         IN  /\ IsReceiver(e.spi) /\ e.spi.data_ndx = 0 /\ NotShort(e.spi.calls)
             /\ R!OnPanel(e.mem) /\ Registers(e.mem, m, s.cmd, bytes)
             /\ s.cmd = 16 => e.panel = Device!Engine!on_cmd_deep_sleep(p, bytes[1])
             /\ s.cmd = 34 => e.panel = Device!Engine!on_cmd_disp_upd_ctl2(p, bytes[1])
             /\ s.cmd \notin {16, 34} => e.panel = p
<1> DEFINE e == DataClocked(ChipOf(s, m, p), bytes)
           n == Len(bytes)
<1>1. /\ s.cmd \in Sent \ {18, 32} /\ Device!Rx!InTable(s.cmd) # 255
      /\ n = Device!Rx!InTable(s.cmd) /\ n > 0 /\ n < MAX_DATA_TXFER /\ n \in Nat
  BY ProperLengths
<1>2. n <= Device!Rx!InTable(s.cmd) /\ ~(n < Device!Rx!InTable(s.cmd))
  BY <1>1
<1>3. /\ IsReceiver(e.spi) /\ \A i \in 1 .. n : e.spi.data[i] = bytes[i]
      /\ Ran(e, s, m, p, n)
  BY <1>1, <1>2, DataEffect
<1> HIDE DEF e, n
<1>4. PICK call : /\ call.cmd = s.cmd /\ Len(call.args) = n /\ e.spi.calls = <<call>>
                  /\ e.mem = Device!RamHandler(m, call, e.spi.data)
                  /\ e.panel = Device!EngineHandler(p, m, call, e.spi.data)
  BY <1>3 DEF Ran
<1>5. NotShort(e.spi.calls)
  BY <1>1, <1>4, CallsNotShort
<1>6. R!OnPanel(e.mem) /\ Registers(e.mem, m, s.cmd, bytes)
  BY <1>3, <1>4, DataOnRam DEF n
<1>7. e.spi.data[1] = bytes[1]
  BY <1>1, <1>3
<1>8. s.cmd # 32
  BY <1>1
<1>9. /\ s.cmd = 16 => e.panel = Device!Engine!on_cmd_deep_sleep(p, bytes[1])
      /\ s.cmd = 34 => e.panel = Device!Engine!on_cmd_disp_upd_ctl2(p, bytes[1])
      /\ s.cmd \notin {16, 34} => e.panel = p
  BY <1>4, <1>7, <1>8, EngineHandlers
<1> QED BY <1>3, <1>5, <1>6, <1>9 DEF e, Ran

(* The rows of a picture: they wait for the next command. *)
LEMMA RowsPend ==
  ASSUME NEW s, IsReceiver(s), s.data_ndx = 0, s.cmd \in {36, 38}, NEW m, NEW p,
         NEW bytes \in Seq(Byte), Len(bytes) > 0, Len(bytes) < MAX_DATA_TXFER
  PROVE  LET e == DataClocked(ChipOf(s, m, p), bytes)
         IN  /\ IsReceiver(e.spi) /\ e.spi.data_ndx = Len(bytes) /\ e.spi.cmd = s.cmd
             /\ e.spi.calls = <<>> /\ e.mem = m /\ e.panel = p
             /\ SettledOf(e.spi, m) = Device!Ram!on_cmd_write_ram(m, RamOf(s.cmd), bytes)
<1> DEFINE e == DataClocked(ChipOf(s, m, p), bytes)
           n == Len(bytes)
<1>1. s.cmd \in Sent \ {18, 32} /\ Device!Rx!InTable(s.cmd) = 255
  BY TableLengths DEF Sent
<1>2. /\ IsReceiver(e.spi) /\ \A i \in 1 .. n : e.spi.data[i] = bytes[i]
      /\ Pending(e, s, m, p, n)
  BY <1>1, DataEffect
<1> HIDE DEF e
<1>3. Device!Rx!Args(e.spi) = bytes
  <2>1. e.spi.data_ndx = n
    BY <1>2 DEF Pending
  <2>2. Device!Rx!Args(e.spi) = [i \in 1 .. n |-> bytes[i]]
    BY <1>2, <2>1 DEF Device!Rx!Args
  <2> QED BY <2>2
<1>4. SettledOf(e.spi, m) = Device!Ram!on_cmd_write_ram(m, RamOf(s.cmd), bytes)
  BY <1>2, <1>3 DEF SettledOf, Pending, RamOf
<1> QED BY <1>2, <1>4 DEF e, Pending

-----------------------------------------------------------------------------
(* The rows still to be sent *)

(* What the driver does between a picture's window and its rows. *)
LEMMA AimPlaces ==
  ASSUME NEW S, WellFormed(S), NEW i \in 1 .. Len(S), S[i].op = "rows",
         NEW j \in 1 .. i - 1, j >= Start(S, i) + 2
  PROVE  LET p == Start(S, i)
             y == S[i].first
             n == Len(S[i].bytes)
         IN  \/ S[j].op = "command" /\ S[j].code \notin {18, 32}
             \/ S[j].op = "wait"
             \/ j = p + 2 /\ Is(S[j - 1], 68) /\ Gives(S[j], <<0, 0>>)
             \/ j = p + 4 /\ Is(S[j - 1], 69) /\ Gives(S[j], CoordBytes(y) \o CoordBytes(y + n - 1))
             \/ j = p + 6 /\ Is(S[j - 1], 78) /\ Gives(S[j], <<0>>)
             \/ j = p + 8 /\ Is(S[j - 1], 79) /\ Gives(S[j], CoordBytes(y))
             \/ /\ j = p + 11 /\ i = p + 13 /\ S[j].op = "rows" /\ S[j].ram = "bw"
                /\ S[j].first = y /\ Len(S[j].bytes) = n
<1> DEFINE p == Start(S, i)
           y == S[i].first
           n == Len(S[i].bytes)
<1>1. Len(S) \in Nat /\ Aimed(S, i)
  BY DEF WellFormed
<1>2. /\ p >= 0
      /\ Is(S[p + 1], 68) /\ Gives(S[p + 2], <<0, 0>>)
      /\ Is(S[p + 3], 69) /\ Gives(S[p + 4], CoordBytes(y) \o CoordBytes(y + n - 1))
      /\ Is(S[p + 5], 78) /\ Gives(S[p + 6], <<0>>)
      /\ Is(S[p + 7], 79) /\ Gives(S[p + 8], CoordBytes(y))
      /\ S[p + 9].op = "wait" /\ Is(S[p + 10], 36)
      /\ i = p + 13 => /\ S[p + 11].op = "rows" /\ S[p + 11].ram = "bw"
                       /\ S[p + 11].first = y /\ Len(S[p + 11].bytes) = n
                       /\ Is(S[p + 12], 38)
  BY <1>1 DEF Aimed
<1>3. p \in Int /\ (i = p + 11 \/ i = p + 13) /\ j >= p + 2 /\ i \in Int /\ j \in Int /\ j < i
  BY <1>1 DEF Start
<1> HIDE DEF p, y, n
<1>4. \/ j = p + 2 \/ j = p + 4 \/ j = p + 6 \/ j = p + 8
      \/ j = p + 3 \/ j = p + 5 \/ j = p + 7 \/ j = p + 9 \/ j = p + 10
      \/ i = p + 13 /\ (j = p + 11 \/ j = p + 12)
  BY ONLY <1>3
<1>5. /\ p + 2 - 1 = p + 1 /\ p + 4 - 1 = p + 3 /\ p + 6 - 1 = p + 5 /\ p + 8 - 1 = p + 7
  BY <1>3
<1>6. \A c : c \in {69, 78, 79, 36, 38} => c \notin {18, 32}
  OBVIOUS
<1>7. \/ S[j].op = "command" /\ S[j].code \notin {18, 32}
      \/ S[j].op = "wait"
      \/ j = p + 2 /\ Is(S[j - 1], 68) /\ Gives(S[j], <<0, 0>>)
      \/ j = p + 4 /\ Is(S[j - 1], 69) /\ Gives(S[j], CoordBytes(y) \o CoordBytes(y + n - 1))
      \/ j = p + 6 /\ Is(S[j - 1], 78) /\ Gives(S[j], <<0>>)
      \/ j = p + 8 /\ Is(S[j - 1], 79) /\ Gives(S[j], CoordBytes(y))
      \/ /\ j = p + 11 /\ i = p + 13 /\ S[j].op = "rows" /\ S[j].ram = "bw"
         /\ S[j].first = y /\ Len(S[j].bytes) = n
  <2>1. CASE j = p + 3 \/ j = p + 5 \/ j = p + 7 \/ j = p + 10 \/ (i = p + 13 /\ j = p + 12)
    <3>1. Is(S[j], 69) \/ Is(S[j], 78) \/ Is(S[j], 79) \/ Is(S[j], 36) \/ Is(S[j], 38)
      BY <1>2, <2>1, Zenon
    <3>2. S[j].op = "command" /\ S[j].code \notin {18, 32}
      BY <3>1 DEF Is
    <3> QED BY <3>2
  <2>2. CASE j = p + 9
    BY <1>2, <2>2
  <2>3. CASE j = p + 2
    <3>1. j - 1 = p + 1
      BY ONLY <1>3, <2>3
    <3>2. Is(S[j - 1], 68) /\ Gives(S[j], <<0, 0>>)
      BY <1>2, <2>3, <3>1, Zenon
    <3> QED BY <2>3, <3>2
  <2>4. CASE j = p + 4
    <3>1. j - 1 = p + 3
      BY ONLY <1>3, <2>4
    <3>2. Is(S[j - 1], 69) /\ Gives(S[j], CoordBytes(y) \o CoordBytes(y + n - 1))
      BY <1>2, <2>4, <3>1, Zenon
    <3> QED BY <2>4, <3>2
  <2>5. CASE j = p + 6
    <3>1. j - 1 = p + 5
      BY ONLY <1>3, <2>5
    <3>2. Is(S[j - 1], 78) /\ Gives(S[j], <<0>>)
      BY <1>2, <2>5, <3>1, Zenon
    <3> QED BY <2>5, <3>2
  <2>6. CASE j = p + 8
    <3>1. j - 1 = p + 7
      BY ONLY <1>3, <2>6
    <3>2. Is(S[j - 1], 79) /\ Gives(S[j], CoordBytes(y))
      BY <1>2, <2>6, <3>1, Zenon
    <3> QED BY <2>6, <3>2
  <2>7. CASE i = p + 13 /\ j = p + 11
    BY <1>2, <2>7
  <2> QED BY <1>4, <2>1, <2>2, <2>3, <2>4, <2>5, <2>6, <2>7
<1> QED BY <1>7 DEF p, y, n

(* Rows of a script lie on the panel. *)
LEMMA RowsFit ==
  ASSUME NEW S, WellFormed(S), NEW i \in 1 .. Len(S), S[i].op = "rows"
  PROVE  /\ Fit(S[i].first, S[i].bytes) /\ S[i].ram \in {"bw", "color"}
         /\ S[i].first \in Lines /\ S[i].first + Len(S[i].bytes) - 1 \in Lines
         /\ S[i - 1].op = "command" /\ S[i - 1].code \in {36, 38} /\ S[i].ram = RamOf(S[i - 1].code)
         /\ i > 1 /\ Start(S, i) >= 0 /\ i - 1 >= Start(S, i) + 8
<1>1. S[i] \in Steps /\ i > 1 /\ S[i - 1].op = "command" /\ Carries(S[i - 1].code, S[i]) /\ Aimed(S, i)
  BY DEF WellFormed
<1>2. S[i].first \in Lines /\ S[i].bytes \in Seq(Byte) /\ S[i].ram \in {"bw", "color"}
  BY <1>1 DEF Steps
<1>3. /\ S[i - 1].code \in {36, 38} /\ S[i].ram = RamOf(S[i - 1].code)
      /\ Len(S[i].bytes) > 0 /\ S[i].first + Len(S[i].bytes) <= Height
  BY <1>1 DEF Carries
<1>4. S[i].first + Len(S[i].bytes) - 1 \in Lines
  BY <1>2, <1>3, Sizes DEF Lines
<1>5. Start(S, i) >= 0 /\ i - 1 >= Start(S, i) + 8
  BY <1>1 DEF Aimed, Start
<1> QED BY <1>1, <1>2, <1>3, <1>4, <1>5 DEF Fit

(* A picture is aimed at its place when its rows are to be sent. *)
LEMMA ReadyToWrite ==
  ASSUME NEW S, WellFormed(S), NEW i \in 1 .. Len(S), S[i].op = "rows", NEW m, Ready(m, S, i, i - 1)
  PROVE  AimedAt(m, S[i].first, Len(S[i].bytes))
<1>1. Start(S, i) >= 0 /\ i - 1 >= Start(S, i) + 8 /\ Start(S, i) \in Int
  BY RowsFit DEF Start
<1> DEFINE p == Start(S, i)
<1>2. p \in Int /\ i - 1 >= p + 2 /\ i - 1 >= p + 4 /\ i - 1 >= p + 6 /\ i - 1 >= p + 8
  BY <1>1
<1> HIDE DEF p
<1>3. ReadyFrom(m, p, S[i].first, Len(S[i].bytes), i - 1)
  BY DEF Ready, p
<1> QED BY <1>2, <1>3 DEF ReadyFrom, AimedAt

(* Commands, waits, pulses: what they leave alone stays ready. *)
LEMMA ReadyKept ==
  ASSUME NEW S, WellFormed(S), NEW k \in 0 .. Len(S) - 1, NEW i \in k + 2 .. Len(S), S[i].op = "rows",
         NEW m, Ready(m, S, i, k), NEW n,
         S[k + 1].op \in {"command", "wait", "pulse"},
         S[k + 1].op = "wait" \/ (S[k + 1].op = "command" /\ S[k + 1].code \notin {18, 32}) => n = m
  PROVE  Ready(n, S, i, k + 1)
<1> DEFINE p == Start(S, i)
           y == S[i].first
           r == Len(S[i].bytes)
           j == k + 1
<1>1. Len(S) \in Nat /\ i \in 1 .. Len(S) /\ j \in 1 .. i - 1 /\ p \in Int /\ k \in Nat
  BY DEF WellFormed, Start
<1>2. ReadyFrom(m, p, y, r, k)
  BY DEF Ready
<1>3. j >= p + 2 => \/ S[j].op = "command" /\ S[j].code \notin {18, 32}
                    \/ S[j].op = "wait"
                    \/ j \in {p + 2, p + 4, p + 6, p + 8, p + 11} /\ S[j].op \in {"data", "rows"}
  BY <1>1, AimPlaces DEF Gives
<1>4. j >= p + 2 => n = m
  BY <1>3
<1>5. j # p + 2 /\ j # p + 4 /\ j # p + 6 /\ j # p + 8
  <2>1. Aimed(S, i)
    BY <1>1 DEF WellFormed
  <2>2. /\ S[p + 2].op = "data" /\ S[p + 4].op = "data" /\ S[p + 6].op = "data"
        /\ S[p + 8].op = "data"
    BY <2>1 DEF Aimed, Gives
  <2> QED BY <2>2
<1> HIDE DEF p, y, r
<1>6. ReadyFrom(n, p, y, r, j)
  <2>1. /\ j >= p + 2 => k >= p + 2
        /\ j >= p + 4 => k >= p + 4 /\ j >= p + 2
        /\ j >= p + 6 => k >= p + 6 /\ j >= p + 2
        /\ j >= p + 8 => k >= p + 8 /\ j >= p + 2
    BY ONLY <1>1, <1>5
  <2> HIDE DEF j
  <2> QED BY <1>2, <1>4, <2>1, Zenon DEF ReadyFrom
<1> QED BY <1>6 DEF Ready, p, y, r

(* A command of the driver aims a picture, or leaves it aimed. *)
LEMMA ReadyAfterData ==
  ASSUME NEW S, WellFormed(S), NEW k \in 1 .. Len(S) - 1, NEW i \in k + 2 .. Len(S), S[i].op = "rows",
         NEW m, Ready(m, S, i, k), NEW n, S[k + 1].op = "data",
         Registers(n, m, S[k].code, S[k + 1].bytes)
  PROVE  Ready(n, S, i, k + 1)
<1> DEFINE p == Start(S, i)
           y == S[i].first
           r == Len(S[i].bytes)
           j == k + 1
           c == S[k].code
           bytes == S[k + 1].bytes
<1>1. /\ Len(S) \in Nat /\ i \in 1 .. Len(S) /\ j \in 1 .. i - 1 /\ p \in Int /\ k \in Nat
      /\ j - 1 = k
  BY DEF WellFormed, Start
<1>2. ReadyFrom(m, p, y, r, k)
  BY DEF Ready
<1>3. y \in Lines /\ y + r - 1 \in Lines
  BY <1>1, RowsFit
<1>4. j >= p + 2 =>
        \/ j = p + 2 /\ c = 68
        \/ j = p + 4 /\ c = 69 /\ bytes = CoordBytes(y) \o CoordBytes(y + r - 1)
        \/ j = p + 6 /\ c = 78
        \/ j = p + 8 /\ c = 79 /\ bytes = CoordBytes(y)
  <2> SUFFICES ASSUME j >= p + 2
               PROVE  \/ j = p + 2 /\ c = 68
                      \/ j = p + 4 /\ c = 69 /\ bytes = CoordBytes(y) \o CoordBytes(y + r - 1)
                      \/ j = p + 6 /\ c = 78
                      \/ j = p + 8 /\ c = 79 /\ bytes = CoordBytes(y)
    OBVIOUS
  <2>1. \/ S[j].op = "command" /\ S[j].code \notin {18, 32}
        \/ S[j].op = "wait"
        \/ j = p + 2 /\ Is(S[j - 1], 68) /\ Gives(S[j], <<0, 0>>)
        \/ j = p + 4 /\ Is(S[j - 1], 69) /\ Gives(S[j], CoordBytes(y) \o CoordBytes(y + r - 1))
        \/ j = p + 6 /\ Is(S[j - 1], 78) /\ Gives(S[j], <<0>>)
        \/ j = p + 8 /\ Is(S[j - 1], 79) /\ Gives(S[j], CoordBytes(y))
        \/ /\ j = p + 11 /\ i = p + 13 /\ S[j].op = "rows" /\ S[j].ram = "bw"
           /\ S[j].first = y /\ Len(S[j].bytes) = r
    BY <1>1, AimPlaces
  <2>2. S[j - 1] = S[k]
    BY <1>1
  <2> HIDE DEF p, y, r
  <2> QED BY <2>1, <2>2 DEF Gives, Is
<1>5. Registers(n, m, c, bytes)
  OBVIOUS
<1> HIDE DEF p, y, r, c, bytes
<1>6. j >= p + 2 => n.x_min = 0 /\ n.x_max = 7
  BY <1>1, <1>2, <1>4, <1>5 DEF ReadyFrom, Registers
<1>7. j >= p + 4 => n.y_min = y /\ n.y_max = y + r - 1
  BY <1>1, <1>2, <1>3, <1>4, <1>5 DEF ReadyFrom, Registers
<1>8. j >= p + 6 => n.x_addr = 0
  BY <1>1, <1>2, <1>4, <1>5 DEF ReadyFrom, Registers
<1>9. j >= p + 8 => n.y_addr = y
  BY <1>1, <1>2, <1>3, <1>4, <1>5 DEF ReadyFrom, Registers
<1>10. ReadyFrom(n, p, y, r, j)
  BY <1>6, <1>7, <1>8, <1>9 DEF ReadyFrom
<1> QED BY <1>10 DEF Ready, p, y, r

(* The second picture of two finds the place of the first. *)
LEMMA ReadyAfterRows ==
  ASSUME NEW S, WellFormed(S), NEW k \in 1 .. Len(S) - 1, NEW i \in k + 2 .. Len(S), S[i].op = "rows",
         NEW n, S[k + 1].op = "rows", AimedAt(n, S[k + 1].first, Len(S[k + 1].bytes))
  PROVE  Ready(n, S, i, k + 1)
<1> DEFINE p == Start(S, i)
           y == S[i].first
           r == Len(S[i].bytes)
           j == k + 1
<1>1. /\ Len(S) \in Nat /\ i \in 1 .. Len(S) /\ j \in 1 .. i - 1 /\ p \in Int /\ k \in Nat
  BY DEF WellFormed, Start
<1>2. j >= p + 2 => S[j].first = y /\ Len(S[j].bytes) = r
  BY <1>1, AimPlaces DEF Gives
<1> HIDE DEF p, y, r
<1>3. ReadyFrom(n, p, y, r, j)
  <2>1. CASE j >= p + 2
    BY <1>2, <2>1 DEF ReadyFrom, AimedAt
  <2>2. CASE ~(j >= p + 2)
    BY <1>1, <2>2 DEF ReadyFrom
  <2> QED BY <2>1, <2>2
<1> QED BY <1>3 DEF Ready, p, y, r

-----------------------------------------------------------------------------
(* The display engine *)

(* The two views of the engine, with a host that waits and one that does   *)
(* not, are of the same engine.                                            *)
LEMMA SameForWaiting ==
  /\ PT!Panels = P!Panels /\ PT!Rams = Rams /\ P!Rams = Rams /\ P!ResetRam = ResetRam
  /\ \A p, r : PT!on_activation_step(p, r) = Device!Engine!on_activation_step(p, r)
  /\ \A p, r : PT!on_cmd_master_activation(p, r) = Device!Engine!on_cmd_master_activation(p, r)
  /\ \A v, r : PT!FinalImage(v, r) = FinalImage(v, r)
<1>1. ASSUME NEW p, NEW r
      PROVE  PT!on_activation_step(p, r) = Device!Engine!on_activation_step(p, r)
  BY Zenon DEF PT!on_activation_step, Device!Engine!on_activation_step, PT!SeqEnded, Device!Engine!SeqEnded,
    PT!EndActivation, Device!Engine!EndActivation, PT!RunStep, Device!Engine!RunStep,
    PT!CurrentStep, Device!Engine!CurrentStep, PT!ScanAfter, Device!Engine!ScanAfter,
    PT!ScanSteps, Device!Engine!ScanSteps, PT!WalkSteps, Device!Engine!WalkSteps,
    PT!LOW, PT!HIGH, Device!Engine!LOW, Device!Engine!HIGH,
    PT!Paint, Device!Engine!Paint, PT!PaintedLines, Device!Engine!PaintedLines,
    PT!Lines, Device!Engine!Lines, PT!StepPixel, Device!Engine!StepPixel,
    PT!BwPixel, Device!Engine!BwPixel, PT!ColorPixel, Device!Engine!ColorPixel,
    PT!FadePixel, Device!Engine!FadePixel, PT!FB_WHITE, PT!FB_BLACK, PT!FB_COLOR,
    Device!Engine!FB_WHITE, Device!Engine!FB_BLACK, Device!Engine!FB_COLOR
<1>2. \A p : PT!SelectedSeq(p) = Device!Engine!SelectedSeq(p)
  BY Zenon DEF PT!SelectedSeq, Device!Engine!SelectedSeq, PT!AM_IMMEDIATE_UPDATE,
       Device!Engine!AM_IMMEDIATE_UPDATE,
       PT!activation_modes, PT!v1_act_seq,
       PT!v1_act_seq_immediate, PT!v1_act_seq_blink, PT!v1_act_seq_scanline,
       PT!v2_act_seq, PT!v2_act_seq_immediate, PT!v2_act_seq_scanline,
       Device!Engine!activation_modes, Device!Engine!v1_act_seq,
       Device!Engine!v1_act_seq_immediate, Device!Engine!v1_act_seq_blink, Device!Engine!v1_act_seq_scanline,
       Device!Engine!v2_act_seq, Device!Engine!v2_act_seq_immediate, Device!Engine!v2_act_seq_scanline
<1>3. \A p, r : PT!on_cmd_master_activation(p, r) = Device!Engine!on_cmd_master_activation(p, r)
  BY <1>1, <1>2, Zenon DEF PT!on_cmd_master_activation, Device!Engine!on_cmd_master_activation
<1>4. PT!Panels = P!Panels
  <2>1. ASSUME NEW v, NEW m PROVE PT!activation_modes(v, m) = P!activation_modes(v, m)
    BY Zenon DEF PT!activation_modes, PT!v1_act_seq,
         PT!v1_act_seq_immediate, PT!v1_act_seq_blink, PT!v1_act_seq_scanline,
         PT!v2_act_seq, PT!v2_act_seq_immediate, PT!v2_act_seq_scanline,
         P!activation_modes, P!v1_act_seq,
         P!v1_act_seq_immediate, P!v1_act_seq_blink, P!v1_act_seq_scanline,
         P!v2_act_seq, P!v2_act_seq_immediate, P!v2_act_seq_scanline
  <2>2. PT!Versions = P!Versions /\ PT!ActModes = P!ActModes /\ PT!UpdSeqs = P!UpdSeqs
    BY DEF PT!Versions, P!Versions, PT!ActModes, P!ActModes, PT!UpdSeqs, P!UpdSeqs
  <2>3. PT!ActSequences = P!ActSequences
    BY <2>1, <2>2 DEF PT!ActSequences, P!ActSequences
  <2>4. PT!Lines = P!Lines /\ PT!Colours = P!Colours
    BY DEF PT!Lines, P!Lines, PT!Colours, P!Colours, PT!FB_BLACK, P!FB_BLACK, PT!FB_WHITE,
           P!FB_WHITE, PT!FB_COLOR, P!FB_COLOR, PT!FB_OTHER, P!FB_OTHER
  <2>5. PT!Images = P!Images /\ PT!HeapImages = P!HeapImages
    BY <2>4 DEF PT!Images, P!Images, PT!HeapImages, P!HeapImages
  <2>6. PT!LOW = P!LOW /\ PT!HIGH = P!HIGH
    BY DEF PT!LOW, P!LOW, PT!HIGH, P!HIGH
  <2> QED BY <2>2, <2>3, <2>4, <2>5, <2>6, Zenon DEF PT!Panels, P!Panels
<1>5. PT!Rams = Rams /\ P!Rams = Rams /\ P!ResetRam = ResetRam
  BY Zenon DEF PT!Rams, P!Rams, Rams, PT!Lines, P!Lines, Lines, P!ResetRam, ResetRam
<1>6. ASSUME NEW v, NEW r PROVE PT!FinalImage(v, r) = FinalImage(v, r)
  BY Zenon DEF PT!FinalImage, FinalImage, PT!Lines, Lines, PT!BwPixel, BwPixel, PT!ColorPixel,
       ColorPixel, PT!FB_BLACK, FB_BLACK, PT!FB_WHITE, FB_WHITE, PT!FB_COLOR, FB_COLOR
<1> QED BY <1>1, <1>3, <1>4, <1>5, <1>6

(* Whatever happens to the RAM. *)
LEMMA PanelSame ==
  ASSUME P!IndInv, panel' = panel
  PROVE  P!IndInv'
<1>1. Device!Picture(mem') \in Rams
  BY PictureFacts
<1>2. P!TypeOK'
  BY <1>1, SameForWaiting DEF P!IndInv, P!TypeOK
<1>3. P!PanelInv'
  BY DEF P!IndInv, P!PanelInv, P!SequenceFromTable, P!TimerFollowsSequence, P!BusyPastStart,
         P!ScanWithinStep, P!Refreshing, P!SeqEnded, P!CurrentStep
<1> QED BY <1>2, <1>3 DEF P!IndInv

(* A reset, by pin or by command. *)
LEMMA PanelReset ==
  ASSUME P!IndInv, panel' = Device!Engine!chip_reset(panel), mem' = Device!Ram!ResetMem
  PROVE  P!IndInv'
<1>1. Device!Picture(mem') = P!ResetRam
  BY PictureFacts, SameForWaiting
<1>2. P!Reset
  BY <1>1, SameEngine DEF P!Reset
<1> QED BY <1>2, PanelFacts, P!ResetInv

(* The commands with data that the engine has a handler for. *)
LEMMA PanelData ==
  ASSUME P!IndInv, Device!Picture(mem') = Device!Picture(mem), NEW c, NEW bytes, Proper(c, bytes),
         c = 16 => panel' = Device!Engine!on_cmd_deep_sleep(panel, bytes[1]),
         c = 34 => panel' = Device!Engine!on_cmd_disp_upd_ctl2(panel, bytes[1]),
         c \notin {16, 34} => panel' = panel
  PROVE  P!IndInv'
<1>1. CASE c = 16
  <2>1. bytes[1] \in P!SleepModes
    BY <1>1 DEF Proper
  <2>2. P!DeepSleep(bytes[1])
    BY <1>1, SameEngine DEF P!DeepSleep, P!HostMaySend
  <2> QED BY <2>1, <2>2, PanelFacts, P!HostCommandInv
<1>2. CASE c = 34
  <2>1. bytes[1] \in P!UpdSeqs
    BY <1>2 DEF Proper
  <2>2. P!DispUpdCtl2(bytes[1])
    BY <1>2, SameEngine DEF P!DispUpdCtl2, P!HostMaySend
  <2> QED BY <2>1, <2>2, PanelFacts, P!HostCommandInv
<1>3. CASE c \notin {16, 34}
  BY <1>3, PanelSame
<1> QED BY <1>1, <1>2, <1>3

(* Master activation, of any engine: what it starts is what a host that    *)
(* waits for BUSY counts on.                                               *)
LEMMA PanelActivated ==
  ASSUME P!IndInv, Device!Picture(mem') = Device!Picture(mem),
         panel' = Device!Engine!on_cmd_master_activation(panel, Device!Picture(mem))
  PROVE  P!IndInv' /\ PT!IndInv' /\ panel'.busy = HIGH /\ panel'.timer # "off"
<1> DEFINE r == Device!Picture(mem)
<1>1. panel \in P!Panels /\ panel \in PT!Panels /\ r \in P!Rams /\ r \in PT!Rams
  BY SameForWaiting DEF P!IndInv, P!TypeOK
<1>2. \E p \in P!Panels : P!StepOf(p)
  BY <1>1, SameActivation, PanelFacts, P!MasterActivationRuns
<1>3. P!IndInv'
  BY <1>1, <1>2, PanelFacts, P!RunStepInv
<1>4. PICK p \in PT!Panels : PT!StepOf(p)
  BY <1>1, SameForWaiting, PanelFacts, PT!MasterActivationRuns
<1>5. PT!IndInv'
  BY <1>1, <1>4, PanelFacts, PT!RunStepInv
<1>6. PT!Runnable(p) /\ panel' = PT!RunStep(p, r)
  BY <1>4 DEF PT!StepOf
<1>7. panel'.busy = HIGH /\ panel'.timer # "off"
  BY <1>1, <1>6, PanelFacts, PT!RunStepFields DEF PT!HIGH, HIGH
<1> QED BY <1>3, <1>5, <1>7

(* The activation timer. *)
LEMMA PanelTimer ==
  ASSUME P!IndInv, Device!ActivationTimer
  PROVE  P!IndInv' /\ panel.timer # "off"
<1>1. /\ panel.timer # "off"
      /\ panel' = Device!Engine!on_activation_step([panel EXCEPT !.timer = "off"], Device!Picture(mem))
      /\ mem' = mem
  BY DEF Device!ActivationTimer, Device!Engine!ActivationTimer
<1>2. Device!Picture(mem') = Device!Picture(mem)
  BY <1>1, PictureFacts
<1>3. P!ActivationTimer
  BY <1>1, <1>2, SameSteps DEF P!ActivationTimer
<1> QED BY <1>1, <1>3, PanelFacts, P!ActivationTimerInv

(* ... for a host that waits. *)
LEMMA ShowTimer ==
  ASSUME PT!IndInv, Device!ActivationTimer
  PROVE  /\ PT!IndInv'
         /\ IF panel'.timer = "off" THEN panel'.frame = FinalImage(panel'.version, Device!Picture(mem'))
                                    ELSE panel'.busy = HIGH
<1>1. /\ panel.timer # "off"
      /\ panel' = Device!Engine!on_activation_step([panel EXCEPT !.timer = "off"], Device!Picture(mem))
      /\ mem' = mem
  BY DEF Device!ActivationTimer, Device!Engine!ActivationTimer
<1>2. Device!Picture(mem') = Device!Picture(mem)
  BY <1>1, PictureFacts
<1>3. PT!ActivationTimer
  BY <1>1, <1>2, SameForWaiting DEF PT!ActivationTimer
<1>4. PT!IndInv'
  BY <1>3, PanelFacts, PT!ActivationTimerInv
<1>5. CASE PT!SeqEnded(panel)
  <2>1. /\ panel'.timer = "off" /\ panel'.frame = panel.frame /\ panel'.version = panel.version
    BY <1>3, <1>5, PanelFacts, PT!ActivationTimerEnds
  <2>2. panel.frame = PT!FinalImage(panel.version, Device!Picture(mem))
    BY <1>1, <1>5 DEF PT!IndInv, PT!PanelInv, PT!PaintedIsFinal, PT!Refreshing
  <2> QED BY <1>2, <1>4, <2>1, <2>2, SameForWaiting
<1>6. CASE ~PT!SeqEnded(panel)
  <2>1. PICK p \in PT!Panels : PT!StepOf(p)
    BY <1>3, <1>6, PanelFacts, PT!ActivationTimerRuns
  <2>2. Device!Picture(mem) \in PT!Rams
    BY DEF PT!IndInv, PT!TypeOK
  <2>3. PT!Runnable(p) /\ panel' = PT!RunStep(p, Device!Picture(mem))
    BY <2>1 DEF PT!StepOf
  <2>4. panel'.busy = HIGH /\ panel'.timer # "off"
    BY <2>2, <2>3, PanelFacts, PT!RunStepFields DEF PT!HIGH, HIGH
  <2> QED BY <1>4, <2>4
<1> QED BY <1>5, <1>6

(* ... and a step that leaves the engine and the RAM alone. *)
LEMMA ShowKept ==
  ASSUME PT!IndInv, panel' = panel, mem' = mem
  PROVE  PT!IndInv'
<1>1. Device!Picture(mem') = Device!Picture(mem)
  BY PictureFacts
<1> QED BY <1>1, PanelFacts, PT!StepInv DEF PT!vars

-----------------------------------------------------------------------------
(* Steps of the driver *)

(* The chip's parts, and what is read off them. *)
LEMMA ChipParts ==
  /\ Device!Chip = ChipOf(spi, mem, panel)
  /\ Settled = SettledOf(spi, mem) /\ Settled' = SettledOf(spi', mem')
  /\ NoneCutShort = NotShort(spi.calls) /\ NoneCutShort' = NotShort(spi'.calls)
<1>1. Device!Chip = ChipOf(spi, mem, panel)
  BY DEF Device!Chip, ChipOf
<1>2. Settled = SettledOf(spi, mem) /\ Settled' = SettledOf(spi', mem')
  BY DEF Settled, PendingWrite, SettledOf
<1>3. NoneCutShort = NotShort(spi.calls) /\ NoneCutShort' = NotShort(spi'.calls)
  BY DEF NoneCutShort, NotShort
<1> QED BY <1>1, <1>2, <1>3

(* Where a step is in its script, and what it leaves of it. *)
LEMMA Advance ==
  ASSUME NEW S \in Scripts, NEW k \in 0 .. Len(S), epd.todo = SubSeq(S, k + 1, Len(S)),
         epd.todo # <<>>, DOMAIN epd = {"call", "todo"}, Done
  PROVE  /\ WellFormed(S) /\ k < Len(S) /\ k + 1 \in 1 .. Len(S) /\ Now = S[k + 1]
         /\ S[k + 1] \in Steps
         /\ DOMAIN epd' = {"call", "todo"} /\ epd'.call = epd.call
         /\ epd'.todo = SubSeq(S, (k + 1) + 1, Len(S)) /\ ~Interrupted'
<1>1. WellFormed(S) /\ S \in Seq(Steps)
  BY AllWellFormed DEF WellFormed
<1>2. k # Len(S) /\ Now = S[k + 1] /\ Tail(epd.todo) = SubSeq(S, (k + 1) + 1, Len(S))
  BY <1>1, Suffix DEF Now
<1>3. k < Len(S) /\ k + 1 \in 1 .. Len(S) /\ S[k + 1] \in Steps
  BY <1>1, <1>2
<1>4. /\ DOMAIN epd' = {"call", "todo"} /\ epd'.call = epd.call
      /\ epd'.todo = SubSeq(S, (k + 1) + 1, Len(S))
  BY <1>2 DEF Done
<1>5. ASSUME Interrupted' PROVE FALSE
  <2>1. epd'.todo # <<>> /\ Head(epd'.todo).op = "pulse"
    BY <1>5 DEF Interrupted, Step
  <2>2. k + 1 \in 0 .. Len(S)
    BY <1>3
  <2>3. k + 1 # Len(S) /\ S[(k + 1) + 1].op = "pulse"
    BY <1>1, <1>4, <2>1, <2>2, Suffix
  <2>4. k + 2 \in 1 .. Len(S) /\ S[k + 2].op = "pulse" /\ k + 2 # 1
    BY <1>3, <2>3
  <2> QED BY <1>1, <2>4 DEF WellFormed
<1> QED BY <1>1, <1>2, <1>3, <1>4, <1>5

(* The steps of the calls that show the picture. *)
LEMMA ShowScript ==
  ASSUME NEW S \in {DisplayFrame, DisplayFrame_Partial}
  PROVE  /\ Len(S) = 4 /\ S[1].op = "command" /\ S[1].code = 34
         /\ S[2].op = "data" /\ S[3].op = "command" /\ S[3].code = 32 /\ S[4].op = "wait"
<1>1. PICK sequence \in {199, 15} : S = Activate(sequence)
  BY DEF DisplayFrame, DisplayFrame_Partial
<1>2. ActivateSteps(S, sequence)
  BY <1>1, ActivateIsSteps
<1> QED BY <1>2 DEF ActivateSteps, Is, Gives

(* A step that neither starts a refresh nor waits for one is not among the *)
(* last two of a call that shows the picture.                              *)
LEMMA ShownEarly ==
  ASSUME NEW S, NEW k \in 0 .. Len(S) - 1, Shown(S, k), epd'.call = epd.call,
         S[k + 1].op \notin {"command", "wait"} \/ (S[k + 1].op = "command" /\ S[k + 1].code # 32)
  PROVE  Shown(S, k + 1)'
<1> SUFFICES ASSUME epd.call = "Show"
             PROVE  S \in {DisplayFrame, DisplayFrame_Partial} /\ k + 1 < 3
  BY DEF Shown
<1>1. S \in {DisplayFrame, DisplayFrame_Partial}
  BY DEF Shown
<1>2. /\ Len(S) = 4 /\ S[3].op = "command" /\ S[3].code = 32 /\ S[4].op = "wait"
  BY <1>1, ShowScript
<1>3. k + 1 # 3 /\ k + 1 # 4 /\ k + 1 <= 4 /\ k + 1 \in Nat
  BY <1>2
<1> QED BY <1>1, <1>3

(* The invariant after a step of a call. *)
LEMMA LiveThen ==
  ASSUME NEW S \in Scripts, NEW j \in 0 .. Len(S),
         epd'.todo = SubSeq(S, j + 1, Len(S)), DOMAIN epd' = {"call", "todo"}, ~Interrupted',
         epd'.call = "Init" => S = InitScript,
         cs' \in {LOW, HIGH},
         cs' = LOW => /\ S = InitScript /\ j \in {1, 2} /\ spi'.data_ndx = 0
                      /\ mem' = Device!Ram!ResetMem,
         Received(S, j)', Drawing(S, j)', Shown(S, j)',
         IsReceiver(spi'), NotShort(spi'.calls), P!IndInv'
  PROVE  Inv'
<1>1. Live(S, j)'
  BY DEF Live
<1>2. NoneCutShort'
  BY ChipParts
<1>3. \E T \in Scripts' : \E i \in (0 .. Len(T))' : Live(T, i)'
  BY <1>1
<1> QED BY <1>2, <1>3 DEF Inv, IsReceiver

(* Nothing of a picture is aimed at the start of a script. *)
LEMMA ReadyAtStart ==
  ASSUME NEW S, WellFormed(S), NEW j \in 0 .. 1, NEW i \in 1 .. Len(S), S[i].op = "rows", NEW m
  PROVE  Ready(m, S, i, j)
<1> DEFINE p == Start(S, i)
<1>1. p >= 0 /\ p \in Int
  BY RowsFit DEF Start
<1> HIDE DEF p
<1>2. ~(j >= p + 2) /\ ~(j >= p + 4) /\ ~(j >= p + 6) /\ ~(j >= p + 8)
  BY <1>1
<1> QED BY <1>2 DEF Ready, ReadyFrom, p

(* The RAM of a chip that has just been reset. *)
LEMMA ResetOnPanel == R!OnPanel(Device!Ram!ResetMem)
BY SameMemory, RamFacts, R!InitOnPanel

(* The pulse on RST that begins a script. *)
LEMMA PulseThen ==
  ASSUME IsReceiver(spi), P!IndInv, cs \in {LOW, HIGH}, DOMAIN epd = {"call", "todo"},
         NEW S \in Scripts, epd.todo = SubSeq(S, 0 + 1, Len(S)),
         epd.call = "Init" => S = InitScript, cs = LOW => S = InitScript,
         Shown(S, 0), PulseReset
  PROVE  Inv'
<1>1. /\ WellFormed(S) /\ 0 < Len(S) /\ Now = S[1]
      /\ DOMAIN epd' = {"call", "todo"} /\ epd'.call = epd.call
      /\ epd'.todo = SubSeq(S, 1 + 1, Len(S)) /\ ~Interrupted' /\ 1 \in 0 .. Len(S)
  <2>1. 0 \in 0 .. Len(S) /\ epd.todo # <<>> /\ Done /\ 0 + 1 = 1
    BY AllWellFormed DEF PulseReset, Step, WellFormed
  <2>2. /\ WellFormed(S) /\ 0 < Len(S) /\ 0 + 1 \in 1 .. Len(S) /\ Now = S[0 + 1]
        /\ DOMAIN epd' = {"call", "todo"} /\ epd'.call = epd.call
        /\ epd'.todo = SubSeq(S, (0 + 1) + 1, Len(S)) /\ ~Interrupted'
    BY <2>1, Advance
  <2>3. 1 \in 0 .. Len(S)
    BY <2>2
  <2> QED BY <2>1, <2>2, <2>3
<1>2. S[1].op = "pulse"
  BY <1>1 DEF PulseReset, Step, Now
<1>3. /\ spi' = [spi EXCEPT !.calls = <<>>, !.cmd = 0, !.data_ndx = 0]
      /\ mem' = Device!Ram!ResetMem /\ panel' = Device!Engine!chip_reset(panel)
      /\ cs' = cs /\ drawn' = ResetRam
  BY DEF PulseReset, Device!ResetPulse, Device!Becomes, Device!chip_reset, Device!Chip,
         Device!Rx!chip_reset
<1>4. IsReceiver(spi') /\ spi'.calls = <<>> /\ spi'.data_ndx = 0
  BY <1>3 DEF IsReceiver
<1>5. P!IndInv'
  BY <1>3, PanelReset
<1>6. Settled' = Device!Ram!ResetMem
  BY <1>3, <1>4, ChipParts DEF SettledOf
<1>7. Drawing(S, 1)'
  <2>1. Device!Picture(Settled') = drawn'
    BY <1>3, <1>6, PictureFacts
  <2>2. ASSUME NEW i \in 1 + 1 .. Len(S), S[i].op = "rows" PROVE Ready(Settled', S, i, 1)
    BY <1>1, <2>2, ReadyAtStart
  <2> QED BY <1>6, <2>1, <2>2, ResetOnPanel DEF Drawing
<1>8. Received(S, 1)'
  BY <1>2, <1>4, Sizes DEF Received
<1>9. Shown(S, 1)'
  <2>1. 0 \in 0 .. Len(S) - 1 /\ 0 + 1 = 1
    BY <1>1, AllWellFormed DEF WellFormed
  <2>2. Shown(S, 0 + 1)'
    BY <1>1, <1>2, <2>1, ShownEarly
  <2> QED BY <2>1, <2>2
<1>10. NotShort(spi'.calls)
  BY <1>4, CallsNotShort
<1>11. cs' = LOW => S = InitScript /\ 1 \in {1, 2} /\ spi'.data_ndx = 0 /\ mem' = Device!Ram!ResetMem
  BY <1>3, <1>4
<1>12. cs' \in {LOW, HIGH} /\ (epd'.call = "Init" => S = InitScript)
  BY <1>1, <1>3
<1> QED BY <1>1, <1>4, <1>5, <1>7, <1>8, <1>9, <1>10, <1>11, <1>12, LiveThen

(* The chip and the driver in the k-th step of a call. *)
In(S, k) ==
  /\ IsReceiver(spi) /\ NotShort(spi.calls) /\ P!IndInv /\ DOMAIN epd = {"call", "todo"}
  /\ S \in Scripts /\ k \in 0 .. Len(S) /\ Live(S, k)

(* What the next step of a script is about. *)
Goes(S, k) ==
  /\ WellFormed(S) /\ k + 1 \in 1 .. Len(S) /\ k \in 0 .. Len(S) - 1 /\ k + 1 \in 0 .. Len(S)
  /\ Now = S[k + 1] /\ S[k + 1] \in Steps
  /\ DOMAIN epd' = {"call", "todo"} /\ epd'.call = epd.call
  /\ epd'.todo = SubSeq(S, (k + 1) + 1, Len(S)) /\ ~Interrupted'
  /\ epd'.call = "Init" => S = InitScript

(* It is at the next step of its script. *)
LEMMA GoesOn ==
  ASSUME NEW S, NEW k, In(S, k), epd.todo # <<>>, Done
  PROVE  Goes(S, k)
<1>1. /\ S \in Scripts /\ k \in 0 .. Len(S) /\ epd.todo = SubSeq(S, k + 1, Len(S))
      /\ DOMAIN epd = {"call", "todo"} /\ (epd.call = "Init" => S = InitScript)
  BY DEF In, Live
<1>2. /\ WellFormed(S) /\ k < Len(S) /\ k + 1 \in 1 .. Len(S) /\ Now = S[k + 1]
      /\ S[k + 1] \in Steps
      /\ DOMAIN epd' = {"call", "todo"} /\ epd'.call = epd.call
      /\ epd'.todo = SubSeq(S, (k + 1) + 1, Len(S)) /\ ~Interrupted'
  BY <1>1, Advance
<1>3. k \in 0 .. Len(S) - 1 /\ k + 1 \in 0 .. Len(S)
  BY <1>1, <1>2
<1> QED BY <1>1, <1>2, <1>3 DEF Goes

(* The command byte of a command with data, a reset or an activation. *)
LEMMA CommandThen ==
  ASSUME NEW S, NEW k, In(S, k), Goes(S, k), SendCommand, cs = HIGH \/ spi.armed
  PROVE  Inv'
<1> DEFINE b == S[k + 1].code
           n == Settled
<1>1. S[k + 1].op = "command" /\ b \in Sent
  BY DEF SendCommand, Step, Now, Goes, Steps, Sent
<1>2. /\ WellFormed(S) /\ Received(S, k) /\ Drawing(S, k) /\ Shown(S, k) /\ k \in 0 .. Len(S) - 1
      /\ k + 1 \in 1 .. Len(S) /\ k + 1 \in 0 .. Len(S) /\ S \in Scripts /\ P!IndInv
      /\ epd'.call = epd.call
  BY DEF Goes, In, Live
<1>3. Waits(spi)
  BY DEF In, Live, Received, Waits
<1>4. /\ IsReceiver(spi') /\ spi'.data_ndx = 0 /\ (b \notin {18, 32} => spi'.cmd = b)
      /\ spi'.calls = CallsAt(spi, b)
      /\ mem' = OwnMem(b, n) /\ panel' = OwnPanel(b, n, panel) /\ cs' = HIGH
      /\ drawn' = IF b = 18 THEN ResetRam ELSE drawn
  <2>1. Now.code = b /\ Device!Chip = ChipOf(spi, mem, panel) /\ n = SettledOf(spi, mem)
    BY ChipParts DEF Goes
  <2>2. cs = HIGH \/ spi.armed
    OBVIOUS
  <2> DEFINE c == Clocked(ChipOf(spi, mem, panel), LOW, b, cs)
  <2>3. Becomes(c) /\ cs' = HIGH /\ drawn' = IF b = 18 THEN ResetRam ELSE drawn
    BY <2>1 DEF SendCommand
  <2> HIDE DEF b, n
  <2>4. /\ IsReceiver(c.spi) /\ c.spi.data_ndx = 0 /\ (b \notin {18, 32} => c.spi.cmd = b)
        /\ c.spi.calls = CallsAt(spi, b)
        /\ c.mem = OwnMem(b, n) /\ c.panel = OwnPanel(b, n, panel)
    BY <1>1, <1>3, <2>1, <2>2, CommandEffect
  <2> HIDE DEF c
  <2> QED BY <2>3, <2>4 DEF Becomes
<1> HIDE DEF b, n
<1>5. NotShort(spi'.calls)
  BY <1>1, <1>3, <1>4, CallsNotShort
<1>6. Settled' = mem'
  BY <1>4, ChipParts DEF SettledOf
<1>7. R!OnPanel(n) /\ Device!Picture(n) = drawn
  BY <1>2 DEF Drawing, n
<1>8. Drawing(S, k + 1)'
  <2>1. CASE b = 18
    <3>1. mem' = Device!Ram!ResetMem /\ drawn' = ResetRam
      BY <1>4, <2>1 DEF OwnMem
    <3>2. R!OnPanel(mem') /\ Device!Picture(mem') = drawn'
      BY <3>1, PictureFacts, ResetOnPanel
    <3>3. ASSUME NEW i \in (k + 1) + 1 .. Len(S), S[i].op = "rows" PROVE Ready(mem', S, i, k + 1)
      <4>1. i \in k + 2 .. Len(S) /\ Ready(n, S, i, k)
        BY <1>2, <3>3 DEF Drawing, n
      <4> QED BY <1>1, <1>2, <2>1, <3>3, <4>1, ReadyKept DEF b
    <3> QED BY <1>6, <3>2, <3>3 DEF Drawing
  <2>2. CASE b # 18
    <3>1. mem' = n /\ drawn' = drawn
      BY <1>4, <2>2 DEF OwnMem
    <3>2. ASSUME NEW i \in (k + 1) + 1 .. Len(S), S[i].op = "rows" PROVE Ready(n, S, i, k + 1)
      <4>1. i \in k + 2 .. Len(S) /\ Ready(n, S, i, k)
        BY <1>2, <3>2 DEF Drawing, n
      <4> QED BY <1>1, <1>2, <3>2, <4>1, ReadyKept
    <3> QED BY <1>6, <1>7, <3>1, <3>2 DEF Drawing
  <2> QED BY <2>1, <2>2
<1>9. b = 32 => spi.data_ndx = 0 /\ n = mem
  <2>1. ASSUME b = 32 PROVE spi.data_ndx = 0
    <3>1. Is(S[k + 1], 32)
      BY <1>1, <2>1 DEF Is, b
    <3>2. k + 1 > 1 /\ S[(k + 1) - 1].op = "data"
      BY <1>2, <3>1 DEF WellFormed
    <3>3. k > 0 /\ S[k].op = "data"
      BY <1>2, <3>2
    <3> QED BY <1>2, <3>3 DEF Received
  <2> QED BY <2>1, ChipParts DEF SettledOf, n
<1>10. /\ P!IndInv'
       /\ b = 32 => PT!IndInv' /\ panel'.busy = HIGH /\ panel'.timer # "off"
  <2>1. CASE b = 18
    BY <1>2, <1>4, <2>1, PanelReset DEF OwnMem, OwnPanel
  <2>2. CASE b = 32
    <3>1. mem' = mem /\ panel' = Device!Engine!on_cmd_master_activation(panel, Device!Picture(mem))
      BY <1>4, <1>9, <2>2 DEF OwnMem, OwnPanel
    <3>2. Device!Picture(mem') = Device!Picture(mem)
      BY <3>1, PictureFacts
    <3> QED BY <1>2, <3>1, <3>2, PanelActivated
  <2>3. CASE b \notin {18, 32}
    <3>1. panel' = panel
      BY <1>4, <2>3 DEF OwnPanel
    <3> QED BY <1>2, <2>3, <3>1, PanelSame
  <2> QED BY <2>1, <2>2, <2>3
<1>11. Received(S, k + 1)'
  BY <1>1, <1>4, Sizes DEF Received, b
<1>12. Shown(S, k + 1)'
  <2>1. CASE b # 32
    BY <1>1, <1>2, <2>1, ShownEarly DEF b
  <2>2. CASE b = 32
    <3>1. ASSUME epd.call = "Show" PROVE S \in {DisplayFrame, DisplayFrame_Partial} /\ k + 1 # 4
      <4>1. S \in {DisplayFrame, DisplayFrame_Partial}
        BY <1>2, <3>1 DEF Shown
      <4> QED BY <1>1, <4>1, ShowScript
    <3> QED BY <1>2, <1>4, <1>10, <2>2, <3>1 DEF Shown
  <2> QED BY <2>1, <2>2
<1>13. epd'.todo = SubSeq(S, (k + 1) + 1, Len(S)) /\ DOMAIN epd' = {"call", "todo"}
       /\ ~Interrupted' /\ (epd'.call = "Init" => S = InitScript)
  BY DEF Goes
<1>14. cs' \in {LOW, HIGH} /\ cs' # LOW
  BY <1>4 DEF LOW, HIGH
<1> QED BY <1>2, <1>4, <1>5, <1>8, <1>10, <1>11, <1>12, <1>13, <1>14, LiveThen

(* The reset command, lost on a chip whose transfer is not armed: CS was   *)
(* low already, from before a restart and the pulse that followed.         *)
LEMMA LostThen ==
  ASSUME NEW S, NEW k, In(S, k), Goes(S, k), SendCommand, cs # HIGH, ~spi.armed
  PROVE  Inv'
<1>1. /\ WellFormed(S) /\ Received(S, k) /\ Drawing(S, k) /\ Shown(S, k) /\ k \in 0 .. Len(S) - 1
      /\ k + 1 \in 1 .. Len(S) /\ k + 1 \in 0 .. Len(S) /\ S \in Scripts /\ P!IndInv
      /\ epd'.call = epd.call
  BY DEF Goes, In, Live
<1>2. /\ S = InitScript /\ k \in {1, 2} /\ spi.data_ndx = 0 /\ mem = Device!Ram!ResetMem /\ cs = LOW
  BY DEF In, Live
<1>3. S[k + 1].op = "command" /\ Now = S[k + 1]
  BY DEF SendCommand, Step, Now, Goes
<1>4. k = 2 /\ S[k + 1].code = 18 /\ S[3].op = "command" /\ S[3].code = 18
  <2>1. S[2].op = "wait" /\ Is(S[3], 18)
    BY <1>2, InitOpens DEF Opens
  <2>2. k # 1
    BY <1>3, <2>1
  <2> QED BY <1>2, <2>1, <2>2 DEF Is
<1>5. /\ IsReceiver(spi') /\ spi'.data_ndx = 0 /\ spi'.calls = <<>>
      /\ mem' = mem /\ panel' = panel /\ cs' = HIGH /\ drawn' = ResetRam
  <2>1. Now.code = 18 /\ Device!Chip = ChipOf(spi, mem, panel)
    BY <1>3, <1>4, ChipParts
  <2>2. Waits(spi)
    BY DEF In, Live, Received, Waits
  <2> DEFINE c == Clocked(ChipOf(spi, mem, panel), LOW, 18, LOW)
  <2>3. Becomes(c) /\ cs' = HIGH /\ drawn' = ResetRam
    BY <1>2, <2>1 DEF SendCommand
  <2>4. IsReceiver(c.spi) /\ c.spi.data_ndx = 0 /\ c.spi.calls = <<>> /\ c.mem = mem /\ c.panel = panel
    BY <1>2, <2>2, CommandLost
  <2> HIDE DEF c
  <2> QED BY <2>3, <2>4 DEF Becomes
<1>6. NotShort(spi'.calls)
  BY <1>5, CallsNotShort
<1>7. Settled' = Device!Ram!ResetMem
  BY <1>2, <1>5, ChipParts DEF SettledOf
<1>8. Drawing(S, k + 1)'
  <2>1. R!OnPanel(Settled') /\ Device!Picture(Settled') = drawn'
    BY <1>5, <1>7, PictureFacts, ResetOnPanel
  <2>2. ASSUME NEW i \in (k + 1) + 1 .. Len(S), S[i].op = "rows" PROVE Ready(Settled', S, i, k + 1)
    <3>1. i \in k + 2 .. Len(S) /\ Ready(Settled, S, i, k)
      BY <1>1, <2>2 DEF Drawing
    <3> QED BY <1>1, <1>3, <1>4, <2>2, <3>1, ReadyKept
  <2> QED BY <2>1, <2>2 DEF Drawing
<1>9. P!IndInv'
  BY <1>1, <1>5, PanelSame
<1>10. Received(S, k + 1)'
  BY <1>3, <1>4, <1>5, Sizes DEF Received
<1>11. Shown(S, k + 1)'
  BY <1>1, <1>3, <1>4, ShownEarly
<1>12. epd'.todo = SubSeq(S, (k + 1) + 1, Len(S)) /\ DOMAIN epd' = {"call", "todo"}
       /\ ~Interrupted' /\ (epd'.call = "Init" => S = InitScript)
  BY DEF Goes
<1>13. cs' \in {LOW, HIGH} /\ cs' # LOW
  BY <1>5 DEF LOW, HIGH
<1> QED BY <1>1, <1>5, <1>6, <1>8, <1>9, <1>10, <1>11, <1>12, <1>13, LiveThen

(* A chip that has had the command byte of the next step's data. *)
LEMMA DataNext ==
  ASSUME NEW S, NEW k, In(S, k), WellFormed(S), k + 1 \in 1 .. Len(S),
         S[k + 1].op \in {"data", "rows"}
  PROVE  /\ k \in 1 .. Len(S) - 1 /\ S[k].op = "command" /\ Carries(S[k].code, S[k + 1])
         /\ S[k].code \in Sent \ {18, 32}
         /\ spi.cmd = S[k].code /\ spi.data_ndx = 0 /\ Settled = mem
         /\ S[k + 1].bytes \in Seq(Byte)
<1>1. k + 1 > 1 /\ S[(k + 1) - 1].op = "command" /\ Carries(S[(k + 1) - 1].code, S[k + 1])
  BY DEF WellFormed
<1>2. k \in 0 .. Len(S) /\ Received(S, k) /\ S \in Seq(Steps)
  BY DEF In, Live, WellFormed
<1>3. (k + 1) - 1 = k /\ k \in 1 .. Len(S) - 1 /\ k > 0
  BY <1>1, <1>2
<1>4. S[k].op = "command" /\ Carries(S[k].code, S[k + 1])
  BY <1>1, <1>3
<1>5. S[k].code \in Sent \ {18, 32}
  <2> DEFINE c == S[k].code
  <2>1. c \in WithData \/ c = 36 \/ c = 38
    BY <1>4 DEF Carries, Proper
  <2> HIDE DEF c
  <2>2. c \in Sent
    BY <2>1 DEF Sent
  <2>3. c # 18 /\ c # 32
    BY <2>1 DEF WithData
  <2> QED BY <2>2, <2>3 DEF c
<1>6. spi.cmd = S[k].code /\ spi.data_ndx = 0
  BY <1>2, <1>3, <1>4, <1>5 DEF Received
<1>7. Settled = mem
  BY <1>6, ChipParts DEF SettledOf
<1>8. S[k + 1].bytes \in Seq(Byte)
  <2>1. S[k + 1] \in Steps
    BY <1>2
  <2> QED BY <2>1 DEF Steps
<1> QED BY <1>3, <1>4, <1>5, <1>6, <1>7, <1>8

(* The data of a command. *)
LEMMA DataThen ==
  ASSUME NEW S, NEW k, In(S, k), Goes(S, k), SendData
  PROVE  Inv'
<1> DEFINE bytes == S[k + 1].bytes
<1>1. /\ WellFormed(S) /\ Received(S, k) /\ Drawing(S, k) /\ Shown(S, k) /\ k \in 0 .. Len(S) - 1
      /\ k + 1 \in 1 .. Len(S) /\ k + 1 \in 0 .. Len(S) /\ S \in Scripts /\ P!IndInv
      /\ epd'.call = epd.call /\ IsReceiver(spi)
  BY DEF Goes, In, Live
<1>2. S[k + 1].op = "data" /\ Now = S[k + 1]
  BY DEF SendData, Step, Now, Goes
<1>3. /\ k \in 1 .. Len(S) - 1 /\ S[k].op = "command"
      /\ spi.cmd = S[k].code /\ spi.data_ndx = 0 /\ Settled = mem
      /\ bytes \in Seq(Byte) /\ Proper(spi.cmd, bytes)
  <2>1. S[k + 1].op \in {"data", "rows"}
    BY <1>2
  <2>2. /\ k \in 1 .. Len(S) - 1 /\ S[k].op = "command" /\ Carries(S[k].code, S[k + 1])
        /\ spi.cmd = S[k].code /\ spi.data_ndx = 0 /\ Settled = mem /\ bytes \in Seq(Byte)
    BY <1>1, <2>1, DataNext
  <2> QED BY <1>2, <2>2 DEF Carries
<1>4. R!OnPanel(mem) /\ Device!Picture(mem) = drawn
  BY <1>1, <1>3 DEF Drawing
<1>5. /\ IsReceiver(spi') /\ spi'.data_ndx = 0 /\ NotShort(spi'.calls)
      /\ R!OnPanel(mem') /\ Registers(mem', mem, spi.cmd, bytes)
      /\ spi.cmd = 16 => panel' = Device!Engine!on_cmd_deep_sleep(panel, bytes[1])
      /\ spi.cmd = 34 => panel' = Device!Engine!on_cmd_disp_upd_ctl2(panel, bytes[1])
      /\ spi.cmd \notin {16, 34} => panel' = panel
      /\ cs' = HIGH /\ drawn' = drawn
  <2> DEFINE e == DataClocked(ChipOf(spi, mem, panel), bytes)
  <2>1. Now.bytes = bytes /\ Device!Chip = ChipOf(spi, mem, panel)
    BY <1>2, ChipParts
  <2>2. Becomes(e) /\ cs' = HIGH /\ drawn' = drawn
    BY <2>1 DEF SendData
  <2> HIDE DEF bytes
  <2>3. /\ IsReceiver(e.spi) /\ e.spi.data_ndx = 0 /\ NotShort(e.spi.calls)
        /\ R!OnPanel(e.mem) /\ Registers(e.mem, mem, spi.cmd, bytes)
        /\ spi.cmd = 16 => e.panel = Device!Engine!on_cmd_deep_sleep(panel, bytes[1])
        /\ spi.cmd = 34 => e.panel = Device!Engine!on_cmd_disp_upd_ctl2(panel, bytes[1])
        /\ spi.cmd \notin {16, 34} => e.panel = panel
    BY <1>1, <1>3, <1>4, DataRuns
  <2> HIDE DEF e
  <2> QED BY <2>2, <2>3 DEF Becomes
<1> HIDE DEF bytes
<1>6. Settled' = mem' /\ Device!Picture(mem') = Device!Picture(mem)
  <2>1. Settled' = mem'
    BY <1>5, ChipParts DEF SettledOf
  <2>2. mem'.bw = mem.bw /\ mem'.color = mem.color
    BY <1>5 DEF Registers
  <2> QED BY <2>1, <2>2, PictureFacts
<1>7. Drawing(S, k + 1)'
  <2>1. ASSUME NEW i \in (k + 1) + 1 .. Len(S), S[i].op = "rows" PROVE Ready(mem', S, i, k + 1)
    <3>1. i \in k + 2 .. Len(S) /\ Ready(mem, S, i, k)
      BY <1>1, <1>3, <2>1 DEF Drawing
    <3>2. Registers(mem', mem, S[k].code, S[k + 1].bytes)
      BY <1>3, <1>5 DEF bytes
    <3> QED BY <1>1, <1>2, <1>3, <2>1, <3>1, <3>2, ReadyAfterData
  <2> QED BY <1>4, <1>5, <1>6, <2>1 DEF Drawing
<1>8. P!IndInv'
  BY <1>1, <1>3, <1>5, <1>6, PanelData
<1>9. Received(S, k + 1)'
  BY <1>2, <1>5, Sizes DEF Received
<1>10. Shown(S, k + 1)'
  BY <1>1, <1>2, ShownEarly
<1>11. epd'.todo = SubSeq(S, (k + 1) + 1, Len(S)) /\ DOMAIN epd' = {"call", "todo"}
       /\ ~Interrupted' /\ (epd'.call = "Init" => S = InitScript)
  BY DEF Goes
<1>12. cs' \in {LOW, HIGH} /\ cs' # LOW
  BY <1>5 DEF LOW, HIGH
<1> QED BY <1>1, <1>5, <1>7, <1>8, <1>9, <1>10, <1>11, <1>12, LiveThen

(* The rows of a picture. *)
LEMMA PictureThen ==
  ASSUME NEW S, NEW k, In(S, k), Goes(S, k), SendPicture
  PROVE  Inv'
<1> DEFINE ram == S[k + 1].ram
           y == S[k + 1].first
           bytes == S[k + 1].bytes
<1>1. /\ WellFormed(S) /\ Received(S, k) /\ Drawing(S, k) /\ Shown(S, k) /\ k \in 0 .. Len(S) - 1
      /\ k + 1 \in 1 .. Len(S) /\ k + 1 \in 0 .. Len(S) /\ S \in Scripts /\ P!IndInv
      /\ epd'.call = epd.call /\ IsReceiver(spi)
  BY DEF Goes, In, Live
<1>2. S[k + 1].op = "rows" /\ Now = S[k + 1]
  BY DEF SendPicture, Step, Now, Goes
<1>3. /\ k \in 1 .. Len(S) - 1 /\ S[k].op = "command"
      /\ spi.cmd = S[k].code /\ spi.data_ndx = 0 /\ Settled = mem
      /\ bytes \in Seq(Byte)
  <2>1. S[k + 1].op \in {"data", "rows"}
    BY <1>2
  <2> QED BY <1>1, <2>1, DataNext
<1>4. /\ Fit(y, bytes) /\ ram \in {"bw", "color"} /\ spi.cmd \in {36, 38} /\ ram = RamOf(spi.cmd)
  <2>1. /\ Fit(S[k + 1].first, S[k + 1].bytes) /\ S[k + 1].ram \in {"bw", "color"}
        /\ S[(k + 1) - 1].code \in {36, 38} /\ S[k + 1].ram = RamOf(S[(k + 1) - 1].code)
    BY <1>1, <1>2, RowsFit
  <2>2. (k + 1) - 1 = k
    BY <1>3
  <2> QED BY <1>3, <2>1, <2>2
<1>5. R!OnPanel(mem) /\ Device!Picture(mem) = drawn /\ AimedAt(mem, y, Len(bytes))
  <2>1. R!OnPanel(mem) /\ Device!Picture(mem) = drawn
    BY <1>1, <1>3 DEF Drawing
  <2>2. Ready(mem, S, k + 1, k) /\ (k + 1) - 1 = k
    BY <1>1, <1>2, <1>3 DEF Drawing
  <2>3. Ready(mem, S, k + 1, (k + 1) - 1)
    BY <2>2
  <2> QED BY <1>1, <1>2, <2>1, <2>3, ReadyToWrite
<1>6. Len(bytes) > 0 /\ Len(bytes) < MAX_DATA_TXFER
  <2>1. y \in Nat /\ Len(bytes) \in Nat /\ Len(bytes) > 0 /\ y + Len(bytes) <= Height
    BY <1>3, <1>4 DEF Fit, Lines
  <2> QED BY <2>1, Sizes
<1> DEFINE n == Device!Ram!on_cmd_write_ram(mem, ram, bytes)
<1>7. /\ IsReceiver(spi') /\ spi'.data_ndx = Len(bytes) /\ spi'.cmd = spi.cmd /\ spi'.calls = <<>>
      /\ mem' = mem /\ panel' = panel /\ cs' = HIGH
      /\ drawn' = [drawn EXCEPT ![ram] = Overlay(@, y, bytes)]
      /\ Settled' = n
  <2> DEFINE e == DataClocked(ChipOf(spi, mem, panel), bytes)
  <2>1. Now.bytes = bytes /\ Now.ram = ram /\ Now.first = y /\ Device!Chip = ChipOf(spi, mem, panel)
    BY <1>2, ChipParts
  <2>2. Becomes(e) /\ cs' = HIGH /\ drawn' = [drawn EXCEPT ![ram] = Overlay(@, y, bytes)]
    BY <2>1 DEF SendPicture
  <2> HIDE DEF bytes, ram, y
  <2>3. /\ IsReceiver(e.spi) /\ e.spi.data_ndx = Len(bytes) /\ e.spi.cmd = spi.cmd
        /\ e.spi.calls = <<>> /\ e.mem = mem /\ e.panel = panel
        /\ SettledOf(e.spi, mem) = Device!Ram!on_cmd_write_ram(mem, RamOf(spi.cmd), bytes)
    BY <1>1, <1>3, <1>4, <1>6, RowsPend
  <2> HIDE DEF e
  <2>4. Settled' = SettledOf(spi', mem')
    BY ChipParts
  <2> QED BY <1>4, <2>2, <2>3, <2>4 DEF Becomes
<1>8. R!OnPanel(n) /\ AimedAt(n, y, Len(bytes)) /\ RowsIn(n, mem, ram, y, bytes)
  <2> HIDE DEF bytes, ram, y
  <2> QED BY <1>4, <1>5, RowsWritten
<1> HIDE DEF n
<1>9. Device!Picture(n) = drawn'
  <2> HIDE DEF bytes, ram, y
  <2>1. Device!Picture(n) = [Device!Picture(mem) EXCEPT ![ram] = Overlay(@, y, bytes)]
    BY <1>4, <1>8, PictureOfRows
  <2> QED BY <1>5, <1>7, <2>1
<1>10. Drawing(S, k + 1)'
  <2>1. ASSUME NEW i \in (k + 1) + 1 .. Len(S), S[i].op = "rows" PROVE Ready(n, S, i, k + 1)
    <3>1. i \in k + 2 .. Len(S)
      BY <1>1, <2>1
    <3> QED BY <1>1, <1>2, <1>3, <1>8, <2>1, <3>1, ReadyAfterRows
  <2> QED BY <1>7, <1>8, <1>9, <2>1 DEF Drawing
<1>11. P!IndInv'
  BY <1>1, <1>7, PanelSame
<1>12. Received(S, k + 1)'
  <2>1. Len(bytes) \in 0 .. MAX_DATA_TXFER - 1
    BY <1>3, <1>6, Sizes
  <2> HIDE DEF bytes
  <2> QED BY <1>2, <1>4, <1>7, <2>1 DEF Received
<1>13. Shown(S, k + 1)'
  BY <1>1, <1>2, ShownEarly
<1>14. epd'.todo = SubSeq(S, (k + 1) + 1, Len(S)) /\ DOMAIN epd' = {"call", "todo"}
       /\ ~Interrupted' /\ (epd'.call = "Init" => S = InitScript)
  BY DEF Goes
<1>15. cs' \in {LOW, HIGH} /\ cs' # LOW
  BY <1>7 DEF LOW, HIGH
<1>16. NotShort(spi'.calls)
  BY <1>7, CallsNotShort
<1> QED BY <1>1, <1>7, <1>10, <1>11, <1>12, <1>13, <1>14, <1>15, <1>16, LiveThen

(* The end of a wait for BUSY. *)
LEMMA WaitThen ==
  ASSUME NEW S, NEW k, In(S, k), Goes(S, k), ReadIdle
  PROVE  Inv'
<1>1. /\ WellFormed(S) /\ Received(S, k) /\ Drawing(S, k) /\ Shown(S, k) /\ k \in 0 .. Len(S) - 1
      /\ k + 1 \in 1 .. Len(S) /\ k + 1 \in 0 .. Len(S) /\ S \in Scripts /\ P!IndInv
      /\ epd'.call = epd.call /\ IsReceiver(spi) /\ NotShort(spi.calls)
  BY DEF Goes, In, Live
<1>2. S[k + 1].op = "wait" /\ panel.busy = LOW
  BY DEF ReadIdle, Step, Now, Goes
<1>3. spi' = spi /\ cs' = cs /\ mem' = mem /\ panel' = panel /\ drawn' = drawn
  BY DEF ReadIdle, chipVars
<1>4. Settled' = Settled
  BY <1>3, ChipParts
<1>5. Drawing(S, k + 1)'
  <2>1. ASSUME NEW i \in (k + 1) + 1 .. Len(S), S[i].op = "rows" PROVE Ready(Settled, S, i, k + 1)
    <3>1. i \in k + 2 .. Len(S) /\ Ready(Settled, S, i, k)
      BY <1>1, <2>1 DEF Drawing
    <3> QED BY <1>1, <1>2, <2>1, <3>1, ReadyKept
  <2> QED BY <1>1, <1>3, <1>4, <2>1 DEF Drawing
<1>6. P!IndInv'
  BY <1>1, <1>3, PanelSame
<1>7. Received(S, k + 1)'
  BY <1>1, <1>2, <1>3 DEF Received
<1>8. Shown(S, k + 1)'
  <2> SUFFICES ASSUME epd.call = "Show" PROVE Shown(S, k + 1)'
    BY <1>1 DEF Shown
  <2>1. S \in {DisplayFrame, DisplayFrame_Partial}
    BY <1>1 DEF Shown
  <2>2. k = 3
    <3>1. /\ Len(S) = 4 /\ S[1].op = "command" /\ S[2].op = "data" /\ S[3].op = "command"
      BY <2>1, ShowScript
    <3>2. k + 1 # 1 /\ k + 1 # 2 /\ k + 1 # 3 /\ k \in 0 .. 3
      BY <1>1, <1>2, <3>1
    <3> QED BY <3>2
  <2>3. /\ spi.data_ndx = 0 /\ PT!IndInv
        /\ IF panel.timer = "off" THEN panel.frame = FinalImage(panel.version, Device!Picture(mem))
                                  ELSE panel.busy = HIGH
    BY <1>1, <2>2 DEF Shown
  <2>4. panel.timer = "off"
    BY <1>2, <2>3 DEF LOW, HIGH
  <2>5. PT!IndInv'
    BY <1>3, <2>3, ShowKept
  <2>6. Device!Picture(mem') = Device!Picture(mem)
    BY <1>3, PictureFacts
  <2> QED BY <1>3, <2>1, <2>3, <2>4, <2>5, <2>6 DEF Shown
<1>9. epd'.todo = SubSeq(S, (k + 1) + 1, Len(S)) /\ DOMAIN epd' = {"call", "todo"}
       /\ ~Interrupted' /\ (epd'.call = "Init" => S = InitScript)
  BY DEF Goes
<1>10. cs' \in {LOW, HIGH}
  BY <1>3 DEF In, Live
<1>11. cs' = LOW => /\ S = InitScript /\ k + 1 \in {1, 2} /\ spi'.data_ndx = 0
                    /\ mem' = Device!Ram!ResetMem
  <2> SUFFICES ASSUME cs = LOW PROVE S = InitScript /\ k = 1 /\ spi.data_ndx = 0 /\ mem = Device!Ram!ResetMem
    BY <1>3
  <2>1. S = InitScript /\ k \in {1, 2} /\ spi.data_ndx = 0 /\ mem = Device!Ram!ResetMem
    BY DEF In, Live
  <2>2. Is(S[3], 18)
    BY <2>1, InitOpens DEF Opens
  <2>3. k # 2
    BY <1>2, <2>2 DEF Is
  <2> QED BY <2>1, <2>3
<1> QED BY <1>1, <1>3, <1>5, <1>6, <1>7, <1>8, <1>9, <1>10, <1>11, LiveThen

(* A call begins. *)
LEMMA CallThen ==
  ASSUME NEW S, NEW k, In(S, k), NEW name, NEW T, Call(name, T),
         \/ name = "Init" /\ T = InitScript
         \/ name \in {"Draw", "Sleep"} /\ T \in Scripts
         \/ name = "Show" /\ T \in {DisplayFrame, DisplayFrame_Partial}
  PROVE  Inv'
<1>1. /\ epd.todo = <<>> /\ epd' = [call |-> name, todo |-> T]
      /\ spi' = spi /\ cs' = cs /\ mem' = mem /\ panel' = panel /\ drawn' = drawn
  BY DEF Call, chipVars, In
<1>2. /\ S \in Scripts /\ WellFormed(S) /\ k \in 0 .. Len(S) /\ epd.todo = SubSeq(S, k + 1, Len(S))
      /\ Received(S, k) /\ Drawing(S, k) /\ P!IndInv /\ IsReceiver(spi) /\ NotShort(spi.calls)
      /\ cs \in {LOW, HIGH}
  BY AllWellFormed DEF In, Live
<1>3. P!IndInv'
  BY <1>1, <1>2, PanelSame
<1>4. /\ IsReceiver(spi') /\ NoneCutShort' /\ DOMAIN epd' = {"call", "todo"} /\ cs' \in {LOW, HIGH}
  BY <1>1, <1>2, ChipParts
<1>5. CASE name = "Init" /\ T = InitScript
  <2>1. epd'.call = "Init" /\ epd'.todo = InitScript
    BY <1>1, <1>5
  <2>2. Interrupted'
    <3>1. InitScript \in Seq(Steps) /\ Len(InitScript) > 2 /\ InitScript[1].op = "pulse"
      BY InitOpens DEF Opens, WellFormed
    <3>2. InitScript # <<>> /\ Head(InitScript) = InitScript[1]
      BY <3>1
    <3> QED BY <2>1, <3>1, <3>2 DEF Interrupted, Step
  <2> QED BY <1>3, <1>4, <2>1, <2>2 DEF Inv, IsReceiver
<1>6. CASE name # "Init"
  <2>1. T \in Scripts /\ name \in {"Draw", "Sleep", "Show"}
        /\ (name = "Show" => T \in {DisplayFrame, DisplayFrame_Partial})
    BY <1>6 DEF Scripts
  <2>2. WellFormed(T) /\ T \in Seq(Steps) /\ Len(T) \in Nat /\ 0 \in 0 .. Len(T)
    BY <2>1, AllWellFormed DEF WellFormed
  <2>3. epd'.call = name /\ epd'.todo = SubSeq(T, 0 + 1, Len(T)) /\ ~Interrupted'
    <3>1. SubSeq(T, 1, Len(T)) = T
      BY <2>2
    <3> QED BY <1>1, <1>6, <3>1 DEF Interrupted
  <2>4. cs = HIGH
    <3>1. ASSUME cs = LOW PROVE FALSE
      <4>1. S = InitScript /\ k \in {1, 2}
        BY <3>1 DEF In, Live
      <4>2. Len(S) > 2
        BY <4>1, InitOpens DEF Opens
      <4>3. S \in Seq(Steps) /\ k = Len(S)
        BY <1>1, <1>2, Suffix DEF WellFormed
      <4>4. k > 2
        BY ONLY <4>2, <4>3
      <4>5. k = 1 \/ k = 2
        BY <4>1
      <4> QED BY ONLY <4>4, <4>5
    <3> QED BY <1>2, <3>1
  <2>5. Received(T, 0)'
    BY <1>1, <1>2 DEF Received
  <2>6. Drawing(T, 0)'
    <3>1. Settled' = Settled
      BY <1>1, ChipParts
    <3>2. R!OnPanel(Settled) /\ Device!Picture(Settled) = drawn
      BY <1>2 DEF Drawing
    <3>3. ASSUME NEW i \in 0 + 1 .. Len(T), T[i].op = "rows" PROVE Ready(Settled, T, i, 0)
      BY <2>2, <3>3, ReadyAtStart
    <3> QED BY <1>1, <3>1, <3>2, <3>3 DEF Drawing
  <2>7. Shown(T, 0)'
    BY <2>1, <2>3 DEF Shown
  <2>8. cs' # LOW /\ (epd'.call = "Init" => T = InitScript)
    BY <1>1, <1>6, <2>3, <2>4 DEF LOW, HIGH
  <2>9. NotShort(spi'.calls)
    BY <1>1, <1>2
  <2> QED BY <1>3, <1>4, <2>1, <2>2, <2>3, <2>5, <2>6, <2>7, <2>8, <2>9, LiveThen
<1> QED BY <1>5, <1>6

(* All calls of the driver. *)
LEMMA AnyCallThen ==
  ASSUME NEW S, NEW k, In(S, k), AnyCall
  PROVE  Inv'
<1>1. \E name, T : /\ Call(name, T)
                   /\ \/ name = "Init" /\ T = InitScript
                      \/ name \in {"Draw", "Sleep"} /\ T \in Scripts
                      \/ name = "Show" /\ T \in {DisplayFrame, DisplayFrame_Partial}
  <2>1. CASE Call("Init", InitScript)
    BY <2>1
  <2>2. CASE \E image \in Pictures, y \in Lines :
               \/ Call("Draw", SetFrameMemory(y, image))
               \/ Call("Draw", SetFrameMemory_Partial(y, image))
    <3>1. PICK image \in Pictures, y \in Lines :
            \/ Call("Draw", SetFrameMemory(y, image))
            \/ Call("Draw", SetFrameMemory_Partial(y, image))
      BY <2>2
    <3>2. SetFrameMemory(y, image) \in Scripts /\ SetFrameMemory_Partial(y, image) \in Scripts
      BY DEF Scripts
    <3> QED BY <3>1, <3>2
  <2>3. CASE \E image \in Pictures : Len(image) = Height /\ Call("Draw", SetFrameMemory_Base(image))
    <3>1. PICK image \in Pictures : Len(image) = Height /\ Call("Draw", SetFrameMemory_Base(image))
      BY <2>3, Zenon
    <3>2. image \in FullPictures
      BY <3>1, Zenon DEF FullPictures
    <3>3. SetFrameMemory_Base(image) \in Scripts
      <4>1. SetFrameMemory_Base(image) \in {SetFrameMemory_Base(p) : p \in FullPictures}
        BY <3>2
      <4> QED BY <4>1 DEF Scripts
    <3> QED BY <3>1, <3>3
  <2>4. CASE \E color \in Shades : Call("Draw", ClearFrameMemory(color))
    <3>1. PICK color \in Shades : Call("Draw", ClearFrameMemory(color))
      BY <2>4
    <3>2. ClearFrameMemory(color) \in Scripts
      BY DEF Scripts
    <3> QED BY <3>1, <3>2
  <2>5. CASE Call("Show", DisplayFrame) \/ Call("Show", DisplayFrame_Partial)
    BY <2>5
  <2>6. CASE Call("Sleep", Sleep)
    <3>1. Sleep \in Scripts
      BY DEF Scripts
    <3> QED BY <2>6, <3>1
  <2> QED BY <2>1, <2>2, <2>3, <2>4, <2>5, <2>6, Zenon DEF AnyCall
<1> QED BY <1>1, CallThen

(* The activation timer, in a call. *)
LEMMA TimerThen ==
  ASSUME NEW S, NEW k, In(S, k), ~Interrupted, ActivationTimer
  PROVE  Inv'
<1>1. /\ Device!ActivationTimer /\ spi' = spi /\ cs' = cs /\ mem' = mem
      /\ epd' = epd /\ drawn' = drawn
  BY DEF ActivationTimer, Device!ActivationTimer
<1>2. /\ S \in Scripts /\ k \in 0 .. Len(S) /\ Live(S, k) /\ P!IndInv /\ IsReceiver(spi)
      /\ NotShort(spi.calls) /\ DOMAIN epd = {"call", "todo"}
  BY DEF In
<1>3. P!IndInv' /\ panel.timer # "off"
  BY <1>1, <1>2, PanelTimer
<1>4. Settled' = Settled
  BY <1>1, ChipParts
<1>5. Received(S, k)' /\ Drawing(S, k)'
  BY <1>1, <1>2, <1>4 DEF Live, Received, Drawing
<1>6. Shown(S, k)'
  <2> SUFFICES ASSUME epd.call = "Show" PROVE Shown(S, k)'
    BY <1>1 DEF Shown
  <2>1. S \in {DisplayFrame, DisplayFrame_Partial} /\ k # 4
    BY <1>2, <1>3 DEF Live, Shown
  <2>2. CASE k >= 3
    <3>1. spi.data_ndx = 0 /\ PT!IndInv
      BY <1>2, <2>2 DEF Live, Shown
    <3>2. /\ PT!IndInv'
          /\ IF panel'.timer = "off" THEN panel'.frame = FinalImage(panel'.version, Device!Picture(mem'))
                                     ELSE panel'.busy = HIGH
      BY <1>1, <3>1, ShowTimer
    <3> QED BY <1>1, <2>1, <3>1, <3>2 DEF Shown
  <2>3. CASE ~(k >= 3)
    BY <1>1, <2>1, <2>3 DEF Shown
  <2> QED BY <2>2, <2>3
<1>7. ~Interrupted' /\ epd'.todo = SubSeq(S, k + 1, Len(S)) /\ (epd'.call = "Init" => S = InitScript)
  BY <1>1, <1>2 DEF Interrupted, Step, Live
<1>8. /\ cs' \in {LOW, HIGH}
      /\ cs' = LOW => S = InitScript /\ k \in {1, 2} /\ spi'.data_ndx = 0 /\ mem' = Device!Ram!ResetMem
  BY <1>1, <1>2 DEF Live
<1>9. IsReceiver(spi') /\ NotShort(spi'.calls) /\ DOMAIN epd' = {"call", "todo"}
  BY <1>1, <1>2
<1> QED BY <1>2, <1>3, <1>5, <1>6, <1>7, <1>8, <1>9, LiveThen


-----------------------------------------------------------------------------
(* Restarts *)

(* What is left of a chip when the microcontroller restarts. *)
Left(e) ==
  /\ e = ChipOf(e.spi, e.mem, e.panel) /\ IsReceiver(e.spi) /\ NotShort(e.spi.calls)
  /\ \/ e.panel = panel
     \/ \E c, bytes : /\ Proper(c, bytes) /\ Device!Picture(e.mem) = Device!Picture(mem)
                      /\ c = 16 => e.panel = Device!Engine!on_cmd_deep_sleep(panel, bytes[1])
                      /\ c = 34 => e.panel = Device!Engine!on_cmd_disp_upd_ctl2(panel, bytes[1])
                      /\ c \notin {16, 34} => e.panel = panel

(* A step cut off after j bytes. *)
LEMMA CutOff ==
  ASSUME NEW S, NEW k, In(S, k), WellFormed(S), k + 1 \in 1 .. Len(S),
         S[k + 1].op \in {"data", "rows"}, NEW j \in 0 .. Len(S[k + 1].bytes)
  PROVE  Left(DataClocked(ChipOf(spi, mem, panel), SubSeq(S[k + 1].bytes, 1, j)))
<1> DEFINE bytes == S[k + 1].bytes
           sent == SubSeq(bytes, 1, j)
           e == DataClocked(ChipOf(spi, mem, panel), sent)
<1>1. /\ k \in 1 .. Len(S) - 1 /\ Carries(S[k].code, S[k + 1]) /\ spi.cmd \in Sent \ {18, 32}
      /\ spi.cmd = S[k].code /\ spi.data_ndx = 0 /\ Settled = mem /\ bytes \in Seq(Byte)
  BY DataNext
<1>2. IsReceiver(spi) /\ NotShort(spi.calls) /\ R!OnPanel(mem)
  BY <1>1 DEF In, Live, Drawing
<1>3. CASE j = 0
  <2>1. sent = <<>>
    BY <1>1, <1>3, SubSeqEmpty
  <2> HIDE DEF sent
  <2>2. e = ChipOf(spi, mem, panel)
    BY <2>1, NothingSent
  <2> HIDE DEF e
  <2> QED BY <1>2, <2>2 DEF Left, ChipOf, e, sent
<1>4. CASE j > 0
  <2>1. /\ sent \in Seq(Byte) /\ Len(sent) = j /\ j <= Len(bytes) /\ j \in Nat
        /\ j = Len(bytes) => sent = bytes
    BY <1>1
  <2>2. \/ Proper(spi.cmd, bytes)
        \/ /\ Device!Rx!InTable(spi.cmd) = 255 /\ Len(bytes) < MAX_DATA_TXFER
    <3>1. CASE S[k + 1].op = "data"
      BY <1>1, <3>1 DEF Carries
    <3>2. CASE S[k + 1].op = "rows"
      <4>1. Fit(S[k + 1].first, bytes)
        BY <3>2, RowsFit
      <4>2. S[k + 1].first \in Nat /\ S[k + 1].first + Len(bytes) <= Height /\ Len(bytes) \in Nat
        BY <1>1, <4>1 DEF Fit, Lines
      <4>3. Len(bytes) < MAX_DATA_TXFER
        BY <4>2, Sizes
      <4>4. spi.cmd = 36 \/ spi.cmd = 38
        BY <1>1, <3>2 DEF Carries
      <4>5. Device!Rx!InTable(spi.cmd) = 255
        BY <4>4, TableLengths
      <4> QED BY <4>3, <4>5
    <3> QED BY <3>1, <3>2
  <2>3. j < MAX_DATA_TXFER /\ (Device!Rx!InTable(spi.cmd) = 255 \/ j <= Device!Rx!InTable(spi.cmd))
    <3>1. CASE Proper(spi.cmd, bytes)
      <4>1. Len(bytes) = Device!Rx!InTable(spi.cmd) /\ Len(bytes) < MAX_DATA_TXFER
        BY <3>1, ProperLengths
      <4> HIDE DEF bytes, sent
      <4> QED BY <2>1, <4>1, Sizes
    <3>2. CASE Device!Rx!InTable(spi.cmd) = 255 /\ Len(bytes) < MAX_DATA_TXFER
      <4> HIDE DEF bytes, sent
      <4> QED BY <2>1, <3>2, Sizes
    <3> QED BY <2>2, <3>1, <3>2
  <2> HIDE DEF sent
  <2>4. /\ e = ChipOf(e.spi, e.mem, e.panel) /\ IsReceiver(e.spi)
        /\ IF Device!Rx!InTable(spi.cmd) = 255 \/ j < Device!Rx!InTable(spi.cmd)
           THEN Pending(e, spi, mem, panel, j) ELSE Ran(e, spi, mem, panel, j)
    BY <1>1, <1>2, <1>4, <2>1, <2>3, DataEffect
  <2> HIDE DEF e, bytes
  <2>5. CASE Device!Rx!InTable(spi.cmd) = 255 \/ j < Device!Rx!InTable(spi.cmd)
    <3>1. e.panel = panel /\ e.spi.calls = <<>>
      BY <2>4, <2>5 DEF Pending
    <3> QED BY <2>4, <3>1, CallsNotShort DEF Left, e, sent, bytes
  <2>6. CASE ~(Device!Rx!InTable(spi.cmd) = 255 \/ j < Device!Rx!InTable(spi.cmd))
    <3>1. Proper(spi.cmd, bytes)
      BY <2>2, <2>6
    <3>2. j = Len(bytes)
      <4>1. Len(bytes) = Device!Rx!InTable(spi.cmd) /\ Len(bytes) \in Nat
        BY <1>1, <3>1, ProperLengths
      <4> QED BY <2>1, <2>6, <4>1
    <3>3. e = DataClocked(ChipOf(spi, mem, panel), bytes)
      BY <2>1, <3>2 DEF e
    <3>4. /\ NotShort(e.spi.calls) /\ Registers(e.mem, mem, spi.cmd, bytes)
          /\ spi.cmd = 16 => e.panel = Device!Engine!on_cmd_deep_sleep(panel, bytes[1])
          /\ spi.cmd = 34 => e.panel = Device!Engine!on_cmd_disp_upd_ctl2(panel, bytes[1])
          /\ spi.cmd \notin {16, 34} => e.panel = panel
      BY <1>1, <1>2, <3>1, <3>3, DataRuns
    <3>5. Device!Picture(e.mem) = Device!Picture(mem)
      <4>1. e.mem.bw = mem.bw /\ e.mem.color = mem.color
        BY <3>4 DEF Registers
      <4> QED BY <4>1, PictureFacts
    <3>6. Left(e)
      BY <2>4, <3>1, <3>4, <3>5 DEF Left
    <3> QED BY <3>6 DEF e, sent, bytes
  <2> QED BY <2>5, <2>6
<1> QED BY <1>3, <1>4

(* The chip that a restart leaves is one Init can start from. *)
LEMMA RestartThen ==
  ASSUME IsReceiver(spi), P!IndInv, DOMAIN epd = {"call", "todo"}, Restart,
         \A sent \in SentBefore : Left(DataClocked(ChipOf(spi, mem, panel), sent))
  PROVE  Inv'
<1>1. PICK sent \in SentBefore, level \in {LOW, HIGH}, opened \in BOOLEAN :
        LET c == DataClocked(Device!Chip, sent)
        IN  /\ opened => level = LOW
            /\ Becomes(IF opened THEN [c EXCEPT !.spi = Select(@, HIGH)] ELSE c)
            /\ cs' = level
  BY Zenon DEF Restart
<1> DEFINE c == DataClocked(ChipOf(spi, mem, panel), sent)
<1>2. Left(c) /\ Device!Chip = ChipOf(spi, mem, panel)
  BY ChipParts
<1>3. Becomes(IF opened THEN [c EXCEPT !.spi = Select(@, HIGH)] ELSE c) /\ cs' = level
  BY <1>1, <1>2
<1> HIDE DEF c
<1>4. IsReceiver(spi') /\ spi'.calls = c.spi.calls /\ mem' = c.mem /\ panel' = c.panel
  <2>1. CASE ~opened
    BY <1>2, <1>3, <2>1 DEF Becomes, Left
  <2>2. CASE opened
    <3> DEFINE s == c.spi
    <3>1. IsReceiver(s) /\ c = ChipOf(s, c.mem, c.panel)
      BY <1>2 DEF Left
    <3> HIDE DEF s
    <3>2. Select(s, HIGH) = [s EXCEPT !.armed = TRUE]
      BY DEF Select, Device!Rx!on_cs_pin_change, Device!Rx!start_spi_transfer, Device!Rx!LOW, LOW
    <3>3. [c EXCEPT !.spi = Select(@, HIGH)] = ChipOf(Select(s, HIGH), c.mem, c.panel)
      BY <3>1 DEF ChipOf
    <3>4. spi' = Select(s, HIGH) /\ mem' = c.mem /\ panel' = c.panel
      BY <1>3, <2>2, <3>3 DEF Becomes, ChipOf
    <3>5. IsReceiver(Select(s, HIGH)) /\ Select(s, HIGH).calls = s.calls
      BY <3>1, <3>2 DEF IsReceiver
    <3> QED BY <3>4, <3>5 DEF s
  <2> QED BY <2>1, <2>2
<1>5. NoneCutShort'
  BY <1>2, <1>4, ChipParts DEF Left
<1>6. P!IndInv'
  <2>1. CASE c.panel = panel
    BY <1>4, <2>1, PanelSame
  <2>2. CASE c.panel # panel
    <3>1. PICK b, bytes : /\ Proper(b, bytes) /\ Device!Picture(c.mem) = Device!Picture(mem)
                          /\ b = 16 => c.panel = Device!Engine!on_cmd_deep_sleep(panel, bytes[1])
                          /\ b = 34 => c.panel = Device!Engine!on_cmd_disp_upd_ctl2(panel, bytes[1])
                          /\ b \notin {16, 34} => c.panel = panel
      BY <1>2, <2>2 DEF Left
    <3> QED BY <1>4, <3>1, PanelData
  <2> QED BY <2>1, <2>2
<1>7. epd' = [call |-> "Init", todo |-> InitScript] /\ cs' \in {LOW, HIGH}
  BY <1>3 DEF Restart
<1>8. Interrupted'
  <2>1. InitScript \in Seq(Steps) /\ Len(InitScript) > 2 /\ InitScript[1].op = "pulse"
    BY InitOpens DEF Opens, WellFormed
  <2>2. InitScript # <<>> /\ Head(InitScript) = InitScript[1]
    BY <2>1
  <2> QED BY <1>7, <2>1, <2>2 DEF Interrupted, Step
<1> QED BY <1>4, <1>5, <1>6, <1>7, <1>8 DEF Inv, IsReceiver

(* Nothing sent of a step that is not data. *)
LEMMA NothingLeft ==
  ASSUME IsReceiver(spi), NotShort(spi.calls), ~Step("data"), ~Step("rows"),
         NEW sent \in SentBefore
  PROVE  Left(DataClocked(ChipOf(spi, mem, panel), sent))
<1>1. sent = <<>>
  BY DEF SentBefore
<1>2. DataClocked(ChipOf(spi, mem, panel), sent) = ChipOf(spi, mem, panel)
  BY <1>1, NothingSent
<1>3. Left(ChipOf(spi, mem, panel))
  BY DEF Left, ChipOf
<1> QED BY <1>2, <1>3

(* A restart at any step of a call. *)
LEMMA LeftInCall ==
  ASSUME NEW S, NEW k, In(S, k), NEW sent \in SentBefore
  PROVE  Left(DataClocked(ChipOf(spi, mem, panel), sent))
<1>1. CASE ~Step("data") /\ ~Step("rows")
  BY <1>1, NothingLeft DEF In
<1>2. CASE Step("data") \/ Step("rows")
  <2>1. epd.todo # <<>> /\ Now.op \in {"data", "rows"}
    BY <1>2 DEF Step, Now
  <2>2. /\ S \in Scripts /\ k \in 0 .. Len(S) /\ epd.todo = SubSeq(S, k + 1, Len(S))
        /\ WellFormed(S) /\ S \in Seq(Steps)
    BY AllWellFormed DEF In, Live, WellFormed
  <2>3. k + 1 \in 1 .. Len(S) /\ Now = S[k + 1]
    <3>1. k # Len(S) /\ Head(epd.todo) = S[k + 1]
      BY <2>1, <2>2, Suffix
    <3> QED BY <2>2, <3>1 DEF Now
  <2>4. S[k + 1].op \in {"data", "rows"}
    BY <2>1, <2>3
  <2> DEFINE bytes == S[k + 1].bytes
  <2>5. bytes \in Seq(Byte) /\ Carries(S[k].code, S[k + 1]) /\ Len(bytes) > 0
    <3>1. bytes \in Seq(Byte) /\ Carries(S[k].code, S[k + 1])
      BY <2>2, <2>3, <2>4, DataNext
    <3>2. ASSUME Proper(S[k].code, bytes) PROVE Len(bytes) > 0
      BY <3>2, ProperLengths
    <3> QED BY <3>1, <3>2 DEF Carries
  <2>6. PICK j \in {0, 1, Len(bytes) - 1} : sent = SubSeq(bytes, 1, j)
    BY <1>2, <2>3 DEF SentBefore
  <2>7. j \in 0 .. Len(bytes)
    BY <2>5
  <2> QED BY <2>2, <2>3, <2>4, <2>6, <2>7, CutOff
<1> QED BY <1>1, <1>2

-----------------------------------------------------------------------------
(* The invariant *)

(* The chip as chip_init leaves it, and the driver about to call Init. *)
LEMMA InitInv == Init => Inv
<1> SUFFICES ASSUME Init PROVE Inv
  OBVIOUS
<1>1. Device!Rx!Init /\ mem = Device!Ram!ResetMem /\ Device!Engine!Init
  BY DEF Init, Device!Init
<1>2. IsReceiver(spi) /\ spi.calls = <<>> /\ cs = HIGH
  <2>1. PICK b, m : spi = Device!Rx!chip_reset([cmd |-> 0, data_ndx |-> 0,
                            data |-> [i \in 1 .. MAX_DATA_TXFER |-> 0],
                            mode |-> m, armed |-> FALSE, beyond |-> b, calls |-> <<>>, runs |-> 0])
    BY <1>1, Zenon DEF Device!Rx!Init
  <2>2. cs = HIGH
    BY <1>1 DEF Device!Rx!Init, Device!Rx!HIGH, HIGH
  <2> QED BY <2>1, <2>2 DEF Device!Rx!chip_reset, IsReceiver
<1>3. P!IndInv
  <2>1. Device!Picture(mem) = P!ResetRam
    BY <1>1, PictureFacts, SameForWaiting
  <2>2. \E v \in P!Versions, m \in P!ActModes, b \in P!HeapImages, w \in P!HeapImages :
          panel = P!chip_reset([version |-> v, actMode |-> m, busy |-> P!LOW, sleeping |-> FALSE,
                                disp_upd_seq |-> 0, cur_act_seq |-> <<>>,
                                act_ndx |-> 0, act_scan_ndx |-> 0, timer |-> "off",
                                frame |-> b, black |-> b, white |-> w])
    <3>1. /\ P!Versions = Device!Engine!Versions /\ P!ActModes = Device!Engine!ActModes
          /\ P!LOW = Device!Engine!LOW
      BY DEF P!Versions, Device!Engine!Versions, P!ActModes, Device!Engine!ActModes, P!LOW,
             Device!Engine!LOW
    <3>2. P!HeapImages = Device!Engine!HeapImages
      BY Zenon DEF P!HeapImages, Device!Engine!HeapImages, P!Lines, Device!Engine!Lines
    <3>3. \A p : P!chip_reset(p) = Device!Engine!chip_reset(p)
      BY SameEngine
    <3> QED BY <1>1, <3>1, <3>2, <3>3, Zenon DEF Device!Engine!Init
  <2>3. P!Init
    BY <2>1, <2>2, Zenon DEF P!Init
  <2> QED BY <2>3, PanelFacts, P!InitInv
<1>4. epd = [call |-> "Init", todo |-> InitScript]
  BY DEF Init
<1>5. Interrupted
  <2>1. InitScript \in Seq(Steps) /\ Len(InitScript) > 2 /\ InitScript[1].op = "pulse"
    BY InitOpens DEF Opens, WellFormed
  <2>2. InitScript # <<>> /\ Head(InitScript) = InitScript[1]
    BY <2>1
  <2> QED BY <1>4, <2>1, <2>2 DEF Interrupted, Step
<1>6. NoneCutShort
  BY <1>2, CallsNotShort, ChipParts
<1> QED BY <1>2, <1>3, <1>4, <1>5, <1>6 DEF Inv

(* A step of the driver, within a call. *)
LEMMA HostThen ==
  ASSUME NEW S, NEW k, In(S, k), Host
  PROVE  Inv'
<1>1. epd.todo # <<>> /\ Done
  BY DEF Host, SendCommand, SendData, SendPicture, PulseReset, ReadIdle, Step
<1>2. Goes(S, k)
  BY <1>1, GoesOn
<1>3. CASE SendCommand
  BY <1>2, <1>3, CommandThen, LostThen
<1>4. CASE SendData
  BY <1>2, <1>4, DataThen
<1>5. CASE SendPicture
  BY <1>2, <1>5, PictureThen
<1>6. CASE ReadIdle
  BY <1>2, <1>6, WaitThen
<1>7. CASE PulseReset
  <2>1. WellFormed(S) /\ k + 1 \in 1 .. Len(S) /\ S[k + 1].op = "pulse"
    BY <1>2, <1>7 DEF Goes, PulseReset, Step, Now
  <2>2. k = 0
    <3>1. k + 1 = 1 /\ k \in Nat
      BY <1>2, <2>1 DEF WellFormed, Goes
    <3> QED BY <3>1
  <2>3. /\ IsReceiver(spi) /\ P!IndInv /\ cs \in {LOW, HIGH} /\ DOMAIN epd = {"call", "todo"}
        /\ S \in Scripts /\ epd.todo = SubSeq(S, 0 + 1, Len(S))
        /\ (epd.call = "Init" => S = InitScript) /\ (cs = LOW => S = InitScript) /\ Shown(S, 0)
    BY <2>2 DEF In, Live
  <2> QED BY <1>7, <2>3, PulseThen
<1> QED BY <1>3, <1>4, <1>5, <1>6, <1>7 DEF Host

(* A step of a chip that a restart has left, before Init's pulse. *)
LEMMA InterruptedThen ==
  ASSUME Inv, Interrupted, Next
  PROVE  Inv'
<1>1. /\ IsReceiver(spi) /\ NotShort(spi.calls) /\ P!IndInv /\ cs \in {LOW, HIGH}
      /\ DOMAIN epd = {"call", "todo"} /\ epd.todo = InitScript /\ epd.call = "Init"
  BY ChipParts DEF Inv, Interrupted
<1>2. /\ epd.todo # <<>> /\ Head(epd.todo).op = "pulse" /\ ~Step("data") /\ ~Step("rows")
      /\ ~Step("command") /\ ~Step("wait")
  BY DEF Interrupted, Step
<1>3. CASE PulseReset
  <2>1. InitScript \in Scripts
    BY DEF Scripts
  <2>2. epd.todo = SubSeq(InitScript, 0 + 1, Len(InitScript))
    <3>1. InitScript \in Seq(Steps)
      BY InitOpens DEF Opens, WellFormed
    <3>2. SubSeq(InitScript, 1, Len(InitScript)) = InitScript
      BY <3>1
    <3> QED BY <1>1, <3>2
  <2>3. Shown(InitScript, 0)
    BY <1>1 DEF Shown
  <2> QED BY <1>1, <1>3, <2>1, <2>2, <2>3, PulseThen
<1>4. CASE Restart
  <2>1. \A sent \in SentBefore : Left(DataClocked(ChipOf(spi, mem, panel), sent))
    BY <1>1, <1>2, NothingLeft
  <2> QED BY <1>1, <1>4, <2>1, RestartThen
<1>5. CASE ActivationTimer
  <2>1. /\ Device!ActivationTimer /\ spi' = spi /\ cs' = cs /\ epd' = epd
    BY <1>5 DEF ActivationTimer, Device!ActivationTimer
  <2>2. P!IndInv'
    BY <1>1, <2>1, PanelTimer
  <2>3. Interrupted' /\ NoneCutShort'
    BY <1>1, <2>1, ChipParts DEF Interrupted, Step
  <2> QED BY <1>1, <2>1, <2>2, <2>3 DEF Inv, IsReceiver
<1>6. ~AnyCall
  BY <1>2 DEF AnyCall, Call
<1> QED BY <1>2, <1>3, <1>4, <1>5, <1>6
    DEF Next, Host, SendCommand, SendData, SendPicture, ReadIdle

(* The invariant is inductive. *)
LEMMA StepInv == Inv /\ [Next]_vars => Inv'
<1> SUFFICES ASSUME Inv, [Next]_vars PROVE Inv'
  OBVIOUS
<1>1. CASE UNCHANGED vars
  <2>1. /\ spi' = spi /\ cs' = cs /\ mem' = mem /\ panel' = panel /\ epd' = epd /\ drawn' = drawn
    BY <1>1 DEF vars
  <2>2. P!IndInv'
    BY <2>1, PanelSame DEF Inv
  <2>3. CASE Interrupted
    <3>1. Interrupted' /\ NoneCutShort'
      BY <2>1, <2>3, ChipParts DEF Inv, Interrupted, Step
    <3> QED BY <2>1, <2>2, <2>3, <3>1 DEF Inv, IsReceiver
  <2>4. CASE ~Interrupted
    <3>1. PICK S \in Scripts : \E k \in 0 .. Len(S) : Live(S, k)
      BY <2>4 DEF Inv
    <3>2. PICK k \in 0 .. Len(S) : Live(S, k)
      BY <3>1
    <3>3. Settled' = Settled /\ NotShort(spi'.calls)
      BY <2>1, ChipParts DEF Inv
    <3>4. Received(S, k)' /\ Drawing(S, k)'
      BY <2>1, <3>2, <3>3 DEF Live, Received, Drawing
    <3>5. Shown(S, k)'
      <4>1. Shown(S, k) /\ Device!Picture(mem') = Device!Picture(mem)
        BY <2>1, <3>2, PictureFacts DEF Live
      <4>2. PT!IndInv => PT!IndInv'
        BY <2>1, ShowKept
      <4> QED BY <2>1, <4>1, <4>2 DEF Shown
    <3>6. ~Interrupted' /\ epd'.todo = SubSeq(S, k + 1, Len(S)) /\ (epd'.call = "Init" => S = InitScript)
      BY <2>1, <2>4, <3>2 DEF Interrupted, Step, Live
    <3>7. /\ cs' \in {LOW, HIGH} /\ IsReceiver(spi') /\ DOMAIN epd' = {"call", "todo"}
          /\ cs' = LOW => S = InitScript /\ k \in {1, 2} /\ spi'.data_ndx = 0 /\ mem' = Device!Ram!ResetMem
      BY <2>1, <3>2 DEF Inv, Live
    <3> QED BY <2>2, <3>3, <3>4, <3>5, <3>6, <3>7, LiveThen
  <2> QED BY <2>3, <2>4
<1>2. CASE Next /\ Interrupted
  BY <1>2, InterruptedThen
<1>3. CASE Next /\ ~Interrupted
  <2>1. PICK S \in Scripts : \E k \in 0 .. Len(S) : Live(S, k)
    BY <1>3 DEF Inv
  <2>2. PICK k \in 0 .. Len(S) : Live(S, k)
    BY <2>1
  <2>3. In(S, k)
    BY <2>2, ChipParts DEF In, Inv
  <2>4. CASE Host
    BY <2>3, <2>4, HostThen
  <2>5. CASE AnyCall
    BY <2>3, <2>5, AnyCallThen
  <2>6. CASE Restart
    BY <2>3, <2>6, LeftInCall, RestartThen DEF In
  <2>7. CASE ActivationTimer
    BY <1>3, <2>3, <2>7, TimerThen
  <2> QED BY <1>3, <2>4, <2>5, <2>6, <2>7 DEF Next
<1> QED BY <1>1, <1>2, <1>3

(* The state the proofs rest on: wherever the driver is in a call, the     *)
(* receiver, the RAM and the engine are where the steps so far put them.   *)
THEOREM DriverInvariance == Spec => []Inv
<1>1. Inv /\ [Next]_vars => Inv'
  BY StepInv
<1> QED BY <1>1, InitInv, PTL DEF Spec

(* No handler that the driver's commands, or those a restart cut off, make *)
(* on_command call is short of the data it reads.                          *)
THEOREM NoHandlerCutShort == Spec => []NoneCutShort
<1>1. Inv => NoneCutShort
  BY DEF Inv
<1> QED BY <1>1, DriverInvariance, PTL

(* After every call of the driver, and in the middle of any, the display   *)
(* RAM of the chip holds the rows drawn since the last reset the driver    *)
(* gave it, where they were meant.                                         *)
THEOREM RamAlwaysHoldsDrawing == Spec => []RamHoldsDrawing
<1>1. Inv => RamHoldsDrawing
  <2> SUFFICES ASSUME Inv, ~Interrupted PROVE Device!Picture(Settled) = drawn
    BY DEF RamHoldsDrawing
  <2>1. PICK S \in Scripts : \E k \in 0 .. Len(S) : Live(S, k)
    BY DEF Inv
  <2> QED BY <2>1 DEF Live, Drawing
<1> QED BY <1>1, DriverInvariance, PTL

(* Window and pointer, with the write still buffered, are on the panel:    *)
(* the driver's coordinates and its clipping see to it, for every height,  *)
(* picture and order of calls, also after a restart between the commands   *)
(* that set them.                                                          *)
THEOREM DriverStaysOnPanel == Spec => []StaysOnPanel
<1>1. Inv => StaysOnPanel
  <2> SUFFICES ASSUME Inv, ~Interrupted PROVE AfterWrite!TypeOK
    BY DEF StaysOnPanel
  <2>1. R!OnPanel(Settled)
    <3>1. PICK S \in Scripts : \E k \in 0 .. Len(S) : Live(S, k)
      BY DEF Inv
    <3> QED BY <3>1 DEF Live, Drawing
  <2> QED BY <2>1 DEF R!OnPanel, AfterWrite!TypeOK, R!Columns, AfterWrite!Columns, R!Rows,
      AfterWrite!Rows, R!Offsets, AfterWrite!Offsets, R!ADDR_INCR_MODE_POR,
      AfterWrite!ADDR_INCR_MODE_POR
<1> QED BY <1>1, DriverInvariance, PTL

(* When DisplayFrame or DisplayFrame_Partial returns, the panel shows what *)
(* has been drawn since that reset, and the engine has stopped.            *)
THEOREM DisplayAlwaysShowsDrawing == Spec => []DisplayShowsDrawing
<1>1. Inv => DisplayShowsDrawing
  <2> SUFFICES ASSUME Inv, Returned, epd.call = "Show"
               PROVE  panel.frame = FinalImage(panel.version, drawn) /\ panel.timer = "off"
    BY DEF DisplayShowsDrawing
  <2>1. ~Interrupted
    BY DEF Interrupted
  <2>2. PICK S \in Scripts : \E k \in 0 .. Len(S) : Live(S, k)
    BY <2>1 DEF Inv
  <2>3. PICK k \in 0 .. Len(S) : Live(S, k)
    BY <2>2
  <2>4. S \in {DisplayFrame, DisplayFrame_Partial} /\ Len(S) = 4
    <3>1. S \in {DisplayFrame, DisplayFrame_Partial}
      BY <2>3 DEF Live, Shown
    <3> QED BY <3>1, ShowScript
  <2>5. k = 4
    <3>1. S \in Seq(Steps) /\ epd.todo = SubSeq(S, k + 1, Len(S)) /\ epd.todo = <<>>
      BY <2>3, AllWellFormed DEF Live, WellFormed, Returned
    <3> QED BY <2>4, <3>1, Suffix
  <2>6. /\ spi.data_ndx = 0 /\ panel.timer = "off"
        /\ panel.frame = FinalImage(panel.version, Device!Picture(mem))
    BY <2>3, <2>5 DEF Live, Shown
  <2>7. Settled = mem /\ Device!Picture(Settled) = drawn
    BY <2>3, <2>6, ChipParts DEF SettledOf, Live, Drawing
  <2> QED BY <2>6, <2>7
<1> QED BY <1>1, DriverInvariance, PTL

=============================================================================
