----------------------------- MODULE SpiProofs -----------------------------
(***************************************************************************)
(* What the command receiver guarantees for every table overrun, every set *)
(* of codes and bytes, and a host that clocks whatever it likes.           *)
(*                                                                         *)
(* The invariant that carries the proof says of a pending command that a   *)
(* handler answers to that it has not been run yet (runs = 0), and that it *)
(* is short of data or of open length.  The first makes the next dispatch  *)
(* the only one, the second keeps the data of that dispatch within the     *)
(* table; a command no handler answers to may collect what it likes.       *)
(***************************************************************************)
EXTENDS Spi, TLAPS

-----------------------------------------------------------------------------
(* The tables *)

LEMMA TableType == \A c \in 0 .. TableSize - 1 : InTable(c) \in 0 .. 255
BY DEF InTable, TableSize, cmd_data_bytes

LEMMA KnownType == Known \subseteq 0 .. 255 /\ 0 \notin Known
BY DEF Known

-----------------------------------------------------------------------------
(* Invariants of one callback, of the record it leaves *)

SpiType(s) ==
  /\ s \in [cmd: 0 .. 255, data_ndx: 0 .. MAX_DATA_TXFER - 1,
            data: [1 .. MAX_DATA_TXFER -> Bytes], mode: {LOW, HIGH}, armed: BOOLEAN,
            beyond: [Codes \ (0 .. TableSize - 1) -> BeyondTable],
            calls: Seq(Calls), runs: Nat]
  /\ s.cmd \in Codes \cup {0}

CallsOk(s) ==
  \A i \in 1 .. Len(s.calls) :
    /\ s.calls[i].cmd \in Codes
    /\ s.calls[i].nth = 1
    /\ \/ DataBytes(s, s.calls[i].cmd) = OPEN
       \/ Len(s.calls[i].args) <= DataBytes(s, s.calls[i].cmd)

PendingOk(s) ==
  s.cmd \in Known => /\ s.runs = 0
                     /\ \/ DataBytes(s, s.cmd) = OPEN
                        \/ s.data_ndx < DataBytes(s, s.cmd)

Good(s) == SpiType(s) /\ CallsOk(s) /\ PendingOk(s)

(* The table lookup yields a byte. *)
LEMMA DataBytesType ==
  ASSUME NEW s, s.beyond \in [Codes \ (0 .. TableSize - 1) -> BeyondTable],
         NEW c \in Codes \cup {0}
  PROVE  DataBytes(s, c) \in 0 .. 255
<1>1. c \in 0 .. 255
  BY SpiAssumption DEF SpiAssumption
<1>2. CASE c < TableSize
  BY <1>1, <1>2, TableType DEF DataBytes, TableSize
<1>3. CASE ~(c < TableSize)
  <2>1. c \in Codes \ (0 .. TableSize - 1)
    BY <1>1, <1>3 DEF TableSize
  <2>2. s.beyond[c] \in BeyondTable
    BY <2>1
  <2> QED
    BY <1>3, <2>2, SpiAssumption DEF SpiAssumption, DataBytes
<1> QED
  BY <1>2, <1>3

(* What on_command needs to know of the command it dispatches: not run     *)
(* before, and no more data than the table allows.                         *)
Dispatchable(s) ==
  s.cmd \in Known => /\ s.runs = 0
                     /\ \/ DataBytes(s, s.cmd) = OPEN
                        \/ s.data_ndx <= DataBytes(s, s.cmd)

LEMMA ArgsType ==
  ASSUME NEW s, SpiType(s)
  PROVE  /\ Args(s) \in Seq(Bytes)
         /\ Len(Args(s)) = s.data_ndx
<1>1. s.data_ndx \in Nat /\ \A i \in 1 .. s.data_ndx : s.data[i] \in Bytes
  BY SpiAssumption DEF SpiType, SpiAssumption
<1> QED
  BY <1>1 DEF Args

(* Both depend on the calls and on the table only. *)
LEMMA SameCalls ==
  ASSUME NEW s, NEW t, t.calls = s.calls, t.beyond = s.beyond
  PROVE  /\ \A c : DataBytes(t, c) = DataBytes(s, c)
         /\ CallsOk(s) => CallsOk(t)
<1>1. \A c : DataBytes(t, c) = DataBytes(s, c)
  BY DEF DataBytes
<1> QED
  BY <1>1 DEF CallsOk

(* A dispatch leaves a good receiver. *)
LEMMA OnCommandGood ==
  ASSUME NEW s, SpiType(s), CallsOk(s), Dispatchable(s)
  PROVE  /\ SpiType(on_command(s)) /\ CallsOk(on_command(s))
         /\ on_command(s).cmd \in Known => FALSE
         /\ on_command(s).beyond = s.beyond
<1> DEFINE call == [cmd |-> s.cmd, args |-> Args(s), nth |-> s.runs + 1]
           t == [s EXCEPT !.calls = Append(@, call), !.runs = @ + 1, !.data_ndx = 0, !.cmd = 0]
<1>1. CASE s.cmd \notin Known
  BY <1>1 DEF on_command
<1>2. CASE s.cmd \in Known
  <2>1. on_command(s) = t
    BY <1>2 DEF on_command
  <2>2. call \in Calls
    <3>1. s.runs + 1 \in Nat
      BY DEF SpiType
    <3> QED
      BY <1>2, <3>1, ArgsType, Zenon DEF Calls
  <2>3. Append(s.calls, call) \in Seq(Calls)
    BY <2>2 DEF SpiType
  <2>4. /\ t.calls = Append(s.calls, call) /\ t.runs = s.runs + 1 /\ t.data_ndx = 0
        /\ t.cmd = 0 /\ t.beyond = s.beyond
    BY DEF SpiType
  <2>5. SpiType(t)
    <3>1. 0 \in 0 .. 255 /\ 0 \in 0 .. MAX_DATA_TXFER - 1 /\ s.runs + 1 \in Nat
      BY SpiAssumption DEF SpiType, SpiAssumption
    <3> QED
      BY <2>3, <3>1, Zenon DEF SpiType
  <2>6. CallsOk(t)
    <3> SUFFICES ASSUME NEW i \in 1 .. Len(t.calls)
                 PROVE  /\ t.calls[i].cmd \in Codes
                        /\ t.calls[i].nth = 1
                        /\ \/ DataBytes(t, t.calls[i].cmd) = OPEN
                           \/ Len(t.calls[i].args) <= DataBytes(t, t.calls[i].cmd)
      BY DEF CallsOk
    <3>1. \A c : DataBytes(t, c) = DataBytes(s, c)
      BY <2>4 DEF DataBytes
    <3>2. CASE i \in 1 .. Len(s.calls)
      <4>1. t.calls[i] = s.calls[i]
        BY <2>2, <2>4, <3>2 DEF SpiType
      <4> QED
        BY <3>1, <3>2, <4>1 DEF CallsOk
    <3>3. CASE i = Len(s.calls) + 1
      <4>1. t.calls[i] = call
        BY <2>2, <2>4, <3>3 DEF SpiType
      <4>2. call.nth = 1 /\ call.cmd = s.cmd /\ call.args = Args(s)
        BY <1>2 DEF Dispatchable
      <4>3. s.cmd \in Codes
        BY <1>2, KnownType DEF SpiType
      <4> HIDE DEF call, t
      <4> QED
        BY <1>2, <3>1, <4>1, <4>2, <4>3, ArgsType DEF Dispatchable
    <3>4. i \in 1 .. Len(s.calls) \/ i = Len(s.calls) + 1
      BY <2>2, <2>4 DEF SpiType
    <3> QED
      BY <3>2, <3>3, <3>4
  <2> QED
    BY <2>1, <2>4, <2>5, <2>6, KnownType
<1> QED
  BY <1>1, <1>2

(* A command byte leaves a good receiver: the new command has no data yet. *)
LEMMA CommandByteGood ==
  ASSUME NEW s, SpiType(s), CallsOk(s), NEW b \in Codes
  PROVE  Good(on_spi_command_byte(s, b))
<1> DEFINE received == [s EXCEPT !.cmd = b, !.data_ndx = 0, !.runs = 0]
           waiting == [received EXCEPT !.armed = TRUE]
<1>1. b \in 0 .. 255 /\ 0 \in 0 .. MAX_DATA_TXFER - 1 /\ 0 \in Nat
  BY SpiAssumption DEF SpiAssumption
<1>2. SpiType(received) /\ SpiType(waiting)
  BY <1>1, Zenon DEF SpiType
<1>3. /\ received.calls = s.calls /\ received.beyond = s.beyond
      /\ received.cmd = b /\ received.data_ndx = 0 /\ received.runs = 0
      /\ waiting.calls = s.calls /\ waiting.beyond = s.beyond
      /\ waiting.cmd = b /\ waiting.data_ndx = 0 /\ waiting.runs = 0
  BY Zenon DEF SpiType
<1>4. CallsOk(received) /\ CallsOk(waiting)
  <2> HIDE DEF received, waiting
  <2> QED
    BY <1>3, SameCalls
<1>5. DataBytes(received, b) = DataBytes(s, b) /\ DataBytes(waiting, b) = DataBytes(s, b)
  <2> HIDE DEF received, waiting
  <2> QED
    BY <1>3, SameCalls
<1>6. DataBytes(s, b) \in 0 .. 255
  BY DataBytesType DEF SpiType
<1>7. CASE DataBytes(s, b) # 0
  <2>1. on_spi_command_byte(s, b) = waiting
    BY <1>7 DEF on_spi_command_byte, start_spi_transfer
  <2>2. PendingOk(waiting)
    <3> HIDE DEF received, waiting
    <3> QED
      BY <1>3, <1>5, <1>6, <1>7 DEF PendingOk
  <2> QED
    BY <1>2, <1>4, <2>1, <2>2 DEF Good
<1>8. CASE DataBytes(s, b) = 0
  <2>1. on_spi_command_byte(s, b) = on_command(received)
    BY <1>8 DEF on_spi_command_byte
  <2> HIDE DEF received, waiting
  <2>2. Dispatchable(received)
    BY <1>3, <1>5, <1>6 DEF Dispatchable
  <2> QED
    BY <1>2, <1>4, <2>1, <2>2, OnCommandGood DEF Good, PendingOk
<1> QED
  BY <1>7, <1>8

(* The flush of the command before it included. *)
LEMMA OnCommandByteGood ==
  ASSUME NEW s, Good(s), NEW b \in Codes
  PROVE  Good(OnCommandByte(s, b))
<1>1. CASE s.data_ndx > 0
  <2>1. Dispatchable(s)
    <3>1. s.cmd \in Codes \cup {0} /\ s.data_ndx \in Nat
      BY SpiAssumption DEF SpiAssumption, Good, SpiType
    <3>2. DataBytes(s, s.cmd) \in 0 .. 255
      BY <3>1, DataBytesType DEF Good, SpiType
    <3> QED
      BY <3>1, <3>2 DEF Good, PendingOk, Dispatchable
  <2>2. SpiType(on_command(s)) /\ CallsOk(on_command(s))
    BY <2>1, OnCommandGood DEF Good
  <2> QED
    BY <1>1, <2>2, CommandByteGood DEF OnCommandByte
<1>2. CASE ~(s.data_ndx > 0)
  BY <1>2, CommandByteGood DEF OnCommandByte, Good
<1> QED
  BY <1>1, <1>2

(* A reset leaves no command. *)
LEMMA ResetGood ==
  ASSUME NEW s, s.calls = << >>, SpiType(s)
  PROVE  Good(chip_reset(s))
<1> DEFINE t == [s EXCEPT !.cmd = 0, !.data_ndx = 0]
<1>1. 0 \in 0 .. 255 /\ 0 \in 0 .. MAX_DATA_TXFER - 1
  BY SpiAssumption DEF SpiAssumption
<1>2. SpiType(t)
  BY <1>1, Zenon DEF SpiType
<1>3. t.cmd = 0 /\ t.calls = << >>
  BY Zenon DEF SpiType
<1> HIDE DEF t
<1>4. CallsOk(t)
  BY <1>3 DEF CallsOk
<1>5. PendingOk(t)
  BY <1>3, KnownType DEF PendingOk
<1>6. chip_reset(s) = t
  BY DEF chip_reset, t
<1> QED
  BY <1>2, <1>4, <1>5, <1>6 DEF Good

(* A data byte: the command stays short of bytes, runs on its last one, or *)
(* the full buffer resets the chip.                                        *)
LEMMA OnDataByteGood ==
  ASSUME NEW s, Good(s), s.calls = << >>, NEW b \in Bytes
  PROVE  Good(OnDataByte(s, b))
<1> DEFINE stored == [s EXCEPT !.data[s.data_ndx + 1] = b, !.data_ndx = @ + 1]
           cleared == [stored EXCEPT !.cmd = 0, !.data_ndx = 0]
           expected == DataBytes(s, s.cmd)
<1>1. /\ s.data_ndx \in Nat /\ s.data_ndx < MAX_DATA_TXFER
      /\ s.data_ndx + 1 \in 1 .. MAX_DATA_TXFER
      /\ 0 \in 0 .. 255 /\ 0 \in 0 .. MAX_DATA_TXFER - 1
  BY SpiAssumption DEF SpiAssumption, Good, SpiType
<1>2. expected \in 0 .. 255
  BY DataBytesType DEF Good, SpiType
<1>3. /\ stored.data_ndx = s.data_ndx + 1 /\ stored.cmd = s.cmd /\ stored.runs = s.runs
      /\ stored.calls = s.calls /\ stored.beyond = s.beyond
  BY Zenon DEF Good, SpiType
<1>4. DataBytes(stored, s.cmd) = expected
  <2> HIDE DEF stored
  <2> QED
    BY <1>3, SameCalls
<1>5. CallsOk(stored)
  <2> HIDE DEF stored
  <2> QED
    BY <1>3, SameCalls DEF Good
<1>6. CASE stored.data_ndx >= MAX_DATA_TXFER
  <2>1. OnDataByte(s, b) = cleared
    BY <1>6 DEF OnDataByte, chip_reset
  <2>2. SpiType(cleared)
    BY <1>1, Zenon DEF SpiType, Good
  <2>3. cleared.cmd = 0 /\ cleared.calls = << >>
    BY Zenon DEF SpiType, Good
  <2> HIDE DEF stored, cleared, expected
  <2>4. CallsOk(cleared) /\ PendingOk(cleared)
    BY <2>3, KnownType DEF CallsOk, PendingOk
  <2> QED
    BY <2>1, <2>2, <2>4 DEF Good
<1>7. CASE stored.data_ndx < MAX_DATA_TXFER
  <2>1. s.data_ndx + 1 \in 0 .. MAX_DATA_TXFER - 1
    <3> HIDE DEF stored
    <3> QED
      BY <1>1, <1>3, <1>7, SpiAssumption DEF SpiAssumption
  <2>2. SpiType(stored)
    BY <1>1, <2>1, Zenon DEF SpiType, Good
  <2>3. OnDataByte(s, b) = IF expected = OPEN \/ stored.data_ndx < expected
                           THEN stored ELSE on_command(stored)
    <3>1. ~(stored.data_ndx >= MAX_DATA_TXFER)
      <4> HIDE DEF stored
      <4> QED
        BY <1>1, <1>3, <1>7, SpiAssumption DEF SpiAssumption
    <3> QED
      BY <3>1, Zenon DEF OnDataByte
  <2> HIDE DEF stored, cleared, expected
  <2>4. CASE expected = OPEN \/ stored.data_ndx < expected
    BY <1>3, <1>4, <1>5, <2>2, <2>3, <2>4 DEF Good, PendingOk
  <2>5. CASE ~(expected = OPEN \/ stored.data_ndx < expected)
    <3>1. s.cmd \in Known => s.runs = 0 /\ (expected = OPEN \/ s.data_ndx < expected)
      BY DEF Good, PendingOk, expected
    <3>2. s.cmd \in Known => s.data_ndx + 1 <= expected
      BY <1>1, <1>2, <2>5, <3>1
    <3>3. DataBytes(stored, stored.cmd) = expected
      BY <1>3, <1>4
    <3>4. Dispatchable(stored)
      BY <1>3, <3>1, <3>2, <3>3 DEF Dispatchable
    <3> QED
      BY <1>5, <2>2, <2>3, <2>5, <3>4, OnCommandGood DEF Good, PendingOk
  <2> QED
    BY <2>4, <2>5
<1>8. stored.data_ndx >= MAX_DATA_TXFER \/ stored.data_ndx < MAX_DATA_TXFER
  <2> HIDE DEF stored
  <2> QED
    BY <1>1, <1>3, SpiAssumption DEF SpiAssumption
<1> QED
  BY <1>6, <1>7, <1>8

-----------------------------------------------------------------------------
(* Theorems *)

IndInv ==
  /\ Good(spi)
  /\ cs \in {LOW, HIGH}
  /\ host \in [cmd: 0 .. 255, sent: Nat, clocked: BOOLEAN]

(* Pins, arming and the list of calls have no part in what is pending. *)
LEMMA GoodByParts ==
  ASSUME NEW s, Good(s), NEW t, SpiType(t), t.calls = << >>,
         t.cmd = s.cmd, t.data_ndx = s.data_ndx, t.runs = s.runs, t.beyond = s.beyond
  PROVE  Good(t)
<1>1. \A c : DataBytes(t, c) = DataBytes(s, c)
  BY DEF DataBytes
<1>2. CallsOk(t)
  BY DEF CallsOk
<1>3. PendingOk(t)
  BY <1>1 DEF PendingOk, Good
<1> QED
  BY <1>2, <1>3 DEF Good

(* So a callback starts from a good receiver that has called nothing yet, *)
(* and stays good under the pin watchers and the arming of a transfer.    *)
LEMMA ReadyGood ==
  ASSUME Good(spi)
  PROVE  /\ Good(Ready) /\ Ready.calls = << >> /\ SpiType(Ready)
         /\ Good([Ready EXCEPT !.armed = FALSE]) /\ [Ready EXCEPT !.armed = FALSE].calls = << >>
         /\ Good([Ready EXCEPT !.armed = TRUE])
         /\ \A v \in {LOW, HIGH} : Good([Ready EXCEPT !.mode = v])
<1> DEFINE r == [spi EXCEPT !.calls = << >>]
           off == [r EXCEPT !.armed = FALSE]
           on == [r EXCEPT !.armed = TRUE]
<1>1. << >> \in Seq(Calls)
  OBVIOUS
<1>2. SpiType(r) /\ SpiType(off) /\ SpiType(on)
  BY <1>1, Zenon DEF SpiType, Good
<1>3. /\ r.calls = << >> /\ r.cmd = spi.cmd /\ r.data_ndx = spi.data_ndx
      /\ r.runs = spi.runs /\ r.beyond = spi.beyond
  BY Zenon DEF SpiType, Good
<1>4. /\ off.calls = << >> /\ off.cmd = spi.cmd /\ off.data_ndx = spi.data_ndx
      /\ off.runs = spi.runs /\ off.beyond = spi.beyond
  BY Zenon DEF SpiType, Good
<1>5. /\ on.calls = << >> /\ on.cmd = spi.cmd /\ on.data_ndx = spi.data_ndx
      /\ on.runs = spi.runs /\ on.beyond = spi.beyond
  BY Zenon DEF SpiType, Good
<1>6. ASSUME NEW v \in {LOW, HIGH}
      PROVE  Good([r EXCEPT !.mode = v])
  <2> DEFINE t == [r EXCEPT !.mode = v]
  <2>1. SpiType(t)
    BY <1>1, Zenon DEF SpiType, Good
  <2>2. /\ t.calls = << >> /\ t.cmd = spi.cmd /\ t.data_ndx = spi.data_ndx
        /\ t.runs = spi.runs /\ t.beyond = spi.beyond
    BY Zenon DEF SpiType, Good
  <2> HIDE DEF t
  <2>3. Good(t)
    BY <2>1, <2>2, GoodByParts
  <2> QED
    BY <2>3 DEF t
<1>7. Ready = r
  BY DEF Ready
<1> HIDE DEF r, off, on
<1>8. Good(r) /\ Good(off) /\ Good(on)
  BY <1>2, <1>3, <1>4, <1>5, GoodByParts
<1> QED
  BY <1>2, <1>3, <1>4, <1>6, <1>7, <1>8, Zenon DEF off, on

(* A byte on the bus, whatever the levels of the pins. *)
LEMMA DoneGood ==
  ASSUME NEW s, Good(s), s.calls = << >>, NEW b,
         IF s.mode = LOW THEN b \in Codes ELSE b \in Bytes
  PROVE  Good(on_spi_done(s, b))
BY OnCommandByteGood, OnDataByteGood DEF on_spi_done

(* The receiver is good in every state, whatever a host clocks and         *)
(* whenever CS, DC and RST change.                                         *)
THEOREM Invariance == Spec => []IndInv
<1>1. Init => IndInv
  <2> SUFFICES ASSUME Init
               PROVE  IndInv
    OBVIOUS
  <2>1. PICK b \in [Codes \ (0 .. TableSize - 1) -> BeyondTable], m \in {LOW, HIGH} :
          spi = chip_reset([cmd |-> 0, data_ndx |-> 0,
                            data |-> [i \in 1 .. MAX_DATA_TXFER |-> 0],
                            mode |-> m, armed |-> FALSE, beyond |-> b,
                            calls |-> << >>, runs |-> 0])
    BY DEF Init
  <2> DEFINE s == [cmd |-> 0, data_ndx |-> 0, data |-> [i \in 1 .. MAX_DATA_TXFER |-> 0],
                   mode |-> m, armed |-> FALSE, beyond |-> b, calls |-> << >>, runs |-> 0]
  <2>2. /\ 0 \in 0 .. 255 /\ 0 \in 0 .. MAX_DATA_TXFER - 1 /\ 0 \in Nat /\ 0 \in Bytes
        /\ << >> \in Seq(Calls)
    BY SpiAssumption DEF SpiAssumption
  <2>3. [i \in 1 .. MAX_DATA_TXFER |-> 0] \in [1 .. MAX_DATA_TXFER -> Bytes]
    BY <2>2
  <2>4. SpiType(s)
    BY <2>2, <2>3, Zenon DEF SpiType
  <2>5. Good(spi)
    <3>1. s.calls = << >> /\ spi = chip_reset(s)
      BY <2>1
    <3> HIDE DEF s
    <3> QED
      BY <2>4, <3>1, ResetGood
  <2> QED
    BY <2>2, <2>5 DEF Init, IndInv, NoCommand
<1>2. ASSUME IndInv, [Next]_vars
      PROVE  IndInv'
  <2>1. Good(spi) /\ cs \in {LOW, HIGH}
        /\ host \in [cmd: 0 .. 255, sent: Nat, clocked: BOOLEAN]
    BY <1>2 DEF IndInv
  <2>2. NoCommand \in [cmd: 0 .. 255, sent: Nat, clocked: BOOLEAN]
    BY DEF NoCommand
  <2>3. ASSUME NEW v \in {LOW, HIGH}, SetCS(v)
        PROVE  IndInv'
    <3>1. Good(spi')
      BY <2>1, <2>3, ReadyGood DEF SetCS, on_cs_pin_change, start_spi_transfer
    <3> QED
      BY <2>1, <2>3, <3>1 DEF SetCS, IndInv
  <2>4. ASSUME NEW v \in {LOW, HIGH}, SetDC(v)
        PROVE  IndInv'
    <3>1. Good(spi')
      BY <2>1, <2>4, ReadyGood DEF SetDC, on_dc_pin_change
    <3> QED
      BY <2>1, <2>4, <3>1 DEF SetDC, IndInv
  <2>5. ASSUME NEW c \in Codes, SendCommand(c)
        PROVE  IndInv'
    <3>1. c \in 0 .. 255
      BY SpiAssumption DEF SpiAssumption
    <3>2. [Ready EXCEPT !.armed = FALSE].mode = LOW
      BY <2>1, <2>5 DEF SendCommand, Ready, Good, SpiType
    <3>3. Good(spi')
      BY <2>1, <2>5, <3>2, ReadyGood, DoneGood DEF SendCommand, Clock
    <3> QED
      BY <2>1, <2>5, <3>1, <3>3 DEF SendCommand, IndInv
  <2>6. ASSUME NEW b \in Bytes, SendData(b)
        PROVE  IndInv'
    <3>1. [Ready EXCEPT !.armed = FALSE].mode = HIGH
      BY <2>1, <2>6 DEF SendData, Ready, Good, SpiType
    <3>2. Good(spi')
      <4>1. [Ready EXCEPT !.armed = FALSE].mode # LOW
        BY <3>1 DEF LOW, HIGH
      <4>2. Good(on_spi_done([Ready EXCEPT !.armed = FALSE], b))
        BY <2>1, <4>1, ReadyGood, DoneGood
      <4> QED
        BY <2>1, <2>6, <4>2, ReadyGood DEF SendData, Clock
    <3>3. host' \in [cmd: 0 .. 255, sent: Nat, clocked: BOOLEAN]
      <4>1. host.sent + 1 \in Nat
        BY <2>1
      <4> QED
        BY <2>1, <2>6, <4>1, Zenon DEF SendData
    <3> QED
      BY <2>1, <2>6, <3>2, <3>3 DEF SendData, IndInv
  <2>7. CASE Reset
    BY <2>1, <2>2, <2>7, ReadyGood, ResetGood DEF Reset, IndInv
  <2>8. CASE UNCHANGED vars
    BY <1>2, <2>8 DEF vars, IndInv
  <2> QED
    BY <1>2, <2>3, <2>4, <2>5, <2>6, <2>7, <2>8 DEF Next
<1> QED
  BY <1>1, <1>2, PTL DEF Spec

(* Types: in particular the data index stays inside the buffer, at any     *)
(* length of transfer.                                                     *)
THEOREM TypeCorrect == Spec => []TypeOK
<1>1. IndInv => TypeOK
  BY DEF IndInv, Good, SpiType, TypeOK
<1> QED
  BY <1>1, Invariance, PTL

(* Every command byte's handler runs at most once. *)
THEOREM RunsAtMostOnce == Spec => []AtMostOnce
<1>1. IndInv => AtMostOnce
  BY DEF IndInv, Good, CallsOk, AtMostOnce
<1> QED
  BY <1>1, Invariance, PTL

(* No handler of a command of known length gets more data than that. *)
THEOREM HandlersAreNotOverfed == Spec => []NeverOverfed
<1>1. IndInv => NeverOverfed
  BY DEF IndInv, Good, CallsOk, NeverOverfed
<1> QED
  BY <1>1, Invariance, PTL

(* What is pending is short of data, or of open length. *)
THEOREM PendingStaysShort == Spec => []PendingIsShort
<1>1. IndInv => PendingIsShort
  BY DEF IndInv, Good, PendingOk, PendingIsShort
<1> QED
  BY <1>1, Invariance, PTL

-----------------------------------------------------------------------------
(* The command link of a polite host: what a callback does to the command  *)
(* that is pending and to the commands executed, as the link sees them.    *)

(* The commands of the data sheet are in the table, and none is 0. *)
LEMMA SheetCodes ==
  ASSUME NEW c \in Known \ {255}
  PROVE  /\ c # 0 /\ c < TableSize /\ InTable(c) \in 0 .. 255
         /\ \A s : DataBytes(s, c) = InTable(c)
<1>1. c \in 1 .. TableSize - 1
  BY DEF Known, TableSize
<1>2. c \in 0 .. TableSize - 1 /\ c # 0 /\ c < TableSize
  BY <1>1 DEF TableSize
<1> QED
  BY <1>2, TableType, Zenon DEF DataBytes

(* What the link calls pending, of a receiver s. *)
Pending(s) == [cmd |-> s.cmd, args |-> IF s.cmd = 0 THEN <<>> ELSE Args(s)]

(* What it calls executed. *)
Executed(s) ==
  [i \in 1 .. Len(s.calls) |-> [cmd |-> s.calls[i].cmd, args |-> s.calls[i].args]]

(* A receiver that has called nothing in this callback has executed        *)
(* nothing.                                                                *)
LEMMA NothingExecuted ==
  ASSUME NEW s, s.calls = <<>>
  PROVE  Executed(s) = <<>>
BY DEF Executed

(* A dispatch executes the pending command with the data it has got. *)
LEMMA Dispatched ==
  ASSUME NEW s, SpiType(s), s.cmd \in Known
  PROVE  LET t == on_command(s)
         IN  /\ Executed(t) = Append(Executed(s), [cmd |-> s.cmd, args |-> Args(s)])
             /\ t.cmd = 0 /\ t.data_ndx = 0 /\ t.armed = s.armed /\ t.mode = s.mode
             /\ t.beyond = s.beyond /\ SpiType(t)
<1> DEFINE call == [cmd |-> s.cmd, args |-> Args(s), nth |-> s.runs + 1]
           t == [s EXCEPT !.calls = Append(@, call), !.runs = @ + 1, !.data_ndx = 0, !.cmd = 0]
<1>1. on_command(s) = t
  BY DEF on_command
<1>2. call \in Calls
  <2>1. s.runs + 1 \in Nat
    BY DEF SpiType
  <2> QED
    BY <2>1, ArgsType, Zenon DEF Calls
<1>3. /\ t.calls = Append(s.calls, call) /\ t.cmd = 0 /\ t.data_ndx = 0 /\ t.armed = s.armed
      /\ t.mode = s.mode /\ t.beyond = s.beyond
  BY DEF SpiType
<1>4. s.calls \in Seq(Calls) /\ Append(s.calls, call) \in Seq(Calls)
  BY <1>2 DEF SpiType
<1>5. SpiType(t)
  <2>1. 0 \in 0 .. 255 /\ 0 \in 0 .. MAX_DATA_TXFER - 1 /\ s.runs + 1 \in Nat
    BY SpiAssumption DEF SpiType, SpiAssumption
  <2> QED
    BY <1>4, <2>1, Zenon DEF SpiType
<1>6. call.cmd = s.cmd /\ call.args = Args(s)
  OBVIOUS
<1> HIDE DEF call, t
<1>7. Executed(t) = Append(Executed(s), [cmd |-> s.cmd, args |-> Args(s)])
  <2>1. Len(t.calls) = Len(s.calls) + 1 /\ Len(s.calls) \in Nat
    BY <1>2, <1>3, <1>4
  <2>2. \A i \in 1 .. Len(s.calls) : t.calls[i] = s.calls[i]
    BY <1>2, <1>3, <1>4
  <2>3. t.calls[Len(s.calls) + 1] = call
    BY <1>2, <1>3, <1>4
  <2> QED
    BY <1>6, <2>1, <2>2, <2>3 DEF Executed
<1> QED
  BY <1>1, <1>3, <1>5, <1>7

(* A command byte executes the open command before it, if that has got any *)
(* data, and then its own if that takes none; else its own is pending.     *)
CommandDone(s, t, c) ==
  /\ Executed(t) = (IF s.cmd # 0 /\ s.data_ndx > 0 THEN <<Pending(s)>> ELSE <<>>)
                      \o (IF InTable(c) = 0 THEN <<[cmd |-> c, args |-> <<>>]>> ELSE <<>>)
  /\ Pending(t) = [cmd |-> IF InTable(c) = 0 THEN 0 ELSE c, args |-> <<>>]
  /\ t.cmd # 0 => t.cmd = c /\ t.data_ndx = 0

(* A command byte does that to a receiver of the kind the invariant keeps.  *)
LEMMA CommandIsDone ==
  ASSUME NEW s, SpiType(s), s.calls = <<>>, s.cmd # 0 => s.cmd \in Known,
         NEW c \in Codes, c \in Known \ {255}
  PROVE  CommandDone(s, OnCommandByte(s, c), c)
<1> DEFINE f == IF s.data_ndx > 0 THEN on_command(s) ELSE s
           received == [f EXCEPT !.cmd = c, !.data_ndx = 0, !.runs = 0]
           waiting == [received EXCEPT !.armed = TRUE]
           flushed == IF s.cmd # 0 /\ s.data_ndx > 0 THEN <<Pending(s)>> ELSE <<>>
<1>1. SpiType(f) /\ Executed(f) = flushed
  <2>1. CASE s.data_ndx > 0 /\ s.cmd # 0
    <3>1. SpiType(on_command(s)) /\ Executed(on_command(s)) = Append(<<>>, [cmd |-> s.cmd, args |-> Args(s)])
      BY <2>1, Dispatched, NothingExecuted
    <3>2. Pending(s) = [cmd |-> s.cmd, args |-> Args(s)]
      BY <2>1 DEF Pending
    <3> QED
      BY <2>1, <3>1, <3>2
  <2>2. CASE s.data_ndx > 0 /\ s.cmd = 0
    <3>1. on_command(s) = s
      BY <2>2, KnownType DEF on_command
    <3> QED
      BY <2>2, <3>1, NothingExecuted
  <2>3. CASE ~(s.data_ndx > 0)
    BY <2>3, NothingExecuted
  <2> QED
    BY <2>1, <2>2, <2>3
<1>2. c # 0 /\ c < TableSize /\ InTable(c) \in 0 .. 255 /\ DataBytes(f, c) = InTable(c)
  BY SheetCodes
<1>3. OnCommandByte(s, c) = IF InTable(c) # 0 THEN waiting ELSE on_command(received)
  <2>1. OnCommandByte(s, c) = on_spi_command_byte(f, c)
    BY DEF OnCommandByte
  <2> HIDE DEF f
  <2> QED
    BY <1>2, <2>1 DEF on_spi_command_byte, start_spi_transfer
<1> HIDE DEF f, flushed
<1>4. c \in 0 .. 255 /\ 0 \in 0 .. MAX_DATA_TXFER - 1 /\ 0 \in Nat
  BY SpiAssumption DEF SpiAssumption
<1>5. SpiType(received) /\ SpiType(waiting)
  BY <1>1, <1>4, Zenon DEF SpiType
<1>6. /\ received.calls = f.calls /\ received.cmd = c /\ received.data_ndx = 0
      /\ waiting.calls = f.calls /\ waiting.cmd = c /\ waiting.data_ndx = 0
  BY <1>1, Zenon DEF SpiType
<1> HIDE DEF received, waiting
<1>7. Executed(received) = flushed /\ Executed(waiting) = flushed
  BY <1>1, <1>6 DEF Executed
<1>8. Args(received) = <<>> /\ Args(waiting) = <<>>
  BY <1>6 DEF Args
<1>9. CASE InTable(c) # 0
  <2>1. Pending(waiting) = [cmd |-> c, args |-> <<>>]
    BY <1>2, <1>6, <1>8 DEF Pending
  <2>2. Executed(waiting) = flushed \o <<>>
    BY <1>7 DEF flushed
  <2> QED
    BY <1>3, <1>6, <1>9, <2>1, <2>2 DEF CommandDone, flushed
<1>10. CASE InTable(c) = 0
  <2> DEFINE t == on_command(received)
  <2>1. Executed(t) = Append(flushed, [cmd |-> c, args |-> <<>>]) /\ t.cmd = 0
    BY <1>5, <1>6, <1>7, <1>8, Dispatched
  <2>2. Append(flushed, [cmd |-> c, args |-> <<>>]) = flushed \o <<[cmd |-> c, args |-> <<>>]>>
    BY DEF flushed
  <2> HIDE DEF t
  <2>3. Pending(t) = [cmd |-> 0, args |-> <<>>]
    BY <2>1 DEF Pending
  <2>4. OnCommandByte(s, c) = t
    BY <1>3, <1>10 DEF t
  <2> QED
    BY <1>10, <2>1, <2>2, <2>3, <2>4 DEF CommandDone, flushed
<1> QED
  BY <1>9, <1>10

(* A data byte joins the pending command, which is executed with its last  *)
(* one.  Without a command, or with a full buffer, it is dropped.          *)
DataDone(s, t, b) ==
  LET sent == [cmd |-> s.cmd, args |-> Append(Args(s), b)]
  IN  \/ /\ s.cmd # 0 /\ s.data_ndx + 1 < MAX_DATA_TXFER
         /\ IF InTable(s.cmd) # 255 /\ s.data_ndx + 1 = InTable(s.cmd)
            THEN Pending(t) = [cmd |-> 0, args |-> <<>>] /\ Executed(t) = <<sent>> /\ t.cmd = 0
            ELSE /\ Pending(t) = sent /\ Executed(t) = <<>>
                 /\ t.cmd = s.cmd /\ t.data_ndx = s.data_ndx + 1
      \/ /\ s.cmd = 0 \/ s.data_ndx + 1 >= MAX_DATA_TXFER
         /\ Pending(t) = [cmd |-> 0, args |-> <<>>] /\ Executed(t) = <<>> /\ t.cmd = 0

(* So does a data byte.                                                    *)
LEMMA DataIsDone ==
  ASSUME NEW s, Good(s), s.calls = <<>>, s.cmd # 0 => s.cmd \in Known \ {255}, NEW b \in Bytes
  PROVE  DataDone(s, OnDataByte(s, b), b)
<1> DEFINE stored == [s EXCEPT !.data[s.data_ndx + 1] = b, !.data_ndx = @ + 1]
           cleared == [stored EXCEPT !.cmd = 0, !.data_ndx = 0]
           expected == DataBytes(s, s.cmd)
<1>1. /\ s.data_ndx \in Nat /\ s.data_ndx < MAX_DATA_TXFER /\ MAX_DATA_TXFER \in Nat
      /\ s.data_ndx + 1 \in 1 .. MAX_DATA_TXFER
      /\ 0 \in 0 .. 255 /\ 0 \in 0 .. MAX_DATA_TXFER - 1
      /\ s.data \in [1 .. MAX_DATA_TXFER -> Bytes]
  BY SpiAssumption DEF SpiAssumption, Good, SpiType
<1>2. expected \in 0 .. 255 /\ (s.cmd # 0 => expected = InTable(s.cmd) /\ s.cmd \in Known)
  <2>1. expected \in 0 .. 255
    BY DataBytesType DEF Good, SpiType
  <2>2. s.cmd # 0 => expected = InTable(s.cmd) /\ s.cmd \in Known
    BY SheetCodes
  <2> QED
    BY <2>1, <2>2
<1>3. /\ stored.data_ndx = s.data_ndx + 1 /\ stored.cmd = s.cmd /\ stored.calls = <<>>
      /\ stored.data = [s.data EXCEPT ![s.data_ndx + 1] = b]
      /\ cleared.cmd = 0 /\ cleared.calls = <<>>
  BY Zenon DEF Good, SpiType
<1>4. OnDataByte(s, b) = IF s.data_ndx + 1 >= MAX_DATA_TXFER THEN cleared
                         ELSE IF expected = OPEN \/ s.data_ndx + 1 < expected THEN stored
                         ELSE on_command(stored)
  BY <1>3, Zenon DEF OnDataByte, chip_reset
<1>5. s.data_ndx + 1 < MAX_DATA_TXFER => SpiType(stored)
  <2>1. SUFFICES ASSUME s.data_ndx + 1 < MAX_DATA_TXFER PROVE SpiType(stored)
    OBVIOUS
  <2>2. s.data_ndx + 1 \in 0 .. MAX_DATA_TXFER - 1
    BY <1>1, <2>1
  <2> QED
    BY <1>1, <2>2, Zenon DEF SpiType, Good
<1> HIDE DEF stored, cleared, expected
<1>6. Args(stored) = Append(Args(s), b)
  <2>1. Args(stored) = [i \in 1 .. s.data_ndx + 1 |-> [s.data EXCEPT ![s.data_ndx + 1] = b][i]]
    BY <1>3 DEF Args
  <2>2. Args(s) = [i \in 1 .. s.data_ndx |-> s.data[i]] /\ Args(s) \in Seq(Bytes) /\ Len(Args(s)) = s.data_ndx
    BY ArgsType DEF Args, Good
  <2> QED
    BY <1>1, <2>1, <2>2
<1>7. CASE s.cmd = 0 \/ s.data_ndx + 1 >= MAX_DATA_TXFER
  <2>1. CASE s.data_ndx + 1 >= MAX_DATA_TXFER
    BY <1>3, <1>4, <2>1, NothingExecuted DEF DataDone, Pending
  <2>2. CASE s.cmd = 0 /\ ~(s.data_ndx + 1 >= MAX_DATA_TXFER)
    <3>1. stored.cmd \notin Known
      BY <1>3, <2>2, KnownType
    <3>2. OnDataByte(s, b) = stored
      BY <1>4, <2>2, <3>1 DEF on_command
    <3> QED
      BY <1>3, <2>2, <3>2, NothingExecuted DEF DataDone, Pending
  <2> QED
    BY <1>7, <2>1, <2>2
<1>8. CASE s.cmd # 0 /\ s.data_ndx + 1 < MAX_DATA_TXFER
  <2>1. expected = 255 \/ s.data_ndx < expected
    BY <1>2, <1>8 DEF expected, Good, PendingOk, OPEN
  <2>2. CASE expected # 255 /\ s.data_ndx + 1 = expected
    <3> DEFINE t == on_command(stored)
    <3>1. OnDataByte(s, b) = t
      BY <1>1, <1>4, <1>8, <2>2 DEF OPEN
    <3>2. /\ Executed(t) = Append(Executed(stored), [cmd |-> s.cmd, args |-> Append(Args(s), b)])
          /\ t.cmd = 0
      BY <1>2, <1>3, <1>5, <1>6, <1>8, Dispatched
    <3>3. Executed(t) = <<[cmd |-> s.cmd, args |-> Append(Args(s), b)]>>
      <4>1. Executed(stored) = <<>>
        BY <1>3, NothingExecuted
      <4> HIDE DEF t
      <4> QED
        BY <3>2, <4>1
    <3> HIDE DEF t
    <3>4. Pending(t) = [cmd |-> 0, args |-> <<>>]
      BY <3>2 DEF Pending
    <3> QED
      BY <1>2, <1>8, <2>2, <3>1, <3>2, <3>3, <3>4 DEF DataDone
  <2>3. CASE ~(expected # 255 /\ s.data_ndx + 1 = expected)
    <3>1. OnDataByte(s, b) = stored
      <4>1. expected = 255 \/ s.data_ndx + 1 < expected
        <5>1. expected \in 0 .. 255
          BY <1>2
        <5>2. s.data_ndx \in Nat
          BY <1>1
        <5> QED
          BY <2>1, <2>3, <5>1, <5>2
      <4>2. ~(s.data_ndx + 1 >= MAX_DATA_TXFER)
        BY <1>1, <1>8
      <4> QED
        BY <1>4, <4>1, <4>2 DEF OPEN
    <3>2. Pending(stored) = [cmd |-> s.cmd, args |-> Append(Args(s), b)]
      BY <1>3, <1>6, <1>8 DEF Pending
    <3>3. Executed(stored) = <<>>
      BY <1>3, NothingExecuted
    <3> QED
      BY <1>2, <1>3, <1>8, <2>3, <3>1, <3>2, <3>3 DEF DataDone
  <2> QED
    BY <2>2, <2>3
<1> QED
  BY <1>1, <1>7, <1>8

(* The receiver and the polite host agree: the pending command is the one  *)
(* the host is sending, with the data it has sent, and a CS window that    *)
(* has not had its byte has a transfer armed for it.                       *)
Agreed ==
  /\ spi.cmd # 0 => /\ spi.cmd \in Known \ {255}
                    /\ host.cmd = spi.cmd /\ host.sent = spi.data_ndx
  /\ cs = LOW /\ ~host.clocked => spi.armed

(* What a callback starts from: the receiver as it was, with nothing       *)
(* called yet; Disarmed, when a byte has come in.                          *)
Disarmed == [Ready EXCEPT !.armed = FALSE]

LEMMA ReadyIs ==
  ASSUME Good(spi)
  PROVE  /\ Good(Ready) /\ Good(Disarmed) /\ SpiType(Disarmed)
         /\ Executed(Ready) = <<>> /\ Pending(Ready) = Pending(spi)
         /\ Ready.cmd = spi.cmd /\ Ready.data_ndx = spi.data_ndx /\ Ready.armed = spi.armed
         /\ Disarmed.calls = <<>> /\ Pending(Disarmed) = Pending(spi)
         /\ Disarmed.cmd = spi.cmd /\ Disarmed.data_ndx = spi.data_ndx
         /\ Disarmed.mode = spi.mode /\ Args(Disarmed) = Args(spi)
<1>1. /\ Ready.calls = <<>> /\ Ready.cmd = spi.cmd /\ Ready.data_ndx = spi.data_ndx
      /\ Ready.data = spi.data /\ Ready.armed = spi.armed
  BY Zenon DEF Ready, Good, SpiType
<1>2. /\ Disarmed.calls = <<>> /\ Disarmed.cmd = spi.cmd /\ Disarmed.data_ndx = spi.data_ndx
      /\ Disarmed.data = spi.data /\ Disarmed.mode = spi.mode
  BY Zenon DEF Disarmed, Ready, Good, SpiType
<1>3. Good(Ready) /\ Good(Disarmed) /\ SpiType(Disarmed)
  BY ReadyGood DEF Disarmed, Good
<1>4. Args(Ready) = Args(spi) /\ Args(Disarmed) = Args(spi)
  BY <1>1, <1>2 DEF Args
<1>5. Executed(Ready) = <<>>
  BY <1>1, NothingExecuted
<1> QED
  BY <1>1, <1>2, <1>3, <1>4, <1>5 DEF Pending

(* A callback that leaves the pending command and executes nothing is no   *)
(* step of the link.                                                       *)
LEMMA LinkQuiet ==
  ASSUME Pending(spi)' = Pending(spi), Executed(spi)' = <<>>
  PROVE  Link!Quiet
BY Zenon DEF Link!Quiet, Pending, Executed

(* A callback that drops the pending command is the link's reset.          *)
LEMMA LinkReset ==
  ASSUME Pending(spi)' = [cmd |-> 0, args |-> <<>>], Executed(spi)' = <<>>
  PROVE  Link!Reset
BY Zenon DEF Link!Reset, Link!NoCall, Link!Call, Pending, Executed

(* A command byte of the host is a command of the link. *)
LEMMA LinkCommand ==
  ASSUME NEW c, spi.cmd # 0 => InTable(spi.cmd) = 255,
         CommandDone(spi, spi', c), SpiType(spi)
  PROVE  Link!Command(c)
<1>1. Pending(spi).cmd = spi.cmd
  BY DEF Pending
<1>2. Pending(spi) # [cmd |-> 0, args |-> <<>>] => spi.cmd # 0
  BY DEF Pending
<1>3. (Pending(spi) # [cmd |-> 0, args |-> <<>>] /\ Pending(spi).args # <<>>)
         <=> (spi.cmd # 0 /\ spi.data_ndx > 0)
  <2>1. spi.data_ndx \in Nat /\ Len(Args(spi)) = spi.data_ndx /\ Args(spi) \in Seq(Bytes)
    <3>1. spi.data_ndx \in Nat
      BY SpiAssumption DEF SpiType, SpiAssumption
    <3> QED
      BY <3>1, ArgsType
  <2>2. Args(spi) # <<>> <=> spi.data_ndx > 0
    BY <2>1
  <2>3. spi.cmd # 0 => Pending(spi).args = Args(spi) /\ Pending(spi).cmd # 0
    BY DEF Pending
  <2>4. Pending(spi) # [cmd |-> 0, args |-> <<>>] <=> spi.cmd # 0
    BY DEF Pending
  <2> QED
    BY <2>2, <2>3, <2>4
<1> DEFINE flushed == IF Pending(spi) # [cmd |-> 0, args |-> <<>>] /\ Pending(spi).args # <<>>
                      THEN <<Pending(spi)>> ELSE <<>>
           now == IF InTable(c) = 0 THEN <<[cmd |-> c, args |-> <<>>]>> ELSE <<>>
<1>4. Executed(spi)' = flushed \o now
  BY <1>3 DEF CommandDone
<1>5. Pending(spi)' = IF InTable(c) = 0 THEN [cmd |-> 0, args |-> <<>>] ELSE [cmd |-> c, args |-> <<>>]
  BY DEF CommandDone
<1>6. Pending(spi) # [cmd |-> 0, args |-> <<>>] => InTable(Pending(spi).cmd) = 255
  BY <1>1, <1>2
<1> QED
  BY <1>4, <1>5, <1>6, Zenon DEF Link!Command, Link!NoCall, Link!Call, Link!Open, Pending, Executed

(* A data byte of the host is a data byte of the link; one that fills the  *)
(* buffer resets the chip, and one without a command is nothing to the     *)
(* link.                                                                   *)
LEMMA LinkData ==
  ASSUME NEW b, DataDone(spi, spi', b), SpiType(spi)
  PROVE  Link!Data(b) \/ Link!Reset \/ Link!Quiet
<1>1. /\ Args(spi) \in Seq(Bytes) /\ Len(Args(spi)) = spi.data_ndx /\ spi.data_ndx \in Nat
      /\ MAX_DATA_TXFER \in Nat
  <2>1. spi.data_ndx \in Nat /\ MAX_DATA_TXFER \in Nat
    BY SpiAssumption DEF SpiType, SpiAssumption
  <2> QED
    BY <2>1, ArgsType
<1> DEFINE sent == [cmd |-> spi.cmd, args |-> Append(Args(spi), b)]
           none == [cmd |-> 0, args |-> <<>>]
<1>2. CASE spi.cmd # 0 /\ spi.data_ndx + 1 < MAX_DATA_TXFER
  <2>1. /\ Pending(spi) # none /\ Pending(spi).args = Args(spi) /\ Pending(spi).cmd = spi.cmd
    BY <1>2 DEF Pending
  <2>2. Len(Append(Args(spi), b)) = spi.data_ndx + 1
    BY <1>1
  <2> DEFINE complete == InTable(spi.cmd) # 255 /\ Len(Append(Args(spi), b)) = InTable(spi.cmd)
  <2>3. /\ Pending(spi)' = IF complete THEN none ELSE sent
        /\ Executed(spi)' = IF complete THEN <<sent>> ELSE <<>>
    <3>1. \/ complete /\ Pending(spi)' = none /\ Executed(spi)' = <<sent>>
          \/ ~complete /\ Pending(spi)' = sent /\ Executed(spi)' = <<>>
      <4>1. ~(spi.cmd = 0 \/ spi.data_ndx + 1 >= MAX_DATA_TXFER)
        BY <1>1, <1>2
      <4>2. complete <=> InTable(spi.cmd) # 255 /\ spi.data_ndx + 1 = InTable(spi.cmd)
        BY <2>2
      <4> HIDE DEF complete
      <4> QED
        BY <4>1, <4>2, Zenon DEF DataDone
    <3> HIDE DEF complete, none, sent
    <3> QED
      BY <3>1
  <2>4. Len(Pending(spi).args) + 1 < MAX_DATA_TXFER
    BY <1>1, <1>2, <2>1
  <2>5. sent = [cmd |-> Pending(spi).cmd, args |-> Append(Pending(spi).args, b)]
    BY <2>1
  <2>6. Link!Data(b)
    BY <2>1, <2>3, <2>4, <2>5, Zenon
      DEF Link!Data, Link!NoCall, Link!Call, Link!Open, Pending, Executed
  <2> QED
    BY <2>6
<1>3. CASE spi.cmd = 0 \/ ~(spi.data_ndx + 1 < MAX_DATA_TXFER)
  <2>1. Pending(spi)' = none /\ Executed(spi)' = <<>>
    BY <1>3, Zenon DEF DataDone
  <2> QED
    BY <2>1, LinkReset
<1> QED
  BY <1>2, <1>3

(* Every step of the receiver with a polite host is one of the link, and   *)
(* leaves them agreed.                                                     *)
LEMMA LinkStep ==
  ASSUME Polite, IndInv, Agreed, [Next]_vars
  PROVE  [Link!Next]_(Link!link) /\ Agreed'
<1> USE DEF IndInv
<1>0. Good(spi) /\ SpiType(spi)
  BY DEF Good
<1>1. ASSUME NEW v \in {LOW, HIGH}, SetCS(v)
      PROVE  Link!Quiet /\ Agreed'
  <2> DEFINE t == [Ready EXCEPT !.armed = TRUE]
  <2>1. /\ t.calls = <<>> /\ t.cmd = spi.cmd /\ t.data_ndx = spi.data_ndx
        /\ t.data = spi.data /\ t.armed
    BY <1>0, Zenon DEF Ready, SpiType
  <2> HIDE DEF t
  <2>2. Executed(t) = <<>> /\ Pending(t) = Pending(spi)
    <3>1. Args(t) = Args(spi)
      BY <2>1 DEF Args
    <3> QED
      BY <2>1, <3>1, NothingExecuted DEF Pending
  <2>3. spi' = IF v = LOW THEN t ELSE Ready
    BY <1>1 DEF SetCS, on_cs_pin_change, start_spi_transfer, t
  <2>4. /\ Executed(spi') = <<>> /\ Pending(spi') = Pending(spi)
        /\ spi'.cmd = spi.cmd /\ spi'.data_ndx = spi.data_ndx /\ (v = LOW => spi'.armed)
    BY <1>0, <2>1, <2>2, <2>3, ReadyIs
  <2>5. host'.cmd = host.cmd /\ host'.sent = host.sent /\ cs' = v
    BY <1>1 DEF SetCS
  <2>6. Agreed'
    BY <2>4, <2>5 DEF Agreed
  <2> QED
    BY <2>4, <2>6, LinkQuiet
<1>2. ASSUME NEW v \in {LOW, HIGH}, SetDC(v)
      PROVE  Link!Quiet /\ Agreed'
  <2> DEFINE t == [Ready EXCEPT !.mode = v]
  <2>1. /\ t.calls = <<>> /\ t.cmd = spi.cmd /\ t.data_ndx = spi.data_ndx
        /\ t.data = spi.data
    BY <1>0, Zenon DEF Ready, SpiType
  <2>2. spi' = t
    BY <1>2 DEF SetDC, on_dc_pin_change
  <2> HIDE DEF t
  <2>3. Executed(spi') = <<>> /\ Pending(spi') = Pending(spi)
    <3>1. Args(t) = Args(spi)
      BY <2>1 DEF Args
    <3> QED
      BY <2>1, <2>2, <3>1, NothingExecuted DEF Pending
  <2>4. Agreed'
    BY <1>2, <2>1, <2>2 DEF Agreed, SetDC, LOW, HIGH
  <2> QED
    BY <2>3, <2>4, LinkQuiet
<1>3. ASSUME NEW c \in Codes, SendCommand(c)
      PROVE  Link!Command(c) /\ Agreed'
  <2>1. c \in Known \ {255} /\ HostIsDone /\ cs = LOW /\ spi.armed /\ spi.mode = LOW
    BY <1>3 DEF SendCommand, Agreed
  <2>2. spi' = OnCommandByte(Disarmed, c)
    BY <1>0, <1>3, <2>1, ReadyIs DEF SendCommand, Clock, on_spi_done, Disarmed
  <2>3. CommandDone(Disarmed, spi', c)
    BY <1>0, <2>1, <2>2, ReadyIs, CommandIsDone DEF Agreed
  <2>4. CommandDone(spi, spi', c)
    BY <1>0, <2>3, ReadyIs DEF CommandDone
  <2>5. spi.cmd # 0 => InTable(spi.cmd) = 255
    <3>1. SUFFICES ASSUME spi.cmd # 0 PROVE InTable(spi.cmd) = 255
      OBVIOUS
    <3>2. /\ spi.cmd \in Known \ {255} /\ host.cmd = spi.cmd /\ host.sent = spi.data_ndx
          /\ DataBytes(spi, spi.cmd) = InTable(spi.cmd) /\ InTable(spi.cmd) \in Nat
      BY <3>1, SheetCodes DEF Agreed
    <3>3. InTable(spi.cmd) = 255 \/ spi.data_ndx = InTable(spi.cmd)
      BY <2>1, <3>1, <3>2 DEF HostIsDone, OPEN
    <3>4. InTable(spi.cmd) = 255 \/ spi.data_ndx < InTable(spi.cmd)
      BY <1>0, <3>2 DEF Good, PendingOk, OPEN
    <3> QED
      BY <3>2, <3>3, <3>4
  <2>6. Agreed'
    <3>1. host' = [cmd |-> c, sent |-> 0, clocked |-> TRUE]
      BY <1>3 DEF SendCommand
    <3>2. spi'.cmd # 0 => spi'.cmd = c /\ spi'.data_ndx = 0
      BY <2>4 DEF CommandDone
    <3> QED
      BY <2>1, <3>1, <3>2 DEF Agreed
  <2> QED
    BY <1>0, <2>4, <2>5, <2>6, LinkCommand
<1>4. ASSUME NEW b \in Bytes, SendData(b)
      PROVE  (Link!Data(b) \/ Link!Reset \/ Link!Quiet) /\ Agreed'
  <2>1. HostMaySendData /\ cs = LOW /\ spi.armed /\ spi.mode = HIGH
    BY <1>4 DEF SendData, Agreed
  <2>2. spi' = OnDataByte(Disarmed, b)
    BY <1>0, <1>4, <2>1, ReadyIs DEF SendData, Clock, on_spi_done, Disarmed, LOW, HIGH
  <2>3. DataDone(Disarmed, spi', b)
    BY <1>0, <2>2, ReadyIs, DataIsDone DEF Agreed
  <2>4. DataDone(spi, spi', b)
    BY <1>0, <2>3, ReadyIs DEF DataDone
  <2>5. Agreed'
    <3>1. host'.cmd = host.cmd /\ host'.sent = host.sent + 1 /\ host'.clocked
      BY <1>4 DEF SendData
    <3>2. spi'.cmd # 0 => spi.cmd # 0 /\ spi'.cmd = spi.cmd /\ spi'.data_ndx = spi.data_ndx + 1
      BY <2>4 DEF DataDone
    <3> QED
      BY <3>1, <3>2 DEF Agreed
  <2> QED
    BY <1>0, <2>4, <2>5, LinkData
<1>5. CASE Reset
  <2> DEFINE t == [Ready EXCEPT !.cmd = 0, !.data_ndx = 0]
  <2>1. t.calls = <<>> /\ t.cmd = 0
    BY <1>0, Zenon DEF Ready, SpiType
  <2>2. spi' = t
    BY <1>5 DEF Reset, chip_reset
  <2> HIDE DEF t
  <2>3. Executed(spi') = <<>> /\ Pending(spi') = [cmd |-> 0, args |-> <<>>]
    BY <2>1, <2>2, NothingExecuted DEF Pending
  <2>4. Agreed'
    BY <1>5, <2>1, <2>2 DEF Agreed, Reset, LOW, HIGH
  <2> QED
    BY <2>3, <2>4, LinkReset DEF Link!Next
<1>6. CASE UNCHANGED vars
  BY <1>6 DEF vars, Agreed, Link!link
<1>7. ASSUME Link!Quiet \/ Link!Reset \/ (\E c \in Codes : Link!Command(c)) \/ (\E b \in Bytes : Link!Data(b))
      PROVE  Link!Next
  BY <1>7, Zenon DEF Link!Next
<1> QED
  BY <1>1, <1>2, <1>3, <1>4, <1>5, <1>6, <1>7 DEF Next

(* For a host that follows the data sheet, the receiver is the command     *)
(* link, whatever the codes and bytes, and whenever the chip is reset      *)
(* between two bytes: every command is executed once, in order, with the   *)
(* data sent for it, although the receiver has nothing to frame it with    *)
(* but DC, and a transfer must be armed for every byte.                    *)
THEOREM SpiImplementsLink == Polite /\ Spec => ImplementsLink
<1> SUFFICES ASSUME Polite PROVE Spec => ImplementsLink
  OBVIOUS
<1>1. Init => Link!Init /\ Agreed
  <2> SUFFICES ASSUME Init PROVE Link!Init /\ Agreed
    OBVIOUS
  <2>1. spi.cmd = 0 /\ spi.calls = <<>> /\ cs = HIGH
    BY DEF Init, chip_reset
  <2>2. Pending(spi) = [cmd |-> 0, args |-> <<>>] /\ Executed(spi) = <<>>
    BY <2>1, NothingExecuted DEF Pending
  <2>3. Link!Init
    BY <2>2, Zenon DEF Link!Init, Link!NoCall, Link!Call, Pending, Executed
  <2> QED
    BY <2>1, <2>3 DEF Agreed, LOW, HIGH
<1>2. IndInv /\ Agreed /\ [Next]_vars => [Link!Next]_(Link!link) /\ Agreed'
  BY LinkStep
<1> QED
  BY <1>1, <1>2, Invariance, PTL DEF Spec, ImplementsLink, Link!Spec
=============================================================================
