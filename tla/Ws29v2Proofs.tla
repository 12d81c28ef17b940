---------------------------- MODULE Ws29v2Proofs ----------------------------
(***************************************************************************)
(* Proofs about the whole chip: what the display engine keeps on its own   *)
(* it keeps behind the command receiver, for every host, buffer, table and *)
(* height of the display; a refresh sees the write that the byte which     *)
(* starts it has ended; the receiver works in the chip as on its own,      *)
(* whatever the handlers do; and the chip keeps its types.                 *)
(***************************************************************************)
EXTENDS Ws29v2, SequenceTheorems, TLAPS

-----------------------------------------------------------------------------
(* The invariant of the engine, of any panel a handler may be given *)

(* The fields of a panel. *)
IsPanel(p) ==
  DOMAIN p = {"version", "actMode", "busy", "sleeping", "disp_upd_seq", "cur_act_seq", "act_ndx",
              "act_scan_ndx", "timer", "frame", "black", "white"}

Selectable(p) == {Engine!activation_modes(p.version, p.actMode),
                  Engine!activation_modes(p.version, Engine!AM_IMMEDIATE_UPDATE)}

Sound(p) ==
  /\ IsPanel(p)
  /\ p.version \in Engine!Versions /\ p.actMode \in Engine!ActModes
  /\ p.act_ndx \in Nat /\ p.act_scan_ndx \in Lines /\ p.busy \in {LOW, HIGH}
  /\ p.cur_act_seq \in {<<>>} \cup Selectable(p)
  /\ Len(p.cur_act_seq) \in Nat /\ p.act_ndx <= Len(p.cur_act_seq)
  /\ IF p.timer # "off" THEN p.cur_act_seq # <<>> ELSE p.act_ndx = 0 /\ p.act_scan_ndx = 0
  /\ p.act_ndx > 0 => p.busy = HIGH
  /\ p.act_scan_ndx > 0 => /\ p.timer = "scanline" /\ p.busy = HIGH
                           /\ ~Engine!SeqEnded(p) /\ Engine!CurrentStep(p) \in Engine!ScanSteps

LEMMA SoundIsEngineSound == Sound(panel) => EngineSound
BY DEF Sound, Selectable, EngineSound, HIGH, Engine!SequenceFromTable, Engine!TimerFollowsSequence,
       Engine!BusyPastStart, Engine!ScanWithinStep, Engine!Refreshing, Engine!HIGH

(* Every sequence of the table has a step. *)
LEMMA SequencesHaveSteps ==
  ASSUME NEW v \in Engine!Versions, NEW m \in Engine!ActModes
  PROVE  Len(Engine!activation_modes(v, m)) \in Nat \ {0}
BY DEF Engine!Versions, Engine!ActModes, Engine!activation_modes, Engine!v1_act_seq,
       Engine!v1_act_seq_immediate, Engine!v1_act_seq_blink, Engine!v1_act_seq_scanline,
       Engine!v2_act_seq, Engine!v2_act_seq_immediate, Engine!v2_act_seq_scanline

LEMMA ResetSound ==
  ASSUME NEW p, Sound(p)
  PROVE  Sound(Engine!chip_reset(p))
<1> DEFINE q == Engine!chip_reset(p)
<1>1. 0 \in Lines /\ 0 \in Nat
  BY ChipAssumption DEF Lines
<1>2. /\ IsPanel(q)
      /\ q.act_ndx = 0 /\ q.act_scan_ndx = 0 /\ q.busy = LOW
      /\ q.version = p.version /\ q.actMode = p.actMode
      /\ q.cur_act_seq = p.cur_act_seq /\ q.timer = p.timer
  BY Zenon DEF Sound, IsPanel, Engine!chip_reset, LOW, Engine!LOW
<1> HIDE DEF q
<1>3. Sound(q)
  BY <1>1, <1>2 DEF Sound, Selectable
<1>q. QED
  BY <1>3 DEF q

(* What on_activation_step needs to run a step. *)
Runnable(p) ==
  /\ IsPanel(p)
  /\ p.version \in Engine!Versions /\ p.actMode \in Engine!ActModes
  /\ p.act_ndx \in Nat /\ p.act_scan_ndx \in Lines
  /\ p.cur_act_seq \in Selectable(p) /\ p.act_ndx < Len(p.cur_act_seq)
  /\ p.act_ndx > 0 => p.busy = HIGH
  /\ p.act_scan_ndx > 0 => Engine!CurrentStep(p) \in Engine!ScanSteps

LEMMA SelectableHasSteps ==
  ASSUME NEW p, p.version \in Engine!Versions, p.actMode \in Engine!ActModes,
         p.cur_act_seq \in Selectable(p)
  PROVE  Len(p.cur_act_seq) \in Nat \ {0}
<1>1. Engine!AM_IMMEDIATE_UPDATE \in Engine!ActModes
  BY DEF Engine!AM_IMMEDIATE_UPDATE, Engine!ActModes
<1>q. QED
  BY <1>1, SequencesHaveSteps DEF Selectable

LEMMA RunStepSound ==
  ASSUME NEW p, NEW r, Runnable(p)
  PROVE  Sound(Engine!RunStep(p, r))
<1> DEFINE step == Engine!CurrentStep(p)
           scan == Engine!ScanAfter(p, step)
           same == step \in Engine!ScanSteps /\ scan > 0
           q == Engine!RunStep(p, r)
<1>1. Len(p.cur_act_seq) \in Nat \ {0} /\ Height \in Nat \ {0}
  BY SelectableHasSteps, ChipAssumption DEF Runnable
<1>2. scan \in Lines /\ (scan > 0 => step \in Engine!ScanSteps)
  BY <1>1 DEF Runnable, Engine!ScanAfter, Lines
<1>3. /\ IsPanel(q)
      /\ q.version = p.version /\ q.actMode = p.actMode /\ q.cur_act_seq = p.cur_act_seq
      /\ q.act_scan_ndx = scan
      /\ q.busy = IF p.act_ndx = 0 THEN HIGH ELSE p.busy
      /\ q.act_ndx = IF same THEN p.act_ndx ELSE p.act_ndx + 1
      /\ q.timer = IF same THEN "scanline" ELSE "step"
  BY Zenon DEF Runnable, IsPanel, Engine!RunStep, HIGH, Engine!HIGH
<1> HIDE DEF q, scan, same, step
<1>4. q.busy = HIGH
  BY <1>3 DEF Runnable
<1>5. Selectable(q) = Selectable(p) /\ q.cur_act_seq # <<>>
  BY <1>1, <1>3 DEF Selectable
<1>6. q.act_ndx \in Nat /\ q.act_ndx <= Len(p.cur_act_seq)
  BY <1>1, <1>3 DEF Runnable
<1>7. q.act_scan_ndx > 0 => same
  BY <1>2, <1>3 DEF same
<1>8. same => ~Engine!SeqEnded(q) /\ Engine!CurrentStep(q) = step /\ step \in Engine!ScanSteps
  BY <1>1, <1>3 DEF same, step, Runnable, Engine!SeqEnded, Engine!CurrentStep
<1>9. q.timer # "off" /\ (same => q.timer = "scanline")
  BY <1>3
<1>q. QED
  BY <1>1, <1>2, <1>3, <1>4, <1>5, <1>6, <1>7, <1>8, <1>9 DEF Sound, Runnable, q

LEMMA SelectedSound ==
  ASSUME NEW p
  PROVE  Engine!SelectedSeq(p) \in Selectable(p)
BY DEF Engine!SelectedSeq, Selectable

LEMMA MasterActivationSound ==
  ASSUME NEW p, NEW r, Sound(p)
  PROVE  Sound(Engine!on_cmd_master_activation(p, r))
<1> DEFINE q == [p EXCEPT !.act_ndx = 0, !.act_scan_ndx = 0,
                          !.cur_act_seq = Engine!SelectedSeq(p)]
<1>1. /\ IsPanel(q)
      /\ q.version = p.version /\ q.actMode = p.actMode
      /\ q.act_ndx = 0 /\ q.act_scan_ndx = 0 /\ q.cur_act_seq = Engine!SelectedSeq(p)
  BY Zenon DEF Sound, IsPanel
<1>2. Engine!on_cmd_master_activation(p, r) = Engine!on_activation_step(q, r)
  BY DEF Engine!on_cmd_master_activation
<1> HIDE DEF q
<1>3. q.cur_act_seq \in Selectable(q)
  BY <1>1, SelectedSound DEF Selectable
<1>4. Len(q.cur_act_seq) \in Nat \ {0}
  BY <1>1, <1>3, SelectableHasSteps DEF Sound
<1>5. 0 \in Lines
  BY ChipAssumption DEF Lines
<1>6. Runnable(q) /\ ~Engine!SeqEnded(q)
  BY <1>1, <1>3, <1>4, <1>5 DEF Sound, Runnable, Engine!SeqEnded
<1>q. QED
  BY <1>2, <1>6, RunStepSound DEF Engine!on_activation_step

(* The timer's callback, started from a running timer. *)
LEMMA TimerSound ==
  ASSUME NEW p, NEW r, Sound(p), p.timer # "off"
  PROVE  Sound(Engine!on_activation_step([p EXCEPT !.timer = "off"], r))
<1> DEFINE q == [p EXCEPT !.timer = "off"]
<1>1. /\ IsPanel(q)
      /\ q.version = p.version /\ q.actMode = p.actMode /\ q.busy = p.busy
      /\ q.act_ndx = p.act_ndx /\ q.act_scan_ndx = p.act_scan_ndx
      /\ q.cur_act_seq = p.cur_act_seq /\ q.timer = "off"
  BY Zenon DEF Sound, IsPanel
<1> HIDE DEF q
<1>2. CASE Engine!SeqEnded(q)
  <2> DEFINE e == Engine!EndActivation(q)
  <2>1. /\ IsPanel(e)
        /\ e.version = q.version /\ e.actMode = q.actMode
        /\ e.act_ndx = 0 /\ e.act_scan_ndx = q.act_scan_ndx
        /\ e.cur_act_seq = q.cur_act_seq /\ e.timer = "off" /\ e.busy = LOW
    BY <1>1, Zenon DEF IsPanel, Engine!EndActivation, LOW, Engine!LOW
  <2>2. q.act_scan_ndx = 0
    BY <1>1, <1>2 DEF Sound, Lines, Engine!SeqEnded, Engine!CurrentStep
  <2> HIDE DEF e
  <2>3. Sound(e)
    BY <1>1, <2>1, <2>2 DEF Sound, Selectable
  <2>q. QED
    BY <1>2, <2>3 DEF Engine!on_activation_step, e, q
<1>3. CASE ~Engine!SeqEnded(q)
  <2>1. q.cur_act_seq \in Selectable(q)
    BY <1>1 DEF Sound, Selectable
  <2>2. q.act_ndx < Len(q.cur_act_seq)
    BY <1>1, <1>3 DEF Sound, Engine!SeqEnded
  <2>3. q.act_scan_ndx > 0 => Engine!CurrentStep(q) \in Engine!ScanSteps
    BY <1>1 DEF Sound, Engine!CurrentStep
  <2>4. Runnable(q)
    BY <1>1, <2>1, <2>2, <2>3 DEF Sound, Runnable
  <2>q. QED
    BY <1>3, <2>4, RunStepSound DEF Engine!on_activation_step, q
<1>q. QED
  BY <1>2, <1>3

LEMMA DeepSleepSound ==
  ASSUME NEW p, NEW d, Sound(p)
  PROVE  Sound(Engine!on_cmd_deep_sleep(p, d))
<1> DEFINE q == Engine!on_cmd_deep_sleep(p, d)
<1>1. /\ IsPanel(q)
      /\ q.version = p.version /\ q.actMode = p.actMode /\ q.busy \in {p.busy, HIGH}
      /\ q.act_ndx = p.act_ndx /\ q.act_scan_ndx = p.act_scan_ndx
      /\ q.cur_act_seq = p.cur_act_seq /\ q.timer = p.timer
  <2>1. CASE d % 4 = 1
    BY <2>1, Zenon DEF Sound, IsPanel, Engine!on_cmd_deep_sleep, HIGH, Engine!HIGH
  <2>2. CASE d % 4 # 1
    BY <2>2, Zenon DEF Sound, IsPanel, Engine!on_cmd_deep_sleep
  <2>q. QED
    BY <2>1, <2>2
<1> HIDE DEF q
<1>q. QED
  BY <1>1 DEF Sound, Selectable, Engine!SeqEnded, Engine!CurrentStep, q

LEMMA DispUpdCtl2Sound ==
  ASSUME NEW p, NEW d, Sound(p)
  PROVE  Sound(Engine!on_cmd_disp_upd_ctl2(p, d))
<1> DEFINE q == Engine!on_cmd_disp_upd_ctl2(p, d)
<1>1. /\ IsPanel(q)
      /\ q.version = p.version /\ q.actMode = p.actMode /\ q.busy = p.busy
      /\ q.act_ndx = p.act_ndx /\ q.act_scan_ndx = p.act_scan_ndx
      /\ q.cur_act_seq = p.cur_act_seq /\ q.timer = p.timer
  BY Zenon DEF Sound, IsPanel, Engine!on_cmd_disp_upd_ctl2
<1> HIDE DEF q
<1>q. QED
  BY <1>1 DEF Sound, Selectable, Engine!SeqEnded, Engine!CurrentStep, q

-----------------------------------------------------------------------------
(* The chip: whatever the receiver calls, and however it is called *)

Good(c) == DOMAIN c = {"spi", "mem", "panel"} /\ Sound(c.panel)

LEMMA ReceiverGood ==
  ASSUME NEW c, NEW x, Good(c)
  PROVE  Good([c EXCEPT !.spi = x])
BY Zenon DEF Good

LEMMA ChipResetGood ==
  ASSUME NEW c, Good(c)
  PROVE  Good(chip_reset(c))
<1>1. Sound(Engine!chip_reset(c.panel))
  BY ResetSound DEF Good
<1>2. chip_reset(c).panel = Engine!chip_reset(c.panel)
  BY Zenon DEF chip_reset
<1>3. DOMAIN chip_reset(c) = {"spi", "mem", "panel"}
  BY Zenon DEF chip_reset
<1>q. QED
  BY <1>1, <1>2, <1>3 DEF Good

LEMMA EngineHandlerSound ==
  ASSUME NEW p, NEW m, NEW call, NEW d, Sound(p)
  PROVE  Sound(EngineHandler(p, m, call, d))
BY DeepSleepSound, MasterActivationSound, DispUpdCtl2Sound DEF EngineHandler

LEMMA HandlerGood ==
  ASSUME NEW c, NEW call, Good(c)
  PROVE  Good(handler(c, call))
<1>1. CASE call.cmd = CMD_SW_RESET
  BY <1>1, ChipResetGood DEF handler
<1>2. CASE call.cmd # CMD_SW_RESET
  <2> DEFINE p == EngineHandler(c.panel, c.mem, call, c.spi.data)
             q == [c EXCEPT !.panel = p, !.mem = RamHandler(@, call, c.spi.data)]
  <2>1. Sound(p)
    BY EngineHandlerSound DEF Good
  <2> HIDE DEF p
  <2>2. q.panel = p /\ DOMAIN q = DOMAIN c
    BY Zenon DEF Good
  <2>3. handler(c, call) = q
    BY <1>2, Zenon DEF handler, p
  <2> HIDE DEF q
  <2>q. QED
    BY <2>1, <2>2, <2>3 DEF Good
<1>q. QED
  BY <1>1, <1>2

LEMMA HandleAllGood ==
  ASSUME NEW c, NEW calls, Good(c)
  PROVE  Good(HandleAll(c, calls))
BY HandlerGood DEF HandleAll

LEMMA ReceiveGood ==
  ASSUME NEW c, NEW byte, Good(c)
  PROVE  Good(Receive(c, byte))
BY ReceiverGood, ChipResetGood, HandleAllGood DEF Receive

-----------------------------------------------------------------------------
(* The specification *)

LEMMA InitSound ==
  ASSUME Init
  PROVE  Sound(panel)
<1>1. PICK v \in Engine!Versions, m \in Engine!ActModes, b \in Engine!HeapImages,
           w \in Engine!HeapImages :
        panel = Engine!chip_reset([version |-> v, actMode |-> m, busy |-> Engine!LOW,
                  sleeping |-> FALSE, disp_upd_seq |-> 0, cur_act_seq |-> <<>>, act_ndx |-> 0,
                  act_scan_ndx |-> 0, timer |-> "off", frame |-> b, black |-> b, white |-> w])
  BY DEF Init, Engine!Init
<1>2. /\ IsPanel(panel)
      /\ panel.version = v /\ panel.actMode = m
      /\ panel.act_ndx = 0 /\ panel.act_scan_ndx = 0
      /\ panel.cur_act_seq = <<>> /\ panel.timer = "off" /\ panel.busy = LOW
  BY <1>1, Zenon DEF IsPanel, Engine!chip_reset, LOW, Engine!LOW
<1>3. 0 \in Lines
  BY ChipAssumption DEF Lines
<1>q. QED
  BY <1>2, <1>3 DEF Sound

LEMMA ChipGood ==
  ASSUME Sound(panel)
  PROVE  Good(Chip)
<1>1. Chip.panel = panel /\ DOMAIN Chip = {"spi", "mem", "panel"}
  BY Zenon DEF Chip
<1>q. QED
  BY <1>1 DEF Good

LEMMA StepSound ==
  ASSUME Sound(panel), [Next]_vars
  PROVE  Sound(panel')
<1>1. Good(Chip)
  BY ChipGood
<1>2. ASSUME NEW v \in {LOW, HIGH}, SetCS(v) \/ SetDC(v)
      PROVE  Sound(panel')
  BY <1>2 DEF SetCS, SetDC
<1>3. ASSUME NEW b, CommandByte(b) \/ DataByte(b)
      PROVE  Sound(panel')
  <2>1. panel' = Receive(Chip, b).panel
    BY <1>3 DEF CommandByte, DataByte, Becomes
  <2>q. QED
    BY <1>1, <2>1, ReceiveGood DEF Good
<1>4. CASE ResetPulse
  <2> DEFINE c == [Chip EXCEPT !.spi = [@ EXCEPT !.calls = <<>>]]
  <2>1. Good(c)
    BY <1>1, ReceiverGood
  <2>2. panel' = chip_reset(c).panel
    BY <1>4, Zenon DEF ResetPulse, Becomes
  <2> HIDE DEF c
  <2>q. QED
    BY <2>1, <2>2, ChipResetGood DEF Good
<1>5. CASE ActivationTimer
  <2>1. /\ panel.timer # "off"
        /\ panel' = Engine!on_activation_step([panel EXCEPT !.timer = "off"], Picture(mem))
    BY <1>5, Zenon DEF ActivationTimer, Engine!ActivationTimer
  <2>2. Sound(Engine!on_activation_step([panel EXCEPT !.timer = "off"], Picture(mem)))
    BY <2>1, TimerSound
  <2>q. QED
    BY <2>1, <2>2, Zenon
<1>6. CASE UNCHANGED vars
  BY <1>6 DEF vars
<1>q. QED
  BY <1>2, <1>3, <1>4, <1>5, <1>6 DEF Next

(* The chip behind its pins, whatever is clocked into it and whenever it   *)
(* is reset, keeps the engine as the engine keeps itself: BUSY is high     *)
(* past the start of a refresh, a line counter belongs to a scan step, and *)
(* the sequence walked is one of the table's.                              *)
THEOREM ChipKeepsEngineSound == Spec => []EngineSound
<1>1. Init => Sound(panel)
  BY InitSound
<1>2. Sound(panel) /\ [Next]_vars => Sound(panel)'
  BY StepSound DEF Sound, IsPanel, Selectable
<1>3. Sound(panel) => EngineSound
  BY SoundIsEngineSound
<1>q. QED
  BY <1>1, <1>2, <1>3, PTL DEF Spec

-----------------------------------------------------------------------------
(* A write and the refresh that ends it, in one callback *)

(* The fields of the receiver. *)
IsReceiver(s) ==
  DOMAIN s = {"cmd", "data_ndx", "data", "mode", "armed", "beyond", "calls", "runs"}

(* What a command byte calls: the handler of the command it flushes, if    *)
(* any, and its own, if its command takes no data.                         *)
LEMMA CallsOfCommandByte ==
  ASSUME NEW s, IsReceiver(s), s.calls = <<>>, NEW b,
         CallsOf(Rx!OnCommandByte(s, b)) # {}
  PROVE  LET t == Rx!OnCommandByte(s, b)
         IN  \/ Len(t.calls) = 1
             \/ /\ Len(t.calls) = 2 /\ t.calls[1].cmd = s.cmd /\ t.calls[2].cmd = b
                /\ Rx!DataBytes(s, b) = 0
<1> DEFINE first == [cmd |-> s.cmd, args |-> Rx!Args(s), nth |-> s.runs + 1]
           f == IF s.data_ndx > 0 THEN Rx!on_command(s) ELSE s
           r == [f EXCEPT !.cmd = b, !.data_ndx = 0, !.runs = 0]
           w == [r EXCEPT !.armed = TRUE]
           t == Rx!OnCommandByte(s, b)
           second == [cmd |-> r.cmd, args |-> Rx!Args(r), nth |-> r.runs + 1]
           u == [r EXCEPT !.calls = Append(@, second), !.runs = @ + 1, !.data_ndx = 0, !.cmd = 0]
<1>1. t = IF Rx!DataBytes(f, b) # 0 THEN w ELSE Rx!on_command(r)
  BY Zenon DEF Rx!OnCommandByte, Rx!on_spi_command_byte, Rx!start_spi_transfer
<1>2. /\ IsReceiver(f) /\ f.beyond = s.beyond
      /\ f.calls = <<>> \/ f.calls = Append(<<>>, first)
  <2>1. Rx!on_command(s) = IF s.cmd \in Rx!Known
                           THEN [s EXCEPT !.calls = Append(@, first), !.runs = @ + 1,
                                          !.data_ndx = 0, !.cmd = 0]
                           ELSE s
    BY Zenon DEF Rx!on_command
  <2> HIDE DEF first
  <2> QED
    BY <2>1, Zenon DEF IsReceiver
<1> HIDE DEF f
<1>3. /\ r.calls = f.calls /\ w.calls = f.calls /\ r.cmd = b /\ IsReceiver(r)
  BY <1>2, Zenon DEF IsReceiver
<1> HIDE DEF r, w
<1>4. u.calls = Append(f.calls, second) /\ second.cmd = b
  BY <1>3, Zenon DEF IsReceiver
<1>5. Rx!on_command(r) = IF r.cmd \in Rx!Known THEN u ELSE r
  BY Zenon DEF Rx!on_command
<1>6. Rx!DataBytes(f, b) = Rx!DataBytes(s, b)
  BY <1>2 DEF Rx!DataBytes
<1>7. first.cmd = s.cmd
  OBVIOUS
<1> HIDE DEF u, first, second, t
<1>8. t.calls \in {f.calls, Append(f.calls, second)}
      /\ (t.calls # f.calls => Rx!DataBytes(s, b) = 0)
  BY <1>1, <1>3, <1>4, <1>5, <1>6
<1>9. t.calls # <<>>
  BY DEF CallsOf, t
<1>10. CASE f.calls = <<>>
  <2>1. t.calls = <<second>>
    BY <1>8, <1>9, <1>10
  <2> QED
    BY <2>1 DEF t
<1>11. CASE f.calls = Append(<<>>, first)
  <2>1. f.calls = <<first>> /\ f.calls \in Seq({first, second})
    <3>1. Append(<<>>, first) = <<first>>
      OBVIOUS
    <3> QED
      BY <1>11, <3>1
  <2>2. CASE t.calls = f.calls
    BY <2>1, <2>2 DEF t
  <2>3. CASE t.calls # f.calls
    <3>1. t.calls = Append(f.calls, second) /\ Rx!DataBytes(s, b) = 0
      BY <1>8, <2>3
    <3>2. Len(f.calls) = 1 /\ f.calls[1] = first
      BY <2>1
    <3>3. Len(t.calls) = 2 /\ t.calls[1] = first /\ t.calls[2] = second
      BY <2>1, <3>1, <3>2
    <3> QED
      BY <1>4, <1>7, <3>1, <3>3 DEF t
  <2> QED
    BY <2>2, <2>3
<1> QED
  BY <1>2, <1>10, <1>11

(* Master activation, in a step that walks the whole frame, paints it from *)
(* the RAM it is given.                                                    *)
LEMMA ActivationPaints ==
  ASSUME NEW p, NEW r, Sound(p)
  PROVE  LET q == Engine!on_cmd_master_activation(p, r)
             done == IF q.timer = "step" /\ q.act_ndx > 0 THEN q.cur_act_seq[q.act_ndx] ELSE "none"
         IN  done \in Engine!WalkSteps
             => q.frame = [l \in Lines |-> Engine!StepPixel(q, r, done, l)]
<1> DEFINE a == [p EXCEPT !.act_ndx = 0, !.act_scan_ndx = 0, !.cur_act_seq = Engine!SelectedSeq(p)]
           step == Engine!CurrentStep(a)
           q == Engine!RunStep(a, r)
           done == IF q.timer = "step" /\ q.act_ndx > 0 THEN q.cur_act_seq[q.act_ndx] ELSE "none"
<1>1. /\ IsPanel(a)
      /\ a.version = p.version /\ a.actMode = p.actMode
      /\ a.act_ndx = 0 /\ a.act_scan_ndx = 0 /\ a.cur_act_seq = Engine!SelectedSeq(p)
  BY Zenon DEF Sound, IsPanel
<1> HIDE DEF a
<1>2. a.cur_act_seq \in Selectable(a)
  BY <1>1, SelectedSound DEF Selectable
<1>3. Len(a.cur_act_seq) \in Nat \ {0}
  BY <1>1, <1>2, SelectableHasSteps DEF Sound
<1>4. Engine!on_cmd_master_activation(p, r) = q
  BY <1>1, <1>3 DEF Engine!on_cmd_master_activation, Engine!on_activation_step, Engine!SeqEnded, a
<1>5. /\ q.cur_act_seq = a.cur_act_seq /\ q.frame = Engine!Paint(a, r, step)
      /\ \/ q.timer = "scanline"
         \/ q.act_ndx = a.act_ndx + 1
  BY <1>1, Zenon DEF IsPanel, Engine!RunStep
<1> HIDE DEF q
<1>6. SUFFICES ASSUME done \in Engine!WalkSteps
               PROVE  q.frame = [l \in Lines |-> Engine!StepPixel(q, r, done, l)]
  BY <1>4, Zenon
<1>7. q.timer = "step"
  BY <1>6 DEF Engine!WalkSteps
<1>8. done = step
  BY <1>1, <1>5, <1>7 DEF Engine!CurrentStep
<1> HIDE DEF done, step
<1>9. step \notin Engine!ScanSteps
  BY <1>6, <1>8 DEF Engine!WalkSteps, Engine!ScanSteps
<1>10. Engine!PaintedLines(a, step) = Lines
  BY <1>1, <1>6, <1>8, <1>9 DEF Engine!PaintedLines, Lines
<1>11. \A l : Engine!StepPixel(a, r, step, l) = Engine!StepPixel(q, r, step, l)
  BY <1>6, <1>8 DEF Engine!StepPixel, Engine!WalkSteps
<1>12. q.frame = [l \in Lines |-> Engine!StepPixel(a, r, step, l)]
  BY <1>5, <1>10 DEF Engine!Paint, Engine!Lines, Lines
<1> QED
  BY <1>8, <1>11, <1>12

(* A receiver keeps its fields whatever it is sent. *)
LEMMA ReceiverKept ==
  ASSUME NEW s, IsReceiver(s), NEW b
  PROVE  /\ IsReceiver(Rx!on_spi_done(s, b)) /\ IsReceiver(Rx!chip_reset(s))
         /\ IsReceiver([s EXCEPT !.calls = <<>>]) /\ IsReceiver([s EXCEPT !.armed = FALSE])
         /\ IsReceiver([s EXCEPT !.armed = TRUE]) /\ IsReceiver([s EXCEPT !.mode = b])
<1>1. ASSUME NEW r, IsReceiver(r)
      PROVE  IsReceiver(Rx!on_command(r)) /\ IsReceiver(Rx!chip_reset(r))
  BY <1>1, Zenon DEF IsReceiver, Rx!on_command, Rx!chip_reset
<1>2. ASSUME NEW r, IsReceiver(r)
      PROVE  IsReceiver(Rx!on_spi_command_byte(r, b))
  <2> DEFINE q == [r EXCEPT !.cmd = b, !.data_ndx = 0, !.runs = 0]
  <2>1. IsReceiver(q) /\ IsReceiver([q EXCEPT !.armed = TRUE])
    BY <1>2, Zenon DEF IsReceiver
  <2>2. Rx!on_spi_command_byte(r, b)
          = IF Rx!DataBytes(r, b) # 0 THEN [q EXCEPT !.armed = TRUE] ELSE Rx!on_command(q)
    BY Zenon DEF Rx!on_spi_command_byte, Rx!start_spi_transfer
  <2> HIDE DEF q
  <2> QED
    BY <1>1, <2>1, <2>2
<1>3. IsReceiver(Rx!OnCommandByte(s, b))
  BY <1>1, <1>2 DEF Rx!OnCommandByte
<1>4. IsReceiver(Rx!OnDataByte(s, b))
  <2> DEFINE q == [s EXCEPT !.data[s.data_ndx + 1] = b, !.data_ndx = @ + 1]
  <2>1. IsReceiver(q)
    BY Zenon DEF IsReceiver
  <2>2. Rx!OnDataByte(s, b) \in {Rx!chip_reset(q), q, Rx!on_command(q)}
    BY Zenon DEF Rx!OnDataByte
  <2> HIDE DEF q
  <2> QED
    BY <1>1, <2>1, <2>2
<1>5. IsReceiver(Rx!on_spi_done(s, b))
  BY <1>3, <1>4 DEF Rx!on_spi_done
<1>6. /\ IsReceiver([s EXCEPT !.calls = <<>>]) /\ IsReceiver([s EXCEPT !.armed = FALSE])
      /\ IsReceiver([s EXCEPT !.armed = TRUE]) /\ IsReceiver([s EXCEPT !.mode = b])
  BY Zenon DEF IsReceiver
<1> QED
  BY <1>1, <1>5, <1>6

(* What a completed transfer makes of the receiver, whatever the handlers  *)
(* do to the rest of the chip.                                             *)
LEMMA ReceiveSpi ==
  ASSUME NEW c, NEW byte, Good(c)
  PROVE  LET s == [c.spi EXCEPT !.calls = <<>>]
         IN  Receive(c, byte).spi = IF s.armed THEN Rx!on_spi_done([s EXCEPT !.armed = FALSE], byte)
                                               ELSE s
<1> DEFINE s == [c.spi EXCEPT !.calls = <<>>]
           x == Rx!on_spi_done([s EXCEPT !.armed = FALSE], byte)
           received == [c EXCEPT !.spi = x]
<1>1. Good(received)
  BY ReceiverGood
<1>2. /\ Good(chip_reset(received)) /\ Good(HandleAll(received, received.spi.calls))
  BY <1>1, ChipResetGood, HandleAllGood
<1>3. ASSUME NEW d, Good(d), NEW y
      PROVE  [d EXCEPT !.spi = y].spi = y
  BY <1>3, Zenon DEF Good
<1>4. received.spi = x
  BY <1>3
<1>5. Receive(c, byte) = IF ~s.armed THEN [c EXCEPT !.spi = s]
                         ELSE IF Overflows(s) THEN [chip_reset(received) EXCEPT !.spi = received.spi]
                         ELSE [HandleAll(received, received.spi.calls) EXCEPT !.spi = received.spi]
  BY Zenon DEF Receive
<1> HIDE DEF s, x, received
<1>6. Receive(c, byte).spi = IF s.armed THEN x ELSE s
  BY <1>2, <1>3, <1>4, <1>5
<1> QED
  BY <1>6 DEF x, s

(* The receiver has its fields in every state. *)
LEMMA ReceiverStep ==
  ASSUME Sound(panel), IsReceiver(spi), [Next]_vars
  PROVE  IsReceiver(spi')
<1> DEFINE s == [spi EXCEPT !.calls = <<>>]
<1>1. IsReceiver(s)
  BY ReceiverKept
<1>2. Good(Chip) /\ Chip.spi = spi
  <2>1. Chip.spi = spi
    BY Zenon DEF Chip
  <2> QED
    BY <2>1, ChipGood
<1>3. ASSUME NEW v \in {LOW, HIGH}, SetCS(v) \/ SetDC(v)
      PROVE  IsReceiver(spi')
  <2>1. spi' \in {s, [s EXCEPT !.armed = TRUE], [s EXCEPT !.mode = v]}
    BY <1>3, Zenon DEF SetCS, SetDC, Rx!SetCS, Rx!SetDC, Rx!Ready, Rx!on_cs_pin_change,
                Rx!on_dc_pin_change, Rx!start_spi_transfer
  <2> HIDE DEF s
  <2>2. IsReceiver([s EXCEPT !.armed = TRUE]) /\ IsReceiver([s EXCEPT !.mode = v])
    BY <1>1, ReceiverKept
  <2> QED
    BY <1>1, <2>1, <2>2, Zenon
<1>4. ASSUME NEW b, CommandByte(b) \/ DataByte(b)
      PROVE  IsReceiver(spi')
  <2>1. spi' = Receive(Chip, b).spi
    BY <1>4 DEF CommandByte, DataByte, Becomes
  <2>2. spi' = IF s.armed THEN Rx!on_spi_done([s EXCEPT !.armed = FALSE], b) ELSE s
    BY <1>2, <2>1, ReceiveSpi, Zenon
  <2> HIDE DEF s
  <2> QED
    BY <1>1, <2>2, ReceiverKept
<1>5. CASE ResetPulse
  <2> DEFINE c == [Chip EXCEPT !.spi = [@ EXCEPT !.calls = <<>>]]
  <2>1. c.spi = s
    BY <1>2, Zenon DEF Good
  <2>2. chip_reset(c).spi = Rx!chip_reset(c.spi)
    BY Zenon DEF chip_reset
  <2>3. spi' = chip_reset(c).spi
    BY <1>5, Zenon DEF ResetPulse, Becomes
  <2> HIDE DEF c, s
  <2> QED
    BY <1>1, <2>1, <2>2, <2>3, ReceiverKept
<1>6. CASE UNCHANGED spi
  BY <1>6
<1> QED
  BY <1>3, <1>4, <1>5, <1>6 DEF Next, vars, ActivationTimer

(* The handler of a RAM write leaves the engine alone. *)
LEMMA WriteHandler ==
  ASSUME NEW c, Good(c), NEW call, call.cmd \in {CMD_WRITE_RAM_BW, CMD_WRITE_RAM_COLOR}
  PROVE  handler(c, call).panel = c.panel
<1> DEFINE p == EngineHandler(c.panel, c.mem, call, c.spi.data)
<1>1. p = c.panel
  BY DEF EngineHandler, CMD_WRITE_RAM_BW, CMD_WRITE_RAM_COLOR, CMD_DEEP_SLEEP,
         CMD_MASTER_ACTIVATION, CMD_DISP_UPD_CTL2
<1>2. call.cmd # CMD_SW_RESET
  BY DEF CMD_WRITE_RAM_BW, CMD_WRITE_RAM_COLOR, CMD_SW_RESET
<1>3. handler(c, call) = [c EXCEPT !.panel = p, !.mem = RamHandler(@, call, c.spi.data)]
  BY <1>2, Zenon DEF handler
<1> HIDE DEF p
<1> QED
  BY <1>1, <1>3, Zenon DEF Good

(* That of a master activation leaves the RAM alone, and starts the        *)
(* refresh from it.                                                        *)
LEMMA ActivationHandler ==
  ASSUME NEW c, Good(c), NEW call, call.cmd = CMD_MASTER_ACTIVATION
  PROVE  /\ handler(c, call).mem = c.mem
         /\ handler(c, call).panel = Engine!on_cmd_master_activation(c.panel, Picture(c.mem))
<1> DEFINE p == EngineHandler(c.panel, c.mem, call, c.spi.data)
           m == RamHandler(c.mem, call, c.spi.data)
           a == Engine!on_cmd_master_activation(c.panel, Picture(c.mem))
<1>1. p = a
  <2> HIDE DEF a
  <2>1. EngineHandler(c.panel, c.mem, call, c.spi.data)
          = CASE call.cmd = CMD_DEEP_SLEEP -> Engine!on_cmd_deep_sleep(c.panel, c.spi.data[1])
              [] call.cmd = CMD_MASTER_ACTIVATION -> a
              [] call.cmd = CMD_DISP_UPD_CTL2 -> Engine!on_cmd_disp_upd_ctl2(c.panel, c.spi.data[1])
              [] OTHER -> c.panel
    BY Zenon DEF EngineHandler, a
  <2> QED
    BY <2>1 DEF CMD_DEEP_SLEEP, CMD_MASTER_ACTIVATION, CMD_DISP_UPD_CTL2
<1>2. m = c.mem
  BY DEF RamHandler, CMD_MASTER_ACTIVATION, CMD_DATA_ENTRY_MODE, CMD_WRITE_RAM_BW,
         CMD_WRITE_RAM_COLOR, CMD_WRITE_RAM_X_COORDS, CMD_WRITE_RAM_Y_COORDS,
         CMD_WRITE_RAM_X_ADDR_CTR, CMD_WRITE_RAM_Y_ADDR_CTR
<1>3. call.cmd # CMD_SW_RESET
  BY DEF CMD_MASTER_ACTIVATION, CMD_SW_RESET
<1>4. handler(c, call) = [c EXCEPT !.panel = p, !.mem = m]
  BY <1>3, Zenon DEF handler
<1> HIDE DEF p, m, a
<1>5. handler(c, call).mem = m /\ handler(c, call).panel = p
  BY <1>4, Zenon DEF Good
<1> QED
  BY <1>1, <1>2, <1>5, Zenon DEF a

(* The callback of a command byte that calls a RAM write and a master      *)
(* activation: the write is the one flushed, and it is run first.          *)
LEMMA FlushThenRefresh ==
  ASSUME Sound(panel), IsReceiver(spi), NEW b, CommandByte(b),
         NEW write \in {CMD_WRITE_RAM_BW, CMD_WRITE_RAM_COLOR},
         CallsOf(spi') = {write, CMD_MASTER_ACTIVATION}
  PROVE  panel' = Engine!on_cmd_master_activation(panel, Picture(mem'))
<1> DEFINE s == [spi EXCEPT !.calls = <<>>]
           d == [s EXCEPT !.armed = FALSE]
           t == Rx!OnCommandByte(d, b)
<1>1. /\ IsReceiver(s) /\ IsReceiver(d) /\ s.calls = <<>> /\ d.calls = <<>>
      /\ s.mode = LOW /\ d.mode = LOW
  <2>1. spi.mode = LOW
    BY DEF CommandByte
  <2> QED
    BY <2>1, ReceiverKept, Zenon DEF IsReceiver
<1>2. Good(Chip) /\ Chip.spi = spi /\ Chip.panel = panel /\ Chip.mem = mem
  <2>1. Chip.spi = spi /\ Chip.panel = panel /\ Chip.mem = mem
    BY Zenon DEF Chip
  <2> QED
    BY <2>1, ChipGood
<1>3. Rx!on_spi_done(d, b) = t
  <2> HIDE DEF d, s
  <2> QED
    BY <1>1 DEF Rx!on_spi_done, LOW, Rx!LOW
<1>4. spi' = IF s.armed THEN t ELSE s
  <2>1. spi' = Receive(Chip, b).spi
    BY DEF CommandByte, Becomes
  <2>2. spi' = IF s.armed THEN Rx!on_spi_done(d, b) ELSE s
    BY <1>2, <2>1, ReceiveSpi, Zenon
  <2> QED
    BY <1>3, <2>2, Zenon
<1> HIDE DEF s, d
<1>5. s.armed /\ spi' = t
  <2>1. CallsOf(s) = {}
    BY <1>1 DEF CallsOf
  <2> HIDE DEF t
  <2> QED
    BY <1>4, <2>1
<1>6. CallsOf(t) = {write, CMD_MASTER_ACTIVATION} /\ write # CMD_MASTER_ACTIVATION
  BY <1>5 DEF CMD_WRITE_RAM_BW, CMD_WRITE_RAM_COLOR, CMD_MASTER_ACTIVATION
<1>7. \/ Len(t.calls) = 1
      \/ /\ Len(t.calls) = 2 /\ t.calls[1].cmd = d.cmd /\ t.calls[2].cmd = b
         /\ Rx!DataBytes(d, b) = 0
  BY <1>1, <1>6, CallsOfCommandByte
<1>8. Rx!DataBytes(d, write) # 0
  BY DEF Rx!DataBytes, Rx!InTable, Rx!TableSize, Rx!cmd_data_bytes, CMD_WRITE_RAM_BW,
         CMD_WRITE_RAM_COLOR
<1> HIDE DEF t
<1>9. DOMAIN t.calls = 1 .. Len(t.calls)
  OBVIOUS
<1>10. /\ Len(t.calls) = 2 /\ t.calls[1].cmd = write
       /\ t.calls[2].cmd = CMD_MASTER_ACTIVATION
  <2>1. CASE Len(t.calls) = 1
    <3>1. CallsOf(t) = {t.calls[1].cmd}
      BY <1>9, <2>1 DEF CallsOf
    <3> QED
      BY <1>6, <3>1
  <2>2. CASE Len(t.calls) = 2
    <3>1. CallsOf(t) = {t.calls[1].cmd, t.calls[2].cmd}
      BY <1>9, <2>2 DEF CallsOf
    <3>2. t.calls[2].cmd = b /\ Rx!DataBytes(d, b) = 0
      BY <1>7, <2>2
    <3>3. b # write
      BY <1>8, <3>2
    <3> QED
      BY <1>6, <2>2, <3>1, <3>2, <3>3
  <2> QED
    BY <1>7, <2>1, <2>2
<1> DEFINE received == [Chip EXCEPT !.spi = t]
           all == HandleAll(received, received.spi.calls)
           h1 == handler(received, t.calls[1])
           h2 == handler(h1, t.calls[2])
<1>11. Good(received) /\ received.spi = t /\ received.panel = panel
  <2>1. Good(received)
    BY <1>2, ReceiverGood
  <2>2. received.spi = t /\ received.panel = panel
    BY <1>2, Zenon DEF Good
  <2> QED
    BY <2>1, <2>2
<1>12. ~Overflows(s)
  BY <1>1 DEF Overflows, LOW, HIGH
<1>13. Receive(Chip, b) = [all EXCEPT !.spi = received.spi]
  <2> DEFINE got == [Chip EXCEPT !.spi = Rx!on_spi_done(d, b)]
             s0 == [Chip.spi EXCEPT !.calls = <<>>]
             got0 == [Chip EXCEPT !.spi = Rx!on_spi_done([s0 EXCEPT !.armed = FALSE], b)]
  <2>1. Receive(Chip, b) = IF ~s0.armed THEN [Chip EXCEPT !.spi = s0]
                           ELSE IF Overflows(s0) THEN [chip_reset(got0) EXCEPT !.spi = got0.spi]
                           ELSE [HandleAll(got0, got0.spi.calls) EXCEPT !.spi = got0.spi]
    BY Zenon DEF Receive
  <2>2. s0 = s
    BY <1>2, Zenon DEF s
  <2>3. got0 = got
    BY <2>2, Zenon DEF d
  <2> HIDE DEF s0, got0, got
  <2>4. Receive(Chip, b) = IF ~s.armed THEN [Chip EXCEPT !.spi = s]
                           ELSE IF Overflows(s) THEN [chip_reset(got) EXCEPT !.spi = got.spi]
                           ELSE [HandleAll(got, got.spi.calls) EXCEPT !.spi = got.spi]
    BY <2>1, <2>2, <2>3, Zenon
  <2>5. got = received
    BY <1>3, Zenon DEF got
  <2> HIDE DEF received
  <2> QED
    BY <1>5, <1>12, <2>4, <2>5, Zenon
<1> HIDE DEF received
<1>14. all = h2
  BY <1>10, <1>11 DEF HandleAll
<1>15. Good(h1) /\ h1.panel = panel
  BY <1>10, <1>11, WriteHandler, HandlerGood
<1> HIDE DEF h1
<1>16. /\ Good(h2) /\ h2.mem = h1.mem
       /\ h2.panel = Engine!on_cmd_master_activation(panel, Picture(h1.mem))
  BY <1>10, <1>15, ActivationHandler, HandlerGood
<1> HIDE DEF h2, all
<1>17. mem' = h2.mem /\ panel' = h2.panel
  <2>1. mem' = Receive(Chip, b).mem /\ panel' = Receive(Chip, b).panel
    BY DEF CommandByte, Becomes
  <2>2. [all EXCEPT !.spi = received.spi].mem = all.mem
        /\ [all EXCEPT !.spi = received.spi].panel = all.panel
    BY <1>14, <1>16, Zenon DEF Good
  <2> QED
    BY <1>13, <1>14, <2>1, <2>2
<1> QED
  BY <1>16, <1>17

(* The receiver of a chip that has started has its fields. *)
LEMMA InitReceiver ==
  ASSUME Init
  PROVE  IsReceiver(spi)
BY Zenon DEF Init, Rx!Init, Rx!chip_reset, IsReceiver

(* One callback may run a RAM write whose data the new command byte ends,  *)
(* and start a refresh: the refresh paints what that very write has left   *)
(* in the RAM, whatever the RAM, the table and the sequence selected.      *)
THEOREM RefreshPaintsLastWrite == Spec => RefreshSeesWrite
<1> DEFINE Action ==
      /\ \E c \in Codes : CommandByte(c)
      /\ \E write \in {CMD_WRITE_RAM_BW, CMD_WRITE_RAM_COLOR} :
           CallsOf(spi') = {write, CMD_MASTER_ACTIVATION}
      /\ Engine!CompletedStep' \in Engine!WalkSteps
      => panel'.frame = [l \in Lines |->
                           Engine!StepPixel(panel', Picture(mem'), Engine!CompletedStep', l)]
           Inv == Sound(panel) /\ IsReceiver(spi)
<1>1. Init => Inv
  BY InitSound, InitReceiver
<1>2. Inv /\ [Next]_vars => Inv'
  <2>1. Inv /\ [Next]_vars => Sound(panel') /\ IsReceiver(spi')
    BY StepSound, ReceiverStep
  <2> QED
    BY <2>1 DEF Sound, IsPanel, Selectable, IsReceiver
<1>3. Inv /\ [Next]_vars => [Action]_vars
  <2>1. SUFFICES ASSUME Inv, NEW c \in Codes, CommandByte(c),
                        NEW write \in {CMD_WRITE_RAM_BW, CMD_WRITE_RAM_COLOR},
                        CallsOf(spi') = {write, CMD_MASTER_ACTIVATION},
                        Engine!CompletedStep' \in Engine!WalkSteps
                 PROVE  panel'.frame = [l \in Lines |->
                          Engine!StepPixel(panel', Picture(mem'), Engine!CompletedStep', l)]
    OBVIOUS
  <2>2. panel' = Engine!on_cmd_master_activation(panel, Picture(mem'))
    BY <2>1, FlushThenRefresh
  <2> DEFINE q == Engine!on_cmd_master_activation(panel, Picture(mem'))
             done == IF q.timer = "step" /\ q.act_ndx > 0 THEN q.cur_act_seq[q.act_ndx] ELSE "none"
  <2>3. Engine!CompletedStep' = done
    BY <2>2 DEF Engine!CompletedStep
  <2>4. ASSUME NEW r
        PROVE  LET p == Engine!on_cmd_master_activation(panel, r)
                   last == IF p.timer = "step" /\ p.act_ndx > 0 THEN p.cur_act_seq[p.act_ndx]
                                                                ELSE "none"
               IN  last \in Engine!WalkSteps
                   => p.frame = [l \in Lines |-> Engine!StepPixel(p, r, last, l)]
    <3>1. Sound(panel)
      BY <2>1
    <3> QED
      BY <3>1, ActivationPaints
  <2>5. done \in Engine!WalkSteps
        => q.frame = [l \in Lines |-> Engine!StepPixel(q, Picture(mem'), done, l)]
    BY <2>4, Zenon
  <2> HIDE DEF q, done
  <2> QED
    BY <2>1, <2>2, <2>3, <2>5, Zenon DEF q
<1> QED
  BY <1>1, <1>2, <1>3, PTL DEF Spec, RefreshSeesWrite

-----------------------------------------------------------------------------
(* The receiver of the chip is the receiver on its own *)

(* The theorems of the receiver, for a host that does as it likes. *)
RxP == INSTANCE SpiProofs WITH Polite <- FALSE,
                               host <- [cmd |-> 0, sent |-> 0, clocked |-> FALSE]

(* The chip's constants are fit for the receiver. *)
LEMMA ReceiverFacts == RxP!SpiAssumption
BY ChipAssumption DEF RxP!SpiAssumption

(* The definitions of the receiver and those its theorems are about are    *)
(* the same.                                                               *)
LEMMA SameReceiver ==
  /\ \A s, b : RxP!on_spi_done(s, b) = Rx!on_spi_done(s, b)
  /\ \A s : RxP!chip_reset(s) = Rx!chip_reset(s)
  /\ RxP!TypeOK <=> Rx!TypeOK
<1>1. \A s : RxP!chip_reset(s) = Rx!chip_reset(s)
  BY Zenon DEF RxP!chip_reset, Rx!chip_reset
<1>2. RxP!Known = Rx!Known
  BY Zenon DEF RxP!Known, Rx!Known
<1>3. \A s : RxP!on_command(s) = Rx!on_command(s)
  BY <1>2, Zenon DEF RxP!on_command, Rx!on_command, RxP!Args, Rx!Args
<1>4. \A s, b : RxP!DataBytes(s, b) = Rx!DataBytes(s, b)
  BY Zenon DEF RxP!DataBytes, Rx!DataBytes, RxP!TableSize, Rx!TableSize, RxP!InTable, Rx!InTable,
               RxP!cmd_data_bytes, Rx!cmd_data_bytes
<1>5. \A s, b : RxP!on_spi_command_byte(s, b) = Rx!on_spi_command_byte(s, b)
  BY <1>3, <1>4, Zenon DEF RxP!on_spi_command_byte, Rx!on_spi_command_byte,
                           RxP!start_spi_transfer, Rx!start_spi_transfer
<1>6. \A s, b : RxP!OnCommandByte(s, b) = Rx!OnCommandByte(s, b)
  BY <1>3, <1>5, Zenon DEF RxP!OnCommandByte, Rx!OnCommandByte
<1>7. \A s, b : RxP!OnDataByte(s, b) = Rx!OnDataByte(s, b)
  BY <1>1, <1>3, <1>4, Zenon DEF RxP!OnDataByte, Rx!OnDataByte, RxP!OPEN, Rx!OPEN
<1>8. \A s, b : RxP!on_spi_done(s, b) = Rx!on_spi_done(s, b)
  BY <1>6, <1>7, Zenon DEF RxP!on_spi_done, Rx!on_spi_done, RxP!LOW, Rx!LOW
<1>9. RxP!TypeOK <=> Rx!TypeOK
  BY <1>2 DEF RxP!TypeOK, Rx!TypeOK, RxP!Calls, Rx!Calls, RxP!TableSize, Rx!TableSize,
              RxP!LOW, Rx!LOW, RxP!HIGH, Rx!HIGH
<1> QED
  BY <1>1, <1>8, <1>9

(* Every step of the chip is one of the receiver's, or none: a handler,    *)
(* even one that resets the chip, leaves the receiver as the receiver      *)
(* itself does.                                                            *)
LEMMA StepOfReceiver ==
  ASSUME Sound(panel), IsReceiver(spi), [Next]_vars
  PROVE  [RxP!Next]_(RxP!vars)
<1> DEFINE s == [spi EXCEPT !.calls = <<>>]
<1>1. s.armed = spi.armed /\ RxP!Ready = s
  BY Zenon DEF IsReceiver, RxP!Ready
<1>2. Good(Chip) /\ Chip.spi = spi
  <2>1. Chip.spi = spi
    BY Zenon DEF Chip
  <2> QED
    BY <2>1, ChipGood
<1>3. ASSUME NEW b, CommandByte(b) \/ DataByte(b)
      PROVE  RxP!Clock(b) /\ UNCHANGED cs
  <2>1. spi' = Receive(Chip, b).spi /\ UNCHANGED cs
    BY <1>3 DEF CommandByte, DataByte, Becomes
  <2>2. spi' = IF s.armed THEN Rx!on_spi_done([s EXCEPT !.armed = FALSE], b) ELSE s
    BY <1>2, <2>1, ReceiveSpi, Zenon
  <2> HIDE DEF s
  <2> QED
    BY <1>1, <2>1, <2>2, SameReceiver, Zenon DEF RxP!Clock
<1>4. ASSUME NEW c \in Codes, CommandByte(c)
      PROVE  RxP!SendCommand(c)
  <2>1. spi.mode = RxP!LOW
    BY <1>4 DEF CommandByte, LOW, RxP!LOW
  <2> QED
    BY <1>3, <1>4, <2>1, Zenon DEF RxP!SendCommand
<1>5. ASSUME NEW b \in Bytes, DataByte(b)
      PROVE  RxP!SendData(b)
  <2>1. spi.mode = RxP!HIGH
    BY <1>5 DEF DataByte, HIGH, RxP!HIGH
  <2> QED
    BY <1>3, <1>5, <2>1, Zenon DEF RxP!SendData
<1>6. ASSUME NEW v \in {LOW, HIGH}, SetCS(v) \/ SetDC(v)
      PROVE  RxP!SetCS(v) \/ RxP!SetDC(v)
  BY <1>6, Zenon DEF SetCS, SetDC, Rx!SetCS, Rx!SetDC, RxP!SetCS, RxP!SetDC, Rx!Ready, RxP!Ready,
       Rx!on_cs_pin_change, RxP!on_cs_pin_change, Rx!on_dc_pin_change, RxP!on_dc_pin_change,
       Rx!start_spi_transfer, RxP!start_spi_transfer, Rx!LOW, RxP!LOW, Rx!HIGH, RxP!HIGH
<1>7. CASE ResetPulse
  <2> DEFINE c == [Chip EXCEPT !.spi = [@ EXCEPT !.calls = <<>>]]
  <2>1. c.spi = s
    BY <1>2, Zenon DEF Good
  <2>2. chip_reset(c).spi = Rx!chip_reset(c.spi)
    BY Zenon DEF chip_reset
  <2>3. spi' = chip_reset(c).spi /\ UNCHANGED cs
    BY <1>7, Zenon DEF ResetPulse, Becomes
  <2> HIDE DEF c, s
  <2>4. spi' = RxP!chip_reset(RxP!Ready)
    BY <1>1, <2>1, <2>2, <2>3, SameReceiver
  <2>5. RxP!Reset
    BY <2>3, <2>4, Zenon DEF RxP!Reset, RxP!NoCommand
  <2> QED
    BY <2>5 DEF RxP!Next
<1>8. CASE ActivationTimer \/ UNCHANGED vars
  BY <1>8 DEF ActivationTimer, vars, RxP!vars
<1>9. LOW = RxP!LOW /\ HIGH = RxP!HIGH
  BY DEF LOW, HIGH, RxP!LOW, RxP!HIGH
<1> QED
  BY <1>4, <1>5, <1>6, <1>7, <1>8, <1>9, Zenon DEF Next, RxP!Next

(* The chip starts as its receiver does. *)
LEMMA InitOfReceiver == Init => RxP!Init
BY Zenon DEF Init, Rx!Init, RxP!Init, Rx!chip_reset, RxP!chip_reset, Rx!TableSize, RxP!TableSize,
     Rx!LOW, Rx!HIGH, RxP!LOW, RxP!HIGH, Rx!NoCommand, RxP!NoCommand

(* Behind all its handlers the chip's receiver is the receiver on its own, *)
(* for a host that does as it likes: what SpiProofs shows of that one      *)
(* holds of the whole chip.                                                *)
THEOREM ChipImplementsReceiver == Spec => RxP!Spec
<1> DEFINE Inv == Sound(panel) /\ IsReceiver(spi)
<1>1. Init => Inv /\ RxP!Init
  BY InitSound, InitReceiver, InitOfReceiver
<1>2. Inv /\ [Next]_vars => Inv' /\ [RxP!Next]_(RxP!vars)
  <2>1. Inv /\ [Next]_vars => Sound(panel') /\ IsReceiver(spi')
    BY StepSound, ReceiverStep
  <2> QED
    BY <2>1, StepOfReceiver DEF Sound, IsPanel, Selectable, IsReceiver
<1> QED
  BY <1>1, <1>2, PTL DEF Spec, RxP!Spec

(* In particular, the receiver's invariant holds of the chip: what its     *)
(* handlers are given is typed, bounded, and given once.                   *)
THEOREM ReceiverAlwaysGood == Spec => []RxP!IndInv
BY ChipImplementsReceiver, ReceiverFacts, RxP!Invariance, PTL

(* So no handler of the chip runs twice for a command byte or is given     *)
(* more data than its command takes, and a pending command is short of     *)
(* data or of open length.                                                 *)
THEOREM ChipReceivesSoundly ==
  Spec => [](RxP!AtMostOnce /\ RxP!NeverOverfed /\ RxP!PendingIsShort)
BY ChipImplementsReceiver, ReceiverFacts, RxP!RunsAtMostOnce, RxP!HandlersAreNotOverfed,
   RxP!PendingStaysShort, PTL

(* The data index stays in the buffer, the step index does not pass the    *)
(* end of its sequence and the line counter stays on the panel: for every  *)
(* host, whatever it clocks, cuts short, lets overflow or resets.          *)
THEOREM ChipTypeCorrect == Spec => []TypeOK
<1>1. Init => Sound(panel)
  BY InitSound
<1>2. Sound(panel) /\ [Next]_vars => Sound(panel)'
  BY StepSound DEF Sound, IsPanel, Selectable
<1>3. Sound(panel) /\ RxP!IndInv => TypeOK
  <2>1. RxP!IndInv => Rx!TypeOK
    <3>1. RxP!IndInv => RxP!TypeOK
      BY DEF RxP!IndInv, RxP!Good, RxP!SpiType, RxP!TypeOK
    <3> QED
      BY <3>1, SameReceiver
  <2> QED
    BY <2>1 DEF Sound, TypeOK
<1> QED
  BY <1>1, <1>2, <1>3, ReceiverAlwaysGood, PTL DEF Spec

=============================================================================
