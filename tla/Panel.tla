------------------------------- MODULE Panel -------------------------------
(***************************************************************************)
(* The display engine of the chip: master activation, the activation timer *)
(* that walks an activation sequence, the frame buffer it paints from the  *)
(* display RAM, and the BUSY pin that the engine, deep sleep and reset all *)
(* drive.                                                                  *)
(*                                                                         *)
(* The fields of ws29v2_ctx_t this component owns form the record panel,   *)
(* and each handler of the C code is an operator from a panel to the panel *)
(* it leaves, so that a callback that runs two handlers composes them.     *)
(***************************************************************************)
EXTENDS Frame, Sequences

CONSTANTS
  HeapWords,  \* what the memory behind chip->black and chip->white may hold
  HostWaits   \* the host sends a command only while it reads BUSY low

LOW == 0
HIGH == 1

ASSUME PanelAssumption ==
  /\ Height \in Nat \ {0}
  /\ HeapWords # {} /\ HeapWords \subseteq Colours
  /\ HostWaits \in BOOLEAN

-----------------------------------------------------------------------------
(* Activation sequences *)

AM_IMMEDIATE_UPDATE == 1

v1_act_seq == <<"AM_BLACK", "AM_FADE_1", "AM_FADE_2", "AM_FADE_3", "AM_BW", "AM_FADE_3",
                "AM_FADE_2", "AM_FADE_1", "AM_BW", "AM_BW", "AM_BW">>
v1_act_seq_immediate == <<"AM_BW">>
v1_act_seq_blink == <<"AM_BLACK", "AM_WHITE", "AM_BW", "AM_BW", "AM_INV_BW", "AM_BW", "AM_BW">>
v1_act_seq_scanline == <<"AM_BLACK", "AM_SCAN_LINE_BW", "AM_BW">>
v2_act_seq == <<"AM_BLACK", "AM_WHITE", "AM_BW", "AM_BW", "AM_BW", "AM_INV_BW", "AM_CBW",
                "AM_INV_CBW", "AM_CBW", "AM_CBW", "AM_CBW", "AM_CBW">>
v2_act_seq_immediate == <<"AM_CBW">>
v2_act_seq_scanline == <<"AM_BLACK", "AM_SCAN_LINE_CBW">>

Versions == {1, 2}
ActModes == 0 .. 3

(* The table has one row per version and one column per activation mode. *)
activation_modes(version, mode) ==
  (IF version = 1
   THEN <<v1_act_seq, v1_act_seq_immediate, v1_act_seq_blink, v1_act_seq_scanline>>
   ELSE <<v2_act_seq, v2_act_seq_immediate, v2_act_seq, v2_act_seq_scanline>>)[mode + 1]

FadeSteps == {"AM_FADE_1", "AM_FADE_2", "AM_FADE_3"}
ScanSteps == {"AM_SCAN_LINE_BW", "AM_SCAN_LINE_CBW"}   \* one line per timer period
WalkSteps == {"AM_BW", "AM_INV_BW", "AM_CBW", "AM_INV_CBW"}  \* line by line to the last

-----------------------------------------------------------------------------
(* Painting *)

FadePixel(ram, l, lit, unlit) == IF ram.bw[l] = 1 THEN lit ELSE unlit

StepPixel(p, ram, step, l) ==
  CASE step = "AM_BLACK" -> p.black[l]
    [] step = "AM_WHITE" -> p.white[l]
    [] step \in {"AM_BW", "AM_SCAN_LINE_BW"} -> BwPixel(ram, l, FALSE)
    [] step = "AM_INV_BW" -> BwPixel(ram, l, TRUE)
    [] step \in {"AM_CBW", "AM_SCAN_LINE_CBW"} -> ColorPixel(ram, l, FALSE)
    [] step = "AM_INV_CBW" -> ColorPixel(ram, l, TRUE)
    [] step = "AM_FADE_1" -> FadePixel(ram, l, "3F", "BF")
    [] step = "AM_FADE_2" -> FadePixel(ram, l, "7F", "7F")
    [] OTHER (* AM_FADE_3 *) -> FadePixel(ram, l, "BF", "3F")

(* The scan-line painters start at act_scan_ndx, wherever it stands: a     *)
(* walk paints from there to the last line, a scan step that line only.    *)
(* The other painters ignore it.                                           *)
PaintedLines(p, step) ==
  IF step \in ScanSteps THEN {p.act_scan_ndx}
  ELSE IF step \in WalkSteps THEN p.act_scan_ndx .. Height - 1
  ELSE Lines

ScanAfter_noWrap(p, step) ==           \* mutant: > for >= in the wrap test
  IF step \in ScanSteps THEN p.act_scan_ndx + 1
  ELSE IF step \in WalkSteps THEN 0
  ELSE p.act_scan_ndx

ScanAfter(p, step) ==
  IF step \in ScanSteps THEN (p.act_scan_ndx + 1) % Height
  ELSE IF step \in WalkSteps THEN 0
  ELSE p.act_scan_ndx

Paint(p, ram, step) ==
  [l \in Lines |-> IF l \in PaintedLines(p, step) THEN StepPixel(p, ram, step, l)
                                                  ELSE p.frame[l]]

-----------------------------------------------------------------------------
(* Handlers *)

SeqEnded(p) == p.act_ndx >= Len(p.cur_act_seq)
CurrentStep(p) == p.cur_act_seq[p.act_ndx + 1]

EndActivation_keepsBusy(p) == [p EXCEPT !.act_ndx = 0]     \* mutant

EndActivation(p) == [p EXCEPT !.act_ndx = 0, !.busy = LOW]

RunStep_scansForever(p, ram) ==         \* mutant: stepInc stays 0 after the last line
  LET step == CurrentStep(p)
  IN  [p EXCEPT !.busy = IF p.act_ndx = 0 THEN HIGH ELSE @,
                !.frame = Paint(p, ram, step),
                !.act_scan_ndx = ScanAfter(p, step),
                !.act_ndx = IF step \in ScanSteps THEN @ ELSE @ + 1,
                !.timer = "step"]

RunStep_busyLate(p, ram) ==             \* mutant: BUSY raised by the second step
  LET step == CurrentStep(p)
      scan == ScanAfter(p, step)
      sameStep == step \in ScanSteps /\ scan > 0
  IN  [p EXCEPT !.busy = IF p.act_ndx = 1 THEN HIGH ELSE @,
                !.frame = Paint(p, ram, step),
                !.act_scan_ndx = scan,
                !.act_ndx = IF sameStep THEN @ ELSE @ + 1,
                !.timer = IF sameStep THEN "scanline" ELSE "step"]

RunStep(p, ram) ==
  LET step == CurrentStep(p)
      scan == ScanAfter(p, step)
      sameStep == step \in ScanSteps /\ scan > 0
  IN  [p EXCEPT !.busy = IF p.act_ndx = 0 THEN HIGH ELSE @,
                !.frame = Paint(p, ram, step),
                !.act_scan_ndx = scan,
                !.act_ndx = IF sameStep THEN @ ELSE @ + 1,
                !.timer = IF sameStep THEN "scanline" ELSE "step"]

on_activation_step(p, ram) == IF SeqEnded(p) THEN EndActivation(p) ELSE RunStep(p, ram)

SelectedSeq_v1Row(p) ==                 \* mutant: the row of the table left out
  IF p.disp_upd_seq \in {192, 15}
  THEN activation_modes(1, AM_IMMEDIATE_UPDATE)
  ELSE activation_modes(p.version, p.actMode)

SelectedSeq(p) ==
  IF p.disp_upd_seq \in {192, 15}   \* 0xC0, 0x0F
  THEN activation_modes(p.version, AM_IMMEDIATE_UPDATE)
  ELSE activation_modes(p.version, p.actMode)

on_cmd_master_activation_keepsScan(p, ram) ==     \* mutant
  on_activation_step([p EXCEPT !.act_ndx = 0, !.cur_act_seq = SelectedSeq(p)], ram)

on_cmd_master_activation(p, ram) ==
  on_activation_step([p EXCEPT !.act_ndx = 0, !.act_scan_ndx = 0,
                               !.cur_act_seq = SelectedSeq(p)], ram)

on_cmd_disp_upd_ctl2(p, d) == [p EXCEPT !.disp_upd_seq = d]

on_cmd_deep_sleep_wakes(p, d) ==        \* mutant: waking also releases BUSY
  IF d % 4 = 1 THEN [p EXCEPT !.sleeping = TRUE, !.busy = HIGH]
               ELSE [p EXCEPT !.sleeping = FALSE, !.busy = LOW]

on_cmd_deep_sleep(p, d) ==
  IF d % 4 = 1 THEN [p EXCEPT !.sleeping = TRUE, !.busy = HIGH]
               ELSE [p EXCEPT !.sleeping = FALSE]

chip_reset_keepsScan(p) ==              \* mutant
  [p EXCEPT !.disp_upd_seq = 255, !.sleeping = FALSE, !.act_ndx = 0,
            !.frame = p.black, !.busy = LOW]

(* Neither the activation timer nor cur_act_seq is touched by a reset.     *)
(* BUSY is high while it runs, which nothing can see.                      *)
chip_reset(p) ==
  [p EXCEPT !.disp_upd_seq = 255, !.sleeping = FALSE, !.act_ndx = 0, !.act_scan_ndx = 0,
            !.frame = p.black, !.busy = LOW]

-----------------------------------------------------------------------------
(* The component on its own: the command decoder and the host are its      *)
(* environment, free to send any command and to rewrite any line.          *)

VARIABLES panel, ram

vars == <<panel, ram>>

UpdSeqs == {255, 199, 192, 15}    \* 0xFF, 0xC7, 0xC0, 0x0F
SleepModes == {0, 1, 3}

HeapImages == [Lines -> HeapWords]

ActSequences == {<<>>} \cup {activation_modes(v, m) : v \in Versions, m \in ActModes}

Panels == [version: Versions, actMode: ActModes, busy: {LOW, HIGH}, sleeping: BOOLEAN,
           disp_upd_seq: UpdSeqs, cur_act_seq: ActSequences, act_ndx: Nat, act_scan_ndx: Lines,
           timer: {"off", "step", "scanline"}, frame: Images, black: HeapImages,
           white: HeapImages]

TypeOK ==
  /\ panel \in Panels
  /\ panel.act_ndx <= Len(panel.cur_act_seq)
  /\ ram \in Rams

(* chip_init: the attributes are chosen, the heap words behind black and  *)
(* white are whatever malloc returned, and chip_reset does the rest.      *)
Init ==
  /\ \E v \in Versions, m \in ActModes, b \in HeapImages, w \in HeapImages :
       panel = chip_reset([version |-> v, actMode |-> m, busy |-> LOW, sleeping |-> FALSE,
                           disp_upd_seq |-> 0, cur_act_seq |-> <<>>,
                           act_ndx |-> 0, act_scan_ndx |-> 0, timer |-> "off",
                           frame |-> b, black |-> b, white |-> w])
  /\ ram = ResetRam

(* WaitUntilIdle, idealised: before every command.  The driver waits once  *)
(* and then sends several (see EpdDriver, which has its own waits).        *)
HostMaySend == HostWaits => panel.busy = LOW

MasterActivation ==
  /\ HostMaySend
  /\ panel' = on_cmd_master_activation(panel, ram)
  /\ UNCHANGED ram

DispUpdCtl2(d) ==
  /\ HostMaySend
  /\ panel' = on_cmd_disp_upd_ctl2(panel, d)
  /\ UNCHANGED ram

DeepSleep(d) ==
  /\ HostMaySend
  /\ panel' = on_cmd_deep_sleep(panel, d)
  /\ UNCHANGED ram

WriteRam(l, bit, red) ==
  /\ HostMaySend
  /\ ram' = [ram EXCEPT !.bw[l] = bit, !.color[l] = red]
  /\ UNCHANGED panel

(* The RST pin, command 0x12 or a data overflow: at any moment. *)
Reset ==
  /\ panel' = chip_reset(panel)
  /\ ram' = ResetRam

(* The one-shot timer expires and calls on_activation_step. *)
ActivationTimer ==
  /\ panel.timer # "off"
  /\ panel' = on_activation_step([panel EXCEPT !.timer = "off"], ram)
  /\ UNCHANGED ram

Next ==
  \/ MasterActivation
  \/ \E d \in UpdSeqs : DispUpdCtl2(d)
  \/ \E d \in SleepModes : DeepSleep(d)
  \/ \E l \in Lines, bit, red \in {0, 1} : WriteRam(l, bit, red)
  \/ Reset
  \/ ActivationTimer

Spec == Init /\ [][Next]_vars

(* The simulator fires a started timer; nothing obliges the host to act. *)
FairSpec == Spec /\ WF_vars(ActivationTimer)

-----------------------------------------------------------------------------
(* Properties *)

Refreshing == panel.timer # "off"

(* A line counter left above 0 belongs to a scan step that is under way:   *)
(* the frame painters start at act_scan_ndx and never set it, so any other *)
(* leftover would make them skip the top of the frame.                     *)
ScanWithinStep ==
  panel.act_scan_ndx > 0 =>
    /\ panel.timer = "scanline" /\ panel.busy = HIGH
    /\ ~SeqEnded(panel) /\ CurrentStep(panel) \in ScanSteps

(* The step just run, when it is over. *)
CompletedStep ==
  IF panel.timer = "step" /\ panel.act_ndx > 0 THEN panel.cur_act_seq[panel.act_ndx] ELSE "none"

(* A full-frame step of display_panel_bw_frame or _color_frame repaints    *)
(* every line of the frame from the RAM as it stands at that step, for     *)
(* every interleaving of resets, re-activations and RAM writes.            *)
FullStepPaintsAll ==
  [][(MasterActivation \/ ActivationTimer) /\ CompletedStep' \in WalkSteps
     => \A l \in Lines : panel'.frame[l] = StepPixel(panel, ram, CompletedStep', l)]_vars

(* A host that waits for BUSY gets what it wrote: when the engine stops,   *)
(* the frame buffer is the rendering of the RAM of that moment, whichever  *)
(* sequence ran and whatever reset or stale timer came in between.         *)
RefreshShowsRam ==
  [][Refreshing /\ ~Refreshing' => panel'.frame = FinalImage(panel.version, ram)]_vars

(* BUSY is never stuck: it is high only while a timer is going to release  *)
(* it or the chip sleeps until a reset.  on_cmd_deep_sleep leaves BUSY     *)
(* high when it clears sleeping, so this rests on the host's waiting.      *)
BusyIsReleased == panel.busy = HIGH => Refreshing \/ panel.sleeping

(* The picture moves only under BUSY, reset apart: a frame a host looks at *)
(* with BUSY low is not one that a timer step is in the middle of.         *)
ImageStableWhenIdle ==
  [][panel'.frame # panel.frame => panel'.busy = HIGH \/ Reset]_vars

(* The driver's WaitUntilIdle returns: a refresh ends, for a host that     *)
(* waits and however often the chip is reset.                              *)
RefreshTerminates == (panel.busy = HIGH /\ ~panel.sleeping) ~> panel.busy = LOW

(* The display service this engine implements for a host that waits. *)
Phase ==
  IF panel.busy = LOW THEN "idle" ELSE IF Refreshing THEN "refreshing" ELSE "asleep"

Service == INSTANCE PanelService
             WITH version <- panel.version, phase <- Phase, image <- panel.frame

ImplementsService == Service!Spec

(* The inductive invariant behind the properties above. *)

(* The sequence walked is one of the two that master activation selects    *)
(* from; there is none before the first activation.                        *)
SequenceFromTable ==
  panel.cur_act_seq \in {<<>>, activation_modes(panel.version, panel.actMode),
                         activation_modes(panel.version, AM_IMMEDIATE_UPDATE)}

(* A stopped engine is at its start, and a started one has a sequence. *)
TimerFollowsSequence ==
  IF Refreshing THEN panel.cur_act_seq # <<>> ELSE panel.act_ndx = 0 /\ panel.act_scan_ndx = 0

(* An engine past its first painted line has BUSY high: a reset that        *)
(* releases BUSY also sends the engine back to the start.                   *)
BusyPastStart == panel.act_ndx > 0 => panel.busy = HIGH

(* With no writes under BUSY, what the last step has painted is final. *)
PaintedIsFinal ==
  Refreshing =>
    /\ SeqEnded(panel) => panel.frame = FinalImage(panel.version, ram)
    /\ panel.act_ndx = Len(panel.cur_act_seq) - 1 =>
         \A l \in Lines : l < panel.act_scan_ndx =>
           panel.frame[l] = FinalImage(panel.version, ram)[l]

PanelInv ==
  /\ SequenceFromTable
  /\ TimerFollowsSequence
  /\ BusyPastStart
  /\ ScanWithinStep
  /\ HostWaits => BusyIsReleased /\ PaintedIsFinal

-----------------------------------------------------------------------------
(* What a comment says and the code does not do: refuted by a run.         *)

(* chip_init: chip->black is "alloc_and_init_fb(..., FB_BLACK)", and the   *)
(* AM_BLACK step copies it in place of                                     *)
(* "display_panel_fixed_frame(chip, ..., FB_BLACK)".                       *)
BlackStepIsBlack ==
  CompletedStep = "AM_BLACK" => \A l \in Lines : panel.frame[l] = FB_BLACK

=============================================================================
