---------------------------- MODULE PanelProofs ----------------------------
(***************************************************************************)
(* Proofs about Panel, for every height of the display and every content   *)
(* of the unwritten heap words.                                            *)
(***************************************************************************)
EXTENDS Panel, TLAPS

Steps == {"AM_BLACK", "AM_WHITE"} \cup ScanSteps \cup WalkSteps \cup FadeSteps

(* A sequence has a step, and its last one paints the final image. *)
EndsFinal(version, seq) ==
  /\ seq \in Seq(Steps)
  /\ Len(seq) \in Nat \ {0}
  /\ seq[Len(seq)] \in IF version = 1 THEN {"AM_BW"} ELSE {"AM_CBW", "AM_SCAN_LINE_CBW"}

(* Every row and column of activation_modes ends in a step that paints the *)
(* rendering of the RAM.                                                   *)
LEMMA SequencesEndFinal ==
  ASSUME NEW v \in Versions, NEW m \in ActModes
  PROVE  EndsFinal(v, activation_modes(v, m))
<1> USE DEF EndsFinal, Steps, ScanSteps, WalkSteps, FadeSteps
<1>1. EndsFinal(1, v1_act_seq)
  BY DEF v1_act_seq
<1>2. EndsFinal(1, v1_act_seq_immediate)
  BY DEF v1_act_seq_immediate
<1>3. EndsFinal(1, v1_act_seq_blink)
  BY DEF v1_act_seq_blink
<1>4. EndsFinal(1, v1_act_seq_scanline)
  BY DEF v1_act_seq_scanline
<1>5. EndsFinal(2, v2_act_seq)
  BY DEF v2_act_seq
<1>6. EndsFinal(2, v2_act_seq_immediate)
  BY DEF v2_act_seq_immediate
<1>7. EndsFinal(2, v2_act_seq_scanline)
  BY DEF v2_act_seq_scanline
<1> HIDE DEF EndsFinal
<1>q. QED
  BY <1>1, <1>2, <1>3, <1>4, <1>5, <1>6, <1>7 DEF activation_modes, Versions, ActModes

(* What a painter writes to a line is a colour, and the rendering of the   *)
(* line's RAM bits when the step is one a sequence may end in.             *)
LEMMA StepPixelFacts ==
  ASSUME NEW p \in Panels, NEW r \in Rams, NEW step \in Steps, NEW l \in Lines
  PROVE  /\ StepPixel(p, r, step, l) \in Colours
         /\ step = "AM_BW" /\ p.version = 1 =>
              StepPixel(p, r, step, l) = FinalImage(p.version, r)[l]
         /\ step \in {"AM_CBW", "AM_SCAN_LINE_CBW"} /\ p.version = 2 =>
              StepPixel(p, r, step, l) = FinalImage(p.version, r)[l]
<1>1. BwPixel(r, l, FALSE) \in Colours /\ BwPixel(r, l, TRUE) \in Colours
  BY DEF BwPixel, Colours, FB_WHITE, FB_BLACK
<1>2. ColorPixel(r, l, FALSE) \in Colours /\ ColorPixel(r, l, TRUE) \in Colours
  BY <1>1 DEF ColorPixel, Colours, FB_COLOR
<1>3. p.black[l] \in Colours /\ p.white[l] \in Colours
  BY PanelAssumption DEF Panels, HeapImages
<1>4. \A x, y \in Colours : FadePixel(r, l, x, y) \in Colours
  BY DEF FadePixel
<1>5. {"3F", "7F", "BF"} \subseteq Colours
  BY DEF Colours
<1>6. StepPixel(p, r, step, l) \in Colours
  BY <1>1, <1>2, <1>3, <1>4, <1>5 DEF StepPixel
<1>7. step = "AM_BW" => StepPixel(p, r, step, l) = BwPixel(r, l, FALSE)
  BY DEF StepPixel
<1>8. step \in {"AM_CBW", "AM_SCAN_LINE_CBW"} =>
        StepPixel(p, r, step, l) = ColorPixel(r, l, FALSE)
  BY DEF StepPixel
<1>9. p.version = 1 => FinalImage(p.version, r)[l] = BwPixel(r, l, FALSE)
  BY DEF FinalImage
<1>10. p.version = 2 => FinalImage(p.version, r)[l] = ColorPixel(r, l, FALSE)
  BY DEF FinalImage
<1>q. QED
  BY <1>6, <1>7, <1>8, <1>9, <1>10

LEMMA PaintFacts ==
  ASSUME NEW p \in Panels, NEW r \in Rams, NEW step \in Steps
  PROVE  /\ Paint(p, r, step) \in Images
         /\ ScanAfter(p, step) \in Lines
<1>1. Paint(p, r, step) \in Images
  BY StepPixelFacts DEF Paint, Images, Panels
<1>2. ScanAfter(p, step) \in Lines
  BY PanelAssumption DEF ScanAfter, Lines, Panels
<1>q. QED
  BY <1>1, <1>2

(* What on_activation_step needs of the panel to run a step. *)
Runnable(p) ==
  /\ EndsFinal(p.version, p.cur_act_seq)
  /\ p.act_ndx < Len(p.cur_act_seq)
  /\ p.act_ndx > 0 => p.busy = HIGH
  /\ p.act_scan_ndx > 0 => CurrentStep(p) \in ScanSteps

LEMMA RunStepFields ==
  ASSUME NEW p \in Panels, NEW r \in Rams, Runnable(p)
  PROVE  /\ CurrentStep(p) \in Steps
         /\ RunStep(p, r) \in Panels
         /\ RunStep(p, r).version = p.version
         /\ RunStep(p, r).actMode = p.actMode
         /\ RunStep(p, r).cur_act_seq = p.cur_act_seq
         /\ RunStep(p, r).busy = HIGH
         /\ RunStep(p, r).frame = Paint(p, r, CurrentStep(p))
         /\ RunStep(p, r).act_scan_ndx = ScanAfter(p, CurrentStep(p))
         /\ IF CurrentStep(p) \in ScanSteps /\ ScanAfter(p, CurrentStep(p)) > 0
            THEN RunStep(p, r).act_ndx = p.act_ndx /\ RunStep(p, r).timer = "scanline"
            ELSE RunStep(p, r).act_ndx = p.act_ndx + 1 /\ RunStep(p, r).timer = "step"
<1>1. CurrentStep(p) \in Steps
  BY DEF Runnable, EndsFinal, CurrentStep, Panels
<1>2. Paint(p, r, CurrentStep(p)) \in Images /\ ScanAfter(p, CurrentStep(p)) \in Lines
  BY <1>1, PaintFacts
<1>3. p.act_ndx # 0 => p.busy = HIGH
  BY DEF Runnable, Panels
<1> DEFINE step == CurrentStep(p)
           scan == ScanAfter(p, step)
           same == step \in ScanSteps /\ scan > 0
           painted == Paint(p, r, step)
           busy == IF p.act_ndx = 0 THEN HIGH ELSE p.busy
           ndx == IF same THEN p.act_ndx ELSE p.act_ndx + 1
           timer == IF same THEN "scanline" ELSE "step"
<1>4. RunStep(p, r) = [p EXCEPT !.busy = busy, !.frame = painted, !.act_scan_ndx = scan,
                                !.act_ndx = ndx, !.timer = timer]
  BY DEF RunStep
<1>5. busy = HIGH /\ ndx \in Nat /\ timer \in {"off", "step", "scanline"}
  BY <1>3 DEF Panels
<1>6. /\ IF same THEN ndx = p.act_ndx /\ timer = "scanline"
                 ELSE ndx = p.act_ndx + 1 /\ timer = "step"
      /\ scan \in Lines /\ painted \in Images
  BY <1>2
<1> HIDE DEF scan, same, painted, busy, ndx, timer
<1>7. RunStep(p, r) \in Panels
  BY <1>4, <1>5, <1>6 DEF Panels
<1>8. /\ RunStep(p, r).version = p.version
      /\ RunStep(p, r).actMode = p.actMode
      /\ RunStep(p, r).cur_act_seq = p.cur_act_seq
      /\ RunStep(p, r).busy = busy
      /\ RunStep(p, r).frame = painted
      /\ RunStep(p, r).act_scan_ndx = scan
      /\ RunStep(p, r).act_ndx = ndx
      /\ RunStep(p, r).timer = timer
  BY <1>4 DEF Panels
<1>q. QED
  BY <1>1, <1>5, <1>6, <1>7, <1>8 DEF scan, same, painted

(* A step ends at its first line again, or in the middle of a scan. *)
LEMMA RunStepScan ==
  ASSUME NEW p \in Panels, NEW r \in Rams, Runnable(p), NEW q, q = RunStep(p, r)
  PROVE  /\ q.act_ndx <= Len(q.cur_act_seq)
         /\ q.act_scan_ndx > 0 => /\ q.timer = "scanline"
                                  /\ ~SeqEnded(q) /\ CurrentStep(q) \in ScanSteps
<1>1. p.act_ndx \in Nat /\ p.act_scan_ndx \in Nat /\ Len(p.cur_act_seq) \in Nat
  BY DEF Panels, Lines, Runnable, EndsFinal
<1>2. q.act_scan_ndx > 0 => CurrentStep(p) \in ScanSteps
  BY <1>1, RunStepFields DEF ScanAfter, Runnable
<1>q. QED
  BY <1>1, <1>2, RunStepFields DEF Runnable, SeqEnded, CurrentStep

(* The lines the last step has painted are final if they were before it. *)
LEMMA RunStepPaints ==
  ASSUME NEW p \in Panels, NEW r \in Rams, Runnable(p), NEW q, q = RunStep(p, r),
         p.act_ndx = Len(p.cur_act_seq) - 1 =>
           \A l \in Lines : l < p.act_scan_ndx => p.frame[l] = FinalImage(p.version, r)[l]
  PROVE  /\ SeqEnded(q) => q.frame = FinalImage(p.version, r)
         /\ q.act_ndx = Len(q.cur_act_seq) - 1 =>
              \A l \in Lines : l < q.act_scan_ndx => q.frame[l] = FinalImage(p.version, r)[l]
<1> DEFINE step == CurrentStep(p)
           final == FinalImage(p.version, r)
<1>1. /\ p.act_ndx \in Nat /\ p.act_scan_ndx \in Lines /\ Len(p.cur_act_seq) \in Nat \ {0}
      /\ Height \in Nat \ {0} /\ p.version \in {1, 2}
  BY PanelAssumption DEF Panels, Runnable, EndsFinal, Versions
<1>2. step \in Steps /\ q.frame = Paint(p, r, step) /\ q.act_scan_ndx = ScanAfter(p, step)
  BY RunStepFields
<1>3. CASE p.act_ndx = Len(p.cur_act_seq) - 1
  <2>1. step = p.cur_act_seq[Len(p.cur_act_seq)]
    BY <1>1, <1>3 DEF CurrentStep
  <2>2. IF p.version = 1 THEN step = "AM_BW" ELSE step \in {"AM_CBW", "AM_SCAN_LINE_CBW"}
    BY <1>1, <2>1 DEF Runnable, EndsFinal
  <2>3. \A l \in Lines : StepPixel(p, r, step, l) = final[l]
    BY <1>1, <1>2, <2>2, StepPixelFacts
  <2>4. \A l \in Lines : l <= p.act_scan_ndx => q.frame[l] = final[l]
    BY <1>1, <1>2, <1>3, <2>3 DEF Paint, PaintedLines, Lines
  <2>5. CASE step \in ScanSteps /\ ScanAfter(p, step) > 0
    <3>1. ScanAfter(p, step) = p.act_scan_ndx + 1 /\ q.act_ndx = p.act_ndx
            /\ q.cur_act_seq = p.cur_act_seq
      BY <1>1, <2>5, RunStepFields DEF ScanAfter, Lines
    <3>q. QED
      BY <1>1, <1>2, <1>3, <2>4, <3>1 DEF SeqEnded, Lines
  <2>6. CASE ~(step \in ScanSteps /\ ScanAfter(p, step) > 0)
    <3>1. q.act_ndx = Len(p.cur_act_seq) /\ q.cur_act_seq = p.cur_act_seq
      BY <1>1, <1>3, <2>6, RunStepFields
    <3>2. ScanAfter(p, step) \in Nat
      BY <1>1 DEF ScanAfter, Lines
    <3>3. \A l \in Lines : l > p.act_scan_ndx => q.frame[l] = final[l]
      <4>1. CASE step \in ScanSteps
        BY <1>1, <2>6, <3>2, <4>1 DEF ScanAfter, Lines
      <4>2. CASE step \in WalkSteps
        BY <1>1, <1>2, <2>3, <4>2 DEF Paint, PaintedLines, Lines, ScanSteps, WalkSteps
      <4>q. QED
        BY <2>2, <4>1, <4>2 DEF ScanSteps, WalkSteps
    <3>4. \A l \in Lines : q.frame[l] = final[l]
      BY <1>1, <2>4, <3>3 DEF Lines
    <3>5. q.frame = final
      BY <1>2, <3>4 DEF Paint, FinalImage
    <3>q. QED
      BY <1>1, <3>1, <3>5
  <2>q. QED
    BY <2>5, <2>6
<1>4. CASE p.act_ndx # Len(p.cur_act_seq) - 1
  <2>1. ~SeqEnded(q)
    BY <1>1, <1>4, RunStepFields DEF Runnable, SeqEnded
  <2>2. CASE q.act_ndx = p.act_ndx
    BY <1>1, <1>4, <2>1, <2>2, RunStepFields
  <2>3. CASE q.act_ndx # p.act_ndx
    <3>1. ScanAfter(p, step) = 0
      BY <1>1, <2>3, RunStepFields DEF ScanAfter, Runnable, Lines
    <3>q. QED
      BY <1>1, <1>2, <2>1, <3>1 DEF Lines
  <2>q. QED
    BY <2>2, <2>3
<1>q. QED
  BY <1>3, <1>4

-----------------------------------------------------------------------------
(* The inductive invariant *)

IndInv == TypeOK /\ PanelInv

LEMMA InitInv == Init => IndInv
<1> SUFFICES ASSUME Init PROVE IndInv
  OBVIOUS
<1>1. Height \in Nat \ {0} /\ 0 \in Lines
  BY PanelAssumption DEF Lines
<1>2. PICK v \in Versions, m \in ActModes, b \in HeapImages, w \in HeapImages :
        panel = chip_reset([version |-> v, actMode |-> m, busy |-> LOW, sleeping |-> FALSE,
                            disp_upd_seq |-> 0, cur_act_seq |-> <<>>,
                            act_ndx |-> 0, act_scan_ndx |-> 0, timer |-> "off",
                            frame |-> b, black |-> b, white |-> w])
  BY DEF Init
<1>3. panel = [version |-> v, actMode |-> m, busy |-> LOW, sleeping |-> FALSE,
               disp_upd_seq |-> 255, cur_act_seq |-> <<>>,
               act_ndx |-> 0, act_scan_ndx |-> 0, timer |-> "off",
               frame |-> b, black |-> b, white |-> w]
  BY <1>2 DEF chip_reset
<1>4. b \in Images
  BY PanelAssumption DEF HeapImages, Images
<1>5. ram \in Rams
  BY DEF Init, ResetRam, Rams
<1>6. TypeOK
  BY <1>1, <1>3, <1>4, <1>5 DEF TypeOK, Panels, ActSequences, UpdSeqs
<1>7. PanelInv
  BY <1>3 DEF PanelInv, SequenceFromTable, TimerFollowsSequence, BusyPastStart,
              ScanWithinStep, BusyIsReleased, PaintedIsFinal, Refreshing, LOW, HIGH
<1>q. QED
  BY <1>6, <1>7 DEF IndInv

(* A transition that runs one step of the sequence, from the panel p that  *)
(* the handler hands to on_activation_step.                                *)
StepOf(p) ==
  /\ p \in Panels /\ Runnable(p)
  /\ p.version = panel.version
  /\ p.cur_act_seq \in {activation_modes(p.version, p.actMode),
                        activation_modes(p.version, AM_IMMEDIATE_UPDATE)}
  /\ HostWaits => (p.act_ndx = Len(p.cur_act_seq) - 1 =>
       \A l \in Lines : l < p.act_scan_ndx => p.frame[l] = FinalImage(p.version, ram)[l])
  /\ panel' = RunStep(p, ram) /\ ram' = ram

(* The invariant after a step of the sequence, whichever handler ran it. *)
LEMMA RunStepInv ==
  ASSUME ram \in Rams, NEW p \in Panels, StepOf(p)
  PROVE  IndInv'
<1> USE DEF StepOf
<1>1. TypeOK'
  BY RunStepFields, RunStepScan DEF TypeOK
<1>2. SequenceFromTable'
  BY RunStepFields DEF SequenceFromTable
<1>3. panel'.timer # "off" /\ panel'.busy = HIGH
  BY RunStepFields
<1>4. panel'.cur_act_seq # <<>>
  BY RunStepFields DEF Runnable, EndsFinal
<1>5. TimerFollowsSequence' /\ BusyPastStart' /\ BusyIsReleased'
  BY <1>3, <1>4 DEF TimerFollowsSequence, BusyPastStart, BusyIsReleased, Refreshing
<1>6. ScanWithinStep'
  BY <1>3, RunStepScan DEF ScanWithinStep
<1>7. panel'.version = p.version
  BY RunStepFields
<1>8. HostWaits => PaintedIsFinal'
  BY <1>7, RunStepPaints DEF PaintedIsFinal
<1>q. QED
  BY <1>1, <1>2, <1>5, <1>6, <1>8 DEF IndInv, PanelInv

LEMMA SelectedFacts ==
  ASSUME NEW p \in Panels
  PROVE  /\ SelectedSeq(p) \in {activation_modes(p.version, p.actMode),
                                activation_modes(p.version, AM_IMMEDIATE_UPDATE)}
         /\ EndsFinal(p.version, SelectedSeq(p))
         /\ SelectedSeq(p) \in ActSequences
<1>1. AM_IMMEDIATE_UPDATE \in ActModes /\ p.version \in Versions /\ p.actMode \in ActModes
  BY DEF AM_IMMEDIATE_UPDATE, ActModes, Panels
<1>q. QED
  BY <1>1, SequencesEndFinal DEF SelectedSeq, ActSequences

(* on_cmd_master_activation always runs the first step of a sequence. *)
LEMMA MasterActivationRuns ==
  ASSUME panel \in Panels, ram \in Rams, panel' = on_cmd_master_activation(panel, ram), ram' = ram
  PROVE  \E p \in Panels : StepOf(p)
<1> DEFINE p == [panel EXCEPT !.act_ndx = 0, !.act_scan_ndx = 0,
                              !.cur_act_seq = SelectedSeq(panel)]
<1>1. panel \in Panels /\ ram \in Rams /\ 0 \in Lines
  BY PanelAssumption DEF Lines
<1>2. /\ p \in Panels /\ p.version = panel.version /\ p.actMode = panel.actMode
      /\ p.act_ndx = 0 /\ p.act_scan_ndx = 0 /\ p.cur_act_seq = SelectedSeq(panel)
  BY <1>1, SelectedFacts DEF Panels
<1>3. panel' = on_activation_step(p, ram) /\ ram' = ram
  BY DEF on_cmd_master_activation
<1> HIDE DEF p
<1>4. Runnable(p) /\ ~SeqEnded(p)
  BY <1>1, <1>2, SelectedFacts DEF Runnable, SeqEnded, EndsFinal
<1>5. panel' = RunStep(p, ram)
  BY <1>3, <1>4 DEF on_activation_step
<1>6. \A l \in Lines : ~(l < p.act_scan_ndx)
  BY <1>2 DEF Lines
<1>q. QED
  BY <1>1, <1>2, <1>3, <1>4, <1>5, <1>6, SelectedFacts DEF StepOf

(* What the invariant says of a panel whose timer runs. *)
LEMMA RefreshingFacts ==
  ASSUME IndInv, Refreshing
  PROVE  /\ EndsFinal(panel.version, panel.cur_act_seq)
         /\ panel.cur_act_seq \in {activation_modes(panel.version, panel.actMode),
                                   activation_modes(panel.version, AM_IMMEDIATE_UPDATE)}
         /\ SeqEnded(panel) => panel.act_scan_ndx = 0 /\ panel.act_ndx > 0
         /\ panel.act_scan_ndx > 0 => CurrentStep(panel) \in ScanSteps
<1>1. panel \in Panels /\ panel.act_ndx \in Nat /\ panel.act_scan_ndx \in Nat
  BY DEF IndInv, TypeOK, Panels, Lines
<1>2. panel.cur_act_seq \in {activation_modes(panel.version, panel.actMode),
                             activation_modes(panel.version, AM_IMMEDIATE_UPDATE)}
  BY DEF IndInv, PanelInv, SequenceFromTable, TimerFollowsSequence
<1>3. AM_IMMEDIATE_UPDATE \in ActModes /\ panel.version \in Versions /\ panel.actMode \in ActModes
  BY <1>1 DEF AM_IMMEDIATE_UPDATE, ActModes, Panels
<1>4. EndsFinal(panel.version, panel.cur_act_seq)
  BY <1>2, <1>3, SequencesEndFinal
<1>5. Len(panel.cur_act_seq) \in Nat \ {0}
  BY <1>4 DEF EndsFinal
<1>q. QED
  BY <1>1, <1>2, <1>4, <1>5 DEF IndInv, PanelInv, ScanWithinStep, SeqEnded

(* The timer's callback runs the next step, if there is one, ... *)
LEMMA ActivationTimerRuns ==
  ASSUME IndInv, ActivationTimer, ~SeqEnded(panel)
  PROVE  \E p \in Panels : StepOf(p)
<1> DEFINE p == [panel EXCEPT !.timer = "off"]
<1>1. panel \in Panels /\ Refreshing
  BY DEF IndInv, TypeOK, ActivationTimer, Refreshing
<1>2. /\ p \in Panels /\ p.version = panel.version /\ p.actMode = panel.actMode
      /\ p.act_ndx = panel.act_ndx /\ p.act_scan_ndx = panel.act_scan_ndx
      /\ p.cur_act_seq = panel.cur_act_seq /\ p.busy = panel.busy /\ p.frame = panel.frame
  BY <1>1 DEF Panels
<1>3. panel' = on_activation_step(p, ram) /\ ram' = ram
  BY DEF ActivationTimer
<1> HIDE DEF p
<1>4. panel' = RunStep(p, ram)
  BY <1>2, <1>3 DEF on_activation_step, SeqEnded
<1>5. CurrentStep(p) = CurrentStep(panel)
  BY <1>2 DEF CurrentStep
<1>6. panel.act_ndx \in Nat /\ Len(panel.cur_act_seq) \in Nat
  BY <1>1, RefreshingFacts DEF Panels, EndsFinal
<1>7. Runnable(p)
  BY <1>1, <1>2, <1>5, <1>6, RefreshingFacts
     DEF Runnable, SeqEnded, IndInv, PanelInv, BusyPastStart
<1>8. HostWaits => (p.act_ndx = Len(p.cur_act_seq) - 1 =>
        \A l \in Lines : l < p.act_scan_ndx => p.frame[l] = FinalImage(p.version, ram)[l])
  BY <1>1, <1>2 DEF IndInv, PanelInv, PaintedIsFinal
<1>q. QED
  BY <1>1, <1>2, <1>3, <1>4, <1>7, <1>8, RefreshingFacts DEF StepOf

(* ... and otherwise stops the engine and releases BUSY. *)
LEMMA ActivationTimerEnds ==
  ASSUME IndInv, ActivationTimer, SeqEnded(panel)
  PROVE  /\ panel' \in Panels /\ ram' = ram
         /\ panel'.version = panel.version /\ panel'.actMode = panel.actMode
         /\ panel'.cur_act_seq = panel.cur_act_seq /\ panel'.frame = panel.frame
         /\ panel'.act_ndx = 0 /\ panel'.act_scan_ndx = 0
         /\ panel'.busy = LOW /\ panel'.timer = "off"
<1> DEFINE p == [panel EXCEPT !.timer = "off"]
<1>1. panel \in Panels /\ Refreshing
  BY DEF IndInv, TypeOK, ActivationTimer, Refreshing
<1>2. /\ p \in Panels /\ p.version = panel.version /\ p.actMode = panel.actMode
      /\ p.act_ndx = panel.act_ndx /\ p.act_scan_ndx = panel.act_scan_ndx
      /\ p.cur_act_seq = panel.cur_act_seq /\ p.frame = panel.frame
      /\ p.timer = "off"
  BY <1>1 DEF Panels
<1>3. panel' = on_activation_step(p, ram) /\ ram' = ram
  BY DEF ActivationTimer
<1> HIDE DEF p
<1>4. panel' = [p EXCEPT !.act_ndx = 0, !.busy = LOW]
  BY <1>2, <1>3 DEF on_activation_step, EndActivation, SeqEnded
<1>5. /\ panel' \in Panels
      /\ panel'.version = p.version /\ panel'.actMode = p.actMode
      /\ panel'.cur_act_seq = p.cur_act_seq /\ panel'.frame = p.frame
      /\ panel'.act_ndx = 0 /\ panel'.act_scan_ndx = p.act_scan_ndx
      /\ panel'.busy = LOW /\ panel'.timer = p.timer
  BY <1>2, <1>4 DEF Panels
<1>6. panel.act_scan_ndx = 0
  BY <1>1, RefreshingFacts
<1>q. QED
  BY <1>2, <1>3, <1>5, <1>6

LEMMA ActivationTimerInv == IndInv /\ ActivationTimer => IndInv'
<1> SUFFICES ASSUME IndInv, ActivationTimer PROVE IndInv'
  OBVIOUS
<1>1. ram \in Rams /\ Refreshing
  BY DEF IndInv, TypeOK, ActivationTimer, Refreshing
<1>2. CASE ~SeqEnded(panel)
  BY <1>1, <1>2, ActivationTimerRuns, RunStepInv
<1>3. CASE SeqEnded(panel)
  <2>1. EndsFinal(panel.version, panel.cur_act_seq)
    BY <1>1, RefreshingFacts
  <2>2. TypeOK'
    BY <1>1, <1>3, <2>1, ActivationTimerEnds DEF TypeOK, EndsFinal
  <2>3. PanelInv'
    BY <1>3, ActivationTimerEnds
       DEF IndInv, PanelInv, SequenceFromTable, TimerFollowsSequence, BusyPastStart,
           ScanWithinStep, BusyIsReleased, PaintedIsFinal, Refreshing, LOW, HIGH
  <2>q. QED
    BY <2>2, <2>3 DEF IndInv
<1>q. QED
  BY <1>2, <1>3

LEMMA ResetInv == IndInv /\ Reset => IndInv'
<1> SUFFICES ASSUME IndInv, Reset PROVE IndInv'
  OBVIOUS
<1>1. panel \in Panels /\ 0 \in Lines /\ panel.black \in Images
  BY PanelAssumption DEF IndInv, TypeOK, Panels, HeapImages, Images, Lines
<1>2. panel' = chip_reset(panel) /\ ram' \in Rams
  BY DEF Reset, ResetRam, Rams
<1>3. /\ panel' \in Panels
      /\ panel'.version = panel.version /\ panel'.actMode = panel.actMode
      /\ panel'.cur_act_seq = panel.cur_act_seq
      /\ panel'.act_ndx = 0 /\ panel'.act_scan_ndx = 0
      /\ panel'.busy = LOW /\ panel'.timer = panel.timer
  <2>1. 255 \in UpdSeqs /\ 0 \in Nat
    BY DEF UpdSeqs
  <2>2. panel' \in Panels
    BY <1>1, <1>2, <2>1 DEF chip_reset, Panels
  <2>q. QED
    BY <1>1, <1>2, <2>2 DEF chip_reset, Panels
<1>4. CASE Refreshing
  <2>1. EndsFinal(panel.version, panel.cur_act_seq)
    BY <1>4, RefreshingFacts
  <2>2. TypeOK' /\ ~SeqEnded(panel')
    BY <1>2, <1>3, <2>1 DEF TypeOK, SeqEnded, EndsFinal
  <2>3. \A l \in Lines : ~(l < panel'.act_scan_ndx)
    BY <1>3 DEF Lines
  <2>4. PanelInv'
    BY <1>3, <2>2, <2>3 DEF IndInv, PanelInv, SequenceFromTable, TimerFollowsSequence,
      BusyPastStart, ScanWithinStep, BusyIsReleased, PaintedIsFinal, Refreshing, LOW, HIGH
  <2>q. QED
    BY <2>2, <2>4 DEF IndInv
<1>5. CASE ~Refreshing
  <2>1. TypeOK'
    BY <1>2, <1>3, <1>5 DEF TypeOK, IndInv, PanelInv, TimerFollowsSequence
  <2>2. PanelInv'
    BY <1>3, <1>5 DEF IndInv, PanelInv, SequenceFromTable, TimerFollowsSequence,
      BusyPastStart, ScanWithinStep, BusyIsReleased, PaintedIsFinal, Refreshing, LOW, HIGH
  <2>q. QED
    BY <2>1, <2>2 DEF IndInv
<1>q. QED
  BY <1>4, <1>5

LEMMA HostCommandInv ==
  ASSUME IndInv,
         \/ \E d \in UpdSeqs : DispUpdCtl2(d)
         \/ \E d \in SleepModes : DeepSleep(d)
         \/ \E l \in Lines, bit, red \in {0, 1} : WriteRam(l, bit, red)
  PROVE  IndInv'
<1>1. panel \in Panels /\ ram \in Rams
  BY DEF IndInv, TypeOK
<1>2. ASSUME NEW d \in UpdSeqs, DispUpdCtl2(d) PROVE IndInv'
  <2>1. panel' = [panel EXCEPT !.disp_upd_seq = d] /\ ram' = ram
    BY <1>2 DEF DispUpdCtl2, on_cmd_disp_upd_ctl2
  <2>2. panel' \in Panels
    BY <1>1, <2>1 DEF Panels
  <2>3. /\ panel'.version = panel.version /\ panel'.actMode = panel.actMode
        /\ panel'.cur_act_seq = panel.cur_act_seq /\ panel'.act_ndx = panel.act_ndx
        /\ panel'.act_scan_ndx = panel.act_scan_ndx /\ panel'.busy = panel.busy
        /\ panel'.timer = panel.timer /\ panel'.frame = panel.frame
        /\ panel'.sleeping = panel.sleeping
    BY <1>1, <2>1 DEF Panels
  <2>4. TypeOK'
    BY <2>1, <2>2, <2>3 DEF IndInv, TypeOK
  <2>5. PanelInv'
    BY <2>1, <2>3 DEF IndInv, PanelInv, SequenceFromTable, TimerFollowsSequence, BusyPastStart,
       ScanWithinStep, BusyIsReleased, PaintedIsFinal, Refreshing, SeqEnded, CurrentStep
  <2>q. QED
    BY <2>4, <2>5 DEF IndInv
<1>3. ASSUME NEW d \in SleepModes, DeepSleep(d) PROVE IndInv'
  <2>1. panel' = on_cmd_deep_sleep(panel, d) /\ ram' = ram /\ HostMaySend
    BY <1>3 DEF DeepSleep
  <2>2. panel' \in Panels
    BY <1>1, <2>1 DEF on_cmd_deep_sleep, Panels
  <2>3. /\ panel'.version = panel.version /\ panel'.actMode = panel.actMode
        /\ panel'.cur_act_seq = panel.cur_act_seq /\ panel'.act_ndx = panel.act_ndx
        /\ panel'.act_scan_ndx = panel.act_scan_ndx
        /\ panel'.timer = panel.timer /\ panel'.frame = panel.frame
    BY <1>1, <2>1 DEF on_cmd_deep_sleep, Panels
  <2>4. \/ panel'.busy = HIGH /\ panel'.sleeping
        \/ panel'.busy = panel.busy
    BY <1>1, <2>1 DEF on_cmd_deep_sleep, Panels
  <2>5. TypeOK'
    BY <2>1, <2>2, <2>3 DEF IndInv, TypeOK
  <2>6. HostWaits => BusyIsReleased'
    BY <2>1, <2>4 DEF BusyIsReleased, HostMaySend, LOW, HIGH
  <2>7. PanelInv'
    BY <2>1, <2>3, <2>4, <2>6 DEF IndInv, PanelInv, SequenceFromTable, TimerFollowsSequence,
       BusyPastStart, ScanWithinStep, PaintedIsFinal, Refreshing, SeqEnded, CurrentStep
  <2>q. QED
    BY <2>5, <2>7 DEF IndInv
<1>4. ASSUME NEW l \in Lines, NEW bit \in {0, 1}, NEW red \in {0, 1}, WriteRam(l, bit, red)
      PROVE  IndInv'
  <2>1. panel' = panel /\ HostMaySend
    BY <1>4 DEF WriteRam
  <2>2. ram' \in Rams
    BY <1>1, <1>4 DEF WriteRam, Rams
  <2>3. TypeOK'
    BY <2>1, <2>2 DEF IndInv, TypeOK
  <2>4. ASSUME HostWaits, Refreshing
        PROVE  /\ ~SeqEnded(panel) /\ panel.act_scan_ndx = 0
    <3>1. panel.busy # HIGH
      BY <2>1, <2>4 DEF HostMaySend, LOW, HIGH
    <3>2. panel.act_scan_ndx \in Nat /\ panel.act_ndx \in Nat
      BY <1>1 DEF Panels, Lines
    <3>q. QED
      BY <2>4, <3>1, <3>2, RefreshingFacts DEF IndInv, PanelInv, BusyPastStart, ScanWithinStep
  <2>5. HostWaits => PaintedIsFinal'
    BY <2>1, <2>4 DEF PaintedIsFinal, Refreshing, Lines
  <2>6. PanelInv'
    BY <2>1, <2>5 DEF IndInv, PanelInv, SequenceFromTable, TimerFollowsSequence,
       BusyPastStart, ScanWithinStep, BusyIsReleased, Refreshing
  <2>q. QED
    BY <2>3, <2>6 DEF IndInv
<1>q. QED
  BY <1>2, <1>3, <1>4

LEMMA StepInv == IndInv /\ [Next]_vars => IndInv'
<1> SUFFICES ASSUME IndInv, [Next]_vars PROVE IndInv'
  OBVIOUS
<1>1. CASE MasterActivation
  BY <1>1, MasterActivationRuns, RunStepInv DEF IndInv, TypeOK, MasterActivation
<1>2. CASE \/ \E d \in UpdSeqs : DispUpdCtl2(d)
           \/ \E d \in SleepModes : DeepSleep(d)
           \/ \E l \in Lines, bit, red \in {0, 1} : WriteRam(l, bit, red)
  BY <1>2, HostCommandInv
<1>3. CASE Reset
  BY <1>3, ResetInv
<1>4. CASE ActivationTimer
  BY <1>4, ActivationTimerInv
<1>5. CASE UNCHANGED vars
  BY <1>5 DEF vars, IndInv, TypeOK, PanelInv, SequenceFromTable, TimerFollowsSequence,
     BusyPastStart, ScanWithinStep, BusyIsReleased, PaintedIsFinal, Refreshing
<1>q. QED
  BY <1>1, <1>2, <1>3, <1>4, <1>5 DEF Next

(* The inductive invariant holds of every behaviour. *)
THEOREM Invariance == Spec => []IndInv
<1>1. Init => IndInv
  BY InitInv
<1>2. IndInv /\ [Next]_vars => IndInv'
  BY StepInv
<1>q. QED
  BY <1>1, <1>2, PTL DEF Spec

(* The panel's state is well formed: in particular act_ndx never passes    *)
(* the end of the sequence and act_scan_ndx never leaves the frame.        *)
THEOREM TypeCorrect == Spec => []TypeOK
<1>1. IndInv => TypeOK
  BY DEF IndInv
<1>q. QED
  BY <1>1, Invariance, PTL

(* on_activation_step and the painters it calls leave a line counter above *)
(* 0 only in the middle of a scan step, under BUSY.                        *)
THEOREM ScanStaysWithinStep == Spec => []ScanWithinStep
<1>1. IndInv => ScanWithinStep
  BY DEF IndInv, PanelInv
<1>q. QED
  BY <1>1, Invariance, PTL

(* With a host that waits, BUSY high always has a timer, or a sleeping     *)
(* chip, behind it.                                                        *)
THEOREM BusyAlwaysReleased == HostWaits /\ Spec => []BusyIsReleased
<1> SUFFICES ASSUME HostWaits PROVE Spec => []BusyIsReleased
  OBVIOUS
<1>1. IndInv => BusyIsReleased
  BY DEF IndInv, PanelInv
<1>q. QED
  BY <1>1, Invariance, PTL

-----------------------------------------------------------------------------
(* Action properties *)

HostCommand ==
  \/ \E d \in UpdSeqs : DispUpdCtl2(d)
  \/ \E d \in SleepModes : DeepSleep(d)
  \/ \E l \in Lines, bit, red \in {0, 1} : WriteRam(l, bit, red)

(* What the other steps do to the picture and the timer. *)
LEMMA OtherSteps ==
  ASSUME IndInv, [Next]_vars
  PROVE  \/ \E p \in Panels : StepOf(p)
         \/ ActivationTimer /\ SeqEnded(panel)
         \/ Reset /\ panel'.version = panel.version /\ panel'.busy = LOW
                  /\ panel'.timer = panel.timer /\ panel'.frame = panel.black
         \/ HostCommand /\ panel'.version = panel.version
                        /\ panel'.timer = panel.timer /\ panel'.frame = panel.frame
         \/ UNCHANGED vars
<1>1. panel \in Panels
  BY DEF IndInv, TypeOK
<1>2. CASE MasterActivation
  BY <1>2, MasterActivationRuns DEF IndInv, TypeOK, MasterActivation
<1>3. CASE ActivationTimer
  BY <1>3, ActivationTimerRuns
<1>4. CASE Reset
  BY <1>1, <1>4 DEF Reset, chip_reset, Panels
<1>5. CASE HostCommand
  BY <1>1, <1>5 DEF HostCommand, DispUpdCtl2, DeepSleep, WriteRam, on_cmd_disp_upd_ctl2,
                    on_cmd_deep_sleep, Panels
<1>q. QED
  BY <1>2, <1>3, <1>4, <1>5 DEF Next, HostCommand

(* With a host that waits, the frame buffer is the rendering of the RAM    *)
(* whenever on_activation_step ends the sequence.                          *)
THEOREM RefreshShowsTheRam == HostWaits /\ Spec => RefreshShowsRam
<1> SUFFICES ASSUME HostWaits PROVE Spec => RefreshShowsRam
  OBVIOUS
<1>1. ASSUME IndInv, [Next]_vars, Refreshing, ~Refreshing'
      PROVE  panel'.frame = FinalImage(panel.version, ram)
  <2>1. CASE \E p \in Panels : StepOf(p)
    BY <1>1, <2>1, RunStepFields DEF StepOf, Refreshing, IndInv, TypeOK
  <2>2. CASE ActivationTimer /\ SeqEnded(panel)
    BY <1>1, <2>2, ActivationTimerEnds DEF IndInv, PanelInv, PaintedIsFinal
  <2>q. QED
    BY <1>1, <2>1, <2>2, OtherSteps DEF Refreshing, vars
<1>2. IndInv /\ [Next]_vars =>
        [Refreshing /\ ~Refreshing' => panel'.frame = FinalImage(panel.version, ram)]_vars
  BY <1>1
<1>q. QED
  BY <1>2, Invariance, PTL DEF Spec, RefreshShowsRam

(* Whatever the host sends and whenever, a timer step never changes the    *)
(* frame buffer with BUSY low.                                             *)
THEOREM ImageIsStableWhenIdle == Spec => ImageStableWhenIdle
<1>1. ASSUME IndInv, [Next]_vars, panel'.frame # panel.frame
      PROVE  panel'.busy = HIGH \/ Reset
  <2>1. CASE \E p \in Panels : StepOf(p)
    BY <2>1, <1>1, RunStepFields DEF StepOf, IndInv, TypeOK
  <2>2. CASE ActivationTimer /\ SeqEnded(panel)
    BY <1>1, <2>2, ActivationTimerEnds
  <2>q. QED
    BY <1>1, <2>1, <2>2, OtherSteps DEF vars
<1>2. IndInv /\ [Next]_vars => [panel'.frame # panel.frame => panel'.busy = HIGH \/ Reset]_vars
  BY <1>1
<1>q. QED
  BY <1>2, Invariance, PTL DEF Spec, ImageStableWhenIdle

(* A step of a full-frame painter starts at line 0. *)
LEMMA WalkPaintsAll ==
  ASSUME ram \in Rams, NEW p \in Panels, StepOf(p), CompletedStep' \in WalkSteps, NEW l \in Lines
  PROVE  panel'.frame[l] = StepPixel(panel, ram, CompletedStep', l)
<1> DEFINE step == CurrentStep(p)
<1>1. /\ step \in Steps /\ panel'.frame = Paint(p, ram, step)
      /\ panel'.cur_act_seq = p.cur_act_seq
      /\ panel'.timer = "step" => panel'.act_ndx = p.act_ndx + 1
  BY RunStepFields DEF StepOf
<1>2. CompletedStep' = IF panel'.timer = "step" /\ panel'.act_ndx > 0
                       THEN panel'.cur_act_seq[panel'.act_ndx] ELSE "none"
  BY DEF CompletedStep
<1>3. "none" \notin WalkSteps
  BY DEF WalkSteps
<1>4. CompletedStep' = step /\ step \in WalkSteps
  BY <1>1, <1>2, <1>3 DEF CurrentStep
<1>5. p.act_scan_ndx = 0
  BY <1>4 DEF StepOf, Runnable, ScanSteps, WalkSteps, Panels, Lines
<1>6. panel'.frame[l] = StepPixel(p, ram, step, l)
  BY <1>1, <1>4, <1>5, PanelAssumption DEF Paint, PaintedLines, ScanSteps, WalkSteps, Lines
<1>7. StepPixel(p, ram, step, l) = StepPixel(panel, ram, step, l)
  <2>1. step # "AM_BLACK" /\ step # "AM_WHITE"
    BY <1>4 DEF WalkSteps
  <2>q. QED
    BY <2>1 DEF StepPixel
<1>q. QED
  BY <1>4, <1>6, <1>7

(* Whatever the host sends and whenever, display_panel_bw_frame and        *)
(* display_panel_color_frame repaint the whole frame.                      *)
THEOREM FullStepsPaintAll == Spec => FullStepPaintsAll
<1>1. ASSUME IndInv, [Next]_vars, MasterActivation \/ ActivationTimer, CompletedStep' \in WalkSteps,
             NEW l \in Lines
      PROVE  panel'.frame[l] = StepPixel(panel, ram, CompletedStep', l)
  <2>1. CASE ActivationTimer /\ SeqEnded(panel)
    <3>1. panel'.timer = "off"
      BY <1>1, <2>1, ActivationTimerEnds
    <3>q. QED
      BY <1>1, <3>1 DEF CompletedStep, WalkSteps
  <2>2. CASE ~(ActivationTimer /\ SeqEnded(panel))
    <3>1. \E p \in Panels : StepOf(p)
      BY <1>1, <2>2, MasterActivationRuns, ActivationTimerRuns DEF IndInv, TypeOK, MasterActivation
    <3>q. QED
      BY <1>1, <3>1, WalkPaintsAll DEF IndInv, TypeOK
  <2>q. QED
    BY <2>1, <2>2
<1>2. IndInv /\ [Next]_vars =>
        [(MasterActivation \/ ActivationTimer) /\ CompletedStep' \in WalkSteps
           => \A l \in Lines : panel'.frame[l] = StepPixel(panel, ram, CompletedStep', l)]_vars
  BY <1>1
<1>q. QED
  BY <1>2, Invariance, PTL DEF Spec, FullStepPaintsAll

-----------------------------------------------------------------------------
(* The engine implements the display service *)

LEMMA SameFrames ==
  /\ Service!Images = Images /\ Service!Rams = Rams /\ Service!ResetRam = ResetRam
  /\ \A v, r : Service!FinalImage(v, r) = FinalImage(v, r)
<1>1. Service!Lines = Lines /\ Service!Colours = Colours
  BY DEF Service!Lines, Lines, Service!Colours, Colours, Service!FB_BLACK, FB_BLACK,
         Service!FB_WHITE, FB_WHITE, Service!FB_COLOR, FB_COLOR, Service!FB_OTHER, FB_OTHER
<1>2. \A r, l, inv : Service!BwPixel(r, l, inv) = BwPixel(r, l, inv)
  BY DEF Service!BwPixel, BwPixel, Service!FB_BLACK, FB_BLACK, Service!FB_WHITE, FB_WHITE
<1>3. \A r, l, inv : Service!ColorPixel(r, l, inv) = ColorPixel(r, l, inv)
  BY <1>2 DEF Service!ColorPixel, ColorPixel, Service!FB_COLOR, FB_COLOR
<1>4. \A v, r : Service!FinalImage(v, r) = FinalImage(v, r)
  BY <1>1, <1>2, <1>3 DEF Service!FinalImage, FinalImage
<1>q. QED
  BY <1>1, <1>4 DEF Service!Images, Images, Service!Rams, Rams, Service!ResetRam, ResetRam

LEMMA ServiceInit == Init => Service!Init
<1> SUFFICES ASSUME Init PROVE Service!Init
  OBVIOUS
<1>1. panel \in Panels
  BY InitInv DEF IndInv, TypeOK
<1>2. panel.version \in {1, 2} /\ panel.frame \in Images
  BY <1>1 DEF Panels, Versions
<1>3. panel.busy = LOW /\ ram = ResetRam
  BY DEF Init, chip_reset
<1>q. QED
  BY <1>2, <1>3, SameFrames DEF Service!Init, Phase

LEMMA ServiceStep ==
  ASSUME HostWaits, IndInv, [Next]_vars
  PROVE  [Service!Next]_(Service!service)
<1> USE SameFrames
<1>1. /\ panel \in Panels /\ panel.frame \in Images /\ ram \in Rams
      /\ panel.busy \in {LOW, HIGH} /\ LOW # HIGH
  BY DEF IndInv, TypeOK, Panels, LOW, HIGH
<1>2. panel' \in Panels /\ panel'.frame \in Images /\ ram' \in Rams
  BY StepInv DEF IndInv, TypeOK, Panels
<1>3. HostMaySend <=> panel.busy = LOW
  BY DEF HostMaySend
<1>4. CASE \E p \in Panels : StepOf(p)
  <2>1. /\ panel'.version = panel.version /\ ram' = ram
        /\ panel'.busy = HIGH /\ panel'.timer # "off"
    BY <1>1, <1>4, RunStepFields DEF StepOf
  <2>2. Phase' = "refreshing"
    BY <1>1, <2>1 DEF Phase, Refreshing
  <2>3. CASE panel.busy = LOW
    BY <1>2, <2>1, <2>2, <2>3 DEF Phase, Service!Next, Service!Start
  <2>4. CASE panel.busy = HIGH /\ Refreshing
    BY <1>1, <1>2, <2>1, <2>2, <2>4 DEF Phase, Service!Next, Service!Progress
  <2>5. CASE panel.busy = HIGH /\ ~Refreshing
    <3>1. ~MasterActivation /\ ~ActivationTimer /\ ~HostCommand
      BY <1>1, <1>3, <2>5 DEF MasterActivation, ActivationTimer, Refreshing, HostCommand,
                              DispUpdCtl2, DeepSleep, WriteRam
    <3>2. ~Reset
      BY <1>1, <2>1 DEF Reset, chip_reset, Panels
    <3>q. QED
      BY <1>1, <2>1, <2>5, <3>1, <3>2 DEF Next, HostCommand, vars, Refreshing
  <2>q. QED
    BY <1>1, <2>3, <2>4, <2>5
<1>5. CASE ActivationTimer /\ SeqEnded(panel)
  <2>1. Refreshing
    BY <1>5 DEF ActivationTimer, Refreshing
  <2>2. panel.busy = HIGH
    BY <1>5, <2>1, RefreshingFacts DEF IndInv, PanelInv, BusyPastStart
  <2>3. panel.frame = FinalImage(panel.version, ram)
    BY <1>5, <2>1 DEF IndInv, PanelInv, PaintedIsFinal
  <2>q. QED
    BY <1>1, <1>5, <2>1, <2>2, <2>3, ActivationTimerEnds
       DEF Phase, Service!Next, Service!Finish
<1>6. CASE Reset /\ panel'.version = panel.version /\ panel'.busy = LOW
  BY <1>2, <1>6 DEF Phase, Reset, Service!Next, Service!Reset
<1>7. CASE /\ HostCommand /\ panel'.version = panel.version
           /\ panel'.timer = panel.timer /\ panel'.frame = panel.frame
  <2>1. panel.busy = LOW /\ Phase = "idle"
    BY <1>3, <1>7 DEF HostCommand, DispUpdCtl2, DeepSleep, WriteRam, Phase
  <2>2. CASE panel'.busy # LOW
    <3>1. ram' = ram
      BY <1>7, <2>1, <2>2 DEF HostCommand, DispUpdCtl2, DeepSleep, WriteRam
    <3>2. Phase' \in {"refreshing", "asleep"}
      BY <2>2 DEF Phase
    <3>q. QED
      BY <1>2, <1>7, <2>1, <3>1, <3>2 DEF Service!Next, Service!Start, Service!Sleep
  <2>3. CASE panel'.busy = LOW
    <3>1. Phase' = "idle"
      BY <2>3 DEF Phase
    <3>q. QED
      BY <1>2, <1>7, <2>1, <3>1 DEF Service!Next, Service!WriteRam
  <2>q. QED
    BY <2>2, <2>3
<1>8. CASE UNCHANGED vars
  BY <1>8 DEF vars, Service!service, Phase, Refreshing
<1>q. QED
  BY <1>4, <1>5, <1>6, <1>7, <1>8, OtherSteps

(* For a host that waits for BUSY, the engine is the display service: the  *)
(* picture moves only in a refresh, which ends with the rendering of the   *)
(* RAM, and neither reset nor a stale timer shows the host anything else.  *)
THEOREM PanelImplementsService == HostWaits /\ Spec => ImplementsService
<1> SUFFICES ASSUME HostWaits PROVE Spec => ImplementsService
  OBVIOUS
<1>1. Init => Service!Init
  BY ServiceInit
<1>2. IndInv /\ [Next]_vars => [Service!Next]_(Service!service)
  BY ServiceStep
<1>q. QED
  BY <1>1, <1>2, Invariance, PTL DEF Spec, ImplementsService, Service!Spec

=============================================================================
