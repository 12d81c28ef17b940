------------------------------- MODULE Frame -------------------------------
(***************************************************************************)
(* What the display RAM and the frame buffer hold, and how a RAM bit is    *)
(* rendered.                                                               *)
(*                                                                         *)
(* A scan line is represented by one of its pixels: the code treats the    *)
(* pixels of a line alike, and no property tells two of them apart.        *)
(***************************************************************************)
EXTENDS Naturals

CONSTANT Height        \* scan lines of the frame buffer

Lines == 0 .. Height - 1

FB_BLACK == "black"
FB_WHITE == "white"
FB_COLOR == "color"      \* chip->color: FB_RED or FB_YELLOW
FB_OTHER == "other"      \* a word that is none of the colours above

Colours == {FB_BLACK, FB_WHITE, FB_COLOR, FB_OTHER, "3F", "7F", "BF"}

Images == [Lines -> Colours]

Rams == [bw: [Lines -> {0, 1}], color: [Lines -> {0, 1}]]

(* The RAM chip_reset leaves: all white, no colour. *)
ResetRam == [bw |-> [l \in Lines |-> 1], color |-> [l \in Lines |-> 0]]

BwPixel(ram, l, invert) ==
  IF (ram.bw[l] = 1) # invert THEN FB_WHITE ELSE FB_BLACK

ColorPixel(ram, l, invert) ==
  IF (ram.color[l] = 1) # invert THEN FB_COLOR ELSE BwPixel(ram, l, invert)

(* What a finished refresh shows: black and white on a version 1 board,    *)
(* three colours on version 2.                                             *)
FinalImage(version, ram) ==
  [l \in Lines |-> IF version = 1 THEN BwPixel(ram, l, FALSE) ELSE ColorPixel(ram, l, FALSE)]

============================================================================
