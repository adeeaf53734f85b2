------------------------------- MODULE HueWalk -------------------------------
(***************************************************************************)
(* What the two light shows do to the colour, with the camera and the      *)
(* speeds left out: every change of the colour is an iteration of one of   *)
(* the shift loops or a jump to the complement.  LifeParty is shown to     *)
(* implement this module, and MultiParty as long as one of its places is   *)
(* free: a guest in the last place has green overwritten.                  *)
(***************************************************************************)
EXTENDS ColorWheel

VARIABLE colour          \* r, g, b

HueInit == colour = InitialColor

HueUp   == colour' = ShiftUp(colour)
HueDown == colour' = ShiftDown(colour)
HueJump == colour' = Complement(colour)

HueNext == HueUp \/ HueDown \/ HueJump

\* The colour goes only these ways.  The frame loop for one guest implements
\* this, whatever its camera sees, that for many while a place is free.
HueSpec == HueInit /\ [][HueNext]_colour

\* A dance with no jump in it.
Glide == HueInit /\ [][HueUp \/ HueDown]_colour

-----------------------------------------------------------------------------
Magenta == [r |-> CMax, g |-> 0, b |-> CMax]

Gap(x, y) == IF x < y THEN y - x ELSE x - y
Apart(c, d) == Gap(c.r, d.r) + Gap(c.g, d.g) + Gap(c.b, d.b)

\* Type and shape at once: whatever the dance, red and green stay levels of
\* a channel, at most blue leaves its range and in one of two shapes, and no
\* iteration ever stops at pure blue or pure yellow (multipleParty.cpp lines
\* 342-383).  The last part is what makes it inductive: started from pure
\* blue the third test (line 351) would take red below zero.
WheelShape == Settled(colour)

\* varcolor.py takes "rgb colors, from cmd line, range from 0 to 1": every
\* channel the loop sends is a level.  The code breaks this.
ColourInRange == InRange(colour)

\* The one way out of range: a positive shift that starts from pure green,
\* where the sixth test (line 354) takes blue below zero.
LeavesRangeOnlyAtGreen ==
  [][InRange(colour) /\ ~InRange(colour') => colour = Green /\ HueUp]_colour

\* Pure green is a corner the shift loops never stop at: from a colour in
\* range only a jump from pure magenta produces it.
GreenOnlyByJump ==
  [][InRange(colour) /\ colour' = Green => colour = Magenta /\ HueJump]_colour

\* A shift iteration never stands still, so the light cannot freeze while
\* somebody moves, and never moves the channels by more than three levels in
\* all, although up to three of its ifs can fire.
SmoothShift ==
  \A c \in {ShiftUp(colour), ShiftDown(colour)} :
    Apart(colour, c) \in 1 .. 3

\* A guest who in the end only moves up is shown the whole wheel again and
\* again, unless the colour leaks.
KeepsCycling ==
  []InRange(colour) /\ <>[][HueUp]_colour /\ WF_colour(HueUp)
    => []<>(colour = InitialColor)
=============================================================================
