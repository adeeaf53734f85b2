------------------------------ MODULE LifeParty ------------------------------
(***************************************************************************)
(* The frame loop of Lifeoftheparty.cpp (lines 267-423; burst-of-the-party *)
(* is the same file): one guest moves the colour.  Units and camera input  *)
(* are those of MultiParty.                                                *)
(***************************************************************************)
EXTENDS HueWalk

CONSTANTS Points, Origin, Dist(_, _), Rises(_, _),
          ShiftSpeed,     \* a speed above it shifts the colour, lines 329, 368
          StepNum,        \* colour steps per unit of speed (12, line 324) as
          StepDen,        \*   the fraction StepNum / StepDen
          JumpGain        \* four times the gain over the mean for a jump

ASSUME LifeAssumption ==
  /\ Origin \in Points
  /\ \A p, q \in Points : Dist(p, q) \in Nat /\ Rises(p, q) \in BOOLEAN
  /\ ShiftSpeed \in Nat /\ JumpGain \in Nat
  /\ StepNum \in Nat /\ StepDen \in Nat \ {0}

VARIABLES pc,
          last,          \* lastx, lasty, lastz
          distancechange,
          twochange,     \* distancechange of the frame before
          vaverage,
          past,          \* vaveragetwo .. vaveragefive, at 2 .. 5
          netpositivev,
          left,          \* iterations the shift loop has left
          sent           \* the last colour given to varcolor.py

vars == <<pc, last, distancechange, twochange, vaverage, past, netpositivev,
          left, colour, sent>>

Init == /\ pc = "wait" /\ last = Origin
        /\ distancechange = 0 /\ twochange = 0 /\ vaverage = 0
        /\ past = [i \in 2 .. 5 |-> 0]
        /\ netpositivev = FALSE /\ left = 0
        /\ colour = InitialColor /\ sent = InitialColor

StepsOf(v) == (v * StepNum) \div StepDen

\* A frame in which the user of aUsers[0] is tracked, lines 294-324; in any
\* other frame (nobody there, or not tracked yet) nothing changes.
Measure(hand) ==
  LET moved == Dist(hand, last)
      v     == moved + twochange
  IN  /\ pc = "wait"
      /\ netpositivev' = Rises(hand, last)
      /\ last' = hand
      /\ vaverage' = v
      /\ IF v > ShiftSpeed THEN pc' = "shift" /\ left' = StepsOf(v) + 1
                           ELSE pc' = "jump" /\ left' = 0
      /\ distancechange' = moved
      /\ UNCHANGED <<twochange, past, colour, sent>>

\* One iteration of either shift loop.
ShiftCountsTwice ==
  /\ pc = "shift" /\ left > 0
  /\ colour' = IF netpositivev THEN ShiftUp(colour) ELSE ShiftDown(colour)
  /\ left' = left - 2
  /\ pc' = IF left = 1 THEN "jump" ELSE "shift"
  /\ UNCHANGED <<last, distancechange, twochange, vaverage, past, netpositivev, sent>>
ShiftAddsRed ==
  /\ pc = "shift" /\ left > 0
  /\ colour' = AddR(ShiftDown(colour), 1)
  /\ left' = left - 1
  /\ pc' = IF left = 1 THEN "jump" ELSE "shift"
  /\ UNCHANGED <<last, distancechange, twochange, vaverage, past, netpositivev, sent>>
Shift ==
  /\ pc = "shift" /\ left > 0
  /\ colour' = IF netpositivev THEN ShiftUp(colour) ELSE ShiftDown(colour)
  /\ left' = left - 1
  /\ pc' = IF left = 1 THEN "jump" ELSE "shift"
  /\ UNCHANGED <<last, distancechange, twochange, vaverage, past, netpositivev, sent>>

Gain == 4 * vaverage - (past[2] + past[3] + past[4] + past[5])

JumpOnDifference ==
  /\ pc = "jump"
  /\ colour' = IF Gain > JumpGain \/ -Gain > JumpGain THEN Complement(colour) ELSE colour
  /\ twochange' = distancechange
  /\ past' = [i \in 2 .. 5 |-> vaverage]
  /\ pc' = "send"
  /\ UNCHANGED <<last, distancechange, vaverage, netpositivev, left, sent>>
JumpSkipsSend ==
  /\ pc = "jump"
  /\ colour' = IF Gain > JumpGain THEN Complement(colour) ELSE colour
  /\ twochange' = distancechange
  /\ past' = [i \in 2 .. 5 |-> vaverage]
  /\ pc' = "wait"
  /\ UNCHANGED <<last, distancechange, vaverage, netpositivev, left, sent>>
\* Lines 404-415.  vaveragethree is given the new vaveragetwo, and so on, so
\* the four speeds of the past are all the speed of this frame.
Jump ==
  /\ pc = "jump"
  /\ colour' = IF Gain > JumpGain THEN Complement(colour) ELSE colour
  /\ twochange' = distancechange
  /\ past' = [i \in 2 .. 5 |-> vaverage]
  /\ pc' = "send"
  /\ UNCHANGED <<last, distancechange, vaverage, netpositivev, left, sent>>

Send ==
  /\ pc = "send"
  /\ sent' = colour
  /\ pc' = "wait"
  /\ UNCHANGED <<last, distancechange, twochange, vaverage, past, netpositivev, left, colour>>

\* A key was hit.
Stop ==
  /\ pc = "wait"
  /\ pc' = "stopped"
  /\ UNCHANGED <<last, distancechange, twochange, vaverage, past, netpositivev, left, colour, sent>>

Frame == Shift \/ Jump \/ Send
Next == (\E hand \in Points : Measure(hand)) \/ Frame \/ Stop

Spec == Init /\ [][Next]_vars

\* One thread that nothing blocks: a frame that started goes on.
FairSpec == Spec /\ WF_vars(Frame)

-----------------------------------------------------------------------------
TypeOK == /\ pc \in {"wait", "shift", "jump", "send", "stopped"}
          /\ last \in Points
          /\ distancechange \in Nat /\ twochange \in Nat /\ vaverage \in Nat
          /\ past \in [2 .. 5 -> Nat]
          /\ netpositivev \in BOOLEAN
          /\ left \in Nat /\ (pc = "shift" <=> left > 0)
          /\ colour \in Color /\ sent \in Color

\* The jump has no guard of its own on the speed (line 404 is outside the
\* tests of lines 329 and 368): nevertheless the colour moves only in a frame
\* whose speed is one that shifts it.
OnlyMotionMoves == [][colour' # colour => vaverage > ShiftSpeed]_vars

\* A hand that keeps its speed never jumps: after one frame the history holds
\* that speed only.
SteadySpeedNeverJumps ==
  [][pc = "jump" /\ vaverage = past[2] => colour' = colour]_vars

\* Every colour reaches the lights: the frame that computed it does not hang
\* in its iterations, whatever the speed.
EventuallySent == colour # sent ~> colour = sent
=============================================================================
