----------------------------- MODULE MultiParty -----------------------------
(***************************************************************************)
(* The frame loop of multipleParty.cpp (lines 181-191 and 279-393): every  *)
(* frame it measures the right hand of each tracked user, lets the fastest *)
(* one move the colour and sends the colour to the lights.                 *)
(*                                                                         *)
(* What the camera shows is input: who is in view, whom the generator      *)
(* tracks and where each hand is.  Distances are natural numbers of a unit *)
(* that makes the speed of line 312, which adds the last two distances, a  *)
(* natural number too, so the thresholds are constants in that unit.       *)
(*                                                                         *)
(* The speed histories vaverage[4][5] are one block of memory.  Line 330   *)
(* also writes vaverage[u][5], which is vaverage[u + 1][0] for all slots   *)
(* but the last.  Of the last slot it is past the block, where C promises  *)
(* nothing and the build puts the next global, g: in both halves of        *)
(* Programs/Bin/x64-Release/MultipleParty the symbol _g is at the end of   *)
(* the 160 bytes of _vaverage.  So the green channel becomes a speed.      *)
(***************************************************************************)
EXTENDS HueWalk, Sequences, Functions

CONSTANTS Users,          \* user ids of the generator
          NSlots,         \* length of the per-user arrays, 4
          Hist,           \* speeds remembered per slot, 5
          Points,         \* where a hand can be
          Origin,         \* the point (0, 0, 0) the arrays start with
          Dist(_, _),     \* distance between two points
          Rises(_, _),    \* the hand went up or right on balance, line 298
          ShiftSpeed,     \* a speed above it shifts the colour, line 342
          StepNum,        \* colour steps per unit of speed (STEPCONST) as
          StepDen,        \*   the fraction StepNum / StepDen
          JumpGain,       \* gain over the mean, times Hist - 1, for a jump
          GapFrames,      \* jumpframegap after a jump, 10
          UnitsPerLevel   \* units of speed that are one level of a channel

ASSUME PartyAssumption ==
  /\ NSlots \in Nat \ {0} /\ Hist \in Nat \ {0, 1}
  /\ Origin \in Points
  /\ \A p, q \in Points : Dist(p, q) \in Nat /\ Rises(p, q) \in BOOLEAN
  /\ ShiftSpeed \in Nat /\ JumpGain \in Nat /\ GapFrames \in Nat
  /\ StepNum \in Nat /\ StepDen \in Nat \ {0}
  /\ UnitsPerLevel \in Nat \ {0}

\* Whom GetUsers can report.  The loop indexes its arrays of NSlots entries
\* with every one of them, so the model stops at NSlots users in view.
Crowds == {s \in UNION {[1 .. n -> Users] : n \in 0 .. NSlots} : IsInjective(s)}

Slots == 0 .. NSlots - 1
Cells == 0 .. NSlots * Hist - 1
Cell(u, i) == u * Hist + i            \* vaverage[u][i]
Last == NSlots - 1

VARIABLES pc,            \* where the loop is
          crowd,         \* aUsers[0 .. nUsers - 1]
          slot,          \* userID of the for loop
          fastestSpeed,
          fastestUser,
          speed,         \* vaverage, as a block
          last,          \* lastx, lasty, lastz
          second,        \* secondchange
          netpositive,   \* netpositivev
          left,          \* iterations the shift loop has left
          gap,           \* jumpframegap
          sent           \* the last colour given to varcolor.py

scan == <<slot, fastestSpeed, fastestUser, speed, last, second, netpositive>>
vars == <<pc, crowd, scan, left, gap, colour, sent>>

Init == /\ pc = "wait" /\ crowd = <<>> /\ slot = 0
        /\ fastestSpeed = 0 /\ fastestUser = 0
        /\ speed = [k \in Cells |-> 0]
        /\ last = [u \in Slots |-> Origin]
        /\ second = [u \in Slots |-> 0]
        /\ netpositive = [u \in Slots |-> FALSE]
        /\ left = 0 /\ gap = 0
        /\ colour = InitialColor /\ sent = InitialColor

UpdateKeepsTopSpeed(users) ==
  /\ pc = "wait"
  /\ crowd' = users
  /\ slot' = 0
  /\ pc' = "scan"
  /\ UNCHANGED <<fastestSpeed, fastestUser, speed, last, second, netpositive, left, gap, colour, sent>>
\* WaitOneUpdateAll and GetUsers: the users in view, in the generator's order.
Update(users) ==
  /\ pc = "wait"
  /\ crowd' = users
  /\ slot' = 0 /\ fastestSpeed' = 0
  /\ pc' = "scan"
  /\ UNCHANGED <<fastestUser, speed, last, second, netpositive, left, gap, colour, sent>>

\* A user in view who is not tracked keeps the slot but is not measured.
SkipUser ==
  /\ pc = "scan" /\ slot < Len(crowd)
  /\ slot' = slot + 1
  /\ UNCHANGED <<pc, crowd, fastestSpeed, fastestUser, speed, last, second,
                 netpositive, left, gap, colour, sent>>

\* The loop of lines 328-331, run on vaverage[u] after cell 0 got the speed v:
\* what it leaves in the block, and in the global behind it.  A speed is cut
\* to whole levels, away from zero, because only a speed of zero is dark.
Shifted(u, v) ==
  [k \in Cells |-> IF k \in {Cell(u, 0), Cell(u, 1)} THEN v
                   ELSE IF k \in Cell(u, 2) .. Cell(u, Hist) THEN speed[k - 1]
                   ELSE speed[k]]
AsGreen(v) == (v + UnitsPerLevel - 1) \div UnitsPerLevel
Spilled(u) == IF u = Last THEN [colour EXCEPT !.g = AsGreen(speed[Cell(u, Hist - 1)])]
                          ELSE colour

MeasureUser(hand) ==
  LET moved == Dist(hand, last[slot])
      v     == moved + second[slot]
  IN  /\ pc = "scan" /\ slot < Len(crowd)
      /\ netpositive' = [netpositive EXCEPT ![slot] = Rises(hand, last[slot])]
      /\ last' = [last EXCEPT ![slot] = hand]
      /\ second' = [second EXCEPT ![slot] = moved]
      /\ speed' = Shifted(slot, v) /\ colour' = Spilled(slot)
      /\ IF v > fastestSpeed THEN fastestSpeed' = v /\ fastestUser' = slot
                             ELSE UNCHANGED <<fastestSpeed, fastestUser>>
      /\ slot' = slot + 1
      /\ UNCHANGED <<pc, crowd, left, gap, sent>>

TopSpeed == speed[Cell(fastestUser, 0)]

\* steps, truncated by the cast of line 338.
StepsOf(v) == (v * StepNum) \div StepDen

\* Lines 338-347 once every user was seen.
Decide ==
  /\ pc = "scan" /\ slot >= Len(crowd)
  /\ IF TopSpeed > ShiftSpeed THEN pc' = "shift" /\ left' = StepsOf(TopSpeed) + 1
                              ELSE pc' = "send" /\ left' = left
  /\ UNCHANGED <<crowd, scan, gap, colour, sent>>

\* What an iteration of the shift loop of this frame makes of the colour.
Turned == IF netpositive[fastestUser] THEN ShiftUp(colour) ELSE ShiftDown(colour)

\* One iteration of either shift loop.
ShiftCountsTwice ==
  /\ pc = "shift" /\ left > 0
  /\ colour' = Turned
  /\ left' = left - 2
  /\ UNCHANGED <<pc, crowd, scan, gap, sent>>
Shift ==
  /\ pc = "shift" /\ left > 0
  /\ colour' = Turned
  /\ left' = left - 1
  /\ UNCHANGED <<pc, crowd, scan, gap, sent>>

Past == [i \in 1 .. Hist - 1 |-> speed[Cell(fastestUser, i)]]
Surges == (Hist - 1) * TopSpeed - FoldFunction(+, 0, Past) > JumpGain

\* Lines 376-386.
JumpSkipsSend ==
  /\ pc = "shift" /\ left = 0
  /\ IF gap = 0 /\ Surges THEN colour' = Complement(colour) /\ gap' = GapFrames
                          ELSE colour' = colour /\ gap' = IF gap = 0 THEN 0 ELSE gap - 1
  /\ pc' = "wait"
  /\ UNCHANGED <<crowd, scan, left, sent>>
JumpForgetsBlue ==
  /\ pc = "shift" /\ left = 0
  /\ IF gap = 0 /\ Surges
     THEN colour' = [Complement(colour) EXCEPT !.b = colour.b] /\ gap' = GapFrames
     ELSE colour' = colour /\ gap' = IF gap = 0 THEN 0 ELSE gap - 1
  /\ pc' = "send"
  /\ UNCHANGED <<crowd, scan, left, sent>>
JumpIgnoresGap ==
  /\ pc = "shift" /\ left = 0
  /\ IF Surges THEN colour' = Complement(colour) /\ gap' = GapFrames
               ELSE colour' = colour /\ gap' = IF gap = 0 THEN 0 ELSE gap - 1
  /\ pc' = "send"
  /\ UNCHANGED <<crowd, scan, left, sent>>
JumpOrCount ==
  /\ pc = "shift" /\ left = 0
  /\ IF gap = 0 /\ Surges THEN colour' = Complement(colour) /\ gap' = GapFrames
                          ELSE colour' = colour /\ gap' = IF gap = 0 THEN 0 ELSE gap - 1
  /\ pc' = "send"
  /\ UNCHANGED <<crowd, scan, left, sent>>

Send ==
  /\ pc = "send"
  /\ sent' = colour
  /\ pc' = "wait"
  /\ UNCHANGED <<crowd, scan, left, gap, colour>>

\* A key was hit: the loop ends before the next frame.
Stop ==
  /\ pc = "wait"
  /\ pc' = "stopped"
  /\ UNCHANGED <<crowd, scan, left, gap, colour, sent>>

Next == \/ \E users \in Crowds : Update(users)
        \/ SkipUser \/ \E hand \in Points : MeasureUser(hand)
        \/ Decide \/ Shift \/ JumpOrCount \/ Send \/ Stop

Spec == Init /\ [][Next]_vars

-----------------------------------------------------------------------------
TypeOK == /\ pc \in {"wait", "scan", "shift", "send", "stopped"}
          /\ crowd \in Crowds
          /\ slot \in 0 .. NSlots
          /\ fastestSpeed \in Nat /\ fastestUser \in Slots
          /\ speed \in [Cells -> Nat]
          /\ last \in [Slots -> Points]
          /\ second \in [Slots -> Nat]
          /\ netpositive \in [Slots -> BOOLEAN]
          /\ left \in Nat /\ gap \in 0 .. GapFrames
          /\ colour \in Color /\ sent \in Color

\* "determine the fastest user here" (line 315): as soon as anybody moved in
\* this frame, the speed that decides about steps and jump is the highest one
\* of the frame, measured in it.  The write past the end of one slot's
\* history lands in the next slot's current speed, so this depends on the
\* order of the slots.
FastestLeads ==
  pc \in {"scan", "shift", "send"} /\ fastestSpeed > 0
    => fastestUser < slot /\ TopSpeed = fastestSpeed

\* No colour stays behind: whatever a frame did to the colour, the lights were
\* given it before the program waits for the camera again or stops.
NothingUnsent == pc \in {"wait", "stopped"} => sent = colour

\* "Number of color steps is determined by velocity" (line 337): while the
\* fastest guest is fast enough, each of these steps moves the colour.  With a
\* guest in the last place the code breaks this: a speed in the green channel
\* takes the colour off the wheel, where no test of the loops is true.
StepsMoveTheColour == pc = "shift" /\ left > 0 => Turned # colour
=============================================================================
