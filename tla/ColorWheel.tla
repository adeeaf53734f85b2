----------------------------- MODULE ColorWheel -----------------------------
(***************************************************************************)
(* The colour arithmetic that multipleParty.cpp and Lifeoftheparty.cpp     *)
(* share.  The programs keep r, g and b in doubles that only ever move by  *)
(* one or are replaced by CMax - x, so integers are exact.  One iteration  *)
(* of either shift loop is a run of ifs, each testing what the ifs above   *)
(* it did.                                                                 *)
(*                                                                         *)
(* Here and in the other modules, a definition that stands directly above  *)
(* another and is named for a slip (Up6TestsFullBlue above Up6) stands for *)
(* no code: it is what the one below would be with that slip in it.        *)
(***************************************************************************)
EXTENDS Integers

CONSTANT CMax          \* a channel at full level, 255 in the programs

ASSUME CMaxAssumption == CMax \in Nat /\ CMax > 1

Color == [r : Int, g : Int, b : Int]

InitialColor == [r |-> CMax, g |-> 0, b |-> 0]

AddR(c, d) == [c EXCEPT !.r = @ + d]
AddG(c, d) == [c EXCEPT !.g = @ + d]
AddB(c, d) == [c EXCEPT !.b = @ + d]

\* The ifs of the loop taken when the hand moved up or right, in their order.
Up1(c) == IF c.r = CMax /\ c.b # CMax /\ c.g = 0 THEN AddB(c, 1) ELSE c
Up2(c) == IF c.r = CMax /\ c.b = CMax /\ c.g = 0 THEN AddR(c, -1) ELSE c
Up3(c) == IF c.r # CMax /\ c.b = CMax /\ c.g = 0 THEN AddR(c, -1) ELSE c
Up4(c) == IF c.r = 0 /\ c.b = CMax /\ c.g # CMax THEN AddG(c, 1) ELSE c
Up5(c) == IF c.r = 0 /\ c.b = CMax /\ c.g = CMax THEN AddB(c, -1) ELSE c
Up6TestsFullBlue(c) == IF c.r = 0 /\ c.b = CMax /\ c.g = CMax THEN AddB(c, -1) ELSE c
Up6(c) == IF c.r = 0 /\ c.b # CMax /\ c.g = CMax THEN AddB(c, -1) ELSE c
Up7(c) == IF c.r # CMax /\ c.b = 0 /\ c.g = CMax THEN AddR(c, 1) ELSE c
Up8(c) == IF c.r = CMax /\ c.b = 0 /\ c.g = CMax THEN AddG(c, -1) ELSE c
Up9(c) == IF c.r = CMax /\ c.b = 0 /\ c.g # 0 THEN AddG(c, -1) ELSE c

\* One iteration of that loop.
ShiftUp(c) == Up9(Up8(Up7(Up6(Up5(Up4(Up3(Up2(Up1(c)))))))))

\* The ifs of the loop taken when it moved down or left.
Down1TestsFullBlue(c) == IF c.r = CMax /\ c.b # CMax /\ c.g = 0 THEN AddB(c, -1) ELSE c
Down1(c) == IF c.r = CMax /\ c.b # 0 /\ c.g = 0 THEN AddB(c, -1) ELSE c
Down2(c) == IF c.r = CMax /\ c.b = 0 /\ c.g # CMax THEN AddG(c, 1) ELSE c
Down3(c) == IF c.r # 0 /\ c.b = 0 /\ c.g = CMax THEN AddR(c, -1) ELSE c
Down4SkipsGreen(c) == IF c.r = 0 /\ c.b # CMax /\ c.b # 0 /\ c.g = CMax THEN AddB(c, 1) ELSE c
Down4(c) == IF c.r = 0 /\ c.b # CMax /\ c.g = CMax THEN AddB(c, 1) ELSE c
Down5(c) == IF c.r = 0 /\ c.b = CMax /\ c.g # 0 THEN AddG(c, -1) ELSE c
Down6(c) == IF c.r # CMax /\ c.b = CMax /\ c.g = 0 THEN AddR(c, 1) ELSE c

ShiftDown(c) == Down6(Down5(Down4(Down3(Down2(Down1(c))))))

\* The colour jump.
ComplementOfRed(c) == [c EXCEPT !.r = CMax - @]
Complement(c) == [r |-> CMax - c.r, g |-> CMax - c.g, b |-> CMax - c.b]

-----------------------------------------------------------------------------
(***************************************************************************)
(* The shapes a colour can have.  OnWheel is the hue hexagon, one channel  *)
(* moving along each edge; Drained and Flooded are the two shapes blue     *)
(* leaves it in.                                                           *)
(***************************************************************************)
Level == 0 .. CMax

OnWheel(c) == \/ c.r = CMax /\ c.g = 0 /\ c.b \in Level
              \/ c.b = CMax /\ c.g = 0 /\ c.r \in Level
              \/ c.r = 0 /\ c.b = CMax /\ c.g \in Level
              \/ c.r = 0 /\ c.g = CMax /\ c.b \in Level
              \/ c.b = 0 /\ c.g = CMax /\ c.r \in Level
              \/ c.r = CMax /\ c.b = 0 /\ c.g \in Level

Drained(c) == c.r = 0 /\ c.g = CMax /\ c.b < 0
Flooded(c) == c.r = CMax /\ c.g = 0 /\ c.b > CMax

Green  == [r |-> 0, g |-> CMax, b |-> 0]
Blue   == [r |-> 0, g |-> 0, b |-> CMax]
Yellow == [r |-> CMax, g |-> CMax, b |-> 0]

\* What a colour can be between two ifs, and between two iterations.
Shaped(c)  == c \in Color /\ (OnWheel(c) \/ Drained(c) \/ Flooded(c))
Settled(c) == Shaped(c) /\ c \notin {Blue, Yellow}
Gliding(c) == Settled(c) /\ OnWheel(c) /\ c # Green

InRange(c) == c.r \in Level /\ c.g \in Level /\ c.b \in Level
=============================================================================
