--------------------------- MODULE HueWalk_proofs ---------------------------
(***************************************************************************)
(* For every size CMax of a channel: what one iteration of a shift loop    *)
(* and a jump do to the shape of a colour, and from that the invariants of *)
(* HueWalk.  Each lemma about an iteration follows the colour through its  *)
(* ifs: c1, c2, ... are the colours between them, and the steps say which  *)
(* shape each may have.                                                    *)
(*                                                                         *)
(* The second part adds the direction: where on the wheel a colour is, how *)
(* far blue has left its range, and what each iteration does to the two.   *)
(***************************************************************************)
EXTENDS HueWalk, TLAPS

USE DEF AddR, AddG, AddB

\* A positive iteration keeps the shape; it passes through blue and yellow only
\* between its ifs.
LEMMA UpSettled == ASSUME NEW c, Settled(c) PROVE Settled(ShiftUp(c))
<1> DEFINE c1 == Up1(c)
           c2 == Up2(c1)
           c3 == Up3(c2)
           c4 == Up4(c3)
           c5 == Up5(c4)
           c6 == Up6(c5)
           c7 == Up7(c6)
           c8 == Up8(c7)
           c9 == Up9(c8)
<1> USE CMaxAssumption DEF Shaped, Settled, Gliding, Color,
           OnWheel, Drained, Flooded, Level, Green, Blue, Yellow
<1>0. ShiftUp(c) = c9 BY DEF ShiftUp
<1>1. Settled(c1) BY DEF Up1
<1> HIDE DEF c1
<1>2. Settled(c2) BY <1>1 DEF Up2
<1> HIDE DEF c2
<1>3. Shaped(c3) /\ c3 # Yellow BY <1>2 DEF Up3
<1> HIDE DEF c3
<1>4. Settled(c4) BY <1>3 DEF Up4
<1> HIDE DEF c4
<1>5. Settled(c5) BY <1>4 DEF Up5
<1> HIDE DEF c5
<1>6. Settled(c6) BY <1>5 DEF Up6
<1> HIDE DEF c6
<1>7. Shaped(c7) /\ c7 # Blue BY <1>6 DEF Up7
<1> HIDE DEF c7
<1>8. Settled(c8) BY <1>7 DEF Up8
<1> HIDE DEF c8
<1>9. Settled(c9) BY <1>8 DEF Up9
<1> HIDE DEF c9
<1>10. QED BY <1>0, <1>9

\* So does a negative iteration.
LEMMA DownSettled == ASSUME NEW c, Settled(c) PROVE Settled(ShiftDown(c))
<1> DEFINE c1 == Down1(c)
           c2 == Down2(c1)
           c3 == Down3(c2)
           c4 == Down4(c3)
           c5 == Down5(c4)
           c6 == Down6(c5)
<1> USE CMaxAssumption DEF Shaped, Settled, Gliding, Color,
           OnWheel, Drained, Flooded, Level, Green, Blue, Yellow
<1>0. ShiftDown(c) = c6 BY DEF ShiftDown
<1>1. Settled(c1) BY DEF Down1
<1> HIDE DEF c1
<1>2. Shaped(c2) /\ c2 # Blue BY <1>1 DEF Down2
<1> HIDE DEF c2
<1>3. Settled(c3) BY <1>2 DEF Down3
<1> HIDE DEF c3
<1>4. Settled(c4) BY <1>3 DEF Down4
<1> HIDE DEF c4
<1>5. Shaped(c5) /\ c5 # Yellow BY <1>4 DEF Down5
<1> HIDE DEF c5
<1>6. Settled(c6) BY <1>5 DEF Down6
<1> HIDE DEF c6
<1>7. QED BY <1>0, <1>6

\* From a colour on the wheel other than green, a positive iteration stays on
\* the wheel and does not stop at green.
LEMMA UpGlides == ASSUME NEW c, Gliding(c) PROVE Gliding(ShiftUp(c))
<1> DEFINE c1 == Up1(c)
           c2 == Up2(c1)
           c3 == Up3(c2)
           c4 == Up4(c3)
           c5 == Up5(c4)
           c6 == Up6(c5)
           c7 == Up7(c6)
           c8 == Up8(c7)
           c9 == Up9(c8)
<1> USE CMaxAssumption DEF Shaped, Settled, Gliding, Color,
           OnWheel, Drained, Flooded, Level, Green, Blue, Yellow
<1>0. ShiftUp(c) = c9 BY DEF ShiftUp
<1>1. Gliding(c1) BY DEF Up1
<1> HIDE DEF c1
<1>2. Gliding(c2) BY <1>1 DEF Up2
<1> HIDE DEF c2
<1>3. Shaped(c3) /\ c3 # Yellow /\ OnWheel(c3) /\ c3 # Green BY <1>2 DEF Up3
<1> HIDE DEF c3
<1>4. Gliding(c4) BY <1>3 DEF Up4
<1> HIDE DEF c4
<1>5. Gliding(c5) BY <1>4 DEF Up5
<1> HIDE DEF c5
<1>6. Settled(c6) /\ OnWheel(c6) BY <1>5 DEF Up6
<1> HIDE DEF c6
<1>7. Shaped(c7) /\ c7 # Blue /\ OnWheel(c7) /\ c7 # Green BY <1>6 DEF Up7
<1> HIDE DEF c7
<1>8. Gliding(c8) BY <1>7 DEF Up8
<1> HIDE DEF c8
<1>9. Gliding(c9) BY <1>8 DEF Up9
<1> HIDE DEF c9
<1>10. QED BY <1>0, <1>9

\* From a colour on the wheel a negative iteration stays on it and does not
\* stop at green.
LEMMA DownOnWheel == ASSUME NEW c, Settled(c), OnWheel(c) PROVE Gliding(ShiftDown(c))
<1> DEFINE c1 == Down1(c)
           c2 == Down2(c1)
           c3 == Down3(c2)
           c4 == Down4(c3)
           c5 == Down5(c4)
           c6 == Down6(c5)
<1> USE CMaxAssumption DEF Shaped, Settled, Gliding, Color,
           OnWheel, Drained, Flooded, Level, Green, Blue, Yellow
<1>0. ShiftDown(c) = c6 BY DEF ShiftDown
<1>1. Settled(c1) /\ OnWheel(c1) BY DEF Down1
<1> HIDE DEF c1
<1>2. Shaped(c2) /\ c2 # Blue /\ OnWheel(c2) BY <1>1 DEF Down2
<1> HIDE DEF c2
<1>3. Settled(c3) /\ OnWheel(c3) BY <1>2 DEF Down3
<1> HIDE DEF c3
<1>4. Gliding(c4) BY <1>3 DEF Down4
<1> HIDE DEF c4
<1>5. Shaped(c5) /\ c5 # Yellow /\ OnWheel(c5) /\ c5 # Green BY <1>4 DEF Down5
<1> HIDE DEF c5
<1>6. Gliding(c6) BY <1>5 DEF Down6
<1> HIDE DEF c6
<1>7. QED BY <1>0, <1>6

\* The jump maps shapes to shapes, and the wheel to itself.
LEMMA ComplementSettled ==
  ASSUME NEW c, Settled(c)
  PROVE  Settled(Complement(c)) /\ (OnWheel(c) => OnWheel(Complement(c)))
<1> USE CMaxAssumption DEF Complement, Settled, Shaped, Color, Blue, Yellow
<1>1. Complement(c) \in Color /\ Complement(c) \notin {Blue, Yellow}
  <2>1. c = [r |-> c.r, g |-> c.g, b |-> c.b]
    OBVIOUS
  <2>2. QED BY <2>1
<1>2. OnWheel(c) => OnWheel(Complement(c))
  BY DEF OnWheel, Level
<1>3. Drained(c) => Flooded(Complement(c))
  BY DEF Drained, Flooded
<1>4. Flooded(c) => Drained(Complement(c))
  BY DEF Drained, Flooded
<1>5. QED BY <1>1, <1>2, <1>3, <1>4

\* A settled colour is in range exactly when it is on the wheel.
LEMMA RangeIsWheel ==
  ASSUME NEW c, Settled(c) PROVE InRange(c) <=> OnWheel(c)
BY CMaxAssumption DEF InRange, Settled, Shaped, Color, OnWheel, Drained,
   Flooded, Level

LEMMA InitialGlides == Gliding(InitialColor)
BY CMaxAssumption DEF InitialColor, Gliding, Settled, Shaped, Color, OnWheel,
   Level, Green, Blue, Yellow

-----------------------------------------------------------------------------
\* Whatever the dance, the colour keeps one of the shapes of WheelShape after
\* every iteration of the shift loops and every jump.
THEOREM WheelShapeInvariant == HueSpec => []WheelShape
<1>1. HueInit => WheelShape
  BY InitialGlides DEF HueInit, WheelShape, Gliding
<1>2. WheelShape /\ [HueNext]_colour => WheelShape'
  <2> SUFFICES ASSUME WheelShape, [HueNext]_colour PROVE WheelShape'
    OBVIOUS
  <2>1. CASE HueUp
    BY <2>1, UpSettled DEF HueUp, WheelShape
  <2>2. CASE HueDown
    BY <2>2, DownSettled DEF HueDown, WheelShape
  <2>3. CASE HueJump
    BY <2>3, ComplementSettled DEF HueJump, WheelShape
  <2>4. CASE UNCHANGED colour
    BY <2>4 DEF WheelShape
  <2>5. QED BY <2>1, <2>2, <2>3, <2>4 DEF HueNext
<1>3. QED BY <1>1, <1>2, PTL DEF HueSpec

\* The colour leaves the range of a channel on one step only: a positive
\* iteration that starts from pure green.
THEOREM OnlyGreenLeaks == HueSpec => LeavesRangeOnlyAtGreen
<1>1. WheelShape /\ [HueNext]_colour
        => [InRange(colour) /\ ~InRange(colour') => colour = Green /\ HueUp]_colour
  <2> SUFFICES ASSUME WheelShape, HueNext, InRange(colour), ~InRange(colour')
               PROVE  colour = Green /\ HueUp
    OBVIOUS
  <2>1. OnWheel(colour)
    BY RangeIsWheel DEF WheelShape
  <2>2. ~HueJump
    BY <2>1, ComplementSettled, RangeIsWheel DEF HueJump, WheelShape
  <2>3. ~HueDown
    BY <2>1, DownOnWheel, RangeIsWheel DEF HueDown, WheelShape, Gliding
  <2>4. colour = Green
    <3> SUFFICES ASSUME colour # Green PROVE FALSE
      OBVIOUS
    <3>1. Gliding(ShiftUp(colour))
      BY <2>1, UpGlides DEF WheelShape, Gliding
    <3>2. QED BY <2>2, <2>3, <3>1, RangeIsWheel DEF HueNext, HueUp, Gliding
  <2>5. QED BY <2>2, <2>3, <2>4 DEF HueNext
<1>2. QED BY <1>1, WheelShapeInvariant, PTL DEF HueSpec, LeavesRangeOnlyAtGreen

\* In a dance with no jump every channel stays a level for ever.
THEOREM GlideStaysInRange == Glide => []ColourInRange
<1>1. HueInit => Gliding(colour)
  BY InitialGlides DEF HueInit
<1>2. Gliding(colour) /\ [HueUp \/ HueDown]_colour => Gliding(colour)'
  <2> SUFFICES ASSUME Gliding(colour), [HueUp \/ HueDown]_colour
               PROVE  Gliding(colour')
    BY DEF Gliding, Settled, Shaped, Color, OnWheel, Drained, Flooded, Level,
           Green, Blue, Yellow
  <2>1. CASE HueUp
    BY <2>1, UpGlides DEF HueUp
  <2>2. CASE HueDown
    BY <2>2, DownOnWheel DEF HueDown, Gliding
  <2>3. CASE UNCHANGED colour
    BY <2>3
  <2>4. QED BY <2>1, <2>2, <2>3
<1>3. Gliding(colour) => ColourInRange
  BY RangeIsWheel DEF ColourInRange, Gliding
<1>4. QED BY <1>1, <1>2, <1>3, PTL DEF Glide
-----------------------------------------------------------------------------
\* The ifs of one iteration, on a colour given by its channels.
RGB(r, g, b) == [r |-> r, g |-> g, b |-> b]

LEMMA UpOnChannels ==
  ASSUME NEW r \in Int, NEW g \in Int, NEW b \in Int
  PROVE
    /\ Up1(RGB(r, g, b)) = IF r = CMax /\ b # CMax /\ g = 0 THEN RGB(r, g, b + 1) ELSE RGB(r, g, b)
    /\ Up2(RGB(r, g, b)) = IF r = CMax /\ b = CMax /\ g = 0 THEN RGB(r - 1, g, b) ELSE RGB(r, g, b)
    /\ Up3(RGB(r, g, b)) = IF r # CMax /\ b = CMax /\ g = 0 THEN RGB(r - 1, g, b) ELSE RGB(r, g, b)
    /\ Up4(RGB(r, g, b)) = IF r = 0 /\ b = CMax /\ g # CMax THEN RGB(r, g + 1, b) ELSE RGB(r, g, b)
    /\ Up5(RGB(r, g, b)) = IF r = 0 /\ b = CMax /\ g = CMax THEN RGB(r, g, b - 1) ELSE RGB(r, g, b)
    /\ Up6(RGB(r, g, b)) = IF r = 0 /\ b # CMax /\ g = CMax THEN RGB(r, g, b - 1) ELSE RGB(r, g, b)
    /\ Up7(RGB(r, g, b)) = IF r # CMax /\ b = 0 /\ g = CMax THEN RGB(r + 1, g, b) ELSE RGB(r, g, b)
    /\ Up8(RGB(r, g, b)) = IF r = CMax /\ b = 0 /\ g = CMax THEN RGB(r, g - 1, b) ELSE RGB(r, g, b)
    /\ Up9(RGB(r, g, b)) = IF r = CMax /\ b = 0 /\ g # 0 THEN RGB(r, g - 1, b) ELSE RGB(r, g, b)
<1> USE CMaxAssumption
<1>1. Up1(RGB(r, g, b)) = IF r = CMax /\ b # CMax /\ g = 0 THEN RGB(r, g, b + 1) ELSE RGB(r, g, b)
  BY DEF RGB, Up1
<1>2. Up2(RGB(r, g, b)) = IF r = CMax /\ b = CMax /\ g = 0 THEN RGB(r - 1, g, b) ELSE RGB(r, g, b)
  BY DEF RGB, Up2
<1>3. Up3(RGB(r, g, b)) = IF r # CMax /\ b = CMax /\ g = 0 THEN RGB(r - 1, g, b) ELSE RGB(r, g, b)
  BY DEF RGB, Up3
<1>4. Up4(RGB(r, g, b)) = IF r = 0 /\ b = CMax /\ g # CMax THEN RGB(r, g + 1, b) ELSE RGB(r, g, b)
  BY DEF RGB, Up4
<1>5. Up5(RGB(r, g, b)) = IF r = 0 /\ b = CMax /\ g = CMax THEN RGB(r, g, b - 1) ELSE RGB(r, g, b)
  BY DEF RGB, Up5
<1>6. Up6(RGB(r, g, b)) = IF r = 0 /\ b # CMax /\ g = CMax THEN RGB(r, g, b - 1) ELSE RGB(r, g, b)
  BY DEF RGB, Up6
<1>7. Up7(RGB(r, g, b)) = IF r # CMax /\ b = 0 /\ g = CMax THEN RGB(r + 1, g, b) ELSE RGB(r, g, b)
  BY DEF RGB, Up7
<1>8. Up8(RGB(r, g, b)) = IF r = CMax /\ b = 0 /\ g = CMax THEN RGB(r, g - 1, b) ELSE RGB(r, g, b)
  BY DEF RGB, Up8
<1>9. Up9(RGB(r, g, b)) = IF r = CMax /\ b = 0 /\ g # 0 THEN RGB(r, g - 1, b) ELSE RGB(r, g, b)
  BY DEF RGB, Up9
<1>10. QED BY <1>1, <1>2, <1>3, <1>4, <1>5, <1>6, <1>7, <1>8, <1>9

LEMMA DownOnChannels ==
  ASSUME NEW r \in Int, NEW g \in Int, NEW b \in Int
  PROVE
    /\ Down1(RGB(r, g, b)) = IF r = CMax /\ b # 0 /\ g = 0 THEN RGB(r, g, b - 1) ELSE RGB(r, g, b)
    /\ Down2(RGB(r, g, b)) = IF r = CMax /\ b = 0 /\ g # CMax THEN RGB(r, g + 1, b) ELSE RGB(r, g, b)
    /\ Down3(RGB(r, g, b)) = IF r # 0 /\ b = 0 /\ g = CMax THEN RGB(r - 1, g, b) ELSE RGB(r, g, b)
    /\ Down4(RGB(r, g, b)) = IF r = 0 /\ b # CMax /\ g = CMax THEN RGB(r, g, b + 1) ELSE RGB(r, g, b)
    /\ Down5(RGB(r, g, b)) = IF r = 0 /\ b = CMax /\ g # 0 THEN RGB(r, g - 1, b) ELSE RGB(r, g, b)
    /\ Down6(RGB(r, g, b)) = IF r # CMax /\ b = CMax /\ g = 0 THEN RGB(r + 1, g, b) ELSE RGB(r, g, b)
<1> USE CMaxAssumption
<1>1. Down1(RGB(r, g, b)) = IF r = CMax /\ b # 0 /\ g = 0 THEN RGB(r, g, b - 1) ELSE RGB(r, g, b)
  BY DEF RGB, Down1
<1>2. Down2(RGB(r, g, b)) = IF r = CMax /\ b = 0 /\ g # CMax THEN RGB(r, g + 1, b) ELSE RGB(r, g, b)
  BY DEF RGB, Down2
<1>3. Down3(RGB(r, g, b)) = IF r # 0 /\ b = 0 /\ g = CMax THEN RGB(r - 1, g, b) ELSE RGB(r, g, b)
  BY DEF RGB, Down3
<1>4. Down4(RGB(r, g, b)) = IF r = 0 /\ b # CMax /\ g = CMax THEN RGB(r, g, b + 1) ELSE RGB(r, g, b)
  BY DEF RGB, Down4
<1>5. Down5(RGB(r, g, b)) = IF r = 0 /\ b = CMax /\ g # 0 THEN RGB(r, g - 1, b) ELSE RGB(r, g, b)
  BY DEF RGB, Down5
<1>6. Down6(RGB(r, g, b)) = IF r # CMax /\ b = CMax /\ g = 0 THEN RGB(r + 1, g, b) ELSE RGB(r, g, b)
  BY DEF RGB, Down6
<1>10. QED BY <1>1, <1>2, <1>3, <1>4, <1>5, <1>6

LEMMA ApartOnChannels ==
  ASSUME NEW r \in Int, NEW g \in Int, NEW b \in Int,
         NEW x \in Int, NEW y \in Int, NEW z \in Int
  PROVE  Apart(RGB(r, g, b), RGB(x, y, z)) = Gap(r, x) + Gap(g, y) + Gap(b, z)
BY DEF Apart, RGB

\* From each part of the wheel, where a positive iteration leads.
UpArc(r, g, b, x, y, z) ==
  \/ r = CMax /\ g = 0 /\ b # CMax - 1 /\ b # CMax /\ x = r /\ y = g /\ z = b + 1
  \/ r = CMax /\ g = 0 /\ b = CMax - 1 /\ x = r - 2 /\ y = g /\ z = b + 1
  \/ b = CMax /\ g = 0 /\ r = CMax /\ x = r - 2 /\ y = g /\ z = b
  \/ b = CMax /\ g = 0 /\ r \in 2 .. CMax - 1 /\ x = r - 1 /\ y = g /\ z = b
  \/ b = CMax /\ g = 0 /\ r = 1 /\ x = r - 1 /\ y = g + 1 /\ z = b
  \/ r = 0 /\ b = CMax /\ g \in 1 .. CMax - 2 /\ x = r /\ y = g + 1 /\ z = b
  \/ r = 0 /\ b = CMax /\ g = CMax - 1 /\ x = r /\ y = g + 1 /\ z = b - 2
  \/ r = 0 /\ b = CMax /\ g = CMax /\ x = r /\ y = g /\ z = b - 2
  \/ r = 0 /\ g = CMax /\ b < CMax /\ b # 1 /\ x = r /\ y = g /\ z = b - 1
  \/ r = 0 /\ g = CMax /\ b = 1 /\ x = r + 1 /\ y = g /\ z = b - 1
  \/ b = 0 /\ g = CMax /\ r \in 1 .. CMax - 2 /\ x = r + 1 /\ y = g /\ z = b
  \/ b = 0 /\ g = CMax /\ r = CMax - 1 /\ x = r + 1 /\ y = g - 2 /\ z = b
  \/ r = CMax /\ b = 0 /\ g \in 1 .. CMax - 1 /\ x = r /\ y = g - 1 /\ z = b

\* What nine ifs in a row come to.
LEMMA UpCases ==
  ASSUME CMax > 2, NEW r \in Int, NEW g \in Int, NEW b \in Int, Settled(RGB(r, g, b))
  PROVE  \E x, y, z \in Int : ShiftUp(RGB(r, g, b)) = RGB(x, y, z) /\ UpArc(r, g, b, x, y, z)
<1> USE CMaxAssumption
<1>1. CASE r = CMax /\ g = 0 /\ b # CMax - 1 /\ b # CMax
  <2>1. ShiftUp(RGB(r, g, b)) = RGB(r, g, b + 1)
    BY <1>1, UpOnChannels DEF ShiftUp
  <2>2. QED BY <1>1, <2>1 DEF UpArc
<1>2. CASE r = CMax /\ g = 0 /\ b = CMax - 1
  <2>1. ShiftUp(RGB(r, g, b)) = RGB(r - 2, g, b + 1)
    BY <1>2, UpOnChannels DEF ShiftUp
  <2>2. QED BY <1>2, <2>1 DEF UpArc
<1>3. CASE b = CMax /\ g = 0 /\ r = CMax
  <2>1. ShiftUp(RGB(r, g, b)) = RGB(r - 2, g, b)
    BY <1>3, UpOnChannels DEF ShiftUp
  <2>2. QED BY <1>3, <2>1 DEF UpArc
<1>4. CASE b = CMax /\ g = 0 /\ r \in 2 .. CMax - 1
  <2>1. ShiftUp(RGB(r, g, b)) = RGB(r - 1, g, b)
    BY <1>4, UpOnChannels DEF ShiftUp
  <2>2. QED BY <1>4, <2>1 DEF UpArc
<1>5. CASE b = CMax /\ g = 0 /\ r = 1
  <2>1. ShiftUp(RGB(r, g, b)) = RGB(r - 1, g + 1, b)
    BY <1>5, UpOnChannels DEF ShiftUp
  <2>2. QED BY <1>5, <2>1 DEF UpArc
<1>6. CASE r = 0 /\ b = CMax /\ g \in 1 .. CMax - 2
  <2>1. ShiftUp(RGB(r, g, b)) = RGB(r, g + 1, b)
    BY <1>6, UpOnChannels DEF ShiftUp
  <2>2. QED BY <1>6, <2>1 DEF UpArc
<1>7. CASE r = 0 /\ b = CMax /\ g = CMax - 1
  <2>1. ShiftUp(RGB(r, g, b)) = RGB(r, g + 1, b - 2)
    BY <1>7, UpOnChannels DEF ShiftUp
  <2>2. QED BY <1>7, <2>1 DEF UpArc
<1>8. CASE r = 0 /\ b = CMax /\ g = CMax
  <2>1. ShiftUp(RGB(r, g, b)) = RGB(r, g, b - 2)
    BY <1>8, UpOnChannels DEF ShiftUp
  <2>2. QED BY <1>8, <2>1 DEF UpArc
<1>9. CASE r = 0 /\ g = CMax /\ b < CMax /\ b # 1
  <2>1. ShiftUp(RGB(r, g, b)) = RGB(r, g, b - 1)
    BY <1>9, UpOnChannels DEF ShiftUp
  <2>2. QED BY <1>9, <2>1 DEF UpArc
<1>10. CASE r = 0 /\ g = CMax /\ b = 1
  <2>1. ShiftUp(RGB(r, g, b)) = RGB(r + 1, g, b - 1)
    BY <1>10, UpOnChannels DEF ShiftUp
  <2>2. QED BY <1>10, <2>1 DEF UpArc
<1>11. CASE b = 0 /\ g = CMax /\ r \in 1 .. CMax - 2
  <2>1. ShiftUp(RGB(r, g, b)) = RGB(r + 1, g, b)
    BY <1>11, UpOnChannels DEF ShiftUp
  <2>2. QED BY <1>11, <2>1 DEF UpArc
<1>12. CASE b = 0 /\ g = CMax /\ r = CMax - 1
  <2>1. ShiftUp(RGB(r, g, b)) = RGB(r + 1, g - 2, b)
    BY <1>12, UpOnChannels DEF ShiftUp
  <2>2. QED BY <1>12, <2>1 DEF UpArc
<1>13. CASE r = CMax /\ b = 0 /\ g \in 1 .. CMax - 1
  <2>1. ShiftUp(RGB(r, g, b)) = RGB(r, g - 1, b)
    BY <1>13, UpOnChannels DEF ShiftUp
  <2>2. QED BY <1>13, <2>1 DEF UpArc
<1>14. \/ r = CMax /\ g = 0 /\ b # CMax - 1 /\ b # CMax
       \/ r = CMax /\ g = 0 /\ b = CMax - 1
       \/ b = CMax /\ g = 0 /\ r = CMax
       \/ b = CMax /\ g = 0 /\ r \in 2 .. CMax - 1
       \/ b = CMax /\ g = 0 /\ r = 1
       \/ r = 0 /\ b = CMax /\ g \in 1 .. CMax - 2
       \/ r = 0 /\ b = CMax /\ g = CMax - 1
       \/ r = 0 /\ b = CMax /\ g = CMax
       \/ r = 0 /\ g = CMax /\ b < CMax /\ b # 1
       \/ r = 0 /\ g = CMax /\ b = 1
       \/ b = 0 /\ g = CMax /\ r \in 1 .. CMax - 2
       \/ b = 0 /\ g = CMax /\ r = CMax - 1
       \/ r = CMax /\ b = 0 /\ g \in 1 .. CMax - 1
  BY DEF Settled, Shaped, Color, RGB, OnWheel, Drained, Flooded, Level, Blue, Yellow
<1>15. QED BY <1>1, <1>2, <1>3, <1>4, <1>5, <1>6, <1>7, <1>8, <1>9, <1>10, <1>11, <1>12, <1>13, <1>14

\* And a negative one.
DownArc(r, g, b, x, y, z) ==
  \/ r = CMax /\ g = 0 /\ b # 1 /\ b # 0 /\ x = r /\ y = g /\ z = b - 1
  \/ r = CMax /\ g = 0 /\ b = 1 /\ x = r /\ y = g + 1 /\ z = b - 1
  \/ r = CMax /\ b = 0 /\ g \in 0 .. CMax - 2 /\ x = r /\ y = g + 1 /\ z = b
  \/ r = CMax /\ b = 0 /\ g = CMax - 1 /\ x = r - 1 /\ y = g + 1 /\ z = b
  \/ b = 0 /\ g = CMax /\ r \in 2 .. CMax - 1 /\ x = r - 1 /\ y = g /\ z = b
  \/ b = 0 /\ g = CMax /\ r = 1 /\ x = r - 1 /\ y = g /\ z = b + 1
  \/ r = 0 /\ g = CMax /\ b < CMax - 1 /\ x = r /\ y = g /\ z = b + 1
  \/ r = 0 /\ g = CMax /\ b = CMax - 1 /\ x = r /\ y = g - 1 /\ z = b + 1
  \/ r = 0 /\ b = CMax /\ g \in 2 .. CMax /\ x = r /\ y = g - 1 /\ z = b
  \/ r = 0 /\ b = CMax /\ g = 1 /\ x = r + 1 /\ y = g - 1 /\ z = b
  \/ b = CMax /\ g = 0 /\ r \in 1 .. CMax - 1 /\ x = r + 1 /\ y = g /\ z = b

\* What the six ifs of the other loop come to.
LEMMA DownCases ==
  ASSUME NEW r \in Int, NEW g \in Int, NEW b \in Int, Settled(RGB(r, g, b))
  PROVE  \E x, y, z \in Int : ShiftDown(RGB(r, g, b)) = RGB(x, y, z) /\ DownArc(r, g, b, x, y, z)
<1> USE CMaxAssumption
<1>1. CASE r = CMax /\ g = 0 /\ b # 1 /\ b # 0
  <2>1. ShiftDown(RGB(r, g, b)) = RGB(r, g, b - 1)
    BY <1>1, DownOnChannels DEF ShiftDown
  <2>2. QED BY <1>1, <2>1 DEF DownArc
<1>2. CASE r = CMax /\ g = 0 /\ b = 1
  <2>1. ShiftDown(RGB(r, g, b)) = RGB(r, g + 1, b - 1)
    BY <1>2, DownOnChannels DEF ShiftDown
  <2>2. QED BY <1>2, <2>1 DEF DownArc
<1>3. CASE r = CMax /\ b = 0 /\ g \in 0 .. CMax - 2
  <2>1. ShiftDown(RGB(r, g, b)) = RGB(r, g + 1, b)
    BY <1>3, DownOnChannels DEF ShiftDown
  <2>2. QED BY <1>3, <2>1 DEF DownArc
<1>4. CASE r = CMax /\ b = 0 /\ g = CMax - 1
  <2>1. ShiftDown(RGB(r, g, b)) = RGB(r - 1, g + 1, b)
    BY <1>4, DownOnChannels DEF ShiftDown
  <2>2. QED BY <1>4, <2>1 DEF DownArc
<1>5. CASE b = 0 /\ g = CMax /\ r \in 2 .. CMax - 1
  <2>1. ShiftDown(RGB(r, g, b)) = RGB(r - 1, g, b)
    BY <1>5, DownOnChannels DEF ShiftDown
  <2>2. QED BY <1>5, <2>1 DEF DownArc
<1>6. CASE b = 0 /\ g = CMax /\ r = 1
  <2>1. ShiftDown(RGB(r, g, b)) = RGB(r - 1, g, b + 1)
    BY <1>6, DownOnChannels DEF ShiftDown
  <2>2. QED BY <1>6, <2>1 DEF DownArc
<1>7. CASE r = 0 /\ g = CMax /\ b < CMax - 1
  <2>1. ShiftDown(RGB(r, g, b)) = RGB(r, g, b + 1)
    BY <1>7, DownOnChannels DEF ShiftDown
  <2>2. QED BY <1>7, <2>1 DEF DownArc
<1>8. CASE r = 0 /\ g = CMax /\ b = CMax - 1
  <2>1. ShiftDown(RGB(r, g, b)) = RGB(r, g - 1, b + 1)
    BY <1>8, DownOnChannels DEF ShiftDown
  <2>2. QED BY <1>8, <2>1 DEF DownArc
<1>9. CASE r = 0 /\ b = CMax /\ g \in 2 .. CMax
  <2>1. ShiftDown(RGB(r, g, b)) = RGB(r, g - 1, b)
    BY <1>9, DownOnChannels DEF ShiftDown
  <2>2. QED BY <1>9, <2>1 DEF DownArc
<1>10. CASE r = 0 /\ b = CMax /\ g = 1
  <2>1. ShiftDown(RGB(r, g, b)) = RGB(r + 1, g - 1, b)
    BY <1>10, DownOnChannels DEF ShiftDown
  <2>2. QED BY <1>10, <2>1 DEF DownArc
<1>11. CASE b = CMax /\ g = 0 /\ r \in 1 .. CMax - 1
  <2>1. ShiftDown(RGB(r, g, b)) = RGB(r + 1, g, b)
    BY <1>11, DownOnChannels DEF ShiftDown
  <2>2. QED BY <1>11, <2>1 DEF DownArc
<1>12. \/ r = CMax /\ g = 0 /\ b # 1 /\ b # 0
       \/ r = CMax /\ g = 0 /\ b = 1
       \/ r = CMax /\ b = 0 /\ g \in 0 .. CMax - 2
       \/ r = CMax /\ b = 0 /\ g = CMax - 1
       \/ b = 0 /\ g = CMax /\ r \in 2 .. CMax - 1
       \/ b = 0 /\ g = CMax /\ r = 1
       \/ r = 0 /\ g = CMax /\ b < CMax - 1
       \/ r = 0 /\ g = CMax /\ b = CMax - 1
       \/ r = 0 /\ b = CMax /\ g \in 2 .. CMax
       \/ r = 0 /\ b = CMax /\ g = 1
       \/ b = CMax /\ g = 0 /\ r \in 1 .. CMax - 1
  BY DEF Settled, Shaped, Color, RGB, OnWheel, Drained, Flooded, Level, Blue, Yellow
<1>13. QED BY <1>1, <1>2, <1>3, <1>4, <1>5, <1>6, <1>7, <1>8, <1>9, <1>10, <1>11, <1>12

\* How far the channels move.
LEMMA UpMoves ==
  ASSUME CMax > 2, NEW c, Settled(c) PROVE Apart(c, ShiftUp(c)) \in 1 .. 3
<1>1. PICK r \in Int, g \in Int, b \in Int : c = RGB(r, g, b)
  BY DEF Settled, Shaped, Color, RGB
<1>2. PICK x, y, z \in Int : ShiftUp(c) = RGB(x, y, z) /\ UpArc(r, g, b, x, y, z)
  BY <1>1, UpCases
<1>3. Apart(c, ShiftUp(c)) = Gap(r, x) + Gap(g, y) + Gap(b, z)
  BY <1>1, <1>2, ApartOnChannels
<1>4. QED BY <1>2, <1>3, CMaxAssumption DEF UpArc, Gap

LEMMA DownMoves ==
  ASSUME NEW c, Settled(c) PROVE Apart(c, ShiftDown(c)) \in 1 .. 3
<1>1. PICK r \in Int, g \in Int, b \in Int : c = RGB(r, g, b)
  BY DEF Settled, Shaped, Color, RGB
<1>2. PICK x, y, z \in Int : ShiftDown(c) = RGB(x, y, z) /\ DownArc(r, g, b, x, y, z)
  BY <1>1, DownCases
<1>3. Apart(c, ShiftDown(c)) = Gap(r, x) + Gap(g, y) + Gap(b, z)
  BY <1>1, <1>2, ApartOnChannels
<1>4. QED BY <1>2, <1>3, CMaxAssumption DEF DownArc, Gap

\* A shift iteration moves the colour, by three levels at most.  With CMax = 2
\* four of its ifs can fire.
THEOREM ShiftsAreSmooth == ASSUME CMax > 2 PROVE HueSpec => []SmoothShift
<1>1. WheelShape => SmoothShift
  BY UpMoves, DownMoves DEF WheelShape, SmoothShift
<1>2. QED BY <1>1, WheelShapeInvariant, PTL

\* From a colour in range, pure green is only ever reached by a jump from pure
\* magenta.
THEOREM OnlyJumpsReachGreen == HueSpec => GreenOnlyByJump
<1>1. WheelShape /\ [HueNext]_colour
        => [InRange(colour) /\ colour' = Green => colour = Magenta /\ HueJump]_colour
  <2> SUFFICES ASSUME WheelShape, HueNext, InRange(colour), colour' = Green, colour # Green
               PROVE  colour = Magenta /\ HueJump
    OBVIOUS
  <2>1. OnWheel(colour) /\ Gliding(colour)
    BY RangeIsWheel DEF WheelShape, Gliding
  <2>2. ~HueUp
    BY <2>1, UpGlides DEF HueUp, Gliding
  <2>3. ~HueDown
    BY <2>1, DownOnWheel DEF HueDown, WheelShape, Gliding
  <2>4. HueJump
    BY <2>2, <2>3 DEF HueNext
  <2>5. colour \in Color
    BY DEF WheelShape, Settled, Shaped
  <2>6. colour = Magenta
    <3>1. CMax - colour.r = 0 /\ CMax - colour.g = CMax /\ CMax - colour.b = 0
      BY <2>4 DEF HueJump, Complement, Green
    <3>2. colour.r = CMax /\ colour.g = 0 /\ colour.b = CMax
      BY <2>5, <3>1, CMaxAssumption DEF Color
    <3>3. QED BY <2>5, <3>2 DEF Color, Magenta
  <2>7. QED BY <2>4, <2>6
<1>2. QED BY <1>1, WheelShapeInvariant, PTL DEF HueSpec, GreenOnlyByJump
-----------------------------------------------------------------------------
(***************************************************************************)
(* The direction of a dance.  Ahead counts the positions of the wheel from *)
(* a colour on to the initial one, in the direction of a positive shift;   *)
(* Leak says how far blue is out of its range.                             *)
(***************************************************************************)
Position(r, g, b) ==
  IF r = CMax /\ b = 0 THEN g
  ELSE IF b = 0 /\ g = CMax THEN 2 * CMax - r
  ELSE IF r = 0 /\ g = CMax THEN 2 * CMax + b
  ELSE IF r = 0 /\ b = CMax THEN 4 * CMax - g
  ELSE IF b = CMax /\ g = 0 THEN 4 * CMax + r
  ELSE 6 * CMax - b

Ahead(c) == Position(c.r, c.g, c.b)

Turn(c, d) ==
  IF Ahead(d) <= Ahead(c) THEN Ahead(c) - Ahead(d) ELSE Ahead(c) - Ahead(d) + 6 * CMax

Depth(b) == IF b < 0 THEN -b ELSE IF b > CMax THEN b - CMax ELSE 0

Leak(c) == Depth(c.b)

LEMMA OnChannels ==
  ASSUME NEW r \in Int, NEW g \in Int, NEW b \in Int
  PROVE  /\ Ahead(RGB(r, g, b)) = Position(r, g, b) /\ Position(r, g, b) \in Int
         /\ Leak(RGB(r, g, b)) = Depth(b) /\ Depth(b) \in Int
         /\ InRange(RGB(r, g, b)) <=> r \in Level /\ g \in Level /\ b \in Level
<1>1. Position(r, g, b) \in Int /\ Depth(b) \in Int
  BY CMaxAssumption DEF Position, Depth
<1>2. QED BY <1>1 DEF Ahead, Leak, InRange, RGB

\* Where blue is when it is out of range.
LEMMA LeakShapes ==
  ASSUME NEW r \in Int, NEW g \in Int, NEW b \in Int,
         Settled(RGB(r, g, b)), ~InRange(RGB(r, g, b))
  PROVE  (b < 0 /\ r = 0 /\ g = CMax) \/ (b > CMax /\ r = CMax /\ g = 0)
<1>1. Drained(RGB(r, g, b)) \/ Flooded(RGB(r, g, b))
  BY RangeIsWheel DEF Settled, Shaped
<1>2. PICK c : c = RGB(r, g, b) /\ c.r = r /\ c.g = g /\ c.b = b
  BY DEF RGB
<1>3. Drained(c) \/ Flooded(c)
  BY <1>1, <1>2
<1>4. QED BY <1>2, <1>3, CMaxAssumption DEF Drained, Flooded

\* A positive iteration goes on round the wheel by up to three positions, and
\* never past the initial colour; out of range it takes blue a level further.
LEMMA UpTurns ==
  ASSUME CMax > 2, NEW c, Settled(c)
  PROVE  /\ InRange(c) /\ InRange(ShiftUp(c)) =>
              /\ Turn(c, ShiftUp(c)) \in 1 .. 3
              /\ c # InitialColor => Ahead(ShiftUp(c)) < Ahead(c)
         /\ ~InRange(c) => /\ Leak(ShiftUp(c)) = Leak(c) + 1
                           /\ ~InRange(ShiftUp(c))
<1> USE CMaxAssumption
<1>1. PICK r \in Int, g \in Int, b \in Int : c = RGB(r, g, b)
  BY DEF Settled, Shaped, Color, RGB
<1>2. PICK x, y, z \in Int : ShiftUp(c) = RGB(x, y, z) /\ UpArc(r, g, b, x, y, z)
  BY <1>1, UpCases
<1>3. c # InitialColor => r # CMax \/ g # 0 \/ b # 0
  BY <1>1 DEF InitialColor, RGB
<1>4. ASSUME InRange(c), InRange(ShiftUp(c))
      PROVE  /\ Turn(c, ShiftUp(c)) \in 1 .. 3
             /\ c # InitialColor => Ahead(ShiftUp(c)) < Ahead(c)
  <2>1. r \in Level /\ g \in Level /\ b \in Level /\ x \in Level /\ y \in Level /\ z \in Level
    BY <1>1, <1>2, <1>4, OnChannels
  <2> PICK p \in Int, q \in Int : p = Position(r, g, b) /\ q = Position(x, y, z)
    BY OnChannels
  <2>2. /\ (IF q <= p THEN p - q ELSE p - q + 6 * CMax) \in 1 .. 3
        /\ (r # CMax \/ g # 0 \/ b # 0) => q < p
    BY <1>2, <2>1 DEF UpArc, Level, Position
  <2>3. p = Ahead(c) /\ q = Ahead(ShiftUp(c))
    BY <1>1, <1>2, OnChannels
  <2>4. QED BY <1>3, <2>2, <2>3 DEF Turn
<1>5. ASSUME ~InRange(c) PROVE Leak(ShiftUp(c)) = Leak(c) + 1 /\ ~InRange(ShiftUp(c))
  <2>1. (b < 0 /\ r = 0 /\ g = CMax) \/ (b > CMax /\ r = CMax /\ g = 0)
    BY <1>1, <1>5, LeakShapes
  <2>2. x = r /\ y = g /\ z = IF b < 0 THEN b - 1 ELSE b + 1
    BY <1>2, <2>1 DEF UpArc
  <2>3. Depth(z) = Depth(b) + 1 /\ z \notin Level
    BY <2>1, <2>2 DEF Level, Depth
  <2>4. QED BY <1>1, <1>2, <2>3, OnChannels
<1>6. QED BY <1>4, <1>5

\* A negative one goes back by one or two, and out of range it takes blue a
\* level back, to pure green or pure magenta in the end.
LEMMA DownTurns ==
  ASSUME CMax > 2, NEW c, Settled(c)
  PROVE  /\ InRange(c) => Turn(ShiftDown(c), c) \in 1 .. 2
         /\ ~InRange(c) =>
              /\ Leak(ShiftDown(c)) = Leak(c) - 1
              /\ InRange(ShiftDown(c)) => ShiftDown(c) \in {Green, Magenta}
<1> USE CMaxAssumption
<1>1. PICK r \in Int, g \in Int, b \in Int : c = RGB(r, g, b)
  BY DEF Settled, Shaped, Color, RGB
<1>2. PICK x, y, z \in Int : ShiftDown(c) = RGB(x, y, z) /\ DownArc(r, g, b, x, y, z)
  BY <1>1, DownCases
<1>3. ASSUME InRange(c) PROVE Turn(ShiftDown(c), c) \in 1 .. 2
  <2>1. r \in Level /\ g \in Level /\ b \in Level
    BY <1>1, <1>3, OnChannels
  <2> PICK p \in Int, q \in Int : p = Position(r, g, b) /\ q = Position(x, y, z)
    BY OnChannels
  <2>2. (IF p <= q THEN q - p ELSE q - p + 6 * CMax) \in 1 .. 2
    BY <1>2, <2>1 DEF DownArc, Level, Position
  <2>3. p = Ahead(c) /\ q = Ahead(ShiftDown(c))
    BY <1>1, <1>2, OnChannels
  <2>4. QED BY <2>2, <2>3 DEF Turn
<1>4. ASSUME ~InRange(c)
      PROVE  /\ Leak(ShiftDown(c)) = Leak(c) - 1
             /\ InRange(ShiftDown(c)) => ShiftDown(c) \in {Green, Magenta}
  <2>1. (b < 0 /\ r = 0 /\ g = CMax) \/ (b > CMax /\ r = CMax /\ g = 0)
    BY <1>1, <1>4, LeakShapes
  <2>2. x = r /\ y = g /\ z = IF b < 0 THEN b + 1 ELSE b - 1
    BY <1>2, <2>1 DEF DownArc
  <2>3. Depth(z) = Depth(b) - 1
    BY <2>1, <2>2 DEF Depth
  <2>4. InRange(ShiftDown(c)) => (z = 0 /\ b < 0) \/ (z = CMax /\ b > CMax)
    <3>1. InRange(ShiftDown(c)) => z \in Level
      BY <1>2, OnChannels
    <3>2. z \in Level => (z = 0 /\ b < 0) \/ (z = CMax /\ b > CMax)
      BY <2>1, <2>2 DEF Level
    <3>3. QED BY <3>1, <3>2
  <2>5. QED BY <1>1, <1>2, <2>1, <2>2, <2>3, <2>4, OnChannels DEF RGB, Green, Magenta
<1>5. QED BY <1>3, <1>4

\* Complement takes the one shape of the leak to the other, at the same depth.
LEMMA JumpKeepsLeak ==
  ASSUME NEW c, Settled(c), ~InRange(c)
  PROVE  Leak(Complement(c)) = Leak(c) /\ ~InRange(Complement(c))
<1>1. PICK r \in Int, g \in Int, b \in Int : c = RGB(r, g, b)
  BY DEF Settled, Shaped, Color, RGB
<1>2. Complement(c) = RGB(CMax - r, CMax - g, CMax - b)
  BY <1>1 DEF Complement, RGB
<1>3. b \notin Level
  BY <1>1, LeakShapes, CMaxAssumption DEF Level
<1>4. Depth(CMax - b) = Depth(b) /\ CMax - b \notin Level
  BY <1>3, CMaxAssumption DEF Depth, Level
<1>5. CMax - r \in Int /\ CMax - g \in Int /\ CMax - b \in Int
  BY CMaxAssumption
<1>6. Leak(c) = Depth(b)
  BY <1>1, OnChannels
<1>7. Leak(Complement(c)) = Depth(CMax - b)
  BY <1>2, <1>5, OnChannels
<1>8. ~InRange(Complement(c))
  <2>1. InRange(RGB(CMax - r, CMax - g, CMax - b)) => CMax - b \in Level
    BY <1>5, OnChannels
  <2>2. QED BY <1>2, <1>4, <2>1, Zenon
<1>9. QED BY <1>4, <1>6, <1>7, <1>8

\* The shift loops turn the wheel the way the hand goes, a positive iteration
\* by one to three of its 6 * CMax positions and never past the initial colour,
\* a negative one by one or two.  So no colour is seen twice within a round,
\* and a guest who only moves up comes by the initial colour in every round.
UpGoesOn ==
  [][InRange(colour) /\ InRange(colour') =>
       /\ HueUp   => /\ Turn(colour, colour') \in 1 .. 3
                     /\ colour # InitialColor => Ahead(colour') < Ahead(colour)
       /\ HueDown => Turn(colour', colour) \in 1 .. 2]_colour

THEOREM ShiftsTurnTheWheel == ASSUME CMax > 2 PROVE HueSpec => UpGoesOn
<1>1. WheelShape /\ [HueNext]_colour =>
        [InRange(colour) /\ InRange(colour') =>
           /\ HueUp   => /\ Turn(colour, colour') \in 1 .. 3
                         /\ colour # InitialColor => Ahead(colour') < Ahead(colour)
           /\ HueDown => Turn(colour', colour) \in 1 .. 2]_colour
  <2> SUFFICES ASSUME WheelShape, InRange(colour), InRange(colour')
               PROVE  /\ HueUp   => /\ Turn(colour, colour') \in 1 .. 3
                                    /\ colour # InitialColor => Ahead(colour') < Ahead(colour)
                      /\ HueDown => Turn(colour', colour) \in 1 .. 2
    OBVIOUS
  <2>1. HueUp => /\ Turn(colour, colour') \in 1 .. 3
                 /\ colour # InitialColor => Ahead(colour') < Ahead(colour)
    BY UpTurns DEF WheelShape, HueUp
  <2>2. HueDown => Turn(colour', colour) \in 1 .. 2
    BY DownTurns DEF WheelShape, HueDown
  <2>3. QED BY <2>1, <2>2
<1>2. QED BY <1>1, WheelShapeInvariant, PTL DEF HueSpec, UpGoesOn

\* A colour out of range comes back only the way it went: every positive
\* iteration takes blue a level further (the sixth test, multipleParty.cpp line
\* 354, and the first), every negative one a level back, a jump neither, and
\* the colour is in range again when a negative iteration stops at pure green
\* or pure magenta.
LeakIsUnwound ==
  [][~InRange(colour) =>
       /\ HueUp   => Leak(colour') = Leak(colour) + 1
       /\ HueDown => Leak(colour') = Leak(colour) - 1
       /\ HueJump => Leak(colour') = Leak(colour)
       /\ InRange(colour') => HueDown /\ colour' \in {Green, Magenta}]_colour

THEOREM LeakComesBackTheSameWay == ASSUME CMax > 2 PROVE HueSpec => LeakIsUnwound
<1>1. WheelShape /\ [HueNext]_colour =>
        [~InRange(colour) =>
           /\ HueUp   => Leak(colour') = Leak(colour) + 1
           /\ HueDown => Leak(colour') = Leak(colour) - 1
           /\ HueJump => Leak(colour') = Leak(colour)
           /\ InRange(colour') => HueDown /\ colour' \in {Green, Magenta}]_colour
  <2> SUFFICES ASSUME WheelShape, HueNext, ~InRange(colour)
               PROVE  /\ HueUp   => Leak(colour') = Leak(colour) + 1
                      /\ HueDown => Leak(colour') = Leak(colour) - 1
                      /\ HueJump => Leak(colour') = Leak(colour)
                      /\ InRange(colour') => HueDown /\ colour' \in {Green, Magenta}
    OBVIOUS
  <2>1. HueUp => Leak(colour') = Leak(colour) + 1 /\ ~InRange(colour')
    BY UpTurns DEF WheelShape, HueUp
  <2>2. HueDown => /\ Leak(colour') = Leak(colour) - 1
                   /\ InRange(colour') => colour' \in {Green, Magenta}
    BY DownTurns DEF WheelShape, HueDown
  <2>3. HueJump => Leak(colour') = Leak(colour) /\ ~InRange(colour')
    BY JumpKeepsLeak DEF WheelShape, HueJump
  <2>4. QED BY <2>1, <2>2, <2>3 DEF HueNext
<1>2. QED BY <1>1, WheelShapeInvariant, PTL DEF HueSpec, LeakIsUnwound
=============================================================================
