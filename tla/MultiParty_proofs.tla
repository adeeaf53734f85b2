------------------------- MODULE MultiParty_proofs -------------------------
(***************************************************************************)
(* What MultiParty promises for any number of guests and array places, any *)
(* length of the history and any thresholds.                               *)
(*                                                                         *)
(* The heart of it is a fact about memory: the shift of one slot's history *)
(* writes the cells from Cell(u, 0) up to the first cell of the next slot, *)
(* all of them behind the current speed of every earlier slot.  The loop   *)
(* measures the slots in their order, so the speed of a slot it has passed *)
(* stays what it measured, and FastestLeads is inductive.                  *)
(*                                                                         *)
(* As long as the last place is free, the colour of the loop is that of    *)
(* HueWalk, so what is proved of HueWalk holds of it: only the write past  *)
(* the history of the last slot reaches the colour.  And every frame comes *)
(* to its end, whoever is in view.                                         *)
(***************************************************************************)
EXTENDS MultiPartyHistory, HueWalk_proofs

LEMMA CrowdFits == ASSUME NEW s \in Crowds PROVE Len(s) \in 0 .. NSlots
<1>1. PICK n \in 0 .. NSlots : s \in [1 .. n -> Users]
  BY DEF Crowds
<1>2. Len(s) = n
  BY <1>1, PartyAssumption
<1> QED
  BY <1>2

\* The current speed of an earlier slot lies before the block of a later one.
LEMMA CellsApart ==
  ASSUME NEW u \in Slots, NEW v \in Slots, u < v
  PROVE  Cell(u, 0) < Cell(v, 0)
<1>1. /\ u \in Nat /\ v \in Nat /\ Hist \in Nat /\ Hist > 0
  BY PartyAssumption DEF Slots
<1>2. PICK d \in Nat : v = u + 1 + d
  <2>1. v - u - 1 \in Nat /\ v = u + 1 + (v - u - 1)
    BY <1>1
  <2> QED BY <2>1
<1>3. v * Hist = u * Hist + Hist + d * Hist
  BY <1>1, <1>2
<1>4. d * Hist \in Nat /\ u * Hist \in Nat
  BY <1>1, <1>2
<1> QED
  BY <1>1, <1>3, <1>4 DEF Cell

LEMMA CellInBlock ==
  ASSUME NEW u \in Slots, NEW i \in 0 .. Hist - 1 PROVE Cell(u, i) \in Cells
<1>1. /\ u \in Nat /\ NSlots \in Nat /\ Hist \in Nat /\ Hist > 1 /\ u + 1 <= NSlots
  BY PartyAssumption DEF Slots
<1>2. PICK d \in Nat : NSlots = u + 1 + d
  <2>1. NSlots - u - 1 \in Nat /\ NSlots = u + 1 + (NSlots - u - 1)
    BY <1>1
  <2> QED BY <2>1
<1>3. /\ NSlots * Hist = u * Hist + Hist + d * Hist
      /\ d * Hist \in Nat /\ u * Hist \in Nat
  BY <1>1, <1>2
<1> QED
  BY <1>1, <1>3 DEF Cell, Cells

LEMMA FirstInBlock == ASSUME NEW u \in Slots PROVE Cell(u, 0) \in Cells
<1>1. 0 \in 0 .. Hist - 1
  BY PartyAssumption
<1> QED
  BY <1>1, CellInBlock

\* What the loop of lines 328-331 leaves: the new speed in front, and every
\* cell before the block as it was.
LEMMA ShiftedHistory ==
  ASSUME NEW u \in Slots, NEW v \in Nat, speed \in [Cells -> Nat]
  PROVE  /\ Shifted(u, v) \in [Cells -> Nat]
         /\ Shifted(u, v)[Cell(u, 0)] = v
         /\ \A k \in Cells : k < Cell(u, 0) => Shifted(u, v)[k] = speed[k]
<1>1. u * Hist \in Nat /\ Hist \in Nat /\ Hist > 1 /\ NSlots * Hist \in Nat
  BY PartyAssumption DEF Slots
<1>2. \A k \in Cells : k \in Cell(u, 2) .. Cell(u, Hist) => k - 1 \in Cells
  BY <1>1 DEF Cell, Cells
<1>3. Shifted(u, v) \in [Cells -> Nat]
  BY <1>2 DEF Shifted
<1>4. Shifted(u, v)[Cell(u, 0)] = v
  BY FirstInBlock DEF Shifted
<1>5. ASSUME NEW k \in Cells, k < Cell(u, 0) PROVE Shifted(u, v)[k] = speed[k]
  BY <1>1, <1>5 DEF Shifted, Cell, Cells
<1> QED
  BY <1>3, <1>4, <1>5

\* What it leaves behind the block is a colour, whose red and blue it spares.
LEMMA SpilledColour ==
  ASSUME NEW u \in Slots, speed \in [Cells -> Nat], colour \in Color
  PROVE  Spilled(u) \in Color
<1>1. speed[Cell(u, Hist - 1)] \in Nat
  BY CellInBlock, PartyAssumption
<1>2. AsGreen(speed[Cell(u, Hist - 1)]) \in Int
  BY <1>1, PartyAssumption DEF AsGreen
<1> QED
  BY <1>2 DEF Spilled, Color

\* Colours stay colours also off the wheel.
LEMMA ShiftedColour ==
  ASSUME NEW c \in Color PROVE ShiftUp(c) \in Color /\ ShiftDown(c) \in Color
<1> USE DEF Color, AddR, AddG, AddB
<1>1. \A d \in Color : Up1(d) \in Color /\ Up2(d) \in Color /\ Up3(d) \in Color
  BY DEF Up1, Up2, Up3
<1>2. \A d \in Color : Up4(d) \in Color /\ Up5(d) \in Color /\ Up6(d) \in Color
  BY DEF Up4, Up5, Up6
<1>3. \A d \in Color : Up7(d) \in Color /\ Up8(d) \in Color /\ Up9(d) \in Color
  BY DEF Up7, Up8, Up9
<1>4. \A d \in Color : Down1(d) \in Color /\ Down2(d) \in Color /\ Down3(d) \in Color
  BY DEF Down1, Down2, Down3
<1>5. \A d \in Color : Down4(d) \in Color /\ Down5(d) \in Color /\ Down6(d) \in Color
  BY DEF Down4, Down5, Down6
<1> HIDE DEF Color, AddR, AddG, AddB
<1>6. ShiftUp(c) \in Color
  BY <1>1, <1>2, <1>3, Zenon DEF ShiftUp
<1>7. ShiftDown(c) \in Color
  BY <1>4, <1>5, Zenon DEF ShiftDown
<1> QED
  BY <1>6, <1>7

LEMMA JumpedColour == ASSUME NEW c \in Color PROVE Complement(c) \in Color
BY CMaxAssumption DEF Complement, Color

LEMMA StepsAreNat == ASSUME NEW v \in Nat PROVE StepsOf(v) \in Nat
<1>1. v * StepNum \in Nat /\ StepDen \in Nat /\ StepDen > 0
  BY PartyAssumption
<1> QED
  BY <1>1 DEF StepsOf

-----------------------------------------------------------------------------
PartyInv == /\ TypeOK
            /\ FastestLeads
            /\ NothingUnsent

LEMMA InitPartyInv == Init => PartyInv
<1> SUFFICES ASSUME Init PROVE PartyInv
  OBVIOUS
<1>1. <<>> \in Crowds
  <2>1. 0 \in 0 .. NSlots /\ <<>> \in [1 .. 0 -> Users] /\ IsInjective(<<>>)
    BY PartyAssumption DEF IsInjective
  <2> QED BY <2>1 DEF Crowds
<1>2. colour \in Color
  BY InitialGlides DEF Init, Gliding, Settled, Shaped
<1>3. TypeOK
  BY <1>1, <1>2, PartyAssumption DEF Init, TypeOK, Slots
<1> QED
  BY <1>2, <1>3 DEF Init, PartyInv, FastestLeads, NothingUnsent

LEMMA NextPartyInv == PartyInv /\ [Next]_vars => PartyInv'
<1> SUFFICES ASSUME PartyInv, [Next]_vars PROVE PartyInv'
  OBVIOUS
<1> USE PartyAssumption DEF PartyInv
<1>1. ASSUME NEW users \in Crowds, Update(users) PROVE PartyInv'
  <2>1. TypeOK'
    BY <1>1 DEF Update, TypeOK
  <2> QED BY <1>1, <2>1 DEF Update, FastestLeads, NothingUnsent
<1>2. CASE SkipUser
  <2>1. TypeOK'
    BY <1>2, CrowdFits DEF SkipUser, TypeOK
  <2>2. FastestLeads'
    BY <1>2 DEF SkipUser, FastestLeads, TopSpeed, TypeOK, Slots
  <2> QED BY <1>2, <2>1, <2>2 DEF SkipUser, NothingUnsent
<1>3. ASSUME NEW hand \in Points, MeasureUser(hand) PROVE PartyInv'
  <2> DEFINE moved == Dist(hand, last[slot])
             v     == moved + second[slot]
  <2>1. slot \in Slots
    BY <1>3, CrowdFits DEF MeasureUser, TypeOK, Slots
  <2>2. moved \in Nat /\ v \in Nat /\ Rises(hand, last[slot]) \in BOOLEAN
    BY <2>1 DEF TypeOK
  <2>3. /\ speed' = Shifted(slot, v) /\ slot' = slot + 1
        /\ last' = [last EXCEPT ![slot] = hand]
        /\ second' = [second EXCEPT ![slot] = moved]
        /\ netpositive' = [netpositive EXCEPT ![slot] = Rises(hand, last[slot])]
        /\ IF v > fastestSpeed THEN fastestSpeed' = v /\ fastestUser' = slot
                               ELSE UNCHANGED <<fastestSpeed, fastestUser>>
        /\ colour' = Spilled(slot)
        /\ pc = "scan" /\ UNCHANGED <<pc, crowd, left, gap, sent>>
    BY <1>3 DEF MeasureUser
  <2> HIDE DEF moved, v
  <2>4. TypeOK'
    <3>1. speed' \in [Cells -> Nat]
      BY <2>1, <2>2, <2>3, ShiftedHistory DEF TypeOK
    <3>2. slot' \in 0 .. NSlots
      BY <2>1, <2>3 DEF Slots
    <3>3. colour' \in Color
      BY <2>1, <2>3, SpilledColour DEF TypeOK
    <3> QED BY <2>1, <2>2, <2>3, <3>1, <3>2, <3>3 DEF TypeOK
  <2>5. FastestLeads'
    <3>1. CASE v > fastestSpeed
      <4>1. speed'[Cell(slot, 0)] = v
        BY <2>1, <2>2, <2>3, ShiftedHistory DEF TypeOK
      <4>2. fastestUser' = slot /\ fastestSpeed' = v /\ slot < slot'
        BY <2>1, <2>3, <3>1 DEF Slots
      <4> QED BY <4>1, <4>2 DEF FastestLeads, TopSpeed
    <3>2. CASE ~(v > fastestSpeed) /\ fastestSpeed > 0
      <4>1. fastestUser < slot /\ fastestUser' = fastestUser /\ fastestSpeed' = fastestSpeed
        BY <2>3, <3>2 DEF FastestLeads
      <4>2. Cell(fastestUser, 0) \in Cells /\ Cell(fastestUser, 0) < Cell(slot, 0)
        BY <2>1, <4>1, CellsApart, FirstInBlock DEF TypeOK
      <4>3. speed'[Cell(fastestUser, 0)] = speed[Cell(fastestUser, 0)]
        BY <2>1, <2>2, <2>3, <4>2, ShiftedHistory DEF TypeOK
      <4> QED BY <2>1, <2>3, <3>2, <4>1, <4>3 DEF FastestLeads, TopSpeed, TypeOK, Slots
    <3>3. CASE ~(v > fastestSpeed) /\ ~(fastestSpeed > 0)
      BY <2>3, <3>3 DEF FastestLeads
    <3> QED BY <3>1, <3>2, <3>3
  <2> QED BY <2>3, <2>4, <2>5 DEF NothingUnsent
<1>4. CASE Decide
  <2>1. TopSpeed \in Nat
    BY FirstInBlock DEF TypeOK, TopSpeed
  <2>2. TypeOK'
    <3>1. StepsOf(TopSpeed) + 1 \in Nat
      BY <2>1, StepsAreNat
    <3>2. left' \in Nat /\ pc' \in {"shift", "send"}
      BY <1>4, <3>1 DEF Decide, TypeOK
    <3>3. UNCHANGED <<crowd, scan, gap, colour, sent>>
      BY <1>4 DEF Decide
    <3> QED BY <3>2, <3>3 DEF scan, TypeOK
  <2> QED BY <1>4, <2>2 DEF Decide, scan, FastestLeads, TopSpeed, NothingUnsent
<1>5. CASE Shift
  <2>1. colour' \in Color
    BY <1>5, ShiftedColour DEF Shift, Turned, TypeOK
  <2>2. TypeOK'
    BY <1>5, <2>1 DEF Shift, scan, TypeOK
  <2> QED BY <1>5, <2>1, <2>2 DEF Shift, scan, FastestLeads, TopSpeed, NothingUnsent
<1>6. CASE JumpOrCount
  <2>1. colour' \in Color
    BY <1>6, JumpedColour DEF JumpOrCount, TypeOK
  <2>2. TypeOK'
    BY <1>6, <2>1 DEF JumpOrCount, scan, TypeOK
  <2> QED BY <1>6, <2>1, <2>2 DEF JumpOrCount, scan, FastestLeads, TopSpeed, NothingUnsent
<1>7. CASE Send
  BY <1>7 DEF Send, scan, TypeOK, FastestLeads, TopSpeed, NothingUnsent
<1>8. CASE Stop
  BY <1>8 DEF Stop, scan, TypeOK, FastestLeads, TopSpeed, NothingUnsent
<1>9. CASE UNCHANGED vars
  BY <1>9 DEF vars, scan, TypeOK, FastestLeads, TopSpeed, NothingUnsent
<1> QED
  BY <1>1, <1>2, <1>3, <1>4, <1>5, <1>6, <1>7, <1>8, <1>9 DEF Next

LEMMA PartyInvariant == Spec => []PartyInv
<1>1. Init => PartyInv
  BY InitPartyInv
<1>2. PartyInv /\ [Next]_vars => PartyInv'
  BY NextPartyInv
<1> QED
  BY <1>1, <1>2, PTL DEF Spec

\* The speed that decides about steps and jump is the highest of the frame,
\* although line 330 writes into the next slot's current speed.
THEOREM FastestAlwaysLeads == Spec => [](TypeOK /\ FastestLeads)
<1>1. PartyInv => TypeOK /\ FastestLeads
  BY DEF PartyInv
<1> QED
  BY <1>1, PartyInvariant, PTL

\* The frame's variables keep their types, the block of memory of the speed
\* histories and the channel behind it included (lines 291-335).
THEOREM PartyTypes == Spec => []TypeOK
<1>1. PartyInv => TypeOK
  BY DEF PartyInv
<1> QED
  BY <1>1, PartyInvariant, PTL

\* No frame ends with a colour the lights were not given.
THEOREM EveryColourIsSent == Spec => []NothingUnsent
<1>1. PartyInv => NothingUnsent
  BY DEF PartyInv
<1> QED
  BY <1>1, PartyInvariant, PTL

-----------------------------------------------------------------------------
\* What the write past the history of the last place does to the colour.
Spill == /\ pc = "scan" /\ slot = Last /\ Len(crowd) = NSlots
         /\ colour' = [colour EXCEPT !.g = AsGreen(speed[Cell(Last, Hist - 1)])]

OnlyLastSpills == [][HueNext \/ Spill]_colour

LEMMA PartySteps == TypeOK /\ [Next]_vars => [HueNext \/ Spill]_colour
<1> SUFFICES ASSUME TypeOK, [Next]_vars, colour' # colour PROVE HueNext \/ Spill
  OBVIOUS
<1>1. CASE Shift
  BY <1>1 DEF Shift, Turned, HueNext, HueUp, HueDown
<1>2. CASE JumpOrCount
  BY <1>2 DEF JumpOrCount, HueNext, HueJump
<1>3. ASSUME NEW hand \in Points, MeasureUser(hand) PROVE Spill
  <2>1. pc = "scan" /\ slot < Len(crowd) /\ slot = Last /\ colour' = Spilled(Last)
    BY <1>3 DEF MeasureUser, Spilled
  <2>2. Len(crowd) = NSlots
    BY <2>1, CrowdFits, PartyAssumption DEF TypeOK, Last
  <2> QED BY <2>1, <2>2 DEF Spill, Spilled
<1>4. Shift \/ JumpOrCount \/ \E hand \in Points : MeasureUser(hand)
  BY DEF Next, Update, SkipUser, Decide, Send, Stop, vars, scan
<1> QED
  BY <1>1, <1>2, <1>3, <1>4

\* Whatever any number of guests do, the colour goes the ways of HueWalk, but for
\* one step of the scan: measuring a guest in the last place, with every place
\* taken, writes an old speed of that guest over green (line 330).
THEOREM OnlyTheLastPlaceSpills == Spec => OnlyLastSpills
<1>1. PartyInv => TypeOK
  BY DEF PartyInv
<1> QED
  BY <1>1, PartySteps, PartyInvariant, PTL DEF Spec, OnlyLastSpills

\* A place is left in the arrays: with four of them, at most three guests.
Room == Len(crowd) < NSlots

\* As long as a place is left, every step of the frame loop is a step of HueWalk
\* or leaves the colour.
THEOREM PartyImplementsHueWalk == Spec /\ []Room => HueSpec
<1>1. Init => HueInit
  BY DEF Init, HueInit
<1>2. Room => ~Spill
  BY PartyAssumption DEF Room, Spill
<1>3. Room /\ [HueNext \/ Spill]_colour => [HueNext]_colour
  BY <1>2
<1> QED
  BY <1>1, <1>3, OnlyTheLastPlaceSpills, PTL DEF Spec, HueSpec, OnlyLastSpills

\* And every promise of HueWalk about its steps.  With a place left the colour
\* leaves its range only by a positive shift from pure green, which only a jump
\* from pure magenta reaches (multipleParty.cpp lines 347-383) ...
THEOREM PartyLeaksOnlyAtGreen ==
  Spec /\ []Room => LeavesRangeOnlyAtGreen /\ GreenOnlyByJump
<1> QED
  BY PartyImplementsHueWalk, OnlyGreenLeaks, OnlyJumpsReachGreen, PTL

\* ... shifts turn it the way the hand goes, and a colour out of range comes back
\* the way it went.
THEOREM PartyTurnsTheWheel ==
  ASSUME CMax > 2 PROVE Spec /\ []Room => UpGoesOn /\ LeakIsUnwound
<1>1. HueSpec => UpGoesOn /\ LeakIsUnwound
  BY ShiftsTurnTheWheel, LeakComesBackTheSameWay
<1> QED
  BY <1>1, PartyImplementsHueWalk, PTL

\* With a place left every colour step moves the colour, as line 337 says: the
\* write over green is the only cause of what the run party_full shows.
THEOREM StepsMoveWithRoom ==
  ASSUME CMax > 2 PROVE Spec /\ []Room => []StepsMoveTheColour
<1>1. \A c \in Color : Apart(c, c) = 0
  BY DEF Apart, Gap, Color
<1>2. WheelShape => StepsMoveTheColour
  <2> SUFFICES ASSUME WheelShape PROVE Turned # colour
    BY DEF StepsMoveTheColour
  <2>1. Apart(colour, ShiftUp(colour)) # 0 /\ Apart(colour, ShiftDown(colour)) # 0
    BY UpMoves, DownMoves DEF WheelShape
  <2>2. Apart(colour, colour) = 0
    BY <1>1 DEF WheelShape, Settled, Shaped
  <2> QED BY <2>1, <2>2 DEF Turned
<1> QED
  BY <1>2, PartyImplementsHueWalk, WheelShapeInvariant, PTL

\* However the guests of the other places come, go, move and jump, and although
\* each of their histories is written past its end, the colour keeps the shapes
\* of HueWalk until somebody is measured in the last place.
THEOREM WheelIsKeptUntilFull == HSpec => []WheelUntilFull
<1>1. HInit => WheelUntilFull
  BY InitialGlides DEF HInit, Init, WheelUntilFull, Gliding
<1>2. WheelUntilFull /\ [HNext]_hvars => WheelUntilFull'
  <2> SUFFICES ASSUME WheelUntilFull, [HNext]_hvars PROVE WheelUntilFull'
    OBVIOUS
  <2>1. CASE HJumpOrCount
    BY <2>1, ComplementSettled DEF HJumpOrCount, JumpOrCount, WheelUntilFull
  <2>2. CASE HMeasureUser
    BY <2>2 DEF HMeasureUser, MeasureUser, Spilled, WheelUntilFull
  <2>3. CASE HOther /\ Shift
    BY <2>3, UpSettled, DownSettled DEF HOther, Shift, Turned, WheelUntilFull
  <2>4. CASE HOther /\ ~Shift
    BY <2>4 DEF HOther, Update, SkipUser, Decide, Send, Stop, scan, WheelUntilFull
  <2>5. CASE UNCHANGED hvars
    BY <2>5 DEF hvars, vars, WheelUntilFull
  <2> QED BY <2>1, <2>2, <2>3, <2>4, <2>5 DEF HNext
<1> QED
  BY <1>1, <1>2, PTL DEF HSpec

-----------------------------------------------------------------------------
\* How far a frame is: its stage, and what is left to do in that stage.
Stage == IF pc = "scan" THEN 3 ELSE IF pc = "shift" THEN 2 ELSE IF pc = "send" THEN 1 ELSE 0
InStage == IF pc = "scan" THEN Len(crowd) - slot ELSE IF pc = "shift" THEN left ELSE 0

\* A frame under way only goes on: to a later stage, or nearer to the end of
\* this one.
FrameGoesOn ==
  [][Stage > 0 => \/ Stage' < Stage
                  \/ Stage' = Stage /\ InStage' < InStage /\ InStage' \in Nat]_vars

\* A frame ends, however many guests are in view and whatever their speeds
\* (the loops of multipleParty.cpp lines 287, 347 and 365): no stage is entered
\* twice, the scan and the shift loop come nearer to their ends with every
\* step, and neither runs past it.
THEOREM EveryFrameEnds == Spec => FrameGoesOn
<1>1. PartyInv /\ [Next]_vars =>
        [Stage > 0 => \/ Stage' < Stage
                      \/ Stage' = Stage /\ InStage' < InStage /\ InStage' \in Nat]_vars
  <2> SUFFICES ASSUME PartyInv, Next, Stage > 0
               PROVE  \/ Stage' < Stage
                      \/ Stage' = Stage /\ InStage' < InStage /\ InStage' \in Nat
    OBVIOUS
  <2>1. Len(crowd) \in Nat /\ slot \in Nat /\ left \in Nat
    BY CrowdFits DEF PartyInv, TypeOK
  <2>2. pc \in {"scan", "shift", "send"}
    BY DEF Stage
  <2>3. CASE SkipUser \/ \E hand \in Points : MeasureUser(hand)
    <3>1. pc = "scan" /\ pc' = "scan" /\ crowd' = crowd /\ slot < Len(crowd) /\ slot' = slot + 1
      BY <2>3 DEF SkipUser, MeasureUser
    <3> QED BY <2>1, <3>1 DEF Stage, InStage
  <2>4. CASE Decide \/ Send
    BY <2>4 DEF Decide, Send, Stage
  <2>5. CASE Shift
    <3>1. pc = "shift" /\ pc' = "shift" /\ left > 0 /\ left' = left - 1
      BY <2>5 DEF Shift
    <3> QED BY <2>1, <3>1 DEF Stage, InStage
  <2>6. CASE JumpOrCount
    BY <2>6 DEF JumpOrCount, Stage
  <2>7. ~Stop /\ ~ \E users \in Crowds : Update(users)
    BY <2>2 DEF Stop, Update
  <2> QED BY <2>3, <2>4, <2>5, <2>6, <2>7 DEF Next
<1> QED
  BY <1>1, PartyInvariant, PTL DEF Spec, FrameGoesOn

-----------------------------------------------------------------------------
\* What the gap still to wait and the frames since the last jump add up to.
GapInv == /\ gap \in 0 .. GapFrames /\ calm \in 0 .. GapFrames
          /\ gap + calm >= GapFrames

\* However the frames that do not shift are spread, two jumps are at least
\* GapFrames shifting frames apart: the gap of line 383 is never cut short.
THEOREM JumpsStayApart == HSpec => JumpsApart
<1> USE PartyAssumption
<1> DEFINE Jumps == pc = "shift" /\ left = 0 /\ colour' # colour
<1>1. HInit => GapInv
  BY DEF HInit, Init, GapInv
<1>2. GapInv /\ [HNext]_hvars => GapInv'
  <2> SUFFICES ASSUME GapInv, [HNext]_hvars PROVE GapInv'
    OBVIOUS
  <2>1. CASE HJumpOrCount
    BY <2>1 DEF HJumpOrCount, JumpOrCount, GapInv
  <2>2. CASE HMeasureUser \/ HOther
    BY <2>2 DEF HMeasureUser, HOther, Update, SkipUser, MeasureUser, Decide, Shift, Send, Stop,
       GapInv
  <2>3. CASE UNCHANGED hvars
    BY <2>3 DEF hvars, vars, GapInv
  <2> QED BY <2>1, <2>2, <2>3 DEF HNext
<1>3. GapInv /\ [HNext]_hvars => [Jumps => calm = GapFrames]_hvars
  <2> SUFFICES ASSUME GapInv, HNext, Jumps PROVE calm = GapFrames
    OBVIOUS
  <2>1. ~HMeasureUser /\ ~HOther
    BY DEF HMeasureUser, HOther, Update, SkipUser, MeasureUser, Decide, Shift, Send, Stop
  <2>2. gap = 0
    BY <2>1 DEF HNext, HJumpOrCount, JumpOrCount
  <2> QED BY <2>2 DEF GapInv
<1> QED
  BY <1>1, <1>2, <1>3, PTL DEF HSpec, JumpsApart
=============================================================================
