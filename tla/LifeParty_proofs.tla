-------------------------- MODULE LifeParty_proofs --------------------------
(***************************************************************************)
(* What LifeParty promises for every size of a channel, every threshold    *)
(* and every set of hand positions.  LifeInv says why: a frame that shifts *)
(* is one above the threshold, and the history holds one speed only.       *)
(* Every frame comes to its end, and what is proved of HueWalk holds of    *)
(* the colour of the loop.                                                 *)
(***************************************************************************)
EXTENDS LifeParty, HueWalk_proofs

OneSpeed == \A i \in 2 .. 5 : past[i] = past[2]

LifeInv == /\ TypeOK
           /\ Settled(colour)
           /\ pc = "shift" => vaverage > ShiftSpeed
           /\ OneSpeed

LEMMA StepsAreNat == ASSUME NEW v \in Nat PROVE StepsOf(v) \in Nat
<1>1. v * StepNum \in Nat /\ StepDen \in Nat /\ StepDen > 0
  BY LifeAssumption
<1> QED
  BY <1>1 DEF StepsOf

LEMMA InitLifeInv == Init => LifeInv
<1> SUFFICES ASSUME Init PROVE LifeInv
  OBVIOUS
<1>1. Settled(colour) /\ colour \in Color
  BY InitialGlides DEF Init, Gliding, Settled, Shaped
<1>2. sent \in Color /\ last \in Points
  BY <1>1, LifeAssumption DEF Init
<1>3. past \in [2 .. 5 -> Nat] /\ OneSpeed
  BY DEF Init, OneSpeed
<1>4. TypeOK
  <2>1. netpositivev \in BOOLEAN /\ pc = "wait"
    BY Zenon DEF Init
  <2>2. left = 0 /\ distancechange = 0 /\ twochange = 0 /\ vaverage = 0
    BY DEF Init
  <2> QED BY <1>1, <1>2, <1>3, <2>1, <2>2 DEF TypeOK
<1> QED
  BY <1>1, <1>3, <1>4 DEF Init, LifeInv

LEMMA NextLifeInv == LifeInv /\ [Next]_vars => LifeInv'
<1> SUFFICES ASSUME LifeInv, [Next]_vars PROVE LifeInv'
  OBVIOUS
<1> USE LifeAssumption DEF LifeInv
<1>1. ASSUME NEW hand \in Points, Measure(hand) PROVE LifeInv'
  <2> DEFINE moved == Dist(hand, last)
             v     == moved + twochange
  <2>1. moved \in Nat /\ v \in Nat /\ Rises(hand, last) \in BOOLEAN
    BY DEF TypeOK
  <2>2. StepsOf(v) + 1 \in Nat /\ StepsOf(v) + 1 > 0
    BY <2>1, StepsAreNat
  <2>3. TypeOK' /\ (pc' = "shift" => vaverage' > ShiftSpeed)
    BY <1>1, <2>1, <2>2 DEF Measure, TypeOK
  <2> QED BY <1>1, <2>3 DEF Measure, OneSpeed
<1>2. CASE Shift
  <2>1. Settled(colour') /\ colour' \in Color
    BY <1>2, UpSettled, DownSettled DEF Shift, Settled, Shaped
  <2>2. TypeOK'
    BY <1>2, <2>1 DEF Shift, TypeOK
  <2> QED BY <1>2, <2>1, <2>2 DEF Shift, OneSpeed
<1>3. CASE Jump
  <2>1. Settled(colour') /\ colour' \in Color
    BY <1>3, ComplementSettled DEF Jump, Settled, Shaped
  <2>2. TypeOK'
    BY <1>3, <2>1 DEF Jump, TypeOK
  <2> QED BY <1>3, <2>1, <2>2 DEF Jump, OneSpeed
<1>4. CASE Send
  BY <1>4 DEF Send, TypeOK, OneSpeed
<1>5. CASE Stop
  BY <1>5 DEF Stop, TypeOK, OneSpeed
<1>6. CASE UNCHANGED vars
  BY <1>6 DEF vars, TypeOK, OneSpeed
<1> QED
  BY <1>1, <1>2, <1>3, <1>4, <1>5, <1>6 DEF Next, Frame

\* The types, and the shape of the colour for one guest as for many.
THEOREM LifeInvariant == Spec => []LifeInv
<1>1. Init => LifeInv
  BY InitLifeInv
<1>2. LifeInv /\ [Next]_vars => LifeInv'
  BY NextLifeInv
<1> QED
  BY <1>1, <1>2, PTL DEF Spec

\* The frame's variables keep their types; above all, shift iterations are
\* left exactly while the frame shifts (the loops of lines 331 and 370).
THEOREM LifeTypes == Spec => []TypeOK
<1>1. LifeInv => TypeOK
  BY DEF LifeInv
<1> QED
  BY <1>1, LifeInvariant, PTL

\* The values of the thresholds (1 and 2.5 m/s in the code) are what keeps a
\* slow hand from jumping: a gain over a mean that is not negative takes a
\* quarter of JumpGain at least.
THEOREM OnlyMotionMovesIt ==
  ASSUME 4 * ShiftSpeed <= JumpGain PROVE Spec => OnlyMotionMoves
<1>1. LifeInv /\ [Next]_vars => [colour' # colour => vaverage > ShiftSpeed]_vars
  <2> SUFFICES ASSUME LifeInv, Next, colour' # colour PROVE vaverage > ShiftSpeed
    OBVIOUS
  <2>1. CASE Shift
    BY <2>1 DEF LifeInv, Shift
  <2>2. CASE Jump
    <3>1. Gain > JumpGain
      BY <2>2 DEF Jump
    <3>2. vaverage \in Nat /\ \A i \in 2 .. 5 : past[i] \in Nat
      BY DEF LifeInv, TypeOK
    <3> QED BY <3>1, <3>2, LifeAssumption DEF Gain
  <2>3. ~(Shift \/ Jump) => colour' = colour
    BY DEF Next, Frame, Measure, Send, Stop
  <2> QED BY <2>1, <2>2, <2>3
<1> QED
  BY <1>1, LifeInvariant, PTL DEF Spec, OnlyMotionMoves

\* A hand that keeps its speed never jumps, whatever the threshold: lines 412
\* to 415 leave one speed in the history, so the gain is nothing.
THEOREM SteadySpeedStays == Spec => SteadySpeedNeverJumps
<1>1. LifeInv /\ [Next]_vars
        => [pc = "jump" /\ vaverage = past[2] => colour' = colour]_vars
  <2> SUFFICES ASSUME LifeInv, Next, pc = "jump", vaverage = past[2]
               PROVE  colour' = colour
    OBVIOUS
  <2>1. vaverage \in Nat /\ Gain = 0 /\ JumpGain \in Nat
    BY LifeAssumption DEF LifeInv, TypeOK, OneSpeed, Gain
  <2>2. Jump
    BY DEF Next, Frame, Measure, Shift, Send, Stop
  <2> QED BY <2>1, <2>2 DEF Jump
<1> QED
  BY <1>1, LifeInvariant, PTL DEF Spec, SteadySpeedNeverJumps

-----------------------------------------------------------------------------
\* Every step of the frame loop is a step of HueWalk or leaves the colour.
THEOREM LifeImplementsHueWalk == Spec => HueSpec
<1>1. Init => HueInit
  BY DEF Init, HueInit
<1>2. [Next]_vars => [HueNext]_colour
  <2> SUFFICES ASSUME [Next]_vars, colour' # colour PROVE HueNext
    OBVIOUS
  <2>1. CASE Shift
    BY <2>1 DEF Shift, HueNext, HueUp, HueDown
  <2>2. CASE Jump
    BY <2>2 DEF Jump, HueNext, HueJump
  <2>3. ~(Shift \/ Jump) => colour' = colour
    BY DEF Next, Frame, Measure, Send, Stop, vars
  <2> QED BY <2>1, <2>2, <2>3
<1> QED
  BY <1>1, <1>2, PTL DEF Spec, HueSpec
\* And every promise of HueWalk about its steps.  With one guest the colour
\* leaves its range only by a positive shift from pure green, which only a jump
\* from pure magenta reaches (Lifeoftheparty.cpp lines 331-407) ...
THEOREM LifeLeaksOnlyAtGreen == Spec => LeavesRangeOnlyAtGreen /\ GreenOnlyByJump
<1> QED
  BY LifeImplementsHueWalk, OnlyGreenLeaks, OnlyJumpsReachGreen, PTL

\* ... shifts turn it the way the hand goes, and a colour out of range comes back
\* the way it went.
THEOREM LifeTurnsTheWheel == ASSUME CMax > 2 PROVE Spec => UpGoesOn /\ LeakIsUnwound
<1>1. HueSpec => UpGoesOn /\ LeakIsUnwound
  BY ShiftsTurnTheWheel, LeakComesBackTheSameWay
<1> QED
  BY <1>1, LifeImplementsHueWalk, PTL

-----------------------------------------------------------------------------
\* Steps that a frame under way still takes.
ToDo == IF pc = "shift" THEN left + 2
        ELSE IF pc = "jump" THEN 2
        ELSE IF pc = "send" THEN 1 ELSE 0

\* A colour the lights were not given belongs to a frame under way.
UnsentInFrame == colour # sent => pc \in {"shift", "jump", "send"}

\* Every step of the frame loop that goes on with a frame brings its end nearer.
FrameGoesOn == [][Frame => ToDo \in Nat \ {0} /\ ToDo' = ToDo - 1]_vars

\* What EventuallySent rests on, for every speed: a colour that is not sent yet
\* belongs to a frame under way, every step of it is possible (a frame that
\* shifts has iterations left) and makes it one step shorter, so that neither
\* shift loop (Lifeoftheparty.cpp lines 331 and 370) keeps it from the lights.
THEOREM EveryFrameEnds ==
  Spec => /\ [](UnsentInFrame /\ (pc = "shift" => left > 0))
          /\ FrameGoesOn
<1>1. Init => UnsentInFrame
  BY DEF Init, UnsentInFrame
<1>2. LifeInv /\ UnsentInFrame /\ [Next]_vars => UnsentInFrame'
  BY DEF LifeInv, TypeOK, UnsentInFrame, Next, Frame, Measure, Shift, Jump, Send, Stop, vars
<1>3. LifeInv => (pc = "shift" => left > 0)
  BY DEF LifeInv, TypeOK
<1>4. LifeInv => [Frame => ToDo \in Nat \ {0} /\ ToDo' = ToDo - 1]_vars
  <2> SUFFICES ASSUME LifeInv, Frame PROVE ToDo \in Nat \ {0} /\ ToDo' = ToDo - 1
    OBVIOUS
  <2>1. left \in Nat
    BY DEF LifeInv, TypeOK
  <2> QED BY <2>1 DEF Frame, Shift, Jump, Send, ToDo
<1> QED
  BY <1>1, <1>2, <1>3, <1>4, LifeInvariant, PTL DEF Spec, FrameGoesOn
=============================================================================
