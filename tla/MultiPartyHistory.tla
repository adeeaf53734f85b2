-------------------------- MODULE MultiPartyHistory --------------------------
(***************************************************************************)
(* MultiParty with two history variables: how many shifting frames ago the *)
(* colour last jumped, and whether anybody was ever measured in the last   *)
(* place.  They follow the loop and never restrain it.                     *)
(***************************************************************************)
EXTENDS MultiParty

VARIABLES calm,        \* shifting frames since the last jump, at most GapFrames
          spilled      \* a write went past the end of the speed histories

hvars == <<vars, calm, spilled>>

HInit == Init /\ calm = GapFrames /\ spilled = FALSE

\* Red is a whole number and a full channel, 255, is odd, so no colour is its
\* own complement: a frame that changed it at line 376 jumped.
HJumpOrCount == /\ JumpOrCount
                /\ calm' = IF colour' # colour THEN 0
                           ELSE IF calm < GapFrames THEN calm + 1 ELSE calm
                /\ UNCHANGED spilled

HMeasureUser == /\ \E hand \in Points : MeasureUser(hand)
                /\ spilled' = (spilled \/ slot = Last)
                /\ UNCHANGED calm

HOther == /\ \/ \E users \in Crowds : Update(users)
             \/ SkipUser \/ Decide \/ Shift \/ Send \/ Stop
          /\ UNCHANGED <<calm, spilled>>

HNext == HJumpOrCount \/ HMeasureUser \/ HOther

HSpec == HInit /\ [][HNext]_hvars

-----------------------------------------------------------------------------
\* jumpframegap keeps two jumps at least GapFrames shifting frames apart
\* (lines 376-386), although it is only counted down in frames that shift.
JumpsApart == [][pc = "shift" /\ left = 0 /\ colour' # colour => calm = GapFrames]_hvars

\* Until a guest is measured in the last place, however the guests before it
\* move and jump, the colour keeps the shapes of HueWalk.  The writes past the
\* histories of the other places never reach it.
WheelUntilFull == ~spilled => Settled(colour)
=============================================================================
