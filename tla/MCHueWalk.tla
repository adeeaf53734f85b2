------------------------------ MODULE MCHueWalk ------------------------------
(***************************************************************************)
(* HueWalk for TLC.  Only blue can leave 0 .. CMax and only a step at a    *)
(* time, so LeakBound levels on each side show both shapes of the leak;    *)
(* the specification itself has no such bound.                             *)
(***************************************************************************)
EXTENDS HueWalk

CONSTANT LeakBound

MCSpec == HueInit /\ [][HueNext /\ colour'.b \in -LeakBound .. CMax + LeakBound]_colour
==============================================================================
