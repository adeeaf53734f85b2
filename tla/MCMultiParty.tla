---------------------------- MODULE MCMultiParty ----------------------------
(***************************************************************************)
(* MultiParty with its history variables for TLC, in the units of          *)
(* MCLifeParty.  No frame starts with a channel more than LeakBound levels *)
(* outside its range.  A speed, as a level of green, is one between dark   *)
(* and full, as those of the program are (a hand makes a few metres per    *)
(* second, a full channel is 255).                                         *)
(***************************************************************************)
EXTENDS MultiPartyHistory

CONSTANT LeakBound

MCDist(p, q)  == IF p < q THEN q - p ELSE p - q
MCRises(p, q) == p > q

Bounded == pc = "wait" =>
  \A x \in {colour.r, colour.g, colour.b} : x \in -LeakBound .. CMax + LeakBound

MCSpec == HInit /\ [][HNext /\ Bounded]_hvars
=============================================================================
