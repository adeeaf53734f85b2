----------------------------- MODULE MCLifeParty -----------------------------
(***************************************************************************)
(* LifeParty for TLC.  Hands move on a line; the unit is 33 mm, so a speed *)
(* counts half metres per second.  No frame starts with blue more than     *)
(* LeakBound outside its range, the only thing that grows for ever.        *)
(***************************************************************************)
EXTENDS LifeParty

CONSTANT LeakBound

MCDist(p, q)  == IF p < q THEN q - p ELSE p - q
MCRises(p, q) == p > q

Bounded == pc = "wait" => colour.b \in -LeakBound .. CMax + LeakBound

MCSpec == Init /\ [][Next /\ Bounded]_vars /\ WF_vars(Frame)
==============================================================================
