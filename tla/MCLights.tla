------------------------------ MODULE MCLights ------------------------------
(* Two lights are enough to be out of unison; a third adds only another    *)
(* copy of the second.                                                     *)
EXTENDS Lights
CONSTANTS node3, node4
TwoNodes == <<node3, node4>>
=============================================================================
