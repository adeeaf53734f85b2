----------------------------- MODULE LightFlash ------------------------------
(***************************************************************************)
(* One light of the puredata server: the flash state machine of            *)
(* lightevents.py.  A tick advances the flash; an onset starts a new one,  *)
(* from whatever point the old one has reached, and may come between any   *)
(* two ticks because any light's tick handles the events of all.           *)
(*                                                                         *)
(* Intensities are floats in the code.  Here they count units of 1/Full,   *)
(* and a division is cut towards zero; NoBlur says that the unit is fine   *)
(* enough for that never to turn a positive increment into none.  The hue  *)
(* and the saturation do not act on the state machine and are left out.    *)
(***************************************************************************)
EXTENDS Integers

CONSTANTS Full,          \* intensity 1
          Near,          \* 1/255 of it, lines 20 and 45
          Intensities,   \* target intensities an onset can ask for
          Ticks,         \* durations it can ask for
          Floor,         \* intensities below -Floor or above Floor are not
                         \*   told apart
          MaxFlashes     \* bound on the onsets of a behaviour

Abs(x) == IF x < 0 THEN -x ELSE x

ASSUME FlashAssumption ==
  /\ Full \in Nat /\ Near \in Nat \ {0} /\ MaxFlashes \in Nat
  /\ Floor \in Nat /\ Full <= Floor
  /\ Intensities \subseteq 0 .. Full
  /\ Ticks \subseteq Int

ASSUME NoBlur ==
  \A t \in Ticks : Abs(t) <= Near /\ \A i \in Intensities \ {0} : Abs(t) <= i

VARIABLES state,
          current,       \* currentintensity
          target,        \* targetintensity
          increment,     \* intensityincrement
          downticks,
          flashes        \* onsets handled so far

flashVars == <<state, current, target, increment, downticks, flashes>>

Final == 0               \* finalintensity, 0.0 in lines 67 and 73

FlashInit == /\ state = "idle" /\ current = 0 /\ target = 0
             /\ increment = 0 /\ downticks = 10 /\ flashes = 0

\* x / t, cut towards zero.
Over(x, t) == IF (x < 0) = (t < 0) THEN Abs(x) \div Abs(t) ELSE -(Abs(x) \div Abs(t))

\* What the light can show.
Clip(x) == IF x < -Floor THEN -Floor ELSE IF x > Floor THEN Floor ELSE x

There(i) == Abs(current - i) < Near

OnsetFromDark(i, t) ==
  /\ state # "dead" /\ flashes < MaxFlashes
  /\ flashes' = flashes + 1
  /\ downticks' = t
  /\ current' = IF There(i) THEN i ELSE current
  /\ target'  = IF There(i) THEN Final ELSE i
  /\ IF t = 0 THEN state' = "dead" /\ increment' = increment
     ELSE /\ state' = IF There(i) THEN "downintensity" ELSE "upintensity"
          /\ increment' = IF There(i) THEN Over(Final - i, t) ELSE Over(i, t)
\* randflashinit and flashinit, lines 7-52: down from here if the target is
\* already reached, else up to it first.  A duration of zero ticks raises
\* ZeroDivisionError in the main thread, which nothing catches.
Onset(i, t) ==
  /\ state # "dead" /\ flashes < MaxFlashes
  /\ flashes' = flashes + 1
  /\ downticks' = t
  /\ current' = IF There(i) THEN i ELSE current
  /\ target'  = IF There(i) THEN Final ELSE i
  /\ IF t = 0 THEN state' = "dead" /\ increment' = increment
     ELSE /\ state' = IF There(i) THEN "downintensity" ELSE "upintensity"
          /\ increment' = Over(target' - current', t)

ArrivesExactly == Clip(current + increment) = target
\* flashtick, lines 81-94: arrived as soon as less than one increment is left.
Arrives == Abs(Clip(current + increment) - target) < Abs(increment)

TickUp ==
  /\ state = "upintensity"
  /\ IF Arrives
     THEN /\ state' = "downintensity"
          /\ current' = target /\ target' = Final
          /\ increment' = Over(Final - target, downticks)
     ELSE /\ current' = Clip(current + increment)
          /\ UNCHANGED <<state, target, increment>>
  /\ UNCHANGED <<downticks, flashes>>

TickDown ==
  /\ state = "downintensity"
  /\ IF Arrives THEN state' = "idle" /\ current' = target
                ELSE state' = state /\ current' = Clip(current + increment)
  /\ UNCHANGED <<target, increment, downticks, flashes>>

FlashTick == TickUp \/ TickDown

FlashNext == FlashTick \/ \E i \in Intensities, t \in Ticks : Onset(i, t)

FlashSpec == FlashInit /\ [][FlashNext]_flashVars

\* The main loop ticks every light for ever (LightServer!KeepsTicking).
FairFlash == FlashSpec /\ WF_flashVars(FlashTick)

-----------------------------------------------------------------------------
FlashOK == /\ state \in {"idle", "upintensity", "downintensity", "dead"}
           /\ current \in -Floor .. Floor
           /\ target \in 0 .. Full
           /\ increment \in Int
           /\ downticks \in Ticks \cup {10}
           /\ flashes \in 0 .. MaxFlashes

\* However onsets interrupt one flash with the next, the light is never
\* driven below dark or above full, so no channel leaves [0, 1].
IntensityInRange == current \in 0 .. Full

\* An increment always points from the current intensity to the target, so
\* that the test of lines 84 and 91 can come true.
HeadsForTarget ==
  state \in {"upintensity", "downintensity"}
    => (current < target => increment > 0) /\ (current > target => increment < 0)

\* A light at rest is dark.
IdleIsDark == state = "idle" => current = Final

\* "when there are many beats in a second, each flash will be faster"
\* (analyzer.pd): every flash ends once the beats pause.
FlashEnds == state # "idle" ~> state = "idle"
=============================================================================
