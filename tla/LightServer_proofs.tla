------------------------- MODULE LightServer_proofs -------------------------
(***************************************************************************)
(* Theorems about LightServer and about the flash it runs.                 *)
(*                                                                         *)
(* What a flash promises for every set of intensities and of durations     *)
(* that are at least one tick: FlashInv adds to its invariants what they   *)
(* need: where a flash is bound for in each state, that the duration it    *)
(* will divide by is one an onset asked for, and that a flash with an      *)
(* increment is not at its target, where line 84 would overshoot.          *)
(*                                                                         *)
(* What the two threads promise for any number of lights and any capacity  *)
(* of the queue: ServerInv adds to the invariants of LightServer that a    *)
(* light has handled nothing that was not put for it, and that what has    *)
(* been handled came before everything that still waits.                   *)
(*                                                                         *)
(* What the liveness of both rests on: the way a flash still has, which    *)
(* every tick shortens (Way), and that the next step of the main thread    *)
(* is always possible once its greetings are put (FlashesCounted,          *)
(* MainGoesOn).                                                            *)
(***************************************************************************)
EXTENDS LightServer, TLAPS

Moving == state \in {"upintensity", "downintensity"}

FlashInv ==
  /\ FlashOK /\ IntensityInRange /\ HeadsForTarget /\ IdleIsDark
  /\ state = "upintensity" => target \in Intensities
  /\ state = "downintensity" => target = Final
  /\ Moving => downticks \in Ticks
  /\ Moving /\ current = target => increment = 0

\* A distance of at least t is cut to a step in its direction.
LEMMA OverHeads ==
  ASSUME NEW x \in Int, NEW t \in Nat \ {0}, Abs(x) >= t \/ x = 0
  PROVE  /\ Over(x, t) \in Int
         /\ x > 0 => Over(x, t) > 0
         /\ x < 0 => Over(x, t) < 0
         /\ x = 0 => Over(x, t) = 0
<1>1. CASE x > 0
  BY <1>1 DEF Over, Abs
<1>2. CASE x < 0
  BY <1>2 DEF Over, Abs
<1>3. CASE x = 0
  BY <1>3 DEF Over, Abs
<1> QED
  BY <1>1, <1>2, <1>3

\* A tick that does not arrive stays between the two ends of its way.
LEMMA TickStaysBetween ==
  ASSUME FlashInv, Moving, ~Arrives
  PROVE  /\ Clip(current + increment) \in 0 .. Full
         /\ Clip(current + increment) < target => increment > 0
         /\ Clip(current + increment) > target => increment < 0
         /\ Clip(current + increment) = target => increment = 0
<1>1. /\ current \in 0 .. Full /\ target \in 0 .. Full /\ increment \in Int
      /\ Full \in Nat /\ Floor \in Nat /\ Full <= Floor
  BY FlashAssumption DEF FlashInv, FlashOK, IntensityInRange
<1>2. /\ current < target => increment > 0
      /\ current > target => increment < 0
      /\ current = target => increment = 0
  BY DEF FlashInv, HeadsForTarget, Moving
<1>3. ~(Abs(Clip(current + increment) - target) < Abs(increment))
  BY DEF Arrives
<1>4. CASE current < target
  BY <1>1, <1>2, <1>3, <1>4 DEF Clip, Abs
<1>5. CASE current > target
  BY <1>1, <1>2, <1>3, <1>5 DEF Clip, Abs
<1>6. CASE current = target
  BY <1>1, <1>2, <1>6 DEF Clip, Abs
<1> QED
  BY <1>1, <1>4, <1>5, <1>6

LEMMA InitFlashInv == FlashInit => FlashInv
BY FlashAssumption DEF FlashInit, FlashInv, FlashOK, IntensityInRange, HeadsForTarget,
   IdleIsDark, Final, Moving

LEMMA NextFlashInv ==
  ASSUME Ticks \subseteq Nat \ {0} PROVE FlashInv /\ [FlashNext]_flashVars => FlashInv'
<1> SUFFICES ASSUME FlashInv, [FlashNext]_flashVars PROVE FlashInv'
  OBVIOUS
<1> USE FlashAssumption DEF Final
<1>0. /\ current \in 0 .. Full /\ target \in 0 .. Full /\ increment \in Int
      /\ Full \in Nat /\ Floor \in Nat /\ Full <= Floor /\ MaxFlashes \in Nat
      /\ flashes \in 0 .. MaxFlashes
  BY DEF FlashInv, FlashOK, IntensityInRange
<1>1. ASSUME NEW i \in Intensities, NEW t \in Ticks, Onset(i, t) PROVE FlashInv'
  <2>1. /\ i \in 0 .. Full /\ t \in Nat \ {0} /\ t <= Near /\ (i # 0 => t <= i)
        /\ Near \in Nat
    BY NoBlur DEF Abs
  <2>2. CASE There(i)
    <3>1. Over(0 - i, t) \in Int /\ (0 - i < 0 => Over(0 - i, t) < 0)
          /\ (0 - i = 0 => Over(0 - i, t) = 0)
      <4>1. 0 - i \in Int /\ (Abs(0 - i) >= t \/ 0 - i = 0)
        BY <2>1 DEF Abs
      <4> QED BY <2>1, <4>1, OverHeads
    <3>2. /\ current' = i /\ target' = 0 /\ state' = "downintensity"
          /\ increment' = Over(0 - i, t) /\ downticks' = t /\ flashes' = flashes + 1
          /\ flashes < MaxFlashes
      BY <1>1, <2>1, <2>2 DEF Onset
    <3> QED
      BY <1>0, <2>1, <3>1, <3>2 DEF FlashInv, FlashOK, IntensityInRange,
         HeadsForTarget, IdleIsDark, Moving
  <2>3. CASE ~There(i)
    <3>1. /\ Over(i - current, t) \in Int
          /\ i - current > 0 => Over(i - current, t) > 0
          /\ i - current < 0 => Over(i - current, t) < 0
          /\ i # current
      <4>1. i - current \in Int /\ Abs(i - current) >= t /\ i # current
        BY <1>0, <2>1, <2>3 DEF Abs, There
      <4> QED BY <2>1, <4>1, OverHeads
    <3>2. /\ current' = current /\ target' = i /\ state' = "upintensity"
          /\ increment' = Over(i - current, t) /\ downticks' = t
          /\ flashes' = flashes + 1 /\ flashes < MaxFlashes
      BY <1>1, <2>1, <2>3 DEF Onset
    <3> QED
      BY <1>0, <2>1, <3>1, <3>2 DEF FlashInv, FlashOK, IntensityInRange,
         HeadsForTarget, IdleIsDark, Moving
  <2> QED BY <2>2, <2>3
<1>2. CASE TickUp /\ Arrives
  <2>1. /\ target \in Intensities /\ downticks \in Ticks
        /\ downticks \in Nat \ {0} /\ (target # 0 => downticks <= target)
    <3>1. target \in Intensities /\ downticks \in Ticks
      BY <1>2 DEF TickUp, FlashInv, Moving
    <3>2. downticks \in Nat \ {0} /\ Abs(downticks) = downticks
      BY <3>1 DEF Abs
    <3>3. target # 0 => Abs(downticks) <= target
      BY <3>1, NoBlur
    <3> QED BY <3>1, <3>2, <3>3
  <2>2. Over(0 - target, downticks) \in Int
        /\ (0 - target < 0 => Over(0 - target, downticks) < 0)
        /\ (0 - target = 0 => Over(0 - target, downticks) = 0)
    <3>1. 0 - target \in Int /\ (Abs(0 - target) >= downticks \/ 0 - target = 0)
      BY <1>0, <2>1 DEF Abs
    <3> QED BY <2>1, <3>1, OverHeads
  <2>3. /\ state' = "downintensity" /\ current' = target /\ target' = 0
        /\ increment' = Over(0 - target, downticks)
        /\ UNCHANGED <<downticks, flashes>>
    BY <1>2 DEF TickUp
  <2> QED
    BY <1>0, <2>1, <2>2, <2>3 DEF FlashInv, FlashOK, IntensityInRange,
       HeadsForTarget, IdleIsDark, Moving
<1>3. CASE FlashTick /\ ~Arrives
  <2>1. /\ Moving /\ current' = Clip(current + increment)
        /\ UNCHANGED <<state, target, increment, downticks, flashes>>
    BY <1>3 DEF FlashTick, TickUp, TickDown, Moving
  <2>2. /\ Clip(current + increment) \in 0 .. Full
        /\ Clip(current + increment) < target => increment > 0
        /\ Clip(current + increment) > target => increment < 0
        /\ Clip(current + increment) = target => increment = 0
    BY <1>3, <2>1, TickStaysBetween
  <2>3. Clip(current + increment) \in -Floor .. Floor
    BY <1>0, <2>2
  <2> QED
    BY <1>0, <2>1, <2>2, <2>3 DEF FlashInv, FlashOK, IntensityInRange,
       HeadsForTarget, IdleIsDark, Moving
<1>4. CASE TickDown /\ Arrives
  BY <1>0, <1>4 DEF TickDown, FlashInv, FlashOK, IntensityInRange,
     HeadsForTarget, IdleIsDark, Moving
<1>5. CASE UNCHANGED flashVars
  BY <1>5 DEF flashVars, FlashInv, FlashOK, IntensityInRange, HeadsForTarget,
     IdleIsDark, Moving
<1> QED
  BY <1>1, <1>2, <1>3, <1>4, <1>5 DEF FlashNext, FlashTick

\* However onsets interrupt one flash with the next (lightevents.py lines 32-55
\* and 81-94), the intensity stays between dark and full, its increment heads
\* for the target, and a light at rest is dark.
THEOREM FlashStaysInRange ==
  ASSUME Ticks \subseteq Nat \ {0}
  PROVE  FlashSpec => [](FlashOK /\ IntensityInRange /\ HeadsForTarget /\ IdleIsDark)
<1>1. FlashInit => FlashInv
  BY InitFlashInv
<1>2. FlashInv /\ [FlashNext]_flashVars => FlashInv'
  BY NextFlashInv
<1>3. FlashInv => FlashOK /\ IntensityInRange /\ HeadsForTarget /\ IdleIsDark
  BY DEF FlashInv
<1> QED
  BY <1>1, <1>2, <1>3, PTL DEF FlashSpec

\* How far a flash is from its end: the second half of the way counts less than
\* anything of the first.
Way == IF state = "upintensity" THEN Full + 1 + Abs(target - current)
       ELSE IF state = "downintensity" THEN Abs(target - current) ELSE 0

\* Every tick brings a flash nearer to its end, on the way up as on the way
\* down, and past the turn.
EveryTickCounts == [][FlashTick => Way \in 1 .. 2 * Full + 1 /\ Way' \in 0 .. Way - 1]_flashVars

\* With no onset of intensity 0 a flash under way is never where it is bound
\* for, so no increment is 0.
OnItsWay == Moving => current # target

LEMMA NextOnItsWay ==
  ASSUME Ticks \subseteq Nat \ {0}, 0 \notin Intensities,
         FlashInv, OnItsWay, [FlashNext]_flashVars
  PROVE  OnItsWay'
<1> USE FlashAssumption DEF Final
<1>1. ASSUME NEW i \in Intensities, NEW t \in Ticks, Onset(i, t) PROVE OnItsWay'
  <2>1. t # 0 /\ i # 0 /\ i \in Nat /\ current \in Nat /\ Near \in Nat \ {0}
    BY DEF FlashInv, IntensityInRange
  <2>2. CASE There(i)
    BY <1>1, <2>1, <2>2 DEF Onset, OnItsWay
  <2>3. CASE ~There(i)
    <3>1. current # i
      BY <2>1, <2>3 DEF There, Abs
    <3> QED BY <1>1, <2>1, <2>3, <3>1 DEF Onset, OnItsWay
  <2> QED BY <2>2, <2>3
<1>2. CASE TickUp /\ Arrives
  BY <1>2 DEF TickUp, FlashInv, OnItsWay
<1>3. CASE FlashTick /\ ~Arrives
  <2>1. /\ Moving /\ current' = Clip(current + increment) /\ UNCHANGED <<state, target>>
    BY <1>3 DEF FlashTick, TickUp, TickDown, Moving
  <2>2. increment # 0
    BY <2>1 DEF OnItsWay, FlashInv, HeadsForTarget, FlashOK, IntensityInRange, Moving
  <2> QED BY <1>3, <2>1, <2>2, TickStaysBetween DEF OnItsWay
<1>4. CASE TickDown /\ Arrives
  BY <1>4 DEF TickDown, OnItsWay, Moving
<1>5. CASE UNCHANGED flashVars
  BY <1>5 DEF flashVars, OnItsWay, Moving
<1> QED
  BY <1>1, <1>2, <1>3, <1>4, <1>5 DEF FlashNext, FlashTick

LEMMA TickCounts ==
  ASSUME FlashInv, OnItsWay, FlashTick
  PROVE  Way \in 1 .. 2 * Full + 1 /\ Way' \in 0 .. Way - 1
<1>0. /\ current \in 0 .. Full /\ target \in 0 .. Full /\ increment \in Int
      /\ Full \in Nat /\ Floor \in Nat /\ Full <= Floor
  BY FlashAssumption DEF FlashInv, FlashOK, IntensityInRange
<1>1. /\ current # target /\ Moving
      /\ current < target => increment > 0
      /\ current > target => increment < 0
  BY DEF FlashTick, TickUp, TickDown, Moving, OnItsWay, FlashInv, HeadsForTarget
<1>2. Way \in 1 .. 2 * Full + 1
  BY <1>0, <1>1 DEF Way, Abs, Moving
<1>3. CASE Arrives
  <2>1. CASE TickUp
    BY <1>0, <1>1, <1>3, <2>1 DEF TickUp, Way, Abs, Final
  <2>2. CASE TickDown
    BY <1>2, <1>3, <2>2 DEF TickDown, Way
  <2> QED BY <1>2, <2>1, <2>2 DEF FlashTick
<1>4. CASE ~Arrives
  <2>1. /\ current' = Clip(current + increment) /\ UNCHANGED <<state, target>>
    BY <1>4 DEF FlashTick, TickUp, TickDown
  <2> PICK x : x = Clip(current + increment)
    OBVIOUS
  <2>2. /\ x \in 0 .. Full
        /\ x < target => increment > 0
        /\ x > target => increment < 0
    BY <1>1, <1>4, TickStaysBetween
  <2>3. x \in 0 .. Full /\ Abs(target - x) < Abs(target - current)
    <3>1. current < target => current < x
      BY <1>0, <1>1, <2>2 DEF Clip
    <3>2. current > target => current > x
      BY <1>0, <1>1, <2>2 DEF Clip
    <3> QED BY <1>0, <1>1, <2>2, <3>1, <3>2 DEF Abs
  <2>4. Abs(target - x) \in Nat /\ Abs(target - current) \in Nat
    BY <1>0, <2>2 DEF Abs
  <2>5. Way' = IF state = "upintensity" THEN Full + 1 + Abs(target - x)
               ELSE IF state = "downintensity" THEN Abs(target - x) ELSE 0
    BY <2>1 DEF Way
  <2> PICK p \in Nat, q \in Nat : p = Abs(target - x) /\ q = Abs(target - current) /\ p < q
    BY <2>3, <2>4
  <2>6. CASE state = "upintensity"
    BY <1>0, <1>2, <2>5, <2>6 DEF Way
  <2>7. CASE state = "downintensity"
    BY <1>0, <1>2, <2>5, <2>7 DEF Way
  <2> QED BY <1>1, <1>2, <2>6, <2>7 DEF Moving
<1> QED
  BY <1>2, <1>3, <1>4

\* What FlashEnds rests on, for all intensities but 0 and all durations of at
\* least one tick: a flash that no onset interrupts is over after at most
\* 2 * Full + 1 ticks (flashtick, lightevents.py lines 81-94).
THEOREM FlashComesToItsEnd ==
  ASSUME Ticks \subseteq Nat \ {0}, 0 \notin Intensities
  PROVE  FlashSpec => EveryTickCounts
<1>1. FlashInit => FlashInv /\ OnItsWay
  BY InitFlashInv DEF FlashInit, OnItsWay, Moving
<1>2. FlashInv /\ OnItsWay /\ [FlashNext]_flashVars => (FlashInv /\ OnItsWay)'
  BY NextFlashInv, NextOnItsWay
<1>3. FlashInv /\ OnItsWay /\ [FlashNext]_flashVars =>
        [FlashTick => Way \in 1 .. 2 * Full + 1 /\ Way' \in 0 .. Way - 1]_flashVars
  BY TickCounts
<1> QED
  BY <1>1, <1>2, <1>3, PTL DEF FlashSpec, EveryTickCounts

-----------------------------------------------------------------------------
HandledFirst ==
  \A m \in Lights :
    /\ handled[m] <= PutFor(m)
    /\ \A i \in 1 .. Len(queue) : queue[i].onset > 0 =>
         \/ handled[m] < queue[i].onset
         \/ handled[m] = queue[i].onset /\ m < queue[i].light

ServerInv ==
  /\ ThreadsOK /\ GetNeverBlocks /\ NothingLost /\ HandledFirst
  /\ server = "put" => onset > 0
  /\ main = "boot" => server = "off"

\* What the invariant needs to know of an event in the queue.
LEMMA EventParts ==
  ASSUME NEW e \in Events
  PROVE  /\ e.light \in Nat /\ e.light \in Lights
         /\ e.onset \in Nat /\ e.onset <= MaxOnsets
         /\ e.message \in Messages
BY ServerAssumption DEF Events, Lights

LEMMA PutKeepsQueue ==
  ASSUME NEW e \in Events, queue \in Seq(Events), Len(queue) <= Cap, Put(e)
  PROVE  /\ queue' \in Seq(Events) /\ Len(queue') <= Cap /\ queue' # <<>>
         /\ Len(queue') = Len(queue) + 1
         /\ \A i \in 1 .. Len(queue) : queue'[i] = queue[i]
         /\ queue'[Len(queue')] = e
BY ServerAssumption DEF Put

LEMMA TailKeepsQueue ==
  ASSUME queue \in Seq(Events), queue # <<>>, queue' = Tail(queue)
  PROVE  /\ queue' \in Seq(Events) /\ Len(queue') = Len(queue) - 1
         /\ Len(queue) > 0
         /\ \A i \in 1 .. Len(queue') : queue'[i] = queue[i + 1]
OBVIOUS

\* Steps that leave the queue and what has been handled alone.
LEMMA QuietStep ==
  ASSUME ServerInv, UNCHANGED <<queue, handled>>,
         \A l \in Lights : PutFor(l)' = PutFor(l)
  PROVE  NothingLost' /\ HandledFirst'
BY DEF ServerInv, NothingLost, HandledFirst, Waiting, Before

\* A greeting waits for no one: it is no onset.
LEMMA GreetingStep ==
  ASSUME ServerInv, Put(Event(light, 0, Message(Full, Greeting))), UNCHANGED handled,
         \A l \in Lights : PutFor(l)' = PutFor(l)
  PROVE  NothingLost' /\ HandledFirst'
PROOF
<1> DEFINE e == Event(light, 0, Message(Full, Greeting))
<1>1. e \in Events
  BY ServerAssumption DEF ServerInv, ThreadsOK, Event, Events, Messages, Message
<1>2. /\ queue \in Seq(Events) /\ queue' \in Seq(Events)
      /\ Len(queue') = Len(queue) + 1
      /\ \A i \in 1 .. Len(queue) : queue'[i] = queue[i]
      /\ queue'[Len(queue')].onset = 0
  BY <1>1, PutKeepsQueue DEF ServerInv, ThreadsOK, Event
<1>3. ASSUME NEW i \in 1 .. Len(queue'), queue'[i].onset > 0
      PROVE  i \in 1 .. Len(queue) /\ queue'[i] = queue[i]
  BY <1>2, <1>3
<1>4. \A l \in Lights : Waiting(l)' = Waiting(l)
  BY <1>2, <1>3 DEF Waiting
<1>5. HandledFirst'
  BY <1>3 DEF ServerInv, HandledFirst
<1>6. NothingLost'
  <2>1. \A l \in Lights : Waiting(l)' = handled[l]' + 1 .. PutFor(l)'
    BY <1>4 DEF ServerInv, NothingLost
  <2>2. ASSUME NEW i \in DOMAIN queue', NEW j \in DOMAIN queue', i < j,
               queue'[i].onset > 0, queue'[j].onset > 0
        PROVE  Before(queue'[i], queue'[j])
    BY <1>2, <1>3, <2>2 DEF ServerInv, NothingLost
  <2> QED BY <2>1, <2>2 DEF NothingLost, Before
<1> QED BY <1>5, <1>6

\* An event of the current onset comes after everything handled or waiting.
LEMMA PutStep ==
  ASSUME ServerInv, PutEvent
  PROVE  NothingLost' /\ HandledFirst'
<1> DEFINE e == Event(next, onset, message)
<1> USE ServerAssumption
<1>0. /\ server = "put" /\ onset \in 1 .. MaxOnsets /\ next \in Lights
      /\ Lights \subseteq Nat /\ handled \in [Lights -> 0 .. MaxOnsets]
      /\ UNCHANGED <<handled, onset>>
  BY DEF PutEvent, ServerInv, ThreadsOK, Lights
<1>1. e \in Events
  BY <1>0 DEF ServerInv, ThreadsOK, Event, Events
<1>2. /\ queue \in Seq(Events) /\ queue' \in Seq(Events)
      /\ Len(queue') = Len(queue) + 1
      /\ \A i \in 1 .. Len(queue) : queue'[i] = queue[i]
      /\ queue'[Len(queue')].onset = onset /\ queue'[Len(queue')].light = next
  BY <1>1, PutKeepsQueue DEF PutEvent, ServerInv, ThreadsOK, Event
<1>3. ASSUME NEW l \in Lights
      PROVE  /\ PutFor(l) = IF l >= next THEN onset - 1 ELSE onset
             /\ PutFor(l)' = IF l > next THEN onset - 1 ELSE onset
  BY <1>0 DEF PutEvent, PutFor, Lights
<1>4. ASSUME NEW i \in 1 .. Len(queue), queue[i].onset > 0
      PROVE  \/ queue[i].onset < onset
             \/ queue[i].onset = onset /\ queue[i].light < next
  <2>1. queue[i] \in Events
    BY <1>2
  <2>2. /\ queue[i].light \in Nat /\ queue[i].light \in Lights
        /\ queue[i].onset \in 1 .. MaxOnsets
    BY <1>4, <2>1, EventParts
  <2>3. queue[i].onset \in Waiting(queue[i].light)
    BY <1>2, <2>2 DEF Waiting
  <2>4. queue[i].onset <= PutFor(queue[i].light)
    <3>1. \A l \in Lights : Waiting(l) = handled[l] + 1 .. PutFor(l)
      BY DEF ServerInv, NothingLost
    <3>2. queue[i].onset \in handled[queue[i].light] + 1 .. PutFor(queue[i].light)
      BY <2>2, <2>3, <3>1
    <3> QED BY <3>2
  <2> QED BY <1>0, <1>3, <2>2, <2>4
<1>5. HandledFirst'
  <2>1. ASSUME NEW m \in Lights PROVE handled[m] <= PutFor(m) /\ PutFor(m) <= PutFor(m)'
    BY <1>0, <1>3 DEF ServerInv, HandledFirst
  <2>2. ASSUME NEW m \in Lights
        PROVE  handled[m] < onset \/ (handled[m] = onset /\ m < next)
    BY <1>0, <1>3, <2>1
  <2>3. ASSUME NEW m \in Lights, NEW i \in 1 .. Len(queue'), queue'[i].onset > 0
        PROVE  \/ handled[m] < queue'[i].onset
               \/ handled[m] = queue'[i].onset /\ m < queue'[i].light
    <3>1. CASE i \in 1 .. Len(queue)
      BY <1>2, <2>3, <3>1 DEF ServerInv, HandledFirst
    <3>2. CASE i = Len(queue')
      BY <1>2, <2>2, <3>2
    <3> QED BY <1>2, <3>1, <3>2
  <2>4. \A m \in Lights : handled[m] <= PutFor(m)'
    BY <1>0, <1>3, <2>1
  <2> QED BY <1>0, <2>3, <2>4 DEF HandledFirst
<1>6. ASSUME NEW l \in Lights
      PROVE  Waiting(l)' = handled[l]' + 1 .. PutFor(l)'
  <2>1. Waiting(l) = handled[l] + 1 .. PutFor(l)
    BY DEF ServerInv, NothingLost
  <2>2. ASSUME NEW k \in 1 .. MaxOnsets
        PROVE  k \in Waiting(l)' <=> k \in Waiting(l) \/ (l = next /\ k = onset)
    <3>1. \A i : i \in DOMAIN queue' <=> i \in DOMAIN queue \/ i = Len(queue')
      BY <1>2
    <3>2. \A i \in DOMAIN queue : queue'[i] = queue[i]
      BY <1>2
    <3> QED BY <1>2, <3>1, <3>2 DEF Waiting
  <2>3. Waiting(l)' = IF l = next THEN Waiting(l) \cup {onset} ELSE Waiting(l)
    BY <1>0, <2>2 DEF Waiting
  <2>4. handled[l] <= PutFor(l) /\ handled[l] \in Nat /\ handled[l]' = handled[l]
    BY <1>0 DEF ServerInv, HandledFirst
  <2>5. CASE l = next
    <3>1. PutFor(l) = onset - 1 /\ PutFor(l)' = onset
      BY <1>0, <1>3, <2>5
    <3> QED BY <1>0, <2>1, <2>3, <2>4, <2>5, <3>1
  <2>6. CASE l # next
    <3>1. PutFor(l)' = PutFor(l)
      BY <1>0, <1>3, <2>6
    <3> QED BY <2>1, <2>3, <2>4, <2>6, <3>1
  <2> QED BY <2>5, <2>6
<1>7. ASSUME NEW i \in DOMAIN queue', NEW j \in DOMAIN queue', i < j,
             queue'[i].onset > 0, queue'[j].onset > 0
      PROVE  Before(queue'[i], queue'[j])
  <2>1. i \in 1 .. Len(queue) /\ queue'[i] = queue[i]
    BY <1>2, <1>7
  <2>2. CASE j \in 1 .. Len(queue)
    BY <1>2, <1>7, <2>1, <2>2 DEF ServerInv, NothingLost
  <2>3. CASE j = Len(queue')
    BY <1>2, <1>4, <1>7, <2>1, <2>3 DEF Before
  <2> QED BY <1>2, <2>2, <2>3
<1> QED BY <1>5, <1>6, <1>7 DEF NothingLost, Before

\* The event taken is the next onset for its light.
LEMMA GetStep ==
  ASSUME ServerInv, Get
  PROVE  /\ NothingLost' /\ HandledFirst'
         /\ handled' \in [Lights -> 0 .. MaxOnsets]
<1> DEFINE l == Head(queue).light
           k == Head(queue).onset
<1> USE ServerAssumption
<1>0. /\ queue \in Seq(Events) /\ queue # <<>> /\ Len(queue) > 0
      /\ queue' \in Seq(Events) /\ Len(queue') = Len(queue) - 1
      /\ \A i \in 1 .. Len(queue') : queue'[i] = queue[i + 1]
      /\ Head(queue) = queue[1] /\ 1 \in DOMAIN queue
  BY TailKeepsQueue DEF Get, ServerInv, ThreadsOK
<1>1. /\ l \in Lights /\ Lights \subseteq Nat /\ k \in Nat /\ k <= MaxOnsets
      /\ handled \in [Lights -> 0 .. MaxOnsets]
      /\ handled' = [handled EXCEPT ![l] = IF k = 0 THEN @ ELSE k]
  <2>1. Head(queue) \in Events
    BY <1>0
  <2> QED BY <2>1, EventParts DEF Get, Handle, ServerInv, ThreadsOK, Lights
<1>2. ASSUME NEW m \in Lights
      PROVE  /\ PutFor(m)' = PutFor(m) /\ PutFor(m) \in Int /\ PutFor(m) <= MaxOnsets
             /\ handled[m] \in Nat /\ handled[m] <= PutFor(m)
             /\ handled[m]' = IF m = l /\ k > 0 THEN k ELSE handled[m]
  <2>1. PutFor(m)' = PutFor(m)
    BY DEF Get, PutFor
  <2>2. /\ onset \in 0 .. MaxOnsets /\ next \in Nat /\ m \in Nat
        /\ server = "put" => onset > 0
    BY <1>1 DEF ServerInv, ThreadsOK
  <2>3. PutFor(m) \in Int /\ PutFor(m) <= MaxOnsets
    BY <2>2 DEF PutFor
  <2>4. handled[m] \in Nat /\ handled[m] <= PutFor(m)
    BY <1>1 DEF ServerInv, HandledFirst
  <2>5. handled[m]' = IF m = l /\ k > 0 THEN k ELSE handled[m]
    BY <1>1
  <2> QED BY <2>1, <2>3, <2>4, <2>5
<1>3. ASSUME NEW j \in 1 .. Len(queue')
      PROVE  /\ j + 1 \in DOMAIN queue /\ queue'[j] = queue[j + 1]
             /\ queue'[j].onset \in Nat /\ queue'[j].light \in Nat
             /\ k > 0 /\ queue'[j].onset > 0 =>
                  \/ k < queue'[j].onset
                  \/ k = queue'[j].onset /\ l < queue'[j].light
  <2>1. j + 1 \in DOMAIN queue /\ 1 < j + 1 /\ queue'[j] = queue[j + 1]
    BY <1>0
  <2>2. queue'[j] \in Events
    BY <1>0
  <2>3. k > 0 /\ queue'[j].onset > 0 => Before(queue[1], queue'[j])
    BY <1>0, <2>1 DEF ServerInv, NothingLost
  <2> QED BY <1>0, <2>1, <2>2, <2>3, EventParts DEF Before
<1>4. ASSUME NEW m \in Lights, NEW n \in 1 .. MaxOnsets
      PROVE  n \in Waiting(m)' <=> n \in Waiting(m) /\ ~(m = l /\ n = k)
  <2>1. ASSUME n \in Waiting(m)' PROVE n \in Waiting(m) /\ ~(m = l /\ n = k)
    <3>1. PICK j \in DOMAIN queue' : queue'[j].light = m /\ queue'[j].onset = n
      BY <2>1 DEF Waiting
    <3>2. j \in 1 .. Len(queue')
      BY <1>0
    <3>3. n \in Waiting(m)
      BY <1>3, <3>1, <3>2 DEF Waiting
    <3>4. ASSUME m = l, n = k PROVE FALSE
      <4>1. k > 0 /\ queue'[j].onset > 0 /\ queue'[j].onset = k /\ queue'[j].light = l
        BY <3>1, <3>4
      <4> QED BY <1>1, <1>3, <3>2, <4>1
    <3> QED BY <3>3, <3>4
  <2>2. ASSUME n \in Waiting(m), ~(m = l /\ n = k) PROVE n \in Waiting(m)'
    <3>1. PICK j \in DOMAIN queue : queue[j].light = m /\ queue[j].onset = n
      BY <2>2 DEF Waiting
    <3>2. j # 1 /\ j \in 1 .. Len(queue)
      BY <1>0, <2>2, <3>1
    <3>3. j - 1 \in DOMAIN queue' /\ queue'[j - 1] = queue[j]
      BY <1>0, <3>2
    <3> QED BY <3>1, <3>3 DEF Waiting
  <2> QED BY <2>1, <2>2
<1>5. ASSUME k > 0 PROVE k = handled[l] + 1 /\ k <= PutFor(l)
  <2>1. Waiting(l) = handled[l] + 1 .. PutFor(l)
    BY <1>1 DEF ServerInv, NothingLost
  <2>2. k \in Waiting(l)
    BY <1>0, <1>1, <1>5 DEF Waiting
  <2>3. handled[l] \in Nat /\ PutFor(l) \in Int /\ PutFor(l) <= MaxOnsets
    BY <1>1, <1>2
  <2>4. ASSUME NEW n \in Waiting(l) PROVE k <= n
    <3>1. PICK j \in DOMAIN queue : queue[j].light = l /\ queue[j].onset = n
      BY <2>4 DEF Waiting
    <3>2. n \in Nat /\ n > 0
      BY <2>4 DEF Waiting
    <3>3. CASE j = 1
      BY <1>0, <1>1, <3>1, <3>3
    <3>4. CASE j # 1
      <4>1. j - 1 \in 1 .. Len(queue') /\ queue'[j - 1] = queue[j]
        BY <1>0, <3>4
      <4> QED BY <1>1, <1>3, <1>5, <3>1, <3>2, <4>1
    <3> QED BY <3>3, <3>4
  <2>5. handled[l] + 1 \in Waiting(l)
    BY <2>1, <2>2, <2>3
  <2> QED BY <1>1, <2>1, <2>2, <2>3, <2>4, <2>5
<1>6. ASSUME NEW m \in Lights
      PROVE  Waiting(m)' = handled[m]' + 1 .. PutFor(m)'
  <2>1. /\ Waiting(m) = handled[m] + 1 .. PutFor(m)
        /\ Waiting(m) \subseteq 1 .. MaxOnsets /\ Waiting(m)' \subseteq 1 .. MaxOnsets
    BY DEF ServerInv, NothingLost, Waiting
  <2>2. handled[m] \in Nat /\ PutFor(m) \in Int /\ PutFor(m)' = PutFor(m)
    BY <1>2
  <2>3. CASE m = l /\ k > 0
    <3>1. handled[m]' = k /\ k = handled[m] + 1
      BY <1>5, <1>2, <2>3
    <3>2. ASSUME NEW n PROVE n \in Waiting(m)' <=> n \in Waiting(m) /\ n # k
      BY <1>4, <2>1, <2>3
    <3>3. ASSUME NEW n
          PROVE  n \in handled[m] + 1 .. PutFor(m) /\ n # k <=> n \in k + 1 .. PutFor(m)
      BY <1>1, <2>2, <3>1
    <3>4. Waiting(m)' = k + 1 .. PutFor(m)
      BY <2>1, <3>2, <3>3
    <3> QED BY <2>2, <3>1, <3>4
  <2>4. CASE m # l \/ k = 0
    <3>1. handled[m]' = handled[m]
      BY <1>1, <1>2, <2>4
    <3>2. ASSUME NEW n PROVE n \in Waiting(m)' <=> n \in Waiting(m)
      <4>1. ASSUME n \in 1 .. MaxOnsets PROVE n \in Waiting(m)' <=> n \in Waiting(m)
        <5>1. ~(m = l /\ n = k)
          BY <1>1, <2>4, <4>1
        <5> QED BY <1>4, <4>1, <5>1
      <4> QED BY <2>1, <4>1
    <3>3. Waiting(m)' = Waiting(m)
      BY <3>2
    <3> QED BY <2>1, <2>2, <3>1, <3>3
  <2> QED BY <1>1, <2>3, <2>4
<1>7. ASSUME NEW i \in DOMAIN queue', NEW j \in DOMAIN queue', i < j,
             queue'[i].onset > 0, queue'[j].onset > 0
      PROVE  Before(queue'[i], queue'[j])
  <2>1. i \in 1 .. Len(queue') /\ j \in 1 .. Len(queue')
    BY <1>0
  <2>2. i + 1 < j + 1
    BY <1>7, <2>1
  <2> QED BY <1>3, <1>7, <2>1, <2>2 DEF ServerInv, NothingLost
<1>8. HandledFirst'
  <2>1. ASSUME NEW m \in Lights PROVE handled[m]' <= PutFor(m)'
    BY <1>5, <1>2
  <2>2. ASSUME NEW m \in Lights, NEW i \in 1 .. Len(queue'), queue'[i].onset > 0
        PROVE  \/ handled[m]' < queue'[i].onset
               \/ handled[m]' = queue'[i].onset /\ m < queue'[i].light
    <3>1. CASE m = l /\ k > 0
      BY <1>1, <1>3, <1>2, <2>2, <3>1
    <3>2. CASE m # l \/ k = 0
      <4>1. handled[m]' = handled[m] /\ i + 1 \in 1 .. Len(queue)
        BY <1>0, <1>1, <1>2, <3>2
      <4> QED BY <1>3, <2>2, <4>1 DEF ServerInv, HandledFirst
    <3> QED BY <1>1, <3>1, <3>2
  <2> QED BY <2>1, <2>2 DEF HandledFirst
<1>9. handled' \in [Lights -> 0 .. MaxOnsets]
  <2>1. ASSUME NEW f \in [Lights -> 0 .. MaxOnsets], NEW a \in Lights, NEW x \in 0 .. MaxOnsets
        PROVE  [f EXCEPT ![a] = IF x = 0 THEN @ ELSE x] \in [Lights -> 0 .. MaxOnsets]
    OBVIOUS
  <2> HIDE DEF l, k
  <2>2. k \in 0 .. MaxOnsets /\ l \in Lights /\ handled \in [Lights -> 0 .. MaxOnsets]
    BY <1>1
  <2> QED BY <1>1, <2>1, <2>2
<1> QED BY <1>6, <1>7, <1>8, <1>9 DEF NothingLost, Before

LEMMA NextServerInv == ServerInv /\ [Next]_vars => ServerInv'
<1> SUFFICES ASSUME ServerInv, [Next]_vars PROVE ServerInv'
  OBVIOUS
<1> USE ServerAssumption
<1>0. /\ ThreadsOK /\ GetNeverBlocks /\ (server = "put" => onset > 0) /\ (main = "boot" => server = "off")
      /\ Lights \subseteq Nat
  BY DEF ServerInv, Lights
<1>1. CASE StartServer
  <2>1. \A l \in Lights : PutFor(l)' = PutFor(l)
    BY <1>0, <1>1 DEF StartServer, PutFor
  <2> QED BY <1>0, <1>1, <2>1, QuietStep DEF StartServer, ThreadsOK, GetNeverBlocks, ServerInv
<1>2. CASE Greet
  <2>1. Event(light, 0, Message(Full, Greeting)) \in Events
    BY <1>0 DEF ThreadsOK, Event, Events, Messages, Message
  <2>2. queue' \in Seq(Events) /\ Len(queue') <= Cap /\ queue' # <<>>
    BY <1>0, <1>2, <2>1, PutKeepsQueue DEF Greet, ThreadsOK
  <2>3. main' \in {"greet", "tick"} /\ light' \in Lights
    BY <1>0, <1>2 DEF Greet, ThreadsOK, Lights
  <2>4. \A l \in Lights : PutFor(l)' = PutFor(l)
    BY <1>2 DEF Greet, PutFor
  <2>5. UNCHANGED <<server, next, onset, message, handled>>
    BY <1>2 DEF Greet
  <2>6. NothingLost' /\ HandledFirst'
    BY <1>2, <2>4, GreetingStep DEF Greet
  <2> QED BY <1>0, <2>2, <2>3, <2>5, <2>6 DEF ThreadsOK, GetNeverBlocks, ServerInv
<1>3. CASE Tick
  <2>1. UNCHANGED <<light, server, next, onset, message, queue, handled>> /\ main' = "check"
    BY <1>3 DEF Tick
  <2>2. \A l \in Lights : PutFor(l)' = PutFor(l)
    BY <2>1 DEF PutFor
  <2> QED BY <1>0, <2>1, <2>2, QuietStep DEF ThreadsOK, GetNeverBlocks, ServerInv
<1>4. CASE CheckEmpty
  <2>1. \A l \in Lights : PutFor(l)' = PutFor(l)
    BY <1>4 DEF CheckEmpty, PutFor
  <2>2. UNCHANGED <<server, next, onset, message, queue, handled>>
    BY <1>4 DEF CheckEmpty
  <2>3. /\ main' \in {"get", "tick", "sleep"} /\ light' \in Lights
        /\ main' = "get" => queue # <<>>
    BY <1>0, <1>4 DEF CheckEmpty, ThreadsOK, Lights
  <2> QED BY <1>0, <2>1, <2>2, <2>3, QuietStep DEF ThreadsOK, GetNeverBlocks, ServerInv
<1>5. CASE Get
  <2>1. NothingLost' /\ HandledFirst' /\ handled' \in [Lights -> 0 .. MaxOnsets]
    BY <1>5, GetStep
  <2>2. queue' \in Seq(Events) /\ Len(queue') <= Cap
    <3>1. queue \in Seq(Events) /\ queue # <<>> /\ queue' = Tail(queue)
      BY <1>0, <1>5 DEF Get, ThreadsOK
    <3> QED BY <1>0, <3>1, TailKeepsQueue DEF ThreadsOK
  <2>3. main' \in {"dead", "check"} /\ UNCHANGED <<light, server, next, onset, message>>
    BY <1>5 DEF Get
  <2> QED BY <1>0, <2>1, <2>2, <2>3 DEF ThreadsOK, GetNeverBlocks, ServerInv
<1>6. CASE WakeUp
  <2>1. \A l \in Lights : PutFor(l)' = PutFor(l)
    BY <1>6 DEF WakeUp, PutFor
  <2> QED BY <1>0, <1>6, <2>1, QuietStep DEF WakeUp, ThreadsOK, GetNeverBlocks, ServerInv
<1>7. CASE Receive
  <2>1. \A l \in Lights : PutFor(l)' = PutFor(l)
    BY <1>0, <1>7 DEF Receive, PutFor, ThreadsOK, Lights
  <2>2. message' \in Messages
    BY <1>7 DEF Receive, Message, Messages
  <2>3. onset' \in 0 .. MaxOnsets /\ onset' > 0 /\ next' \in Lights /\ server' = "put"
    BY <1>0, <1>7 DEF Receive, ThreadsOK, Lights
  <2>4. UNCHANGED <<main, light, queue, handled>> /\ main # "boot"
    BY <1>0, <1>7 DEF Receive
  <2> QED BY <1>0, <2>1, <2>2, <2>3, <2>4, QuietStep DEF ThreadsOK, GetNeverBlocks, ServerInv
<1>8. CASE PutEvent
  <2>1. Event(next, onset, message) \in Events
    BY <1>0 DEF ThreadsOK, Event, Events
  <2>2. queue' \in Seq(Events) /\ Len(queue') <= Cap /\ queue' # <<>>
    BY <1>0, <1>8, <2>1, PutKeepsQueue DEF PutEvent, ThreadsOK
  <2>3. server' \in {"idle", "put"} /\ next' \in Lights
    BY <1>0, <1>8 DEF PutEvent, ThreadsOK, Lights
  <2>4. UNCHANGED <<main, light, onset, message, handled>> /\ server = "put"
    BY <1>8 DEF PutEvent
  <2>5. NothingLost' /\ HandledFirst'
    BY <1>8, PutStep
  <2> QED BY <1>0, <2>2, <2>3, <2>4, <2>5 DEF ThreadsOK, GetNeverBlocks, ServerInv
<1>9. CASE UNCHANGED vars
  <2>1. \A l \in Lights : PutFor(l)' = PutFor(l)
    BY <1>9 DEF vars, PutFor
  <2> QED BY <1>0, <1>9, <2>1, QuietStep DEF vars, ThreadsOK, GetNeverBlocks, ServerInv
<1> QED
  BY <1>1, <1>2, <1>3, <1>4, <1>5, <1>6, <1>7, <1>8, <1>9 DEF Next, Main

LEMMA InitServerInv == Init => ServerInv
<1> SUFFICES ASSUME Init PROVE ServerInv
  OBVIOUS
<1> USE ServerAssumption
<1>1. ThreadsOK /\ GetNeverBlocks
  BY DEF Init, ThreadsOK, GetNeverBlocks, Message, Messages, Lights
<1>2. queue = <<>> /\ (\A l \in Lights : handled[l] = 0 /\ PutFor(l) = 0) /\ server = "off"
  BY DEF Init, PutFor
<1>3. NothingLost /\ HandledFirst
  BY <1>2 DEF NothingLost, HandledFirst, Waiting
<1> QED BY <1>1, <1>2, <1>3 DEF ServerInv

LEMMA ServerInvariant == Spec => []ServerInv
BY InitServerInv, NextServerInv, PTL DEF Spec

\* empty() and get() (lightevents.py lines 126-127) are two calls, and the
\* server thread runs between them: still get() finds an event, because the
\* main thread alone takes from the queue, and the queue keeps its capacity.
THEOREM GetFindsAnEvent == Spec => []GetNeverBlocks
<1>1. ServerInv => GetNeverBlocks
  BY DEF ServerInv
<1> QED BY <1>1, ServerInvariant, PTL

\* Whatever the capacity and the number of lights, and whichever light drains
\* the queue (lightevents.py line 112 makes it one for all): every onset that
\* the callback put for a light waits for it or was handled, in order.
THEOREM NoOnsetIsLost == Spec => []NothingLost
<1>1. ServerInv => NothingLost
  BY DEF ServerInv
<1> QED BY <1>1, ServerInvariant, PTL

\* The loop of puts (lightserver.py lines 15-17) may be overtaken by a drain in
\* its middle: no two lights are ever more than one onset apart, and never the
\* later one ahead.
THEOREM LightsStayInStep == Spec => []InStep
<1>1. ServerInv => InStep
  <2> SUFFICES ASSUME ServerInv, NEW l \in Lights, NEW m \in Lights, l < m
               PROVE  handled[l] - handled[m] \in {0, 1}
    BY DEF InStep
  <2> USE ServerAssumption
  <2>1. /\ handled[l] \in Nat /\ handled[m] \in Nat /\ l \in Nat /\ m \in Nat
        /\ PutFor(l) \in Int /\ PutFor(m) \in Int
    BY DEF ServerInv, ThreadsOK, PutFor, Lights
  <2>5. PutFor(m) <= PutFor(l) /\ PutFor(l) <= PutFor(m) + 1
    BY DEF ServerInv, ThreadsOK, PutFor, Lights
  <2>6. handled[l] <= PutFor(l) /\ handled[m] <= PutFor(m)
    BY DEF ServerInv, HandledFirst
  <2>2. ASSUME NEW a \in Lights, NEW b \in Lights, handled[a] < PutFor(a)
        PROVE  \/ handled[b] < handled[a] + 1
               \/ handled[b] = handled[a] + 1 /\ b < a
    <3>1. handled[a] + 1 \in Waiting(a)
      <4>1. Waiting(a) = handled[a] + 1 .. PutFor(a)
        BY DEF ServerInv, NothingLost
      <4>2. handled[a] \in Nat /\ PutFor(a) \in Int
        BY DEF ServerInv, ThreadsOK, PutFor
      <4> QED BY <2>2, <4>1, <4>2
    <3>2. PICK i \in DOMAIN queue : queue[i].light = a /\ queue[i].onset = handled[a] + 1
      BY <3>1 DEF Waiting
    <3>3. i \in 1 .. Len(queue) /\ queue[i].onset > 0
      BY <3>2 DEF ServerInv, ThreadsOK
    <3> QED BY <3>2, <3>3 DEF ServerInv, HandledFirst
  <2>3. handled[m] <= handled[l]
    BY <2>1, <2>2, <2>5, <2>6
  <2>4. handled[l] <= handled[m] + 1
    BY <2>1, <2>2, <2>5, <2>6
  <2> QED BY <2>1, <2>3, <2>4
<1> QED BY <1>1, ServerInvariant, PTL

\* To the watched light the two threads do nothing but what LightFlash allows:
\* handletick and eventhandler are called on it at any point of the loop
\* (lightevents.py lines 119-128), yet each time whole.
THEOREM ServerImplementsFlash == Spec => FlashSpec
<1>1. Init => FlashInit
  BY DEF Init
<1>2. ServerInv /\ [Next]_vars => [FlashNext]_flashVars
  <2> SUFFICES ASSUME ServerInv, [Next]_vars PROVE [FlashNext]_flashVars
    OBVIOUS
  <2>1. CASE Tick
    BY <2>1 DEF Tick, FlashNext
  <2>2. CASE Get
    <3>1. Head(queue) \in Events
      BY <2>2 DEF Get, ServerInv, ThreadsOK
    <3>2. Head(queue).message.intensity \in Intensities /\ Head(queue).message.ticks \in Ticks
      BY <3>1, EventParts DEF Messages
    <3> QED BY <2>2, <3>2 DEF Get, Handle, FlashNext
  <2>3. CASE StartServer \/ Greet \/ CheckEmpty \/ WakeUp \/ Receive \/ PutEvent
    BY <2>3 DEF StartServer, Greet, CheckEmpty, WakeUp, Receive, PutEvent
  <2>4. CASE UNCHANGED vars
    BY <2>4 DEF vars
  <2> QED BY <2>1, <2>2, <2>3, <2>4 DEF Next, Main
<1> QED BY <1>1, <1>2, ServerInvariant, PTL DEF Spec, FlashSpec

\* So the flash of any light keeps its promises in the running server.
THEOREM ServerKeepsIntensity ==
  ASSUME Ticks \subseteq Nat \ {0}
  PROVE  Spec => [](IntensityInRange /\ HeadsForTarget)
<1>1. FlashSpec => [](FlashOK /\ IntensityInRange /\ HeadsForTarget /\ IdleIsDark)
  BY FlashStaysInRange
<1> QED BY <1>1, ServerImplementsFlash, PTL

\* And every tick of it counts, whichever light drained its onset.
THEOREM ServerFlashEnds ==
  ASSUME Ticks \subseteq Nat \ {0}, 0 \notin Intensities
  PROVE  Spec => EveryTickCounts
<1>1. FlashSpec => EveryTickCounts
  BY FlashComesToItsEnd
<1> QED BY <1>1, ServerImplementsFlash, PTL

\* Threads, queue and flash keep their types for every number of lights.
THEOREM ServerTypes ==
  ASSUME Ticks \subseteq Nat \ {0}
  PROVE  Spec => []TypeOK
<1>1. FlashSpec => [](FlashOK /\ IntensityInRange /\ HeadsForTarget /\ IdleIsDark)
  BY FlashStaysInRange
<1>2. ServerInv /\ FlashOK => TypeOK
  BY DEF ServerInv, TypeOK
<1> QED BY <1>1, <1>2, ServerInvariant, ServerImplementsFlash, PTL

-----------------------------------------------------------------------------
\* The greeting of the watched light, while it waits.
Greetings == {i \in DOMAIN queue : queue[i].light = Watched /\ queue[i].onset = 0}
ToGreet == main = "boot" \/ (main = "greet" /\ light <= Watched)

\* The watched light has flashed for the onsets it has handled, and for the
\* greeting once that is handled.
FlashesCounted ==
  /\ flashes \in Nat /\ flashes <= handled[Watched] + 1
  /\ ToGreet \/ Greetings # {} => flashes <= handled[Watched]
  /\ ToGreet => Greetings = {}
  /\ \A i, j \in Greetings : i = j
  /\ state = "dead" => main = "dead"

\* Whatever the state of the threads, the main thread can go on, unless the
\* queue is full of onsets before it has put its greetings or a duration of 0
\* has ended it: get() finds an event, and the light it is for can handle it.
\* (MaxFlashes, the bound of the model, never stands in its way.)
MainGoesOn ==
  /\ main = "get" => /\ queue # <<>>
                     /\ Head(queue).light = Watched => state # "dead" /\ flashes < MaxFlashes
  /\ main = "tick" => state # "dead"

\* Steps that put or take no greeting of the watched light.
LEMMA CountQuiet ==
  ASSUME FlashesCounted, Greetings' = Greetings, UNCHANGED <<handled, flashes, state>>,
         ToGreet' => ToGreet, main # "dead"
  PROVE  FlashesCounted'
BY DEF FlashesCounted

LEMMA CountPut ==
  ASSUME FlashesCounted, ServerInv, NEW e \in Events, Put(e),
         UNCHANGED <<handled, flashes, state>>, main # "dead",
         e.onset = 0 /\ e.light = Watched => ToGreet /\ ~ToGreet',
         ToGreet' => ToGreet
  PROVE  FlashesCounted'
<1>1. /\ Len(queue') = Len(queue) + 1 /\ queue \in Seq(Events) /\ queue' \in Seq(Events)
      /\ \A i \in 1 .. Len(queue) : queue'[i] = queue[i]
      /\ queue'[Len(queue')] = e
  BY PutKeepsQueue DEF ServerInv, ThreadsOK
<1>2. DOMAIN queue' = DOMAIN queue \cup {Len(queue')} /\ DOMAIN queue = 1 .. Len(queue)
  BY <1>1
<1>3. CASE e.onset = 0 /\ e.light = Watched
  <2>1. Greetings' \subseteq {Len(queue')}
    <3>1. Greetings = {}
      BY <1>3 DEF FlashesCounted
    <3> QED BY <1>1, <1>2, <3>1 DEF Greetings
  <2> QED BY <1>3, <2>1 DEF FlashesCounted
<1>4. CASE ~(e.onset = 0 /\ e.light = Watched)
  <2>1. Greetings' = Greetings
    BY <1>1, <1>2, <1>4 DEF Greetings
  <2> QED BY <2>1, CountQuiet
<1> QED BY <1>3, <1>4

\* The first event that waits, and that its light has not handled it.
LEMMA FirstWaits ==
  ASSUME ServerInv, queue # <<>>
  PROVE  /\ queue \in Seq(Events) /\ Len(queue) \in Nat /\ Len(queue) > 0
         /\ DOMAIN queue = 1 .. Len(queue) /\ 1 \in DOMAIN queue
         /\ queue[1] \in Events /\ Head(queue) = queue[1]
         /\ handled \in [Lights -> 0 .. MaxOnsets]
         /\ MaxOnsets \in Nat /\ handled[Watched] \in 0 .. MaxOnsets
         /\ queue[1].light = Watched /\ queue[1].onset > 0 => handled[Watched] < queue[1].onset
<1> USE ServerAssumption
<1>1. queue \in Seq(Events) /\ handled \in [Lights -> 0 .. MaxOnsets] /\ Watched \in Lights
  BY DEF ServerInv, ThreadsOK, Lights
<1>2. Len(queue) \in Nat /\ DOMAIN queue = 1 .. Len(queue) /\ Len(queue) # 0
  BY <1>1
<1>3. Len(queue) > 0 /\ 1 \in 1 .. Len(queue)
  BY <1>2
<1>4. queue[1] \in Events /\ Head(queue) = queue[1]
  BY <1>1, <1>3
<1>5. handled[Watched] \in 0 .. MaxOnsets
  BY <1>1
<1>6. ASSUME queue[1].light = Watched, queue[1].onset > 0
      PROVE  handled[Watched] < queue[1].onset
  <2>1. \/ handled[Watched] < queue[1].onset
        \/ handled[Watched] = queue[1].onset /\ Watched < queue[1].light
    BY <1>1, <1>2, <1>3, <1>6 DEF ServerInv, HandledFirst
  <2> QED BY <1>6, <2>1
<1> QED BY <1>1, <1>2, <1>3, <1>4, <1>5, <1>6

LEMMA CountGet ==
  ASSUME FlashesCounted, ServerInv, Get PROVE FlashesCounted'
<1> USE ServerAssumption
<1> DEFINE e == Head(queue)
<1>1. /\ queue \in Seq(Events) /\ queue # <<>> /\ e \in Events /\ e = queue[1]
      /\ queue' \in Seq(Events) /\ Len(queue') = Len(queue) - 1 /\ Len(queue) > 0
      /\ \A i \in 1 .. Len(queue') : queue'[i] = queue[i + 1]
      /\ handled \in [Lights -> 0 .. MaxOnsets] /\ main = "get" /\ ~ToGreet'
  <2>1. queue \in Seq(Events) /\ queue # <<>> /\ queue' = Tail(queue)
    BY DEF Get, ServerInv, ThreadsOK
  <2>2. e \in Events /\ e = queue[1]
    BY <2>1
  <2>3. main = "get" /\ main' \in {"dead", "check"}
    BY DEF Get
  <2> QED BY <2>1, <2>2, <2>3, TailKeepsQueue DEF ToGreet, ServerInv, ThreadsOK
<1>2. /\ e.light \in Lights /\ e.onset \in Nat /\ e.onset <= MaxOnsets
      /\ handled' = [handled EXCEPT ![e.light] = IF e.onset = 0 THEN @ ELSE e.onset]
      /\ handled[Watched] \in Nat
  <2>1. handled' = [handled EXCEPT ![e.light] = IF e.onset = 0 THEN @ ELSE e.onset]
    BY DEF Get, Handle
  <2>2. e.light \in Lights /\ e.onset \in 0 .. MaxOnsets
    BY <1>1, EventParts
  <2>3. handled[Watched] \in 0 .. MaxOnsets
    BY <1>1, FirstWaits
  <2> QED BY <2>1, <2>2, <2>3
<1>3. e.light = Watched /\ e.onset > 0 => handled[Watched] < e.onset
  BY <1>1, FirstWaits
<1>4. \A i \in 1 .. Len(queue') : i + 1 \in 1 .. Len(queue)
  BY <1>1
<1>5. \A i \in Greetings' : i \in Nat /\ i > 0 /\ i + 1 \in Greetings
  <2>1. DOMAIN queue = 1 .. Len(queue) /\ DOMAIN queue' = 1 .. Len(queue')
    BY <1>1
  <2> QED BY <1>1, <1>4, <2>1 DEF Greetings
<1>6. \A i, j \in Greetings' : i = j
  <2> SUFFICES ASSUME NEW i \in Greetings', NEW j \in Greetings' PROVE i = j
    OBVIOUS
  <2>1. i + 1 = j + 1 /\ i \in Nat /\ j \in Nat
    BY <1>5 DEF FlashesCounted
  <2> QED BY <2>1
<1>7. CASE e.light # Watched
  <2>1. UNCHANGED <<state, flashes>> /\ handled'[Watched] = handled[Watched]
    BY <1>1, <1>2, <1>7 DEF Get, Handle, flashVars
  <2>2. Greetings' # {} => Greetings # {}
    BY <1>5
  <2>3. state # "dead"
    BY <1>1 DEF FlashesCounted
  <2> QED BY <1>1, <1>6, <2>1, <2>2, <2>3 DEF FlashesCounted
<1>8. CASE e.light = Watched
  <2>1. flashes' = flashes + 1 /\ (state' = "dead" => e.message.ticks = 0)
    BY <1>1, <1>8 DEF Get, Handle, Onset
  <2>2. state' = "dead" => main' = "dead"
    BY <2>1 DEF Get
  <2>3. CASE e.onset = 0
    <3>1. 1 \in Greetings
      BY <1>1, <1>8, <2>3 DEF Greetings
    <3>2. Greetings' = {}
      <4>1. \A i \in Greetings' : i + 1 = 1 /\ i \in Nat /\ i > 0
        BY <1>5, <3>1 DEF FlashesCounted
      <4> QED BY <4>1
    <3>3. flashes <= handled[Watched] /\ flashes \in Nat /\ handled'[Watched] = handled[Watched]
      BY <1>1, <1>2, <1>8, <2>3, <3>1 DEF FlashesCounted
    <3> QED BY <1>1, <1>2, <1>6, <2>1, <2>2, <3>2, <3>3 DEF FlashesCounted
  <2>4. CASE e.onset > 0
    <3>1. handled'[Watched] = e.onset /\ handled[Watched] + 1 <= e.onset
      BY <1>1, <1>2, <1>3, <1>8, <2>4
    <3>2. flashes \in Nat /\ flashes <= handled[Watched] + 1
          /\ (Greetings' # {} => flashes <= handled[Watched])
      BY <1>5 DEF FlashesCounted
    <3> QED BY <1>1, <1>2, <1>6, <2>1, <2>2, <3>1, <3>2 DEF FlashesCounted
  <2> QED BY <1>2, <2>3, <2>4
<1> QED BY <1>7, <1>8

LEMMA NextFlashesCounted ==
  ASSUME FlashesCounted, ServerInv, [Next]_vars PROVE FlashesCounted'
<1> USE ServerAssumption
<1>1. CASE StartServer
  BY <1>1, CountQuiet DEF StartServer, ToGreet, Greetings, flashVars, ServerInv, ThreadsOK
<1>2. CASE Greet
  <2> DEFINE e == Event(light, 0, Message(Full, Greeting))
  <2>1. e \in Events /\ e.light = light /\ e.onset = 0
    BY DEF ServerInv, ThreadsOK, Event, Events, Messages, Message
  <2>2. light \in Nat /\ Watched \in 1 .. N /\ N \in Nat /\ light <= N
    BY DEF ServerInv, ThreadsOK, Lights
  <2>3. main = "greet" /\ UNCHANGED <<handled, flashes, state>> /\ Put(e)
        /\ main' = (IF light = N THEN "tick" ELSE "greet")
        /\ light' = (IF light = N THEN 1 ELSE light + 1)
    BY <1>2 DEF Greet, flashVars
  <2>4. ToGreet' => ToGreet
    BY <2>2, <2>3 DEF ToGreet
  <2>5. light = Watched => ToGreet /\ ~ToGreet'
    BY <2>2, <2>3 DEF ToGreet
  <2> HIDE DEF e
  <2> QED BY <2>1, <2>3, <2>4, <2>5, CountPut
<1>3. CASE Tick
  <2>1. UNCHANGED <<queue, handled, flashes>> /\ main = "tick" /\ main' = "check"
    BY <1>3 DEF Tick, FlashTick, TickUp, TickDown, flashVars
  <2>2. state' = "dead" => state = "dead"
    BY <1>3 DEF Tick, FlashTick, TickUp, TickDown, flashVars
  <2> QED BY <2>1, <2>2 DEF FlashesCounted, Greetings, ToGreet
<1>4. CASE CheckEmpty \/ WakeUp
  BY <1>4, CountQuiet DEF CheckEmpty, WakeUp, ToGreet, Greetings, flashVars
<1>5. CASE Get
  BY <1>5, CountGet
<1>6. CASE Receive
  BY <1>6 DEF Receive, FlashesCounted, ToGreet, Greetings, flashVars
<1>7. CASE PutEvent
  <2> DEFINE e == Event(next, onset, message)
  <2>1. e \in Events /\ e.onset > 0 /\ Put(e)
    BY <1>7 DEF PutEvent, ServerInv, ThreadsOK, Event, Events
  <2>2. UNCHANGED <<main, light, handled, flashes, state>>
    BY <1>7 DEF PutEvent, flashVars
  <2>3. e.onset # 0 /\ (ToGreet' => ToGreet)
    BY <2>1, <2>2 DEF ToGreet
  <2> HIDE DEF e
  <2>4. CASE main # "dead"
    BY <2>1, <2>2, <2>3, <2>4, CountPut
  <2>5. CASE main = "dead"
    <3>1. Greetings' = Greetings
      <4>1. /\ Len(queue') = Len(queue) + 1 /\ queue \in Seq(Events) /\ queue' \in Seq(Events)
            /\ \A i \in 1 .. Len(queue) : queue'[i] = queue[i]
            /\ queue'[Len(queue')] = e
        BY <2>1, PutKeepsQueue DEF ServerInv, ThreadsOK
      <4>2. DOMAIN queue' = DOMAIN queue \cup {Len(queue')} /\ DOMAIN queue = 1 .. Len(queue)
        BY <4>1
      <4> QED BY <2>3, <4>1, <4>2 DEF Greetings
    <3> QED BY <2>2, <2>3, <2>5, <3>1 DEF FlashesCounted
  <2> QED BY <2>4, <2>5
<1>8. CASE UNCHANGED vars
  BY <1>8 DEF vars, flashVars, FlashesCounted, ToGreet, Greetings
<1> QED
  BY <1>1, <1>2, <1>3, <1>4, <1>5, <1>6, <1>7, <1>8 DEF Next, Main

\* The main thread is stopped by nothing but a full queue during its greetings
\* (lightserver.py lines 27-28, the finding of the start-up) and a duration of
\* 0: at every other point of its loop its next step is possible, for any
\* number of lights, any capacity and whatever the server thread does.
THEOREM OnlyGreetingsBlock == Spec => []MainGoesOn
<1>1. Init => FlashesCounted
  <2> SUFFICES ASSUME Init PROVE FlashesCounted
    OBVIOUS
  <2>1. queue = <<>> /\ flashes = 0 /\ state = "idle" /\ handled[Watched] = 0
    BY ServerAssumption DEF Init, FlashInit, Lights
  <2>2. Greetings = {}
    BY <2>1 DEF Greetings
  <2> QED BY <2>1, <2>2 DEF FlashesCounted
<1>2. FlashesCounted /\ ServerInv /\ [Next]_vars => FlashesCounted'
  BY NextFlashesCounted
<1>3. FlashesCounted /\ ServerInv => MainGoesOn
  <2> SUFFICES ASSUME FlashesCounted, ServerInv PROVE MainGoesOn
    OBVIOUS
  <2> USE ServerAssumption
  <2>1. main \in {"get", "tick"} => state # "dead"
    BY DEF FlashesCounted
  <2>2. main = "get" => queue # <<>>
    BY DEF ServerInv, GetNeverBlocks
  <2>3. ASSUME main = "get", Head(queue).light = Watched PROVE flashes < MaxFlashes
    <3>1. /\ queue[1] \in Events /\ 1 \in DOMAIN queue /\ Head(queue) = queue[1]
          /\ MaxOnsets \in Nat /\ handled[Watched] \in 0 .. MaxOnsets
      BY <2>2, <2>3, FirstWaits
    <3>2. queue[1].onset \in Nat /\ queue[1].onset <= MaxOnsets /\ queue[1].light = Watched
      BY <2>3, <3>1, EventParts
    <3>3. CASE queue[1].onset = 0
      <4>1. Greetings # {}
        BY <3>1, <3>2, <3>3 DEF Greetings
      <4> QED BY <3>1, <4>1, FlashAssumption DEF FlashesCounted
    <3>4. CASE queue[1].onset > 0
      <4>1. handled[Watched] < queue[1].onset
        BY <2>2, <2>3, <3>2, <3>4, FirstWaits
      <4> QED BY <3>1, <3>2, <4>1, FlashAssumption DEF FlashesCounted
    <3> QED BY <3>2, <3>3, <3>4
  <2> QED BY <2>1, <2>2, <2>3 DEF MainGoesOn
<1> QED
  BY <1>1, <1>2, <1>3, ServerInvariant, PTL DEF Spec
-----------------------------------------------------------------------------
\* Steps of the main thread before it takes the next event, if there is one.
ToGet == IF main = "get" THEN 0 ELSE IF main = "check" THEN 1
         ELSE IF main = "tick" THEN 2 ELSE 3

\* An event that waits at i is at j in the next state.
Moves(i, j) == j \in DOMAIN queue' /\ queue'[j] = queue[i]

\* In the main loop an event that waits comes nearer to its light with every
\* step of the main thread, and no step of the server thread takes it back.
EventsMoveUp ==
  [][Ticking /\ Ticking' => \A i \in DOMAIN queue :
       \/ i = 1 /\ Get /\ handled'[queue[1].light] >= queue[1].onset
       \/ \E j \in DOMAIN queue : /\ Moves(i, j)
                                  /\ Main  => 4 * j + ToGet' < 4 * i + ToGet
                                  /\ ~Main => j = i /\ ToGet' = ToGet]_vars

LEMMA GetMovesUp ==
  ASSUME ServerInv, Get, Ticking', NEW i \in DOMAIN queue
  PROVE  \/ i = 1 /\ handled'[queue[1].light] >= queue[1].onset
         \/ \E j \in DOMAIN queue : Moves(i, j) /\ 4 * j + ToGet' < 4 * i + ToGet
<1>1. /\ queue \in Seq(Events) /\ queue # <<>> /\ queue' = Tail(queue) /\ main = "get"
      /\ DOMAIN queue = 1 .. Len(queue) /\ Head(queue) = queue[1] /\ queue[1] \in Events
      /\ handled \in [Lights -> 0 .. MaxOnsets]
  BY FirstWaits DEF Get
<1>2. main' = "check"
  BY DEF Get, Ticking
<1>3. CASE i = 1
  <2>1. handled' = [handled EXCEPT ![queue[1].light] = IF queue[1].onset = 0 THEN @ ELSE queue[1].onset]
    BY <1>1, Zenon DEF Get, Handle
  <2>2. queue[1].light \in Lights /\ queue[1].onset \in Nat
    BY <1>1, EventParts
  <2>3. handled[queue[1].light] \in Nat
    BY <1>1, <2>2, ServerAssumption
  <2>4. handled'[queue[1].light] >= queue[1].onset
    BY <1>1, <2>1, <2>2, <2>3
  <2> QED BY <1>3, <2>4
<1>4. CASE i # 1
  <2>1. /\ queue' \in Seq(Events) /\ Len(queue') = Len(queue) - 1
        /\ \A k \in 1 .. Len(queue') : queue'[k] = queue[k + 1]
    BY <1>1, TailKeepsQueue
  <2>2. i \in 2 .. Len(queue) /\ DOMAIN queue' = 1 .. Len(queue')
    BY <1>1, <1>4, <2>1
  <2>3. i - 1 \in 1 .. Len(queue') /\ i - 1 \in DOMAIN queue /\ (i - 1) + 1 = i
    BY <1>1, <2>1, <2>2
  <2>4. Moves(i, i - 1)
    BY <2>1, <2>2, <2>3 DEF Moves
  <2>5. 4 * (i - 1) + ToGet' < 4 * i + ToGet
    BY <1>1, <1>2, <2>2 DEF ToGet
  <2> QED BY <2>3, <2>4, <2>5
<1> QED BY <1>3, <1>4

\* What OnsetsArrive rests on, for any number of lights and any capacity: an
\* event at place i of the queue is handled after at most 4 * i + 3 steps of the
\* main thread, because whichever light ticks drains the queue for all
\* (lightevents.py lines 127-128).
THEOREM EventsComeToTheirLights == Spec => EventsMoveUp
<1>1. ServerInv /\ [Next]_vars =>
        [Ticking /\ Ticking' => \A i \in DOMAIN queue :
           \/ i = 1 /\ Get /\ handled'[queue[1].light] >= queue[1].onset
           \/ \E j \in DOMAIN queue : /\ Moves(i, j)
                                      /\ Main  => 4 * j + ToGet' < 4 * i + ToGet
                                      /\ ~Main => j = i /\ ToGet' = ToGet]_vars
  <2> SUFFICES ASSUME ServerInv, Next, Ticking, Ticking', NEW i \in DOMAIN queue
               PROVE  \/ i = 1 /\ Get /\ handled'[queue[1].light] >= queue[1].onset
                      \/ \E j \in DOMAIN queue :
                           /\ Moves(i, j)
                           /\ Main  => 4 * j + ToGet' < 4 * i + ToGet
                           /\ ~Main => j = i /\ ToGet' = ToGet
    OBVIOUS
  <2>1. queue \in Seq(Events) /\ DOMAIN queue = 1 .. Len(queue) /\ i \in Nat /\ queue # <<>>
    BY DEF ServerInv, ThreadsOK
  <2>2. CASE Get
    BY <2>2, GetMovesUp DEF Main
  <2>3. CASE Tick \/ CheckEmpty \/ WakeUp
    <3>1. queue' = queue /\ ToGet' < ToGet /\ ToGet \in Nat /\ ToGet' \in Nat
      BY <2>1, <2>3 DEF Tick, CheckEmpty, WakeUp, ToGet
    <3>2. Moves(i, i) /\ 4 * i + ToGet' < 4 * i + ToGet
      BY <2>1, <3>1 DEF Moves
    <3> QED BY <2>3, <3>2 DEF Main
  <2>4. CASE Receive \/ PutEvent
    <3>1. main' = main
      BY <2>4 DEF Receive, PutEvent
    <3>2. ~Main
      BY <3>1 DEF Main, StartServer, Greet, Tick, CheckEmpty, Get, WakeUp, Ticking
    <3>3. Moves(i, i)
      <4>1. CASE Receive
        BY <4>1 DEF Receive, Moves
      <4>2. CASE PutEvent
        <5> DEFINE e == Event(next, onset, message)
        <5>1. e \in Events /\ Put(e) /\ Len(queue) <= Cap
          BY <4>2 DEF PutEvent, ServerInv, ThreadsOK, Event, Events
        <5> HIDE DEF e
        <5>2. /\ queue' \in Seq(Events) /\ Len(queue') = Len(queue) + 1
              /\ \A k \in 1 .. Len(queue) : queue'[k] = queue[k]
          BY <2>1, <5>1, PutKeepsQueue
        <5> QED BY <2>1, <5>2 DEF Moves
      <4> QED BY <2>4, <4>1, <4>2
    <3>4. ToGet' = ToGet
      BY <3>1 DEF ToGet
    <3> QED BY <3>2, <3>3, <3>4
  <2>5. ~StartServer /\ ~Greet
    BY DEF Ticking, StartServer, Greet
  <2> QED BY <2>2, <2>3, <2>4, <2>5 DEF Next, Main
<1> QED BY <1>1, ServerInvariant, PTL DEF Spec, EventsMoveUp
=============================================================================
