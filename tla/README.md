# Life of the Party, formally

TLA+ models, TLC runs and TLAPS proofs for *Life of the Party*: a Kinect (or the sound of a room) drives a
set of wireless LED lights. This file says what the system consists of, which module models which part, what
the runs check, what is proved, and what is left out.

Paths below are relative to `src/`; `Programs/` stands for `OpenNI-Bin-Dev-MacOSX-v1.5.7.10/Programs/`.

## 1. The system

```
 Kinect -> USB thread, frame buffers (FrameBuffers)
              |  sessions of the sensor server (SensorServer, an implementation of SensorLease)
              v
        OpenNI user generator
                                |  callbacks (UserTracking)
                                v
       multipleParty.cpp (MultiParty)   Lifeoftheparty.cpp (LifeParty)
                                |  the colour (HueWalk / ColorWheel)
                                v  system("python varcolor.py r g b") at the end of a frame
                  varcolor.py -> UDP -> light bricks 3, 4, 5 (Lights)

 analyzer.pd -> OSC -> lightserver.py (LightServer, two threads, one queue)
                          lightevents.py (LightFlash, one machine per light) -> OSC -> light bricks
```

The two halves are alternatives: the bricks obey whoever sends. The sensor server is optional: on a Mac the driver
works inside the program's own process.

| Part | State it keeps | Operations | What makes it correct |
|---|---|---|---|
| Colour wheel (both Kinect programs) | `r`, `g`, `b` | two shift loops, the jump to the complement | the colour stays a colour; it never freezes; it moves smoothly except in a jump |
| User tracking (callbacks of both) | the generator's lists of posing, calibrating and tracked users | new user, lost user, pose detected, calibration complete | nobody is at two stages, nobody is dropped, an operator's abort is final, who stays is tracked |
| Frame loop for many guests, `multipleParty.cpp` | per-slot last hand, distance, direction, a history of five speeds; `fastestUser`, `jumpframegap` | per frame: measure, decide, shift, jump, send | the fastest of this frame decides; jumps keep their distance; every colour is sent |
| Frame loop for one guest, `Lifeoftheparty.cpp` (and its copy in `burst-of-the-party`) | last hand, five speeds | the same, one guest, no gap | only motion moves the colour; a steady hand never jumps; every colour is sent |
| Sending, `varcolor.py` | none | three sends | lights end up in unison |
| Light bricks, `firmware/LightBrick*` | radio mode, a protothread, the pins | boot, join, poll, datagram, loss of power or connection | no datagram is swallowed |
| Light server, `lightserver.py` | a bounded queue shared by two threads | onset callback, greetings, the tick loop | nothing lost, doubled, overtaken; nobody blocks for ever; lights stay in step |
| Sensor server (`XnSensorServer`, `XnSensorsManager`, `XnServerSession`, `XnSensorClient`) | a named mutex and event, a port, sessions, a reference count, a reply slot per client | start a server, elect one, accept, open, ask, bye, hang up, clean up, leave | one server; it never leaves a session behind; a sensor in use stays open; replies reach their request; it does leave in the end |
| Frame buffers (`XnBufferPool`, `XnFrameBufferManager`, `XnServerSensorInvoker`) | buffers with reference counts, a list of free ones, a pointer per holder | mark a frame stable, read, copy to a session, add and remove a stream | nothing leaks; the USB thread always finds a buffer; a frame given away is not overwritten |
| Flash machine, `lightevents.py` | state, intensity, target, increment, ticks | onset, tick | intensity in range; a flash heads for its target and ends in the dark |

What makes these hard to test: the ifs of a shift iteration see each other's updates; the speed history is
written one cell past its end, into the next guest's or, for the last one, into the colour; state outlives the frame it was computed in; callbacks come in any order, also
for people who already left; two threads share a queue that one of them both fills and drains; onsets
interrupt flashes at any tick; datagrams vanish and lights reboot; several processes start, look for, join and
leave one server; four threads count references to one pool of buffers by hand. Each hazard is listed at its line in
`PROJECT.json`, with the properties that look for it.

Nothing is persisted, so there is no crash recovery except that of a light that loses power.

## 2. Modules

| Module | Models | Correspondence |
|---|---|---|
| `ColorWheel` | the arithmetic both programs share | one operator per `if` of the shift loops (`Up1`..`Up9`, `Down1`..`Down6`), applied in their order; `Complement` is the jump. `Settled` and friends describe the shapes the colour can have. |
| `HueWalk` | the abstract show: a colour that shifts up, shifts down or jumps | what `LifeParty` implements, and `MultiParty` while a place is free |
| `UserTracking` | the four callbacks | one action per event with its whole callback (they run on the program's only thread inside `WaitOneUpdateAll`); the generator's three requests are external operators and do nothing for a user it does not know |
| `MultiParty` | the frame loop for many guests | `Update`, `MeasureUser` / `SkipUser` per place of `aUsers`, `Decide`, one `Shift` per loop iteration, `JumpOrCount`, `Send`. The speed histories are one block of memory, as in C, so that the write to `vaverage[u][5]` lands in the next slot's current speed. That of the last slot is past the array; it lands in `g`, the green channel (`Spilled`), as in the program the repository ships (see finding 3). |
| `MultiPartyHistory` | adds history variables: shifting frames since the last jump, and whether anybody was measured in the last place | never restrains `MultiParty` |
| `LifeParty` | the frame loop for one guest | `Measure`, `Shift`, `Jump`, `Send`; the chain of assignments that copies the newest speed into all older ones is kept |
| `Lights` | programs, wire and bricks together | the frame of either program reduced to its sending (`Frame`, `SendToNode`); `AppCall` is one call of `handle_connection` from whichever place the protothread rested; boot, power and connection as actions of their own |
| `LightServer` | main thread and liblo's server thread, with the flash of one light, `Watched` | EXTENDS `LightFlash` and uses its actions: `Tick` of the watched light is a `FlashTick`, `Handle` of its event an `Onset`. One action per step between which the other thread can run: `empty()` and `get()` are two actions, a batch of puts is one action per light |
| `LightFlash` | one light's machine | `Onset` (either flash mode), `TickUp`, `TickDown`; intensities in units, divisions cut towards zero |
| `SensorLease` | what the server promises its users | the Kinect is open for a set of users: `Take`, `Give`, `Close` |
| `SensorServer` | client processes, server processes, a session thread per client | one action per step between which another process or thread can run; mutex, event and port as the operating system keeps them; a time limit is a choice of both outcomes; a client may end anywhere but where it holds the mutex |
| `FrameBuffers` | USB thread, reader thread and session threads around one pool | one action per critical section: `count` and `free` are the pool, `ptr` the buffer each holder points to, which the reader and a session change under different locks |
| `MC*` | constants and bounds for TLC | |
| `*_proofs` | theorems and their proofs | each extends the module it is about |

In every module a definition that stands directly above another and is named for a slip
(`PutDropsWhenFull` above `Put`) stands for no code. It is the definition below with one plausible mistake,
kept to show that the properties notice it.

How they fit: `LifeParty` refines `HueWalk` (`HueSpec`, checked and proved), so what is proved of `HueWalk` holds of
it. `MultiParty` does so only in behaviours that leave one of its places free (proved); with all places taken one
more kind of step is possible, the write over green. `Lights` takes "at the end of a frame the colour goes to `varcolor.py`"
(`NothingUnsent`, `EventuallySent`) as its `Frame`. `LightServer` is the composition of the two threads with
`LightFlash`, whose fair specification it implements (`FlashImplemented`): that its light is ticked for ever, which
`LightFlash` assumes, follows there from the threads. `SensorServer` implements `SensorLease` (`LeaseHolds`, an
INSTANCE with the sensors and references of all servers). `FrameBuffers` looks at one stream of the sensor that
`SensorServer` keeps open. `MultiParty` takes any list of users, tracked or not, which covers
every outcome of `UserTracking`.

## 3. Runs

| Run | Expect | What it shows |
|---|---|---|
| `hue_walk` | pass | Every colour of every dance at the real 255 levels. `WheelShape`: red and green stay levels, at most blue leaks and in one of two shapes. `SmoothShift`: an iteration moves one to three levels, never none. `LeavesRangeOnlyAtGreen`, `GreenOnlyByJump`: the leak starts with a positive shift from pure green, which only a jump from pure magenta makes. `KeepsCycling`: somebody who moves one way sees the whole wheel for ever. |
| `hue_range` | violation | `ColourInRange`, see finding 1. |
| `tracking` | pass | Three guests, every order of events: `OneStage`, `NobodyForgotten`, `AbortIsFinal`, `EventuallyTracked`. |
| `party` | pass | Two guests, none to both places taken: `FastestLeads` in spite of the write past each history (it says nothing of a frame in which nobody moved); `NothingUnsent`; `JumpsApart`, in frames that shift, as the code counts; `WheelUntilFull`: the colour keeps the shapes of `HueWalk` until somebody is measured in the last place. |
| `party_full` | violation | `StepsMoveTheColour` with both places taken, see finding 3. |
| `life` | pass | `OnlyMotionMoves` although the jump has no guard of its own, `EventuallySent`, `HueSpec` (refinement). |
| `lights` | pass | `LastHeardShows`: no mixture of polls, strays, reboots and reconnections swallows a datagram. `UnisonReturns`: once colour and lights are steady and the program sends, all lights come to show the colour and keep it. |
| `server` | pass | `GetNeverBlocks`, `NothingLost`, `InStep` (lights are at most one onset apart), `OnsetsArrive`, `KeepsTicking`; of the watched light `HeadsForTarget`, `FlashEnds` and `FlashImplemented` (refinement, with its fairness): another light's tick may restart its flash at any moment. |
| `server_start` | violation | `GetsStarted`, see finding 2. |
| `sensor` | pass | `OneServer` however many are started; `NobodyCutOff`: who leaves has looked again for clients, under their mutex; `LeaseHolds` (refinement); `OwnAnswer` although one slot serves all replies (of clients none of whose waits has timed out: a late reply is taken for the next one, in the model as in the code); `PatientIsServed` and `ServerLeaves`, also when clients fail or die. |
| `frames` | pass | `NoLeak`, and `ClientsPlusThree`, the sentence of the configuration file on the number of buffers, which is what keeps the USB thread from returning with a lock held. |
| `frames_torn` | violation | `GivenFrameIsKept`, see finding 4. |

### Bounds, and why they are enough

* `LeakBound` (`hue_walk` 8, `life` 2, `party` 1): levels that blue may go beyond its range before a frame (or,
  in `HueWalk`, a step) starts. Blue is the only quantity that grows without end, by one per iteration and
  with no test that depends on how far it went, so a few levels show both shapes. After a write over green the
  other channels can leave their range too, so `party` bounds all three. The specifications have no such bound;
  the theorems hold without it.
* `hue_walk` uses the real channel size 255. `life` and `party` use 3 levels: the ifs test only 0 and the maximum,
  so two inner levels have every case.
* Units: in `LifeParty` and `MultiParty` a distance unit is 33 mm, so `(d1 + d2) * .001 / .0667` counts half
  metres per second; a shift at 1 m/s is `ShiftSpeed = 2`, the jump of `Lifeoftheparty.cpp` at 2.5 m/s over
  the mean of four is `JumpGain = 20` (that of `multipleParty.cpp`, 2.2 m/s, would be 17). `life` uses these.
  The steps per unit of speed are scaled down with the wheel (`StepNum / StepDen`).
* `party`: two guests in two slots, histories of 3 instead of 5, a gap of 2 instead of 10, hands at two
  points, `JumpGain` scaled to the shorter history. Two slots are what the write past a history needs: it goes
  from one slot to the next, and from the last one into green. Two points give speeds that shift and
  that do not, and gains that jump and that do not. The proofs cover every size.
* `UnitsPerLevel`: what a speed is when it stands in the green channel, in whole levels, cut away from zero, so that
  only a speed of zero is dark. In the program it is a fraction, about the speed in metres per second, and a green
  that is not whole also misses the tests for 0 and 255 that a whole one meets. So the model shows where the write
  comes from and that it takes the colour off the wheel, not every colour that can follow; no property or theorem
  says more of a colour after the write than its type, that a jump changes it (red stays whole) and that it is sent; the
  trace of `party_full` writes a speed of 0, which is exact. 6 units are the greatest distance of
  `party`, so that the speeds of the run are 0 to 2 of its levels.
* At most `NSlots` users are in view. The program reads up to 15 into loops over arrays of 4; what happens
  with five is undefined behaviour that writes into unrelated variables, and is not modelled.
* `server`: two lights of which the second is watched, a queue of three instead of 128, three onsets: the queue
  overflows, is drained in the middle of a batch, and is refilled while it drains. Full intensity is 60 units,
  `Near` 5 of them (1/255 in the program); durations 2 and 5, or 5 as greeting; intensities 60, which increments
  reach exactly, and 23, which they do not. `Floor` (90) merges all intensities so far out of range that nothing
  tells them apart; `MaxFlashes` 4 is the greeting and every onset. `server_start` needs two onsets only.
* `sensor`: two clients and two servers, of which one client asks the sensor something (`Askers`, `MaxAsk` 1). A
  second server is what the election and the leaving of the first need; a second client is one that comes while
  the server leaves, or holds the sensor while the first gives it back. The asking client with one request and
  the BYE has two waits, so that the reply to one can come late for the other.
* `frames`: two clients and five buffers, clients and buffers interchangeable (only safety is checked);
  `MaxFree` 3 bounds the list of free buffers, which in the race of finding 4 can take a buffer twice. With five
  buffers two clients are exactly the limit of `ClientsPlusThree`.
* `lights`: two lights (a third is another second one), two colours. A set per light stands for the
  datagrams on their way, so their number is not bounded.

### Fairness, and why the code justifies it

* `LifeParty`: weak fairness of the frame in progress. One thread, nothing blocks it until it waits for the
  camera; a next frame is never assumed.
* `UserTracking`: a guest who stays strikes the pose while it is asked for (weak), and not every calibration
  of that guest fails (strong). This is an assumption on people, needed only by `EventuallyTracked`.
* `LightServer`: both threads run again and again (weak); no onset has to arrive.
* `LightFlash`: its light is ticked again and again (weak), which `server` shows of the threads.
* `SensorServer`: the servers' threads and the sessions run (weak), a client that holds the mutex gives it back
  (weak: it takes one look and unlocks), and what a server puts off until a time has passed or the mutex is free
  is not put off for ever (strong, over all servers together: the clock goes on, and the lock is tried every
  round). No client has to do anything else.
* `Lights`: frames keep coming and `varcolor.py` finishes (weak); of the wire, that a colour sent for ever is
  heard now and then (strong) and that no datagram is on its way for ever (weak). Nothing makes a light join.
* `HueWalk`: only inside `KeepsCycling`, where it says that somebody keeps moving up.

Deadlock checking is off where the system really stops: `Stop` (a key was hit) in the frame loops, the
blocked threads of `server` and `server_start`, the end of all processes in `sensor`, and the USB thread that waits for a lock nobody gives back in `frames`.

## 4. Findings

1. **Blue leaves its range** (`hue_range`). From pure green, the sixth test of the positive loop
   (`multipleParty.cpp:354`, also in `Lifeoftheparty.cpp`) takes blue to -1 and then lower, while
   `varcolor.py` takes values from 0 to 1; the firmware casts the negative float to `unsigned char`.
   Only a jump from pure magenta leads to green.
2. **The light server can hang before it starts** (`server_start`). `lightserver.py:25` starts the callback
   thread before the greetings are put into the bounded queue, which only the thread that puts them drains.
3. **The fourth guest writes into the colour** (`party_full`). The loop of `multipleParty.cpp:330` writes
   `vaverage[u][5]`, one past a row of `double vaverage[4][5]` (line 187). For the first three guests that is the next
   guest's current speed, which does no harm (`FastestLeads`); for the fourth it is past the array, where C promises
   nothing. In the build the repository ships, `Programs/Bin/x64-Release/MultipleParty`, the symbol table has `_g` right behind
   the 160 bytes of `_vaverage` in the 32-bit and in the 64-bit half, and the code of the loop stores there: the
   speed of that guest from four frames ago becomes the green channel. The colour jumps, is no longer on the wheel,
   and can stop where no test of the loops is true. The trace: blue is on its way down from cyan, (0, full,
   blue), when a guest whose oldest speed is 0 is measured in the last place; (0, 0, blue) passes no test, and the
   steps of that frame, whose number "is determined by velocity" (line 337), move nothing. `src/README.md:31` offers
   this program for "multiple user support". With a place left none of this happens (`StepsMoveWithRoom`).
4. **A client can be given a frame that is being filled** (`frames_torn`). `ReadStreams` announces "lock sensor"
   (`XnServerSensorInvoker.cpp:802`) and locks the list of streams; sessions read under the sensor's lock. A session
   that copies the pointer between the reader's release of the old frame and its taking of the new one refers to
   a buffer that may already be free and taken by the USB thread. The comment speaks only of the list of streams;
   that a frame somebody refers to stays is what the references are for, "and add ref to it (so it wouldn't be
   deleted)" (`XnFrameBufferManager.cpp:170`). `NoLeak` and `ClientsPlusThree` hold all the
   same, the race included.

Noticed on the way and not the subject of a run: `fastestUser` and that slot's newest speed survive the frame, so a
quiet room goes on changing colour (`multipleParty.cpp:338`); a server may leave between a client's wait for the event,
which is outside the mutex, and its connect (`XnSensorClient.cpp:141`), and the client then fails;
`Lifeoftheparty.cpp:402` speaks of 2 m/s where line 404 asks
for 2.5; per-guest state is kept by place in a list that closes up when somebody leaves; the first speed of a
slot is measured from the origin, so the first frame of a guest moves the colour; `WiFi.init(40)` computes
its timeout in a 16-bit `int` (`WiShield.cpp:67`), which overflows; `lightevents.py:52` divides by a duration from the
network without a look at it, so 0 would stop the server and a negative one would drive a flash away from its
target. Nothing in the repository sends such a one: both copies of `analyzer.pd` clip what they compute, to 1..5
and to 1..10.

## 5. Proofs

`tlapm` checks every theorem to the last leaf, for all values of the constants allowed by the assumptions.

| Theorem | Statement | Argument |
|---|---|---|
| `HueWalk_proofs!WheelShapeInvariant` | `Spec => []WheelShape` | `Settled` is the invariant. The two shapes of a leak are closed under everything the loops do, but only because no iteration stops at pure blue or pure yellow: from blue the third test would take red below zero. `Settled` excludes the two corners, and that is what makes it inductive. |
| `HueWalk_proofs!OnlyGreenLeaks` | the only step out of range | from `Settled`, by the lemmas on each loop |
| `HueWalk_proofs!ShiftsAreSmooth` | `SmoothShift`, for a wheel of more than two levels | each loop is followed channel by channel (`UpOnChannels`, `DownOnChannels`) from every shape `Settled` allows |
| `HueWalk_proofs!OnlyJumpsReachGreen` | `GreenOnlyByJump` | a colour in range that is settled is `Gliding` or green, and no loop takes a gliding colour to green |
| `HueWalk_proofs!GlideStaysInRange` | without a jump nothing leaks | `Gliding`: on the wheel and not at the corners where the loops overshoot |
| `HueWalk_proofs!ShiftsTurnTheWheel` | `UpGoesOn`: a positive iteration turns the wheel by 1 to 3 of its `6 * CMax` positions and never past the initial colour, a negative one back by 1 or 2 | the six sides of the wheel numbered in one direction (`Ahead`); each iteration is followed from every side (`UpArc`, `DownArc`). `Ahead` is the variant behind `KeepsCycling` |
| `HueWalk_proofs!LeakComesBackTheSameWay` | `LeakIsUnwound`: out of range, positive iterations go a level further, negative ones a level back, jumps neither; back in range only at pure green or pure magenta | `LeakShapes`: only blue is out of range, with red and green at opposite ends |
| `UserTracking_proofs!OneStageAtATime`, `NobodyIsForgotten` | both invariants for any number of guests | `Stages`: the type, `OneStage` and `NobodyForgotten` hold each other up |
| `UserTracking_proofs!AbortStaysFinal`, `PoseComesFirst` | action properties | from `Stages`, event by event |
| `UserTracking_proofs!TrackingTypes` | `TypeOK` | part of `Stages` |
| `UserTracking_proofs!TrackedStaysTracked` | `TrackedForGood`: who is tracked stays so while in view, and gets there only at the end of a calibration | from `Stages`; the stable half of `EventuallyTracked` |
| `MultiParty_proofs!FastestAlwaysLeads` | `FastestLeads` for any number of slots and any history | `PartyInv`. `CellsApart` is the memory argument: writing slot u's history touches cell 0 of no slot but u and u + 1, and u + 1 is measured after u in the same frame, so no speed that leads is overwritten |
| `MultiParty_proofs!EveryColourIsSent`, `PartyTypes` | `NothingUnsent`, `TypeOK` | parts of `PartyInv` |
| `MultiParty_proofs!OnlyTheLastPlaceSpills` | `OnlyLastSpills`, a full house included: each step is a step of `HueWalk`, leaves the colour, or measures a guest in the last place and writes that guest's oldest speed over green | step by step (`PartySteps`); a measurement changes the colour only in the last slot, and its being in view means that all places are taken |
| `MultiParty_proofs!WheelIsKeptUntilFull` | `WheelUntilFull` | `Settled` until the last slot is measured; the shift of the history of another slot stays inside the block (`CellInBlock`) |
| `MultiParty_proofs!PartyImplementsHueWalk` | `Spec /\ []Room => HueSpec`: the refinement, while a place is free | `OnlyTheLastPlaceSpills`; `Room` excludes its last case |
| `MultiParty_proofs!PartyLeaksOnlyAtGreen`, `PartyTurnsTheWheel`, `StepsMoveWithRoom` | with `[]Room`, the promises of `HueWalk` about steps, and `StepsMoveTheColour`, which the run `party_full` refutes without it | the refinement and the theorems on `HueWalk` |
| `MultiParty_proofs!EveryFrameEnds` | `FrameGoesOn`: no stage of a frame is entered twice, and the scan and the shift loop come nearer to their ends with every step | the pair of the stage and what is left in it goes down |
| `MultiParty_proofs!JumpsStayApart` | `JumpsApart` for every gap | `GapInv`: gap and shifting frames since the jump add up to at least `GapFrames` |
| `LifeParty_proofs!LifeTypes`, `SteadySpeedStays`, `LifeImplementsHueWalk` | types, no jump at a steady speed, refinement | `LifeInv`: all four past speeds are equal |
| `LifeParty_proofs!LifeLeaksOnlyAtGreen`, `LifeTurnsTheWheel` | the promises of `HueWalk` about steps, of the whole loop | as for `MultiParty` |
| `LifeParty_proofs!EveryFrameEnds` | an unsent colour belongs to a frame under way, every step of which is possible and makes it one step shorter | the steps to do (`ToDo`) are the variant behind `EventuallySent` |
| `LifeParty_proofs!OnlyMotionMovesIt` | `OnlyMotionMoves` | needs `4 * ShiftSpeed <= JumpGain`, which 1 and 2.5 m/s satisfy; speeds are not negative, so a gain above it needs a speed above the threshold |
| `LightServer_proofs!GetFindsAnEvent` | `GetNeverBlocks` for any number of lights and capacity | only the main thread takes from the queue |
| `LightServer_proofs!NoOnsetIsLost` | `NothingLost` | `ServerInv`. What waits for a light is stated as the set of the onsets in the queue, not as a subsequence, which makes each put one more onset and each get the smallest; `HandledFirst` says that what any light has handled came before everything that still waits |
| `LightServer_proofs!LightsStayInStep` | `InStep` | from `HandledFirst`: an onset that one light has handled and another has not is put or waits for that other, after everything handled |
| `LightServer_proofs!FlashStaysInRange` | `IntensityInRange`, `HeadsForTarget` and `IdleIsDark` of `FlashSpec` for all durations of at least one tick | `FlashInv` adds what the target is in each state and that a light at its target has no increment; a tick stays between the intensity and the target, because one that could overshoot arrives (`TickStaysBetween`); assumes `Ticks \subseteq Nat \ {0}` and `NoBlur` |
| `LightServer_proofs!FlashComesToItsEnd` | `EveryTickCounts`: with durations of at least one tick and no intensity 0, a flash is over after at most `2 * Full + 1` ticks | `Way`, the distance to the end with the way up counted before the way down; `OnItsWay` says that a flash under way is never where it is bound for, so no increment is 0. An onset of intensity 0 breaks this, as the hazard on line 91 says |
| `LightServer_proofs!ServerImplementsFlash`, `ServerKeepsIntensity`, `ServerTypes` | `Spec => FlashSpec`, and the two invariants carried over | each step of a thread is a step of the flash or leaves it |
| `LightServer_proofs!ServerFlashEnds` | `EveryTickCounts` of the watched light in the server | the refinement |
| `LightServer_proofs!OnlyGreetingsBlock` | `MainGoesOn`: the next step of the main thread is possible everywhere in its loop | `FlashesCounted`: the watched light has flashed for the onsets it handled and its one greeting, so that the bound `MaxFlashes` of the model never stands in for the code; `FirstWaits`: the first event in the queue was not handled yet. What is left to stop the thread is the full queue of finding 2 and a duration of 0 |
| `LightServer_proofs!EventsComeToTheirLights` | `EventsMoveUp`: an event at place i of the queue is handled within `4 * i + 3` steps of the main thread | the place of the event and the steps to the next `get` (`ToGet`) make a variant that every step of the main thread brings down and no step of the server thread raises |
| `SensorServer_proofs!OneServerAtATime` | `OneServer` for any number of processes | `Serial`: port, event and the place of each server agree, and change only under the mutex |
| `SensorServer_proofs!NobodyIsCutOff` | `NobodyCutOff` | `Confined`: sessions and sensors are only in a server in its main loop, `recheck` included, so the test made there is the one that counts |
| `SensorServer_proofs!ServerImplementsLease` | `Spec => LeaseHolds` | `Counts`: a server's reference count is the number of its sessions that hold the sensor, and a session opens it once; with `OneServer`, closing one server's sensor closes the only one |
| `SensorServer_proofs!AnswersAreOwn` | `OwnAnswer` | `Outstanding`: of a client that never waited in vain at most one request or reply is on its way, and it is the last one asked |
| `SensorServer_proofs!SensorTypes` | `TypeOK`, no count below zero | the parts above hold each other up in `IInv` |
| `SensorServer_proofs!MutexIsNeverKept` | only a client that looks for a server, and a server that starts, looks again or closes, ever has the named mutex | `JInv`, inductive over `IInv` |
| `SensorServer_proofs!UsersKeepTheSensor` | a client with the sensor has a session that serves, at the server on the port, whose sensor is open and counted for it | `Entitled`, part of `JInv`: the reply to OPEN, wherever it is, comes with a reference that only BYE or the end of the session takes back |
| `SensorServer_proofs!NoAnswerIsLost` | a client that waits in time has its request or its reply on the way, or an OPEN that a closing server cut off | `Due` and `QueuedAtPort`, parts of `JInv`; what `PatientIsServed` needs beside the fairness |
| `SensorServer_proofs!ReferencesEndWithSessions` | `NoReferenceLeaks`: a server none of whose sessions serves has a reference count of 0 | from `Counts` |
| `SensorServer_proofs!LeftoversDoNotReturn` | `LeftoversRunOut`: once every client is gone sessions only go on, requests become fewer, no server starts or comes back, a sensor is opened only by an old request | step by step from the types: what is left has a finite way to go |
| `FrameBuffers_proofs!BuffersDoNotLeak` | `NoLeak` for any number of clients and buffers | `PoolInv`. In the race of finding 4 a count can be too low and a buffer twice in the list, so the invariant bounds counts from above by the holders; that is all that leaking needs |
| `FrameBuffers_proofs!ThreeMoreAreEnough` | `ClientsPlusThree` | an empty list would leave every buffer to a holder other than the old stable one (`NoLeak`); there are `clients + 2` of those, and a finite set of more buffers cannot be covered by them |
| `FrameBuffers_proofs!OneLockKeepsCounts`, `OneLockKeepsFrames` | `Spec /\ []OneLock => []CountsExact` and `=> []GivenFrameIsKept` | The run `frames_torn` refutes `GivenFrameIsKept`. `OneLock` takes out of the behaviours just the overlap of two pairs of steps, the reader's and a session's; then `LockInv` is inductive: every count is the number of holders, the list holds each free buffer once, and the USB thread is the only holder of the buffer it fills. So that overlap is the whole cause of finding 4 |
| `Lights_proofs!LightsShowWhatTheyHear`, `LightsTypes` | `LastHeardShows` and `TypeOK` for any number of lights and colours | `BrickInv`; a colour reaches the pins in the call that reads it, wherever the thread rested |
| `Lights_proofs!UnisonIsStable` | `UnisonStays`: a light to which no older colour is on its way is sent none, and its lamp keeps the colour of the frame, while colour and light stay | the stable half of `UnisonReturns`; the fairness of the wire is needed to get there only |

Assumptions are those the modules name: `CMaxAssumption`, `PartyAssumption`, `LifeAssumption`,
`ServerAssumption`, `FlashAssumption`, `NoBlur` (the unit of intensity is fine enough that a division cut
towards zero never yields nothing), `LightsAssumption`, `SensorAssumption`, `FrameAssumption`. TLC evaluates them in the runs.

`SensorAssumption` also says that the value for "nothing" is no request number, `OneLockKeepsCounts` and
`OneLockKeepsFrames` have the hypothesis `[]OneLock`, which is not true of the code (finding 4) and is there to
isolate the cause, and the theorems on turning the wheel ask for `CMax > 2` (it is 255). `PartyImplementsHueWalk` and the
three theorems after it have the hypothesis `[]Room`, at most three guests with the program's four places; a fourth
makes them false (finding 3).

Only model-checked are the liveness properties, because TLAPS reaches neither fairness nor `ENABLED`. What they
rest on beside fairness is proved for most, so that only the last temporal step is left to TLC's instances:

| Model-checked | Proved for every instance |
|---|---|
| `KeepsCycling` | `ShiftsTurnTheWheel`: the variant, and that the initial colour is not jumped over |
| `EventuallyTracked` | `NobodyIsForgotten`, `TrackedStaysTracked`: nobody leaves the retry loop but for good |
| `EventuallySent` | `LifeParty_proofs!EveryFrameEnds`: the variant, and that no step waits |
| `OnsetsArrive` | `NoOnsetIsLost`, `EventsComeToTheirLights`, `OnlyGreetingsBlock`: the onset waits in order, comes nearer with every step of the main thread, and nothing but a duration of 0 stops that thread |
| `KeepsTicking` | `OnlyGreetingsBlock`; that a drain ends is not proved (it does because the onsets of a behaviour are bounded) |
| `FlashImplemented` | `ServerImplementsFlash`: all but the fairness of the ticks |
| `FlashEnds` | `FlashComesToItsEnd`: the variant |
| `UnisonReturns` | `UnisonIsStable`: once reached, it lasts |
| `PatientIsServed` | `NoAnswerIsLost`, `MutexIsNeverKept`: what it waits for is always on its way |
| `ServerLeaves` | `ReferencesEndWithSessions`, `LeftoversDoNotReturn`: nothing keeps the sensor open, and what the clients left runs out |

Every invariant and every action property that a passing run checks is proved.

## 6. Not modelled

* **Third-party code**: OpenNI, the WiShield library with its IP stack, the OSC library, the colour dialog. They
  appear as environment actions, taken from how the code here uses them. Of the Kinect driver two parts are
  modelled, where processes and threads meet; its USB protocol, image processing, compression and recording files
  transform data and keep no state that others share.
* **Sensor server**: a server that crashes, with the mutex and the event it leaves behind; `ShutdownServer`, which
  nothing calls; a client that ends while it holds the mutex; several sensors; what a property request changes in
  the sensor.
* **Frame buffers**: a change of the frame size (`Reallocate`, buffers marked for destruction), the removal of a
  stream with its last client, the reference that stays with the stream when `CreateStreamData` fails in
  `NewStreamImpl`, audio. That a client is told of every frame is not stated: `ReadStreams` may clear the flag of a
  frame that came meanwhile.
* **Colour conversion in floats** (`HSI2RGB.py`, `hsi2rgb` in the firmware and the Pure Data extension): pure
  functions of trigonometry, no state. For the same reason `LightFlash` leaves out hue and saturation, which
  act on no state of the machine.
* **Doubles**: colours move by whole levels and speeds by a fixed unit, so integers are exact for the first
  and a scale for the second.
* **Script and GUI tools**, network set-up: they send fixed messages or run fixed commands.
* **Logging, printing, formatting** of the command line.
* **More users than slots**: undefined behaviour, see the bounds. Exactly as many users as slots are modelled, with
  the layout of the repository's own build; another compiler may put another variable, or none, behind the array.
* **Durations of a flash that are not whole**: the analyser clips to 1..5 but may send fractions. `LightFlash` takes whole
  numbers of ticks, of at least one.

## 7. Plan

Done, in this order: `ColorWheel` and `HueWalk`; `UserTracking`; `MultiParty`, `LifeParty` and their
refinement; `LightServer`; `LightFlash`; `Lights`; the composition of `LightServer` with `LightFlash` and its
refinement; `SensorLease`, `SensorServer` and their refinement; `FrameBuffers`; the proofs above.

Next:

1. The radio driver of the bricks (`g2100.c`): its state machine around one buffer that outgoing frames, incoming
   frames and management replies share.
2. The newer firmware (`LightBrick_wip`), once a program talks to it.
3. In `FrameBuffers`, a change of the frame size while sessions hold buffers of the old size.
4. Proofs: a variant for `KeepsTicking`, from the bound on the onsets of a behaviour.
