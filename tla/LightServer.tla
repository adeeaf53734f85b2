----------------------------- MODULE LightServer -----------------------------
(***************************************************************************)
(* The two threads of the puredata light server.  liblo's server thread    *)
(* runs onset_callback (lightserver.py lines 13-17) for each onset message *)
(* that the audio analyser sends; the main thread greets every light with  *)
(* an onset of its own and then ticks the lights for ever (lines 25-35).   *)
(* They meet in one bounded queue: eventqueue is an attribute of the class *)
(* LightObject (lightevents.py line 112), so all lights share it, and      *)
(* whichever light ticks handles the events of all of them.                *)
(*                                                                         *)
(* Onsets are numbered in the order of their arrival; 0 is the greeting.   *)
(* One of the lights, Watched, carries the flash machine of LightFlash,    *)
(* whose actions are here parts of the main thread's.                      *)
(***************************************************************************)
EXTENDS LightFlash, Sequences

CONSTANTS N,            \* number of lights
          Watched,      \* the one whose flash is followed
          Cap,          \* capacity of the queue, 128
          Greeting,     \* duration that the greetings ask for, 10
          MaxOnsets     \* bound on the onsets of a behaviour

ASSUME ServerAssumption ==
  /\ N \in Nat \ {0} /\ Cap \in Nat \ {0} /\ Watched \in 1 .. N
  /\ MaxOnsets \in Nat /\ MaxFlashes > MaxOnsets
  /\ Full \in Intensities /\ Greeting \in Ticks

Lights == 1 .. N

VARIABLES main,         \* where the main thread is
          light,        \* the light of its current loop
          server,       \* where the server thread is
          next,         \* the light whose event it puts next
          onset,        \* onsets received so far
          message,      \* what the last of them asks for
          queue,        \* eventqueue: a light, an onset and its message each
          handled       \* per light, the last onset it has handled

vars == <<main, light, server, next, onset, message, queue, handled, flashVars>>

Message(i, t) == [intensity |-> i, ticks |-> t]
Event(l, k, m) == [light |-> l, onset |-> k, message |-> m]

Init == /\ main = "boot" /\ light = 1
        /\ server = "off" /\ next = 1
        /\ onset = 0 /\ message = Message(Full, Greeting)
        /\ queue = <<>>
        /\ handled = [l \in Lights |-> 0]
        /\ FlashInit

PutDropsWhenFull(e) == queue' = IF Len(queue) < Cap THEN Append(queue, e) ELSE queue
PutUnbounded(e)     == queue' = Append(queue, e)
PutInFront(e)       == Len(queue) < Cap /\ queue' = <<e>> \o queue
\* Queue.put: blocks while the queue is full.
Put(e) == Len(queue) < Cap /\ queue' = Append(queue, e)

StartServer ==
  /\ main = "boot"
  /\ main' = "greet" /\ server' = "idle"
  /\ UNCHANGED <<light, next, onset, message, queue, handled, flashVars>>

\* The initial onsets, lines 27-28.
Greet ==
  /\ main = "greet"
  /\ Put(Event(light, 0, Message(Full, Greeting)))
  /\ IF light = N THEN main' = "tick" /\ light' = 1
                  ELSE main' = main /\ light' = light + 1
  /\ UNCHANGED <<server, next, onset, message, handled, flashVars>>

\* handletick up to the colour it sends, lightevents.py lines 119-125.
Tick ==
  /\ main = "tick"
  /\ main' = "check"
  /\ IF light = Watched /\ state # "idle" THEN FlashTick ELSE UNCHANGED flashVars
  /\ UNCHANGED <<light, server, next, onset, message, queue, handled>>

CheckEmptyStays ==
  /\ main = "check"
  /\ IF queue # <<>> THEN main' = "get" /\ light' = light
     ELSE main' = "sleep" /\ light' = light
  /\ UNCHANGED <<server, next, onset, message, queue, handled, flashVars>>
\* The rest of handletick drains the queue: empty() ...
CheckEmpty ==
  /\ main = "check"
  /\ IF queue # <<>> THEN main' = "get" /\ light' = light
     ELSE IF light < N THEN main' = "tick" /\ light' = light + 1
     ELSE main' = "sleep" /\ light' = 1
  /\ UNCHANGED <<server, next, onset, message, queue, handled, flashVars>>

Handle(e) ==
  /\ handled' = [handled EXCEPT ![e.light] = IF e.onset = 0 THEN @ ELSE e.onset]
  /\ IF e.light = Watched THEN Onset(e.message.intensity, e.message.ticks)
                          ELSE UNCHANGED flashVars

GetInARow ==
  /\ main = "get" /\ queue # <<>>
  /\ Handle(Head(queue)) /\ queue' = Tail(queue)
  /\ UNCHANGED <<main, light, server, next, onset, message>>
\* ... and then get(), which would block on an empty queue.  eventhandler
\* divides by the duration, whichever light it is for.
Get ==
  /\ main = "get" /\ queue # <<>>
  /\ Handle(Head(queue)) /\ queue' = Tail(queue)
  /\ main' = IF Head(queue).message.ticks = 0 THEN "dead" ELSE "check"
  /\ UNCHANGED <<light, server, next, onset, message>>

WakeUp ==
  /\ main = "sleep"
  /\ main' = "tick"
  /\ UNCHANGED <<light, server, next, onset, message, queue, handled, flashVars>>

Main == StartServer \/ Greet \/ Tick \/ CheckEmpty \/ Get \/ WakeUp

\* An onset message arrives; the callback then puts one event per light.
Receive ==
  /\ server = "idle" /\ onset < MaxOnsets
  /\ onset' = onset + 1
  /\ \E i \in Intensities, t \in Ticks : message' = Message(i, t)
  /\ server' = "put" /\ next' = 1
  /\ UNCHANGED <<main, light, queue, handled, flashVars>>

PutEvent ==
  /\ server = "put"
  /\ Put(Event(next, onset, message))
  /\ IF next = N THEN server' = "idle" /\ next' = 1
                 ELSE server' = server /\ next' = next + 1
  /\ UNCHANGED <<main, light, onset, message, handled, flashVars>>

Next == Main \/ Receive \/ PutEvent

Spec == Init /\ [][Next]_vars

\* Both threads are scheduled again and again; nothing makes the analyser
\* send an onset.
FairSpec == Spec /\ WF_vars(Main) /\ WF_vars(PutEvent)

-----------------------------------------------------------------------------
Messages == [intensity : Intensities, ticks : Ticks]
Events == [light : Lights, onset : 0 .. MaxOnsets, message : Messages]

ThreadsOK == /\ main \in {"boot", "greet", "tick", "check", "get", "sleep", "dead"}
             /\ light \in Lights
             /\ server \in {"off", "idle", "put"}
             /\ next \in Lights
             /\ onset \in 0 .. MaxOnsets
             /\ message \in Messages
             /\ queue \in Seq(Events) /\ Len(queue) <= Cap
             /\ handled \in [Lights -> 0 .. MaxOnsets]

TypeOK == ThreadsOK /\ FlashOK

\* empty() and get() are two calls, and the server thread runs between them:
\* still the main thread never blocks in get(), which would stop every light,
\* because nobody else takes from the queue.
GetNeverBlocks == main = "get" => queue # <<>>

\* Onsets waiting for a light, and onsets that the callback has put for it.
Waiting(l) == {k \in 1 .. MaxOnsets :
                 \E i \in DOMAIN queue : queue[i].light = l /\ queue[i].onset = k}
PutFor(l)  == IF server = "put" /\ l >= next THEN onset - 1 ELSE onset

Before(d, e) == d.onset < e.onset \/ (d.onset = e.onset /\ d.light < e.light)

\* No event is lost, doubled or overtaken between the callback and the light,
\* whichever light does the draining: what waits for a light is every onset
\* put for it since the last it handled, in the order of arrival.
NothingLost ==
  /\ \A l \in Lights : Waiting(l) = handled[l] + 1 .. PutFor(l)
  /\ \A i, j \in DOMAIN queue :
       i < j /\ queue[i].onset > 0 /\ queue[j].onset > 0 => Before(queue[i], queue[j])

\* Lights never drift apart: at any moment they are at most one onset apart,
\* the earlier light ahead (the queue may hand half a batch to one tick and
\* the rest to the next).
InStep == \A l, m \in Lights : l < m => handled[l] - handled[m] \in {0, 1}

Ticking == main \notin {"boot", "greet", "dead"}

\* Once the main loop runs, every onset gets to every light, also when the
\* server thread had to wait for room in the queue.
OnsetsArrive ==
  \A k \in 1 .. MaxOnsets : \A l \in Lights :
    Ticking /\ server = "put" /\ onset = k ~> handled[l] >= k

\* Once it runs, no light stops ticking.
KeepsTicking == \A l \in Lights : Ticking ~> main = "tick" /\ light = l

\* In all this the watched light is a LightFlash that is ticked for ever: no
\* interleaving of the threads, and no drain by another light, does to it
\* anything but a tick or an onset (checked with its fairness; the flash
\* ends once the onsets pause).
FlashImplemented == FairFlash

\* "SaikoControl Light Server Started!" (lightserver.py line 30): the main
\* thread gets past its greetings.  The code breaks this: the server thread
\* already runs, and if it fills the queue first, nobody is left to drain it.
GetsStarted == <>Ticking
=============================================================================
