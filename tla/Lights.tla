------------------------------- MODULE Lights -------------------------------
(***************************************************************************)
(* From the frame loop to the lamps: either program ends a frame with a    *)
(* run of varcolor.py, which sends the colour to one light after the other *)
(* in UDP datagrams; a light (LightBrick.ino and udpapp.c) boots, joins    *)
(* the network and hands every datagram it hears to a protothread that     *)
(* writes the lamp's pins.                                                 *)
(*                                                                         *)
(* The wire is external.  air[l] is the set of colours of which at least   *)
(* one datagram to l is on its way: datagrams may be lost, overtake each   *)
(* other and arrive more than once.                                        *)
(***************************************************************************)
EXTENDS Naturals, Sequences, Functions

CONSTANTS Colours,
          Nodes,          \* the lights in varcolor.py's order, nodes 3, 4, 5
          Dark, DimRed    \* what setup() shows

NoData == "poll"          \* the stack calls the application, uip_newdata() is false
Stray  == "stray"         \* a datagram that lo_message_deserialise refuses

ASSUME LightsAssumption ==
  /\ Nodes \in Seq(Range(Nodes)) /\ Nodes # <<>> /\ IsInjective(Nodes)
  /\ \A x \in {Dark, DimRed, NoData, Stray} : x \notin Colours

Lights == Range(Nodes)

VARIABLES program,       \* which of the two programs runs
          guest,         \* somebody is tracked
          colour,        \* r, g, b of the program
          next,          \* the node varcolor.py sends to next, 0 between frames
          air,
          brick,         \* mode of the radio, s.pt, s.state and the pins
          heard          \* history: the last colour handed to the light's
                         \*   application since it booted

vars == <<program, guest, colour, next, air, brick, heard>>

Unplugged == [mode |-> "off", pt |-> "start", state |-> "INIT", shows |-> Dark]

Init == /\ program \in {"multipleParty", "Lifeoftheparty"}
        /\ guest = FALSE /\ colour \in Colours /\ next = 0
        /\ air = [l \in Lights |-> {}]
        /\ brick = [l \in Lights |-> Unplugged]
        /\ heard = [l \in Lights |-> Dark]

-----------------------------------------------------------------------------
\* multipleParty sends at the end of every frame, Lifeoftheparty in the frames
\* in which somebody is tracked.
Sends == program = "multipleParty" \/ guest

ComeOrGo ==
  /\ guest' = ~guest
  /\ UNCHANGED <<program, colour, next, air, brick, heard>>

\* A frame: the colour becomes any colour, or stays, and varcolor.py starts.
\* The program waits for it (system), so no second frame starts meanwhile.
Frame(c) ==
  /\ next = 0 /\ Sends
  /\ colour' = c
  /\ next' = 1
  /\ UNCHANGED <<program, guest, air, brick, heard>>

SendForgetsLastNode ==
  /\ next > 0
  /\ air' = [air EXCEPT ![Nodes[next]] = @ \cup {colour}]
  /\ next' = (next + 1) % Len(Nodes)
  /\ UNCHANGED <<program, guest, colour, brick, heard>>
\* liblo.send to one light; after the last one varcolor.py is done.
SendToNode ==
  /\ next > 0
  /\ air' = [air EXCEPT ![Nodes[next]] = @ \cup {colour}]
  /\ next' = (next + 1) % (Len(Nodes) + 1)
  /\ UNCHANGED <<program, guest, colour, brick, heard>>

-----------------------------------------------------------------------------
AppCallYields(b, data) ==
  IF data = NoData \/ b.pt = "start" THEN [b EXCEPT !.pt = "wait", !.state = "LISTENING"]
  ELSE [b EXCEPT !.pt = "start", !.state = "INIT", !.shows = IF data = Stray THEN @ ELSE data]
AppCallStaysQuit(b, data) ==
  IF data = NoData THEN [b EXCEPT !.pt = "wait", !.state = "LISTENING"]
  ELSE [b EXCEPT !.pt = "start", !.state = "QUIT", !.shows = IF data = Stray THEN @ ELSE data]
\* One call of handle_connection.  From its start it reaches the wait in the
\* same call, so with data it parses at once; parse_msg always ends the loop,
\* and PT_END sends the thread back to its start.
AppCall(b, data) ==
  IF data = NoData THEN [b EXCEPT !.pt = "wait", !.state = "LISTENING"]
  ELSE [b EXCEPT !.pt = "start", !.state = "INIT", !.shows = IF data = Stray THEN @ ELSE data]

\* stack_process found no packet and the periodic timer expired, or found one
\* of somebody else's.
Call(l, data) ==
  /\ brick[l].mode = "ready"
  /\ brick' = [brick EXCEPT ![l] = AppCall(@, data)]
  /\ UNCHANGED <<program, guest, colour, next, air, heard>>

\* A datagram reaches l; more tells whether others with the colour follow.
\* A light that is not up hears nothing.
Arrive(l, c, more) ==
  /\ c \in air[l]
  /\ air' = [air EXCEPT ![l] = IF more THEN @ ELSE @ \ {c}]
  /\ IF brick[l].mode = "ready"
     THEN brick' = [brick EXCEPT ![l] = AppCall(@, c)] /\ heard' = [heard EXCEPT ![l] = c]
     ELSE UNCHANGED <<brick, heard>>
  /\ UNCHANGED <<program, guest, colour, next>>

Lose(l, c) ==
  /\ c \in air[l]
  /\ air' = [air EXCEPT ![l] = @ \ {c}]
  /\ UNCHANGED <<program, guest, colour, next, brick, heard>>

-----------------------------------------------------------------------------
PowerOn(l) ==
  /\ brick[l].mode = "off"
  /\ brick' = [brick EXCEPT ![l].mode = "joining", ![l].shows = DimRed]
  /\ UNCHANGED <<program, guest, colour, next, air, heard>>

\* WiFi.init returns once the radio is connected: stack_init calls
\* udpapp_init, setup() flashes blue and goes dark.
Joined(l) ==
  /\ brick[l].mode = "joining"
  /\ brick' = [brick EXCEPT ![l] = [Unplugged EXCEPT !.mode = "ready"]]
  /\ heard' = [heard EXCEPT ![l] = Dark]
  /\ UNCHANGED <<program, guest, colour, next, air>>

PowerOff(l) ==
  /\ brick[l].mode # "off"
  /\ brick' = [brick EXCEPT ![l] = Unplugged]
  /\ UNCHANGED <<program, guest, colour, next, air, heard>>

\* The radio reports the loss of its connection: the driver starts over and
\* comes back to the loop when it is connected again.  The pins stay as they
\* are, and so does the protothread.
LoseConnection(l) ==
  /\ brick[l].mode = "ready"
  /\ brick' = [brick EXCEPT ![l].mode = "lost"]
  /\ UNCHANGED <<program, guest, colour, next, air, heard>>
Reconnect(l) ==
  /\ brick[l].mode = "lost"
  /\ brick' = [brick EXCEPT ![l].mode = "ready"]
  /\ UNCHANGED <<program, guest, colour, next, air, heard>>

Next == \/ ComeOrGo \/ \E c \in Colours : Frame(c)
        \/ SendToNode
        \/ \E l \in Lights :
             \/ \E data \in {NoData, Stray} : Call(l, data)
             \/ \E c \in Colours, more \in BOOLEAN : Arrive(l, c, more)
             \/ \E c \in Colours : Lose(l, c)
             \/ PowerOn(l) \/ Joined(l) \/ PowerOff(l)
             \/ LoseConnection(l) \/ Reconnect(l)

Spec == Init /\ [][Next]_vars

\* The camera goes on delivering frames and varcolor.py sends three datagrams.
\* Of a wire that loses datagrams we assume the least that makes sending again
\* useful: a colour sent for ever is heard now and then, and no datagram stays
\* on its way for ever.
Fairness ==
  /\ WF_vars(\E c \in Colours : Frame(c)) /\ WF_vars(SendToNode)
  /\ \A l \in Lights, c \in Colours :
       /\ SF_vars(\E more \in BOOLEAN : Arrive(l, c, more))
       /\ WF_vars(Arrive(l, c, FALSE) \/ Lose(l, c))

FairSpec == Spec /\ Fairness

-----------------------------------------------------------------------------
TypeOK ==
  /\ program \in {"multipleParty", "Lifeoftheparty"} /\ guest \in BOOLEAN
  /\ colour \in Colours /\ next \in 0 .. Len(Nodes)
  /\ air \in [Lights -> SUBSET Colours]
  /\ brick \in [Lights -> [mode : {"off", "joining", "ready", "lost"},
                           pt : {"start", "wait"}, state : {"INIT", "LISTENING"},
                           shows : Colours \cup {Dark, DimRed}]]
  /\ heard \in [Lights -> Colours \cup {Dark}]

\* A light that is up shows the last colour its application was handed, in
\* whichever of its two resting places the protothread was called and however
\* polls and strays fall between: no datagram is swallowed.
LastHeardShows ==
  \A l \in Lights : brick[l].mode \in {"ready", "lost"} => brick[l].shows = heard[l]

\* "this script controls all three lights in unison" (varcolor.py:4).  Single
\* datagrams are lost, come late or find a light booting; but once the colour
\* stays, the program goes on sending and the lights stay up, all lights end
\* up with that colour and keep it.
UnisonReturns ==
  \A c \in Colours :
    <>[](colour = c /\ Sends /\ \A l \in Lights : brick[l].mode = "ready")
      => <>[](\A l \in Lights : brick[l].shows = c)
=============================================================================
