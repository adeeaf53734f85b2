--------------------------- MODULE Lights_proofs ---------------------------
(***************************************************************************)
(* A light that is up shows the last colour its application was handed,    *)
(* for any number of lights and colours and whatever the wire does.        *)
(*                                                                         *)
(* And once no older colour is on its way to a light, its lamp keeps the   *)
(* colour of the frame for as long as that colour and the light stay.      *)
(***************************************************************************)
EXTENDS Lights, TLAPS

Brick == [mode : {"off", "joining", "ready", "lost"}, pt : {"start", "wait"},
          state : {"INIT", "LISTENING"}, shows : Colours \cup {Dark, DimRed}]

\* The part of TypeOK that is about the lights, and the property.
BrickInv ==
  /\ brick \in [Lights -> Brick]
  /\ heard \in [Lights -> Colours \cup {Dark}]
  /\ LastHeardShows

LEMMA NodesAreListed == Len(Nodes) \in Nat \ {0}
<1>1. ASSUME NEW R, NEW q \in Seq(R), q # <<>> PROVE Len(q) \in Nat \ {0}
  BY <1>1
<1> QED
  BY <1>1, LightsAssumption

LEMMA NextIsNode ==
  ASSUME NEW n \in Nat, NEW k \in 0 .. n PROVE (k + 1) % (n + 1) \in 0 .. n
BY SMT

\* A colour that reaches the protothread reaches the pins in the same call,
\* wherever the thread rested.
LEMMA ColourReachesPins ==
  ASSUME NEW b \in Brick, NEW c \in Colours, c # NoData, c # Stray
  PROVE  /\ AppCall(b, c) \in Brick
         /\ AppCall(b, c).shows = c /\ AppCall(b, c).mode = b.mode
BY DEF AppCall, Brick

\* A poll or a stray leaves the pins alone.
LEMMA OthersLeavePins ==
  ASSUME NEW b \in Brick, NEW data \in {NoData, Stray}
  PROVE  /\ AppCall(b, data) \in Brick
         /\ AppCall(b, data).shows = b.shows /\ AppCall(b, data).mode = b.mode
BY DEF AppCall, Brick, NoData, Stray

LEMMA NextBrick ==
  ASSUME BrickInv, [Next]_vars PROVE BrickInv'
<1> USE DEF BrickInv, LastHeardShows
<1>1. ASSUME NEW l \in Lights, NEW data \in {NoData, Stray}, Call(l, data) PROVE BrickInv'
  <2>1. /\ AppCall(brick[l], data) \in Brick
        /\ AppCall(brick[l], data).shows = brick[l].shows
    BY OthersLeavePins
  <2> QED
    BY <1>1, <2>1 DEF Call
<1>2. ASSUME NEW l \in Lights, NEW c \in Colours, NEW more \in BOOLEAN, Arrive(l, c, more)
      PROVE BrickInv'
  <2>1. CASE brick[l].mode = "ready"
    <3>1. AppCall(brick[l], c) \in Brick /\ AppCall(brick[l], c).shows = c
      BY ColourReachesPins, LightsAssumption
    <3>2. /\ brick' = [brick EXCEPT ![l] = AppCall(brick[l], c)]
          /\ heard' = [heard EXCEPT ![l] = c]
      BY <1>2, <2>1 DEF Arrive
    <3> QED
      BY <3>1, <3>2
  <2>2. CASE brick[l].mode # "ready"
    BY <1>2, <2>2 DEF Arrive
  <2> QED
    BY <2>1, <2>2
<1>3. ASSUME NEW l \in Lights, PowerOn(l) PROVE BrickInv'
  BY <1>3 DEF PowerOn, Brick
<1>4. ASSUME NEW l \in Lights, Joined(l) PROVE BrickInv'
  BY <1>4 DEF Joined, Brick, Unplugged
<1>5. ASSUME NEW l \in Lights, PowerOff(l) PROVE BrickInv'
  BY <1>5 DEF PowerOff, Brick, Unplugged
<1>6. ASSUME NEW l \in Lights, LoseConnection(l) \/ Reconnect(l) PROVE BrickInv'
  BY <1>6 DEF LoseConnection, Reconnect, Brick
<1>7. CASE UNCHANGED <<brick, heard>>
  BY <1>7
<1>8. (\/ ComeOrGo \/ (\E c \in Colours : Frame(c)) \/ SendToNode \/ UNCHANGED vars
       \/ \E l \in Lights, c \in Colours : Lose(l, c)) => UNCHANGED <<brick, heard>>
  BY DEF ComeOrGo, Frame, SendToNode, Lose, vars
<1> QED
  BY <1>1, <1>2, <1>3, <1>4, <1>5, <1>6, <1>7, <1>8 DEF Next

\* udpapp.c swallows no datagram: whatever mixture of polls, strays, lost
\* connections and power cuts a light lives through, while it is up its lamp
\* shows the last colour that reached handle_connection.
THEOREM LightsShowWhatTheyHear == Spec => []LastHeardShows
<1>1. Init => BrickInv
  BY DEF Init, BrickInv, LastHeardShows, Brick, Unplugged
<1>2. BrickInv /\ [Next]_vars => BrickInv'
  BY NextBrick
<1>3. BrickInv => LastHeardShows
  BY DEF BrickInv
<1> QED
  BY <1>1, <1>2, <1>3, PTL DEF Spec

\* The programs, the wire and the lights keep their types for any number of
\* lights: varcolor.py sends to nodes that exist, one after the other.
THEOREM LightsTypes == Spec => []TypeOK
<1> DEFINE Sender == /\ program \in {"multipleParty", "Lifeoftheparty"} /\ guest \in BOOLEAN
                     /\ colour \in Colours /\ next \in 0 .. Len(Nodes)
                     /\ air \in [Lights -> SUBSET Colours]
<1>1. Init => BrickInv /\ Sender
  <2>1. Init => BrickInv
    BY DEF Init, BrickInv, LastHeardShows, Brick, Unplugged
  <2>2. Init => program \in {"multipleParty", "Lifeoftheparty"} /\ guest \in BOOLEAN
    BY Zenon DEF Init
  <2>3. Init => /\ colour \in Colours /\ next \in 0 .. Len(Nodes)
                /\ air \in [Lights -> SUBSET Colours]
    BY NodesAreListed DEF Init
  <2>4. QED BY <2>1, <2>2, <2>3
<1>2. Sender /\ [Next]_vars => Sender'
  <2> SUFFICES ASSUME Sender, [Next]_vars PROVE Sender'
    OBVIOUS
  <2>1. CASE ComeOrGo BY <2>1 DEF ComeOrGo
  <2>2. ASSUME NEW c \in Colours, Frame(c) PROVE Sender'
    BY <2>2, NodesAreListed DEF Frame
  <2>3. CASE SendToNode
    <3>1. next' \in 0 .. Len(Nodes)
      BY <2>3, NodesAreListed, NextIsNode DEF SendToNode
    <3>2. air' \in [Lights -> SUBSET Colours]
      BY <2>3 DEF SendToNode
    <3>3. QED BY <2>3, <3>1, <3>2 DEF SendToNode
  <2>4. ASSUME NEW l \in Lights, NEW data, Call(l, data) PROVE Sender'
    BY <2>4 DEF Call
  <2>5. ASSUME NEW l \in Lights, NEW c \in Colours, NEW more, Arrive(l, c, more) PROVE Sender'
    BY <2>5 DEF Arrive
  <2>6. ASSUME NEW l \in Lights, NEW c \in Colours, Lose(l, c) PROVE Sender'
    BY <2>6 DEF Lose
  <2>7. ASSUME NEW l \in Lights,
               PowerOn(l) \/ Joined(l) \/ PowerOff(l) \/ LoseConnection(l) \/ Reconnect(l)
        PROVE  Sender'
    BY <2>7 DEF PowerOn, Joined, PowerOff, LoseConnection, Reconnect
  <2>8. CASE UNCHANGED vars
    BY <2>8 DEF vars
  <2>9. QED BY <2>1, <2>2, <2>3, <2>4, <2>5, <2>6, <2>7, <2>8 DEF Next
<1>3. BrickInv /\ [Next]_vars => BrickInv'
  BY NextBrick
<1>4. BrickInv /\ Sender => TypeOK
  BY DEF BrickInv, TypeOK, Brick
<1> QED
  BY <1>1, <1>2, <1>3, <1>4, PTL DEF Spec
-----------------------------------------------------------------------------
Up(l) == brick[l].mode \in {"ready", "lost"}

\* Nothing that is still on its way to l has another colour than the program's.
NothingOld(l) == air[l] \subseteq {colour}

\* "controls all three lights in unison" (varcolor.py:4), as far as it does not
\* depend on what the wire delivers: while the colour stays and a light is up,
\* no send, loss, duplicate, poll, stray or reconnection brings an old colour
\* back to it once none is on its way, and then it keeps the program's colour
\* once it shows it.
UnisonStays ==
  [][\A l \in Lights : colour' = colour /\ Up(l) /\ Up(l)' /\ NothingOld(l)
       => /\ NothingOld(l)'
          /\ brick[l].shows = colour => brick'[l].shows = colour]_vars

LEMMA NothingOldStays ==
  ASSUME NEW l \in Lights, air \in [Lights -> SUBSET Colours], [Next]_vars,
         colour' = colour, NothingOld(l)
  PROVE  NothingOld(l)'
<1> USE DEF NothingOld
<1>1. CASE SendToNode
  BY <1>1 DEF SendToNode
<1>2. ASSUME NEW k \in Lights, NEW c \in Colours, NEW more \in BOOLEAN, Arrive(k, c, more)
      PROVE  NothingOld(l)'
  BY <1>2 DEF Arrive
<1>3. ASSUME NEW k \in Lights, NEW c \in Colours, Lose(k, c) PROVE NothingOld(l)'
  BY <1>3 DEF Lose
<1>4. CASE UNCHANGED air
  BY <1>4
<1>5. \/ SendToNode
      \/ \E k \in Lights, c \in Colours, more \in BOOLEAN : Arrive(k, c, more)
      \/ \E k \in Lights, c \in Colours : Lose(k, c)
      \/ UNCHANGED air
  BY DEF Next, vars, ComeOrGo, Frame, Call, PowerOn, Joined, PowerOff, LoseConnection, Reconnect
<1> QED
  BY <1>1, <1>2, <1>3, <1>4, <1>5

LEMMA ColourStaysShown ==
  ASSUME NEW l \in Lights, BrickInv, [Next]_vars, Up(l), Up(l)', NothingOld(l),
         brick[l].shows = colour
  PROVE  brick'[l].shows = colour
<1> USE DEF BrickInv
<1>1. ASSUME NEW k \in Lights, NEW data \in {NoData, Stray}, Call(k, data)
      PROVE  brick'[l].shows = colour
  <2>1. AppCall(brick[k], data).shows = brick[k].shows
    BY OthersLeavePins
  <2> QED
    BY <1>1, <2>1 DEF Call
<1>2. ASSUME NEW k \in Lights, NEW c \in Colours, NEW more \in BOOLEAN, Arrive(k, c, more)
      PROVE  brick'[l].shows = colour
  <2>1. AppCall(brick[k], c).shows = c
    BY ColourReachesPins, LightsAssumption
  <2>2. k = l => c = colour
    BY <1>2 DEF Arrive, NothingOld
  <2> QED
    BY <1>2, <2>1, <2>2 DEF Arrive
<1>3. ASSUME NEW k \in Lights, PowerOn(k) \/ Joined(k) \/ PowerOff(k)
      PROVE  brick'[l].shows = colour
  <2>1. CASE k = l
    BY <1>3, <2>1 DEF PowerOn, Joined, PowerOff, Up, Unplugged
  <2>2. CASE k # l
    BY <1>3, <2>2 DEF PowerOn, Joined, PowerOff
  <2> QED
    BY <2>1, <2>2
<1>4. ASSUME NEW k \in Lights, LoseConnection(k) \/ Reconnect(k)
      PROVE  brick'[l].shows = colour
  BY <1>4 DEF LoseConnection, Reconnect, Brick
<1>5. CASE UNCHANGED brick
  BY <1>5
<1>6. (\/ ComeOrGo \/ (\E c \in Colours : Frame(c)) \/ SendToNode \/ UNCHANGED vars
       \/ \E k \in Lights, c \in Colours : Lose(k, c)) => UNCHANGED brick
  BY DEF ComeOrGo, Frame, SendToNode, Lose, vars
<1> QED
  BY <1>1, <1>2, <1>3, <1>4, <1>5, <1>6 DEF Next

\* The stable half of UnisonReturns: what the fairness of the wire brings about
\* for one light after the other, nothing takes away again.
THEOREM UnisonIsStable == Spec => UnisonStays
<1>1. TypeOK /\ BrickInv /\ [Next]_vars =>
        [\A l \in Lights : colour' = colour /\ Up(l) /\ Up(l)' /\ NothingOld(l)
           => /\ NothingOld(l)'
              /\ brick[l].shows = colour => brick'[l].shows = colour]_vars
  <2> SUFFICES ASSUME TypeOK, BrickInv, [Next]_vars, NEW l \in Lights,
                      colour' = colour, Up(l), Up(l)', NothingOld(l)
               PROVE  /\ NothingOld(l)'
                      /\ brick[l].shows = colour => brick'[l].shows = colour
    OBVIOUS
  <2>1. NothingOld(l)'
    BY NothingOldStays DEF TypeOK
  <2>2. brick[l].shows = colour => brick'[l].shows = colour
    BY ColourStaysShown
  <2> QED
    BY <2>1, <2>2
<1>2. Init => BrickInv
  BY DEF Init, BrickInv, LastHeardShows, Brick, Unplugged
<1>3. BrickInv /\ [Next]_vars => BrickInv'
  BY NextBrick
<1> QED
  BY <1>1, <1>2, <1>3, LightsTypes, PTL DEF Spec, UnisonStays
=============================================================================
