------------------------ MODULE SensorServer_proofs -------------------------
(***************************************************************************)
(* What the sensor server promises for any number of clients and servers   *)
(* and any number of requests.  The inductive invariant has four parts:    *)
(* who has the mutex and the port (Serial), which servers can have         *)
(* sessions or a sensor (Confined), what the reference counts count        *)
(* (Counts), and what is on its way between a client and its session       *)
(* (Outstanding).                                                          *)
(*                                                                         *)
(* A second invariant (JInv) is about what a client waits for: who may     *)
(* hold the mutex, that a client with the sensor has a server that serves, *)
(* and where the answer to its last request is.                            *)
(***************************************************************************)
EXTENDS SensorServer, FiniteSetTheorems, TLAPS

Live  == {"serving", "ending", "ended"}
Busy  == {"accept", "clean", "bury", "idle", "lock", "recheck"}
Early == {"off", "look", "start", "wait", "connect", "retry"}

\* The mutex covers every change of the event and of the port.
Serial ==
  /\ \A s \in Servers : spc[s] \in {"init", "ready", "recheck", "close"} => mutex = s
  /\ \A c \in Clients : cpc[c] = "look" => mutex = c
  /\ \A s \in Servers : spc[s] \in Serving <=> port = s
  /\ event => port \in Servers /\ spc[port] \notin {"ready", "close"}
  /\ ~event => port = None \/ spc[port] \in {"ready", "close"}

\* Only a server in its main loop has sessions or a sensor.
Confined ==
  /\ \A c \in Clients : cpc[c] \in Early => host[c] = None /\ sess[c] = "none"
  /\ \A c \in Clients : sess[c] \in Live => host[c] \in Servers /\ spc[host[c]] \in Busy
  /\ \A s \in Servers : sensor[s] => spc[s] \in Busy

Holding(s) == {c \in Clients : holds[c] /\ host[c] = s}

\* A reference is held by a session that serves, and by nobody else.
Counts ==
  /\ \A c \in Clients : holds[c] => sess[c] = "serving" /\ sensor[host[c]]
  /\ \A s \in Servers : refs[s] = Cardinality(Holding(s))
  /\ \A c \in Clients : \A i \in DOMAIN inbox[c] :
       inbox[c][i] = 0 => i = 1 /\ ~holds[c]

\* What a client that has never waited in vain has asked for and not got: it
\* is at "at", requests are in "in", replies in "out", one in the slot "got".
InOrder(at, in, out, got, last, tardy) ==
  /\ at \in Early \cup {"opening"} => ~tardy /\ got = None
  /\ at \in Early => in = <<>> /\ out = <<>>
  /\ at = "opening" => Len(in) + Len(out) <= 1
  /\ at = "using" /\ ~tardy => in = <<>> /\ out = <<>> /\ got = None
  /\ at \in {"asking", "leaving"} /\ ~tardy =>
       /\ Len(in) + Len(out) <= 1
       /\ got # None => got = last /\ in = <<>> /\ out = <<>>
       /\ \A i \in DOMAIN in : in[i] = last
       /\ \A i \in DOMAIN out : out[i].to = last
Orderly(c) == InOrder(cpc[c], inbox[c], replies[c], slot[c], asked[c], late[c])
Outstanding == \A c \in Clients : Orderly(c)

-----------------------------------------------------------------------------
\* What the actions leave alone.
LEMMA SessionFrame ==
  ASSUME NEW c \in Clients, Session(c)
  PROVE  UNCHANGED <<mutex, event, port, cpc, spc, host, slot, asked, late>>
<1> USE DEF net, wait, service
<1>1. CASE OpenSensor(c) BY <1>1 DEF OpenSensor
<1>2. CASE Answer(c) BY <1>2 DEF Answer
<1>3. CASE HandleBye(c) BY <1>3 DEF HandleBye
<1>4. CASE HangUp(c) BY <1>4 DEF HangUp
<1>5. CASE EndSession(c) BY <1>5 DEF EndSession
<1>6. QED BY <1>1, <1>2, <1>3, <1>4, <1>5 DEF Session

\* What a session's step does to the sensor, its count and the request read.
LEMMA OpenEffect ==
  ASSUME NEW c \in Clients, OpenSensor(c)
  PROVE  /\ sess[c] = "serving" /\ sess' = sess
         /\ inbox[c] # <<>> /\ Head(inbox[c]) = 0
         /\ inbox' = [inbox EXCEPT ![c] = Tail(@)]
         /\ \/ TakeSensor(c)
            \/ UNCHANGED <<sensor, refs, holds>>
<1>1. Request(c, {0}) /\ sess' = sess /\ (TakeSensor(c) \/ UNCHANGED <<sensor, refs, holds>>)
  BY DEF OpenSensor
<1>2. QED BY <1>1 DEF Request

LEMMA OtherEffect ==
  ASSUME NEW c \in Clients, Answer(c) \/ HandleBye(c) \/ HangUp(c) \/ EndSession(c)
  PROVE  /\ sess[c] \in Live /\ sensor' = sensor
         /\ \/ sess' = sess /\ UNCHANGED <<holds, refs>>
            \/ /\ sess[c] = "ending" /\ sess' = [sess EXCEPT ![c] = "ended"]
               /\ UNCHANGED <<holds, refs>>
            \/ sess' = [sess EXCEPT ![c] = "ending"] /\ ReleaseSensor(c)
<1>1. CASE Answer(c)
  BY <1>1 DEF Answer, Request, Live, service
<1>2. CASE HandleBye(c)
  BY <1>2 DEF HandleBye, Request, Live
<1>3. CASE HangUp(c)
  BY <1>3 DEF HangUp, Live
<1>4. CASE EndSession(c)
  BY <1>4 DEF EndSession, Live
<1>5. QED BY <1>1, <1>2, <1>3, <1>4

LEMMA ClientFrame ==
  ASSUME NEW c \in Clients, Client(c) \/ EndProcess(c)
  PROVE  UNCHANGED <<event, port, sess, holds, sensor, refs>>
BY DEF Client, EndProcess, LockToLook, LookUnlocked, StartServer, WaitForServer, Connect,
       ReadInitialState, Ask, SayBye, Listen, TakeReply, ReplyTimeout, service

LEMMA ServerFrame ==
  ASSUME NEW s \in Servers, Server(s)
  PROVE  UNCHANGED <<cpc, host, inbox, replies, slot, asked, late, holds, refs>>
<1> USE DEF net, wait, service
<1>1. CASE Boot(s) BY <1>1 DEF Boot
<1>2. CASE InitServer(s) BY <1>2 DEF InitServer
<1>3. CASE SignalRunning(s) BY <1>3 DEF SignalRunning
<1>4. CASE \E c \in Clients : Accept(s, c) BY <1>4 DEF Accept
<1>5. CASE AcceptTimeout(s) BY <1>5 DEF AcceptTimeout
<1>6. CASE CloseSensor(s) BY <1>6 DEF CloseSensor
<1>7. CASE KeepSensor(s) BY <1>7 DEF KeepSensor
<1>8. CASE CleanUpSessions(s) BY <1>8 DEF CleanUpSessions
<1>9. CASE WantShutdown(s) \/ GoOn(s) \/ LockToLeave(s) \/ StayUnlocked(s)
  BY <1>9 DEF WantShutdown, GoOn, LockToLeave, StayUnlocked
<1>10. CASE Recheck(s) BY <1>10 DEF Recheck
<1>11. CASE CloseSocket(s) BY <1>11 DEF CloseSocket
<1>12. QED BY <1>1, <1>2, <1>3, <1>4, <1>5, <1>6, <1>7, <1>8, <1>9, <1>10, <1>11 DEF Server

-----------------------------------------------------------------------------
LEMMA SerialStep == ASSUME TypeOK, Serial, [Next]_vars PROVE Serial'
<1> USE SensorAssumption DEF TypeOK, Serial, Serving
<1>1. ASSUME NEW c \in Clients, Session(c) PROVE Serial'
  BY <1>1, SessionFrame
<1>2. ASSUME NEW c \in Clients, Client(c) \/ EndProcess(c) PROVE Serial'
  <2>1. CASE LockToLook(c)
    BY <2>1 DEF LockToLook, Goto
  <2>2. CASE LookUnlocked(c)
    BY <2>2 DEF LookUnlocked, Goto
  <2>3. CASE StartServer(c)
    <3>1. UNCHANGED <<mutex, event, port>> /\ (\A d \in Clients : cpc'[d] = "look" => cpc[d] = "look")
      BY <2>3 DEF StartServer, Goto
    <3>2. \A s \in Servers : spc'[s] = spc[s] \/ (spc[s] = "none" /\ spc'[s] = "boot")
      BY <2>3 DEF StartServer, Run
    <3>3. QED BY <3>1, <3>2
  <2>4. CASE ~(LockToLook(c) \/ LookUnlocked(c) \/ StartServer(c))
    <3>1. UNCHANGED <<mutex, spc>> /\ (\A d \in Clients : cpc'[d] = "look" => cpc[d] = "look")
      BY <1>2, <2>4 DEF Client, EndProcess, WaitForServer, Connect, ReadInitialState, Ask,
         SayBye, Listen, TakeReply, ReplyTimeout, Answered, Goto
    <3>2. QED BY <1>2, <3>1, ClientFrame
  <2>5. QED BY <2>1, <2>2, <2>3, <2>4
<1>3. ASSUME NEW s \in Servers, Server(s) PROVE Serial'
  <2> cpc' = cpc
    BY <1>3, ServerFrame
  <2>1. CASE Boot(s) BY <2>1 DEF Boot, Run
  <2>2. CASE InitServer(s)
    <3>1. CASE ~event /\ port = None /\ Run(s, "init", "ready") /\ port' = s /\ UNCHANGED mutex
      BY <2>2, <3>1 DEF InitServer, Run
    <3>2. CASE Run(s, "init", "exit") /\ mutex' = None /\ UNCHANGED port
      BY <2>2, <3>2 DEF InitServer, Run
    <3>3. QED BY <2>2, <3>1, <3>2 DEF InitServer
  <2>3. CASE SignalRunning(s) BY <2>3 DEF SignalRunning, Run
  <2>4. CASE LockToLeave(s) BY <2>4 DEF LockToLeave, Run
  <2>5. CASE Recheck(s)
    <3>1. CASE Run(s, "recheck", "close") /\ event' = FALSE /\ UNCHANGED <<mutex, port>>
      BY <3>1 DEF Run
    <3>2. CASE Run(s, "recheck", "accept") /\ mutex' = None /\ UNCHANGED <<event, port>>
      BY <3>2 DEF Run
    <3>3. QED BY <2>5, <3>1, <3>2 DEF Recheck
  <2>6. CASE CloseSocket(s) BY <2>6 DEF CloseSocket, Run
  <2>7. CASE ~(Boot(s) \/ InitServer(s) \/ SignalRunning(s) \/ LockToLeave(s)
               \/ Recheck(s) \/ CloseSocket(s))
    <3>1. /\ UNCHANGED <<mutex, event, port>>
          /\ spc' = spc \/ (spc[s] \in Busy \ {"recheck"} /\ \E b \in Busy \ {"recheck"} : spc' = [spc EXCEPT ![s] = b])
      BY <1>3, <2>7 DEF Server, Accept, AcceptTimeout, CloseSensor, KeepSensor,
         CleanUpSessions, WantShutdown, GoOn, StayUnlocked, Run, Busy
    <3>2. QED BY <3>1 DEF Busy
  <2>8. QED BY <2>1, <2>2, <2>3, <2>4, <2>5, <2>6, <2>7
<1>4. CASE UNCHANGED vars
  BY <1>4 DEF vars, net, wait, service
<1>5. QED BY <1>1, <1>2, <1>3, <1>4 DEF Next
-----------------------------------------------------------------------------
LEMMA ConfinedStep == ASSUME TypeOK, Confined, [Next]_vars PROVE Confined'
<1> USE SensorAssumption DEF TypeOK, Confined, Live, Busy, Early
<1>1. ASSUME NEW c \in Clients, Session(c) PROVE Confined'
  <2>1. UNCHANGED <<cpc, spc, host>>
    BY <1>1, SessionFrame
  <2>0. CASE Answer(c) \/ HandleBye(c) \/ HangUp(c) \/ EndSession(c)
    <3>1. sess[c] \in Live /\ sensor' = sensor
      BY <2>0, OtherEffect, Zenon
    <3>2. sess' = sess \/ \E r \in {"ending", "ended"} : sess' = [sess EXCEPT ![c] = r]
      BY <2>0, OtherEffect, Zenon
    <3>3. QED BY <2>1, <3>1, <3>2
  <2>2. CASE OpenSensor(c)
    <3>1. sess[c] = "serving" /\ sess' = sess
      BY <2>2, OpenEffect, Zenon
    <3>2. \A s \in Servers : sensor'[s] => sensor[s] \/ s = host[c]
      <4>1. sensor' = sensor \/ sensor' = [sensor EXCEPT ![host[c]] = TRUE]
        BY <2>2, OpenEffect, Zenon DEF TakeSensor
      <4>2. QED BY <4>1
    <3>3. QED BY <2>1, <3>1, <3>2
  <2>3. QED BY <1>1, <2>0, <2>2 DEF Session
<1>2. ASSUME NEW c \in Clients, Client(c) \/ EndProcess(c) PROVE Confined'
  <2>1. UNCHANGED <<sess, sensor>>
    BY <1>2, ClientFrame
  <2>2. \A d \in Clients : cpc'[d] \in Early => cpc[d] \in Early
    BY <1>2 DEF Client, EndProcess, LockToLook, LookUnlocked, StartServer, WaitForServer,
       Connect, ReadInitialState, Ask, SayBye, Listen, TakeReply, ReplyTimeout, Answered, Goto
  <2>3. CASE Connect(c)
    <3>1. spc' = spc /\ (\A d \in Clients : host'[d] = host[d] \/ (d = c /\ cpc[c] \in Early /\ cpc'[c] \notin Early))
      BY <2>3 DEF Connect, Goto
    <3>2. QED BY <2>1, <2>2, <3>1
  <2>4. CASE ~Connect(c)
    <3>1. host' = host
      BY <1>2, <2>4 DEF Client, EndProcess, LockToLook, LookUnlocked, StartServer, WaitForServer,
         ReadInitialState, Ask, SayBye, Listen, TakeReply, ReplyTimeout, net
    <3>2. \A s \in Servers : spc'[s] = spc[s] \/ (spc[s] = "none" /\ spc'[s] = "boot")
      BY <1>2, <2>4 DEF Client, EndProcess, LockToLook, LookUnlocked, StartServer, WaitForServer,
         ReadInitialState, Ask, SayBye, Listen, TakeReply, ReplyTimeout, Run
    <3>3. QED BY <2>1, <2>2, <3>1, <3>2
  <2>5. QED BY <2>3, <2>4
<1>3. ASSUME NEW s \in Servers, Server(s) PROVE Confined'
  <2>0. UNCHANGED <<cpc, host>>
    BY <1>3, ServerFrame
  <2>1. CASE Boot(s) \/ SignalRunning(s)
    <3>1. sess' = sess /\ sensor' = sensor
      BY <2>1 DEF Boot, SignalRunning, service
    <3>2. \E b \in {"init", "exit", "accept"} :
             spc[s] \in {"boot", "ready"} /\ spc' = [spc EXCEPT ![s] = b]
      BY <2>1 DEF Boot, SignalRunning, Run
    <3>3. QED BY <2>0, <3>1, <3>2
  <2>2. CASE InitServer(s)
    <3>1. sess' = sess /\ sensor' = sensor
          /\ \E b \in {"ready", "exit"} : spc[s] = "init" /\ spc' = [spc EXCEPT ![s] = b]
      BY <2>2 DEF InitServer, Run, service
    <3>2. QED BY <2>0, <3>1
  <2>3. ASSUME NEW c \in Clients, Accept(s, c) PROVE Confined'
    <3>1. /\ UNCHANGED <<spc, sensor>> /\ host[c] = s /\ spc[s] \in Busy
          /\ \A d \in Clients : d # c => sess'[d] = sess[d]
      BY <2>3 DEF Accept, Queued
    <3>2. cpc[c] \notin Early
      BY <3>1
    <3>3. QED BY <2>0, <3>1, <3>2
  <2>4. CASE AcceptTimeout(s) \/ KeepSensor(s) \/ WantShutdown(s) \/ GoOn(s)
             \/ LockToLeave(s) \/ StayUnlocked(s)
    <3>1. sess' = sess /\ sensor' = sensor
          /\ \E b \in Busy : spc[s] \in Busy /\ spc' = [spc EXCEPT ![s] = b]
      BY <2>4 DEF AcceptTimeout, KeepSensor, WantShutdown, GoOn, LockToLeave, StayUnlocked, Run, service
    <3>2. QED BY <2>0, <3>1
  <2>5. CASE CloseSensor(s)
    BY <2>0, <2>5 DEF CloseSensor, Run
  <2>6. CASE CleanUpSessions(s)
    <3>1. /\ sensor' = sensor /\ spc[s] \in Busy /\ spc' = [spc EXCEPT ![s] = "idle"]
          /\ \A d \in Clients : sess'[d] = sess[d] \/ (sess'[d] = "cut" /\ host[d] = s)
      BY <2>6 DEF CleanUpSessions, Run, Listed
    <3>2. QED BY <2>0, <3>1
  <2>7. CASE Recheck(s)
    <3>1. CASE CanShutdown(s) /\ Run(s, "recheck", "close")
      <4>1. UNCHANGED <<sess, sensor>>
        BY <2>7 DEF Recheck, service
      <4>2. ~sensor[s] /\ \A c \in Clients : ~(host[c] = s /\ sess[c] \in Live)
        BY <3>1 DEF CanShutdown, Listed
      <4>3. QED BY <2>0, <3>1, <4>1, <4>2 DEF Run
    <3>2. CASE Run(s, "recheck", "accept")
      BY <2>0, <2>7, <3>2 DEF Recheck, Run, service
    <3>3. QED BY <2>7, <3>1, <3>2 DEF Recheck
  <2>8. CASE CloseSocket(s)
    <3>1. /\ sensor' = sensor /\ spc[s] = "close" /\ spc' = [spc EXCEPT ![s] = "exit"]
          /\ \A d \in Clients : sess'[d] = sess[d] \/ (sess'[d] = "cut" /\ host[d] = s)
      BY <2>8 DEF CloseSocket, Run, Queued
    <3>2. QED BY <2>0, <3>1
  <2>9. QED BY <1>3, <2>1, <2>2, <2>3, <2>4, <2>5, <2>6, <2>7, <2>8 DEF Server
<1>4. CASE UNCHANGED vars
  BY <1>4 DEF vars, net, wait, service
<1>5. QED BY <1>1, <1>2, <1>3, <1>4 DEF Next
-----------------------------------------------------------------------------
\* A count changes by the session that takes or gives the sensor, and by
\* nothing else.
LEMMA CountsRestrict ==
  ASSUME NEW s PROVE IsFiniteSet(Holding(s)) /\ Cardinality(Holding(s)) \in Nat
<1>1. Holding(s) \in SUBSET Clients
  BY DEF Holding
<1>2. IsFiniteSet(Holding(s))
  BY <1>1, SensorAssumption, FS_Subset
<1>3. QED BY <1>2, FS_CardinalityType

LEMMA TakeStep ==
  ASSUME TypeOK, Confined, Counts, NEW c \in Clients, sess[c] = "serving", ~holds[c],
         TakeSensor(c), host' = host
  PROVE  /\ \A s \in Servers : refs'[s] = Cardinality(Holding(s)')
         /\ \A d \in Clients : holds'[d] => sensor'[host[d]]
<1>1. host[c] \in Servers
  BY DEF Confined, Live
<1>2. /\ refs' = [refs EXCEPT ![host[c]] = @ + 1] /\ holds' = [holds EXCEPT ![c] = TRUE]
      /\ sensor' = [sensor EXCEPT ![host[c]] = TRUE]
  BY DEF TakeSensor
<1>3. Holding(host[c])' = Holding(host[c]) \cup {c} /\ c \notin Holding(host[c])
  BY <1>2 DEF Holding, TypeOK
<1>4. \A s \in Servers : s # host[c] => Holding(s)' = Holding(s)
  BY <1>2 DEF Holding, TypeOK
<1>5. Cardinality(Holding(host[c])') = Cardinality(Holding(host[c])) + 1
  BY <1>3, CountsRestrict, FS_AddElement
<1>6. refs'[host[c]] = refs[host[c]] + 1 /\ \A s \in Servers : s # host[c] => refs'[s] = refs[s]
  BY <1>1, <1>2 DEF TypeOK
<1>7. \A s \in Servers : refs[s] = Cardinality(Holding(s))
  BY DEF Counts
<1>8. ASSUME NEW s \in Servers PROVE refs'[s] = Cardinality(Holding(s)')
  <2>1. CASE s = host[c] BY <1>5, <1>6, <1>7, <2>1
  <2>2. CASE s # host[c] BY <1>4, <1>6, <1>7, <2>2
  <2>3. QED BY <2>1, <2>2
<1>9. \A d \in Clients : holds'[d] => sensor'[host[d]]
  BY <1>1, <1>2 DEF TypeOK, Counts, Confined, Live
<1>10. QED BY <1>8, <1>9

LEMMA GiveStep ==
  ASSUME TypeOK, Confined, Counts, NEW c \in Clients, sess[c] = "serving",
         ReleaseSensor(c), host' = host
  PROVE  /\ ~holds'[c] /\ \A d \in Clients : holds'[d] => holds[d]
         /\ \A s \in Servers : refs'[s] = Cardinality(Holding(s)')
<1>1. host[c] \in Servers
  BY DEF Confined, Live
<1>2. CASE ~holds[c]
  <2>1. UNCHANGED <<refs, holds>>
    BY <1>2 DEF ReleaseSensor
  <2>2. QED BY <1>2, <2>1 DEF Counts, Holding
<1>3. CASE holds[c]
  <2>1. refs' = [refs EXCEPT ![host[c]] = @ - 1] /\ holds' = [holds EXCEPT ![c] = FALSE]
    BY <1>3 DEF ReleaseSensor
  <2>2. Holding(host[c])' = Holding(host[c]) \ {c} /\ c \in Holding(host[c])
    BY <1>3, <2>1 DEF Holding, TypeOK
  <2>3. \A s \in Servers : s # host[c] => Holding(s)' = Holding(s)
    BY <2>1 DEF Holding, TypeOK
  <2>4. Cardinality(Holding(host[c])') = Cardinality(Holding(host[c])) - 1
    BY <2>2, CountsRestrict, FS_RemoveElement
  <2>5. refs'[host[c]] = refs[host[c]] - 1 /\ \A s \in Servers : s # host[c] => refs'[s] = refs[s]
    BY <1>1, <2>1 DEF TypeOK
  <2>6. \A s \in Servers : refs[s] = Cardinality(Holding(s))
    BY DEF Counts
  <2>7. ASSUME NEW s \in Servers PROVE refs'[s] = Cardinality(Holding(s)')
    <3>1. CASE s = host[c] BY <2>4, <2>5, <2>6, <3>1
    <3>2. CASE s # host[c] BY <2>3, <2>5, <2>6, <3>2
    <3>3. QED BY <3>1, <3>2
  <2>8. ~holds'[c] /\ \A d \in Clients : holds'[d] => holds[d]
    BY <2>1 DEF TypeOK
  <2>9. QED BY <2>7, <2>8
<1>4. QED BY <1>2, <1>3
\* What a step does to the requests on their way.
LEMMA SessionInbox ==
  ASSUME NEW c \in Clients, Session(c)
  PROVE  \/ inbox' = inbox
         \/ inbox[c] # <<>> /\ inbox' = [inbox EXCEPT ![c] = Tail(@)]
         \/ cpc[c] = "gone" /\ inbox' = [inbox EXCEPT ![c] = <<>>]
<1>1. CASE OpenSensor(c) BY <1>1 DEF OpenSensor, Request
<1>2. CASE Answer(c) BY <1>2 DEF Answer, Request
<1>3. CASE HandleBye(c) BY <1>3 DEF HandleBye, Request
<1>4. CASE HangUp(c) BY <1>4 DEF HangUp
<1>5. CASE EndSession(c) BY <1>5 DEF EndSession, net
<1>6. QED BY <1>1, <1>2, <1>3, <1>4, <1>5 DEF Session

LEMMA ClientInbox ==
  ASSUME NEW c \in Clients, Client(c) \/ EndProcess(c), TypeOK
  PROVE  \/ inbox' = inbox /\ host' = host
         \/ /\ cpc[c] \in Early /\ host' = [host EXCEPT ![c] = port]
            /\ inbox' = [inbox EXCEPT ![c] = <<0>>]
         \/ /\ host' = host
            /\ \E r \in 1 .. Bye : inbox' = [inbox EXCEPT ![c] = Append(@, r)]
<1>1. CASE Connect(c)
  BY <1>1 DEF Connect, Goto, Early
<1>2. CASE Ask(c)
  <2>1. asked[c] + 1 \in 1 .. Bye
    BY <1>2, SensorAssumption DEF Ask, TypeOK, Bye
  <2>2. QED BY <1>2, <2>1 DEF Ask, Send
<1>3. CASE SayBye(c)
  <2>1. Bye \in 1 .. Bye
    BY SensorAssumption DEF Bye
  <2>2. QED BY <1>3, <2>1 DEF SayBye, Send
<1>4. CASE LockToLook(c) \/ LookUnlocked(c) \/ StartServer(c) \/ WaitForServer(c)
  BY <1>4 DEF LockToLook, LookUnlocked, StartServer, WaitForServer, net
<1>5. CASE ReadInitialState(c) \/ Listen(c) \/ EndProcess(c)
  BY <1>5 DEF ReadInitialState, Listen, EndProcess
<1>6. CASE TakeReply(c) \/ ReplyTimeout(c)
  BY <1>6 DEF TakeReply, ReplyTimeout, net
<1>7. QED BY <1>1, <1>2, <1>3, <1>4, <1>5, <1>6 DEF Client

LEMMA TailZero ==
  ASSUME NEW q \in Seq(0 .. Bye), q # <<>>, \A i \in DOMAIN q : q[i] = 0 => i = 1
  PROVE  \A i \in DOMAIN Tail(q) : Tail(q)[i] # 0
OBVIOUS

LEMMA AppendZero ==
  ASSUME NEW q \in Seq(0 .. Bye), NEW r \in 1 .. Bye, \A i \in DOMAIN q : q[i] = 0 => i = 1
  PROVE  \A i \in DOMAIN Append(q, r) : Append(q, r)[i] = 0 => i = 1 /\ i \in DOMAIN q /\ q[i] = 0
OBVIOUS

ZerosOf(c) == \A i \in DOMAIN inbox[c] : inbox[c][i] = 0 => i = 1 /\ ~holds[c]

LEMMA CountsStep ==
  ASSUME TypeOK, Confined, Counts, [Next]_vars PROVE Counts'
<1> USE DEF TypeOK
<1>1. ASSUME NEW c \in Clients, Session(c) PROVE Counts'
  <2>1. UNCHANGED <<cpc, spc, host>>
    BY <1>1, SessionFrame
  <2>2. CASE OpenSensor(c)
    <3>1. /\ sess[c] = "serving" /\ sess' = sess
          /\ inbox[c] # <<>> /\ Head(inbox[c]) = 0 /\ inbox' = [inbox EXCEPT ![c] = Tail(@)]
      BY <2>2, OpenEffect, Zenon
    <3>2. ~holds[c]
      BY <3>1 DEF Counts
    <3>3. /\ \A s \in Servers : refs'[s] = Cardinality(Holding(s)')
          /\ \A d \in Clients : holds'[d] => sensor'[host[d]]
          /\ \A d \in Clients : d # c => holds'[d] = holds[d]
      <4>1. CASE TakeSensor(c)
        <5>1. /\ \A s \in Servers : refs'[s] = Cardinality(Holding(s)')
              /\ \A d \in Clients : holds'[d] => sensor'[host[d]]
          BY <2>1, <3>1, <3>2, <4>1, TakeStep
        <5>2. QED BY <4>1, <5>1 DEF TakeSensor
      <4>2. CASE UNCHANGED <<sensor, refs, holds>>
        BY <2>1, <4>2 DEF Counts, Holding
      <4>3. QED BY <2>2, <4>1, <4>2, OpenEffect, Zenon
    <3>4. \A i \in DOMAIN inbox'[c] : inbox'[c][i] # 0
      <4>1. inbox'[c] = Tail(inbox[c])
        BY <3>1
      <4>2. QED BY <3>1, <4>1, TailZero DEF Counts
    <3>5. \A d \in Clients : ZerosOf(d)'
      BY <3>1, <3>3, <3>4 DEF Counts, ZerosOf
    <3>6. \A d \in Clients : holds'[d] => sess[d] = "serving"
      BY <3>1, <3>3 DEF Counts
    <3>7. QED BY <2>1, <3>1, <3>3, <3>5, <3>6 DEF Counts, ZerosOf
  <2>3. CASE Answer(c) \/ HandleBye(c) \/ HangUp(c) \/ EndSession(c)
    <3>1. /\ sensor' = sensor
          /\ \/ sess' = sess /\ UNCHANGED <<holds, refs>>
             \/ /\ sess[c] = "ending" /\ sess' = [sess EXCEPT ![c] = "ended"]
                /\ UNCHANGED <<holds, refs>>
             \/ sess' = [sess EXCEPT ![c] = "ending"] /\ ReleaseSensor(c)
      BY <2>3, OtherEffect, Zenon
    <3>2. /\ \A s \in Servers : refs'[s] = Cardinality(Holding(s)')
          /\ \A d \in Clients : holds'[d] => holds[d] /\ sess'[d] = "serving"
      <4>0. CASE sess[c] # "serving" /\ UNCHANGED <<holds, refs>>
                 /\ \A d \in Clients : d # c => sess'[d] = sess[d]
        <5>1. \A s : Holding(s)' = Holding(s)
          BY <2>1, <4>0 DEF Holding
        <5>2. ~holds[c]
          BY <4>0 DEF Counts
        <5>3. QED BY <4>0, <5>1, <5>2 DEF Counts
      <4>1. CASE sess' = sess /\ UNCHANGED <<holds, refs>>
        <5>1. \A s : Holding(s)' = Holding(s)
          BY <2>1, <4>1 DEF Holding
        <5>2. QED BY <4>1, <5>1 DEF Counts
      <4>2. CASE sess' = [sess EXCEPT ![c] = "ending"] /\ ReleaseSensor(c)
        <5>1. CASE sess[c] = "serving"
          <6>1. /\ ~holds'[c] /\ \A d \in Clients : holds'[d] => holds[d]
                /\ \A s \in Servers : refs'[s] = Cardinality(Holding(s)')
            BY <2>1, <4>2, <5>1, GiveStep
          <6>2. QED BY <4>2, <6>1 DEF Counts
        <5>2. CASE sess[c] # "serving"
          <6>1. ~holds[c]
            BY <5>2 DEF Counts
          <6>2. UNCHANGED <<holds, refs>>
            BY <4>2, <6>1 DEF ReleaseSensor
          <6>3. QED BY <4>0, <4>2, <5>2, <6>2
        <5>3. QED BY <5>1, <5>2
      <4>3. CASE sess[c] = "ending" /\ sess' = [sess EXCEPT ![c] = "ended"]
                 /\ UNCHANGED <<holds, refs>>
        BY <4>0, <4>3
      <4>4. QED BY <3>1, <4>1, <4>2, <4>3
    <3>3. \A d \in Clients : ZerosOf(d)'
      <4>1. \A d \in Clients : ZerosOf(d)
        BY DEF Counts, ZerosOf
      <4>2. CASE inbox' = inbox
        BY <3>2, <4>1, <4>2 DEF ZerosOf
      <4>3. CASE inbox[c] # <<>> /\ inbox' = [inbox EXCEPT ![c] = Tail(@)]
        <5>1. inbox'[c] = Tail(inbox[c]) /\ \A d \in Clients : d # c => inbox'[d] = inbox[d]
          BY <4>3
        <5>2. \A i \in DOMAIN inbox'[c] : inbox'[c][i] # 0
          BY <4>1, <4>3, <5>1, TailZero DEF ZerosOf
        <5>3. ASSUME NEW d \in Clients PROVE ZerosOf(d)'
          <6>1. CASE d = c BY <5>2, <6>1 DEF ZerosOf
          <6>2. CASE d # c BY <3>2, <4>1, <5>1, <6>2 DEF ZerosOf
          <6>3. QED BY <6>1, <6>2
        <5>4. QED BY <5>3
      <4>4. CASE inbox' = [inbox EXCEPT ![c] = <<>>]
        BY <3>2, <4>1, <4>4 DEF ZerosOf
      <4>5. QED BY <1>1, <4>2, <4>3, <4>4, SessionInbox, Zenon
    <3>4. QED BY <2>1, <3>1, <3>2, <3>3 DEF Counts, ZerosOf
  <2>4. QED BY <1>1, <2>2, <2>3 DEF Session
<1>2. ASSUME NEW c \in Clients, Client(c) \/ EndProcess(c) PROVE Counts'
  <2>1. UNCHANGED <<sess, holds, sensor, refs>>
    BY <1>2, ClientFrame
  <2>2. CASE inbox' = inbox /\ host' = host
    BY <2>1, <2>2 DEF Counts, Holding
  <2>3. CASE /\ cpc[c] \in Early /\ host' = [host EXCEPT ![c] = port]
             /\ inbox' = [inbox EXCEPT ![c] = <<0>>]
    <3>1. ~holds[c]
      BY <2>3 DEF Counts, Confined
    <3>2. \A s : Holding(s)' = Holding(s)
      BY <2>1, <2>3, <3>1 DEF Holding
    <3>3. inbox'[c] = <<0>> /\ \A d \in Clients : d # c => inbox'[d] = inbox[d] /\ host'[d] = host[d]
      BY <2>3
    <3>4. ASSUME NEW d \in Clients PROVE ZerosOf(d)'
      <4>1. CASE d = c BY <2>1, <3>1, <3>3, <4>1 DEF ZerosOf
      <4>2. CASE d # c BY <2>1, <3>3, <4>2 DEF Counts, ZerosOf
      <4>3. QED BY <4>1, <4>2
    <3>5. QED BY <2>1, <3>1, <3>2, <3>3, <3>4 DEF Counts, ZerosOf
  <2>4. ASSUME NEW r \in 1 .. Bye, host' = host, inbox' = [inbox EXCEPT ![c] = Append(@, r)]
        PROVE  Counts'
    <3>1. inbox'[c] = Append(inbox[c], r) /\ \A d \in Clients : d # c => inbox'[d] = inbox[d]
      BY <2>4
    <3>2. \A i \in DOMAIN inbox'[c] : inbox'[c][i] = 0 => i = 1 /\ ~holds[c]
      <4>1. inbox[c] \in Seq(0 .. Bye) /\ \A i \in DOMAIN inbox[c] : inbox[c][i] = 0 => i = 1 /\ ~holds[c]
        BY DEF Counts
      <4> HIDE DEF TypeOK
      <4>2. \A i \in DOMAIN Append(inbox[c], r) :
              Append(inbox[c], r)[i] = 0 => i = 1 /\ i \in DOMAIN inbox[c] /\ inbox[c][i] = 0
        BY <4>1, AppendZero
      <4>3. QED BY <3>1, <4>1, <4>2
    <3>3. ASSUME NEW d \in Clients PROVE ZerosOf(d)'
      <4>1. CASE d = c BY <2>1, <3>2, <4>1 DEF ZerosOf
      <4>2. CASE d # c BY <2>1, <3>1, <4>2 DEF Counts, ZerosOf
      <4>3. QED BY <4>1, <4>2
    <3>4. \A s : Holding(s)' = Holding(s)
      BY <2>1, <2>4 DEF Holding
    <3>5. QED BY <2>1, <2>4, <3>3, <3>4 DEF Counts, ZerosOf
  <2>5. QED BY <1>2, <2>2, <2>3, <2>4, ClientInbox, Zenon
<1>3. ASSUME NEW s \in Servers, Server(s) PROVE Counts'
  <2>1. UNCHANGED <<host, inbox, holds, refs>>
    BY <1>3, ServerFrame
  <2>2. /\ \A d \in Clients : sess[d] = "serving" => sess'[d] = "serving"
        /\ sensor' = sensor \/ (refs[s] = 0 /\ sensor' = [sensor EXCEPT ![s] = FALSE])
    <3>1. CASE Boot(s) \/ InitServer(s) \/ SignalRunning(s) \/ AcceptTimeout(s) \/ KeepSensor(s)
      BY <3>1 DEF Boot, InitServer, SignalRunning, AcceptTimeout, KeepSensor, service
    <3>2. CASE WantShutdown(s) \/ GoOn(s) \/ LockToLeave(s) \/ StayUnlocked(s) \/ Recheck(s)
      BY <3>2 DEF WantShutdown, GoOn, LockToLeave, StayUnlocked, Recheck, service
    <3>3. CASE CloseSensor(s)
      BY <3>3 DEF CloseSensor
    <3>4. CASE CleanUpSessions(s)
      BY <3>4 DEF CleanUpSessions
    <3>5. CASE CloseSocket(s)
      BY <3>5 DEF CloseSocket, Queued
    <3>6. CASE \E c \in Clients : Accept(s, c)
      BY <3>6 DEF Accept, Queued
    <3>7. QED BY <1>3, <3>1, <3>2, <3>3, <3>4, <3>5, <3>6 DEF Server
  <2>3. \A d \in Clients : holds[d] => sensor'[host[d]]
    <3>1. CASE sensor' = sensor
      BY <3>1 DEF Counts
    <3>2. CASE refs[s] = 0 /\ sensor' = [sensor EXCEPT ![s] = FALSE]
      <4>1. Holding(s) = {}
        BY <3>2, CountsRestrict, FS_EmptySet DEF Counts
      <4>2. \A d \in Clients : holds[d] => host[d] # s
        BY <4>1 DEF Holding
      <4>3. QED BY <3>2, <4>2 DEF Counts
    <3>3. QED BY <2>2, <3>1, <3>2
  <2>4. QED BY <2>1, <2>2, <2>3 DEF Counts, Holding
<1>4. CASE UNCHANGED vars
  BY <1>4 DEF vars, net, wait, service, Counts, Holding
<1>5. QED BY <1>1, <1>2, <1>3, <1>4 DEF Next
-----------------------------------------------------------------------------
\* Requests and replies stay what they are on their way.
LEMMA SeqUpdate ==
  ASSUME NEW D, NEW R, NEW f \in [D -> Seq(R)], NEW c \in D
  PROVE  /\ f[c] # <<>> => /\ Head(f[c]) \in R
                            /\ [f EXCEPT ![c] = Tail(@)] \in [D -> Seq(R)]
         /\ \A r \in R : [f EXCEPT ![c] = Append(@, r)] \in [D -> Seq(R)]
         /\ \A r \in R : [f EXCEPT ![c] = <<r>>] \in [D -> Seq(R)]
         /\ [f EXCEPT ![c] = <<>>] \in [D -> Seq(R)]
OBVIOUS

Requests == 0 .. Bye
Answers  == [to : Requests, ok : BOOLEAN]

LEMMA Queues ==
  ASSUME TypeOK
  PROVE  inbox \in [Clients -> Seq(Requests)] /\ replies \in [Clients -> Seq(Answers)]
BY DEF TypeOK, Requests, Answers

LEMMA SessionTyped ==
  ASSUME TypeOK, NEW c \in Clients, Session(c)
  PROVE  inbox' \in [Clients -> Seq(Requests)] /\ replies' \in [Clients -> Seq(Answers)]
<1>1. inbox' \in [Clients -> Seq(Requests)]
  <2>1. CASE inbox' = inbox
    BY <2>1, Queues
  <2>2. CASE inbox[c] # <<>> /\ inbox' = [inbox EXCEPT ![c] = Tail(@)]
    BY <2>2, Queues, SeqUpdate, Zenon
  <2>3. CASE inbox' = [inbox EXCEPT ![c] = <<>>]
    BY <2>3, Queues, SeqUpdate, Zenon
  <2>4. QED BY <2>1, <2>2, <2>3, SessionInbox, Zenon
<1>2. replies' = replies \/ (inbox[c] # <<>> /\ \E ok \in BOOLEAN : Reply(c, ok))
  <2>1. CASE OpenSensor(c) BY <2>1, Zenon DEF OpenSensor, Request
  <2>2. CASE Answer(c) BY <2>2, Zenon DEF Answer, Request
  <2>3. CASE HandleBye(c) BY <2>3, Zenon DEF HandleBye, Request
  <2>4. CASE HangUp(c) BY <2>4, Zenon DEF HangUp
  <2>5. CASE EndSession(c) BY <2>5 DEF EndSession, net
  <2>6. QED BY <2>1, <2>2, <2>3, <2>4, <2>5 DEF Session
<1>3. ASSUME NEW ok \in BOOLEAN, inbox[c] # <<>>, Reply(c, ok)
      PROVE  replies' \in [Clients -> Seq(Answers)]
  <2> DEFINE m == [to |-> Head(inbox[c]), ok |-> ok]
  <2>1. Head(inbox[c]) \in Requests
    BY <1>3, Queues, SeqUpdate, Zenon
  <2>2. m \in Answers
    BY <2>1 DEF Answers
  <2>3. replies' = replies \/ replies' = [replies EXCEPT ![c] = Append(@, m)]
    BY <1>3 DEF Reply
  <2> HIDE DEF m
  <2>4. CASE replies' = replies
    BY <2>4, Queues
  <2>5. CASE replies' = [replies EXCEPT ![c] = Append(@, m)]
    BY <2>2, <2>5, Queues, SeqUpdate, Zenon
  <2>6. QED BY <2>3, <2>4, <2>5
<1>4. QED BY <1>1, <1>2, <1>3, Queues

LEMMA ClientTyped ==
  ASSUME TypeOK, NEW c \in Clients, Client(c) \/ EndProcess(c)
  PROVE  inbox' \in [Clients -> Seq(Requests)] /\ replies' \in [Clients -> Seq(Answers)]
<1>1. 0 \in Requests /\ 1 .. Bye \subseteq Requests
  BY SensorAssumption DEF Requests, Bye
<1>2. inbox' \in [Clients -> Seq(Requests)]
  <2>1. CASE inbox' = inbox
    BY <2>1, Queues
  <2>2. CASE inbox' = [inbox EXCEPT ![c] = <<0>>]
    BY <1>1, <2>2, Queues, SeqUpdate, Zenon
  <2>3. ASSUME NEW r \in 1 .. Bye, inbox' = [inbox EXCEPT ![c] = Append(@, r)]
        PROVE  inbox' \in [Clients -> Seq(Requests)]
    <3>1. r \in Requests
      BY <1>1
    <3>2. QED BY <2>3, <3>1, Queues, SeqUpdate, Zenon
  <2>4. QED BY <2>1, <2>2, <2>3, ClientInbox, Zenon
<1>3. \/ replies' = replies
      \/ replies[c] # <<>> /\ replies' = [replies EXCEPT ![c] = Tail(@)]
      \/ replies' = [replies EXCEPT ![c] = <<>>]
  BY DEF Client, EndProcess, LockToLook, LookUnlocked, StartServer, WaitForServer, Connect,
     ReadInitialState, Ask, SayBye, Listen, TakeReply, ReplyTimeout, net
<1>4. replies' \in [Clients -> Seq(Answers)]
  <2>1. CASE replies' = replies
    BY <2>1, Queues
  <2>2. CASE replies[c] # <<>> /\ replies' = [replies EXCEPT ![c] = Tail(@)]
    BY <2>2, Queues, SeqUpdate, Zenon
  <2>3. CASE replies' = [replies EXCEPT ![c] = <<>>]
    BY <2>3, Queues, SeqUpdate, Zenon
  <2>4. QED BY <1>3, <2>1, <2>2, <2>3
<1>5. QED BY <1>2, <1>4

LEMMA ReleaseTyped ==
  ASSUME TypeOK, Confined, Counts, NEW c \in Clients, sess[c] = "serving",
         ReleaseSensor(c), host' = host
  PROVE  refs' \in [Servers -> Nat] /\ holds' \in [Clients -> BOOLEAN]
<1>1. \A s \in Servers : refs'[s] = Cardinality(Holding(s)')
  BY GiveStep
<1>2. \A s \in Servers : Cardinality(Holding(s)') \in Nat
  <2>1. ASSUME NEW s \in Servers PROVE Cardinality(Holding(s)') \in Nat
    <3>1. Holding(s)' \in SUBSET Clients
      BY DEF Holding
    <3>2. QED BY <3>1, SensorAssumption, FS_Subset, FS_CardinalityType
  <2>2. QED BY <2>1
<1>3. refs' = refs \/ \E s : refs' = [refs EXCEPT ![s] = @ - 1]
  BY DEF ReleaseSensor
<1>4. refs' = [s \in Servers |-> refs'[s]]
  BY <1>3 DEF TypeOK
<1>5. refs' \in [Servers -> Nat]
  BY <1>1, <1>2, <1>4
<1>6. holds' = holds \/ holds' = [holds EXCEPT ![c] = FALSE]
  BY DEF ReleaseSensor
<1>7. QED BY <1>5, <1>6 DEF TypeOK

\* All but the queues.
StateOK ==
  /\ mutex \in Clients \cup Servers \cup {None}
  /\ event \in BOOLEAN /\ port \in Servers \cup {None}
  /\ cpc \in [Clients -> {"off", "look", "start", "wait", "connect", "retry", "opening",
                          "using", "asking", "leaving", "left", "failed", "gone"}]
  /\ spc \in [Servers -> {"none", "boot", "init", "ready", "accept", "clean", "bury",
                          "idle", "lock", "recheck", "close", "exit"}]
  /\ host \in [Clients -> Servers \cup {None}]
  /\ sess \in [Clients -> {"none", "serving", "ending", "ended", "cut"}]
  /\ holds \in [Clients -> BOOLEAN]
  /\ sensor \in [Servers -> BOOLEAN] /\ refs \in [Servers -> Nat]
  /\ slot \in [Clients -> 0 .. Bye \cup {None}]
  /\ asked \in [Clients -> 0 .. Bye] /\ late \in [Clients -> BOOLEAN]

LEMMA TypeParts ==
  TypeOK <=> StateOK /\ inbox \in [Clients -> Seq(Requests)] /\ replies \in [Clients -> Seq(Answers)]
BY DEF TypeOK, StateOK, Requests, Answers

LEMMA TypeStep == ASSUME TypeOK, Confined, Counts, [Next]_vars PROVE TypeOK'
<1> USE DEF net, wait, service
<1>0. StateOK
  BY TypeParts
<1>1. ASSUME NEW c \in Clients, Client(c) \/ EndProcess(c) PROVE TypeOK'
  <2> inbox' \in [Clients -> Seq(Requests)] /\ replies' \in [Clients -> Seq(Answers)]
    BY <1>1, ClientTyped
  <2> SUFFICES StateOK'
    BY TypeParts DEF TypeOK, StateOK, Requests, Answers
  <2> USE <1>0 DEF StateOK
  <2>1. CASE LockToLook(c) BY <2>1 DEF LockToLook, Goto
  <2>2. CASE LookUnlocked(c) BY <2>2 DEF LookUnlocked, Goto
  <2>3. CASE StartServer(c) BY <2>3 DEF StartServer, Goto, Run
  <2>4. CASE WaitForServer(c) BY <2>4 DEF WaitForServer, Goto
  <2>5. CASE Connect(c) BY <2>5 DEF Connect, Goto
  <2>6. CASE ReadInitialState(c) BY <2>6 DEF ReadInitialState, Goto
  <2>7. CASE Ask(c)
    <3>1. asked[c] + 1 \in 0 .. Bye
      BY <2>7, SensorAssumption DEF Ask, Bye
    <3>2. asked' \in [Clients -> 0 .. Bye]
      BY <2>7, <3>1 DEF Ask, Send
    <3>3. QED BY <2>7, <3>2 DEF Ask, Goto
  <2>8. CASE SayBye(c)
    <3>1. Bye \in 0 .. Bye
      BY <2>8, SensorAssumption DEF SayBye, Bye
    <3>2. asked' \in [Clients -> 0 .. Bye]
      BY <2>8, <3>1 DEF SayBye, Send
    <3>3. QED BY <2>8, <3>2 DEF SayBye, Goto
  <2>9. CASE Listen(c)
    <3>1. Head(replies[c]) \in Answers
      BY <2>9, Queues, SeqUpdate, Zenon DEF Listen
    <3>2. Head(replies[c]).to \in 0 .. Bye
      BY <3>1 DEF Answers, Requests
    <3>3. QED BY <2>9, <3>2 DEF Listen
  <2>10. CASE TakeReply(c) BY <2>10 DEF TakeReply, Goto, Answered
  <2>11. CASE ReplyTimeout(c) BY <2>11 DEF ReplyTimeout, Goto, Answered
  <2>12. CASE EndProcess(c)
    <3>1. 0 \in 0 .. Bye
      BY SensorAssumption DEF Bye
    <3>2. QED BY <2>12, <3>1 DEF EndProcess
  <2>13. QED
    BY <1>1, <2>1, <2>2, <2>3, <2>4, <2>5, <2>6, <2>7, <2>8, <2>9, <2>10, <2>11, <2>12 DEF Client
<1>2. ASSUME NEW c \in Clients, Session(c) PROVE TypeOK'
  <2>1. UNCHANGED <<mutex, event, port, cpc, spc, host, slot, asked, late>>
    BY <1>2, SessionFrame
  <2>2. inbox' \in [Clients -> Seq(Requests)] /\ replies' \in [Clients -> Seq(Answers)]
    BY <1>2, SessionTyped
  <2>4. /\ sess' \in [Clients -> {"none", "serving", "ending", "ended", "cut"}]
        /\ holds' \in [Clients -> BOOLEAN]
        /\ sensor' \in [Servers -> BOOLEAN] /\ refs' \in [Servers -> Nat]
    <3>1. CASE OpenSensor(c)
      <4>1. sess' = sess /\ (TakeSensor(c) \/ UNCHANGED <<sensor, refs, holds>>)
        BY <3>1, OpenEffect, Zenon
      <4>2. /\ sensor' = sensor \/ sensor' = [sensor EXCEPT ![host[c]] = TRUE]
            /\ refs' = refs \/ refs' = [refs EXCEPT ![host[c]] = @ + 1]
            /\ holds' = holds \/ holds' = [holds EXCEPT ![c] = TRUE]
        BY <4>1, Zenon DEF TakeSensor
      <4>3. sess' \in [Clients -> {"none", "serving", "ending", "ended", "cut"}]
        BY <1>0, <4>1 DEF StateOK
      <4>4. sensor' \in [Servers -> BOOLEAN] /\ holds' \in [Clients -> BOOLEAN]
        BY <1>0, <4>2 DEF StateOK
      <4>5. refs' \in [Servers -> Nat]
        <5>1. refs \in [Servers -> Nat]
          BY <1>0 DEF StateOK
        <5>2. \A s \in Servers : refs[s] + 1 \in Nat
          BY <5>1
        <5>3. QED BY <4>2, <5>1, <5>2
      <4>6. QED BY <4>3, <4>4, <4>5
    <3>2. CASE Answer(c) \/ HandleBye(c) \/ HangUp(c) \/ EndSession(c)
      <4>1. /\ sensor' = sensor
            /\ sess' = sess \/ \E r \in {"ending", "ended"} : sess' = [sess EXCEPT ![c] = r]
        BY <3>2, OtherEffect, Zenon
      <4>2. UNCHANGED <<holds, refs>> \/ (sess[c] = "serving" /\ ReleaseSensor(c))
        <5>1. CASE Answer(c) \/ EndSession(c)
          BY <5>1 DEF Answer, EndSession
        <5>2. CASE HandleBye(c) BY <5>2, Zenon DEF HandleBye, Request
        <5>3. CASE HangUp(c) BY <5>3, Zenon DEF HangUp
        <5>4. QED BY <3>2, <5>1, <5>2, <5>3
      <4>3. refs' \in [Servers -> Nat] /\ holds' \in [Clients -> BOOLEAN]
        BY <2>1, <4>2, ReleaseTyped DEF TypeOK
      <4>4. QED BY <4>1, <4>3 DEF TypeOK
    <3>3. QED BY <1>2, <3>1, <3>2 DEF Session
  <2>5. StateOK'
    BY <1>0, <2>1, <2>4 DEF StateOK
  <2>6. QED BY <2>2, <2>5 DEF TypeOK, StateOK, Requests, Answers
<1>3. ASSUME NEW s \in Servers, Server(s) PROVE TypeOK'
  <2>1. UNCHANGED <<cpc, host, inbox, replies, slot, asked, late, holds, refs>>
    BY <1>3, ServerFrame
  <2> USE DEF Run, TypeOK
  <2>2. CASE Boot(s) BY <2>1, <2>2 DEF Boot
  <2>3. CASE InitServer(s)
    <3>1. spc' = [spc EXCEPT ![s] = "ready"] \/ spc' = [spc EXCEPT ![s] = "exit"]
      BY <2>3 DEF InitServer
    <3>2. mutex' \in {mutex, None} /\ port' \in {port, s} /\ UNCHANGED <<event, sess, sensor>>
      BY <2>3 DEF InitServer
    <3>3. QED BY <2>1, <3>1, <3>2
  <2>4. CASE SignalRunning(s) BY <2>1, <2>4 DEF SignalRunning
  <2>5. ASSUME NEW c \in Clients, Accept(s, c) PROVE TypeOK'
    <3>1. UNCHANGED <<mutex, event, port, spc, sensor>>
          /\ \E q \in {"serving", "cut"} : sess' = [sess EXCEPT ![c] = q]
      BY <2>5 DEF Accept
    <3>2. QED BY <2>1, <3>1
  <2>6. CASE AcceptTimeout(s) BY <2>1, <2>6 DEF AcceptTimeout
  <2>7. CASE CloseSensor(s) \/ KeepSensor(s) BY <2>1, <2>7 DEF CloseSensor, KeepSensor
  <2>8. CASE CleanUpSessions(s)
    <3>1. sess' \in [Clients -> {"none", "serving", "ending", "ended", "cut"}]
      BY <2>8 DEF CleanUpSessions
    <3>2. QED BY <2>1, <2>8, <3>1 DEF CleanUpSessions
  <2>9. CASE WantShutdown(s) \/ GoOn(s) BY <2>1, <2>9 DEF WantShutdown, GoOn
  <2>10. CASE LockToLeave(s) \/ StayUnlocked(s) BY <2>1, <2>10 DEF LockToLeave, StayUnlocked
  <2>11. CASE Recheck(s)
    <3>1. spc' = [spc EXCEPT ![s] = "close"] \/ spc' = [spc EXCEPT ![s] = "accept"]
      BY <2>11 DEF Recheck
    <3>2. mutex' \in {mutex, None} /\ event' \in {event, FALSE} /\ UNCHANGED <<port, sess, sensor>>
      BY <2>11 DEF Recheck
    <3>3. QED BY <2>1, <3>1, <3>2
  <2>12. CASE CloseSocket(s)
    <3>1. sess' \in [Clients -> {"none", "serving", "ending", "ended", "cut"}]
      BY <2>12 DEF CloseSocket
    <3>2. QED BY <2>1, <2>12, <3>1 DEF CloseSocket
  <2>13. QED BY <1>3, <2>2, <2>3, <2>4, <2>5, <2>6, <2>7, <2>8, <2>9, <2>10, <2>11, <2>12 DEF Server
<1>4. CASE UNCHANGED vars
  BY <1>4 DEF vars, TypeOK
<1>5. QED BY <1>1, <1>2, <1>3, <1>4 DEF Next
-----------------------------------------------------------------------------
\* A session that reads a request answers it.
LEMMA SessionAnswers ==
  ASSUME NEW c \in Clients, Session(c)
  PROVE  \/ UNCHANGED <<inbox, replies>>
         \/ cpc[c] \in {"left", "failed", "gone"} /\ UNCHANGED replies
         \/ /\ inbox[c] # <<>> /\ inbox' = [inbox EXCEPT ![c] = Tail(@)]
            /\ \E ok \in BOOLEAN :
                 replies' = [replies EXCEPT ![c] = Append(@, [to |-> Head(inbox[c]), ok |-> ok])]
<1>1. ASSUME NEW R, NEW ok \in BOOLEAN, Request(c, R), Reply(c, ok)
      PROVE  \/ cpc[c] \in {"left", "failed", "gone"} /\ UNCHANGED replies
             \/ /\ inbox[c] # <<>> /\ inbox' = [inbox EXCEPT ![c] = Tail(@)]
                /\ replies' = [replies EXCEPT ![c] = Append(@, [to |-> Head(inbox[c]), ok |-> ok])]
  BY <1>1 DEF Request, Reply
<1>2. CASE OpenSensor(c)
  <2>1. Request(c, {0}) /\ \E ok \in BOOLEAN : Reply(c, ok)
    BY <1>2, Zenon DEF OpenSensor
  <2>2. QED BY <1>1, <2>1, Zenon
<1>3. CASE Answer(c)
  <2>1. Request(c, 1 .. MaxAsk) /\ Reply(c, TRUE)
    BY <1>3, Zenon DEF Answer
  <2>2. QED BY <1>1, <2>1, Zenon
<1>4. CASE HandleBye(c)
  <2>1. Request(c, {Bye}) /\ Reply(c, TRUE)
    BY <1>4, Zenon DEF HandleBye
  <2>2. QED BY <1>1, <2>1, Zenon
<1>5. CASE HangUp(c) BY <1>5 DEF HangUp
<1>6. CASE EndSession(c) BY <1>6 DEF EndSession, net
<1>7. QED BY <1>2, <1>3, <1>4, <1>5, <1>6 DEF Session

\* What the step of one client, or of its session, leaves to the others.
LEMMA OthersOrderly ==
  ASSUME Outstanding, NEW c \in Clients, Orderly(c)',
         \A d \in Clients : d # c =>
           /\ cpc'[d] = cpc[d] /\ inbox'[d] = inbox[d] /\ replies'[d] = replies[d]
           /\ slot'[d] = slot[d] /\ asked'[d] = asked[d] /\ late'[d] = late[d]
  PROVE  Outstanding'
<1>1. ASSUME NEW d \in Clients PROVE Orderly(d)'
  <2>1. CASE d = c BY <2>1
  <2>2. CASE d # c
    <3>1. Orderly(d)
      BY DEF Outstanding
    <3>2. QED BY <2>2, <3>1 DEF Orderly
  <2>3. QED BY <2>1, <2>2
<1>2. QED BY <1>1 DEF Outstanding

\* A session takes the oldest request and answers it.
LEMMA DeliveredInOrder ==
  ASSUME NEW at, NEW in \in Seq(Requests), NEW out \in Seq(Answers), NEW got, NEW last,
         NEW tardy, NEW m \in Answers,
         InOrder(at, in, out, got, last, tardy), in # <<>>, m.to = Head(in)
  PROVE  InOrder(at, Tail(in), Append(out, m), got, last, tardy)
<1>1. Len(in) >= 1 /\ in[1] = m.to /\ 1 \in DOMAIN in /\ Len(Tail(in)) = Len(in) - 1
      /\ Len(Append(out, m)) = Len(out) + 1 /\ Len(in) \in Nat /\ Len(out) \in Nat
  OBVIOUS
<1>2. Len(in) + Len(out) <= 1 => Tail(in) = <<>> /\ Append(out, m) = <<m>>
  <2>1. Len(in) + Len(out) <= 1 => Len(in) = 1 /\ Len(out) = 0
    BY <1>1
  <2>2. in # <<>> /\ Len(Tail(in)) = 0 => Tail(in) = <<>>
    <3>1. in # <<>> => Tail(in) \in Seq(Requests)
      OBVIOUS
    <3>2. \A q \in Seq(Requests) : Len(q) = 0 => q = <<>>
      OBVIOUS
    <3>3. QED BY <3>1, <3>2
  <2>3. Len(out) = 0 => out = <<>>
    OBVIOUS
  <2>4. Append(<<>>, m) = <<m>>
    OBVIOUS
  <2>5. QED BY <1>1, <2>1, <2>2, <2>3, <2>4
<1>3. at \notin Early
  BY DEF InOrder
<1>4. at = "using" => tardy
  BY DEF InOrder
<1>5. at = "opening" => ~tardy /\ got = None /\ Len(in) + Len(out) <= 1
  BY DEF InOrder
<1>6. at \in {"asking", "leaving"} /\ ~tardy => Len(in) + Len(out) <= 1 /\ got = None /\ m.to = last
  BY <1>1 DEF InOrder
<1>7. Len(Tail(in)) + Len(Append(out, m)) = Len(in) + Len(out)
  BY <1>1
<1> HIDE DEF Requests
<1>8. CASE at \in {"asking", "leaving"} /\ ~tardy
  <2>1. Tail(in) = <<>> /\ Append(out, m) = <<m>>
    BY <1>2, <1>6, <1>8
  <2>2. (\A i \in DOMAIN <<>> : <<>>[i] = last) /\ \A i \in DOMAIN <<m>> : <<m>>[i].to = last
    BY <1>6, <1>8
  <2>3. QED BY <1>3, <1>6, <1>8, <2>1, <2>2 DEF InOrder
<1>9. CASE ~(at \in {"asking", "leaving"} /\ ~tardy)
  BY <1>3, <1>4, <1>5, <1>7, <1>9 DEF InOrder
<1>10. QED BY <1>8, <1>9

LEMMA OutstandingStep ==
  ASSUME TypeOK, Outstanding, [Next]_vars PROVE Outstanding'
<1> USE DEF net, wait, service
<1>0. /\ StateOK /\ inbox \in [Clients -> Seq(Requests)] /\ replies \in [Clients -> Seq(Answers)]
  BY TypeParts
<1>1. ASSUME NEW c \in Clients, Session(c) PROVE Outstanding'
  <2>1. UNCHANGED <<cpc, slot, asked, late>>
    BY <1>1, SessionFrame
  <2>2. Orderly(c)
    BY DEF Outstanding
  <2>3. Orderly(c)' /\ \A d \in Clients : d # c => inbox'[d] = inbox[d] /\ replies'[d] = replies[d]
    <3>1. CASE UNCHANGED <<inbox, replies>>
      BY <2>1, <2>2, <3>1 DEF Orderly
    <3>2. CASE cpc[c] \in {"left", "failed", "gone"} /\ UNCHANGED replies
      <4>1. \A d \in Clients : d # c => inbox'[d] = inbox[d]
        BY <1>0, <1>1, SessionInbox
      <4>2. QED BY <2>1, <3>2, <4>1 DEF Orderly, InOrder, Early
    <3>3. ASSUME NEW ok \in BOOLEAN,
                 inbox[c] # <<>>, inbox' = [inbox EXCEPT ![c] = Tail(@)],
                 replies' = [replies EXCEPT ![c] = Append(@, [to |-> Head(inbox[c]), ok |-> ok])]
          PROVE  Orderly(c)' /\ \A d \in Clients : d # c => inbox'[d] = inbox[d] /\ replies'[d] = replies[d]
      <4> DEFINE m == [to |-> Head(inbox[c]), ok |-> ok]
      <4>1. inbox'[c] = Tail(inbox[c]) /\ replies'[c] = Append(replies[c], m)
            /\ inbox[c] \in Seq(Requests) /\ replies[c] \in Seq(Answers)
        BY <1>0, <3>3
      <4>2. Head(inbox[c]) \in Requests
        BY <1>0, <3>3, SeqUpdate, Zenon
      <4>3. m.to = Head(inbox[c]) /\ m \in Answers
        BY <4>2 DEF Answers
      <4> HIDE DEF m
      <4>4. InOrder(cpc[c], Tail(inbox[c]), Append(replies[c], m), slot[c], asked[c], late[c])
        BY <2>2, <3>3, <4>1, <4>3, DeliveredInOrder, Zenon DEF Orderly
      <4>5. Orderly(c)'
        BY <2>1, <4>1, <4>4 DEF Orderly
      <4>6. QED BY <1>0, <3>3, <4>5
    <3>4. QED BY <1>1, <3>1, <3>2, <3>3, SessionAnswers, Zenon
  <2>4. QED BY <2>1, <2>3, OthersOrderly
<1>2. ASSUME NEW c \in Clients, Client(c) \/ EndProcess(c) PROVE Outstanding'
  <2>0. Orderly(c) /\ inbox[c] \in Seq(Requests) /\ replies[c] \in Seq(Answers)
    BY <1>0 DEF Outstanding
  <2>1. \A d \in Clients : d # c =>
           /\ cpc'[d] = cpc[d] /\ inbox'[d] = inbox[d] /\ replies'[d] = replies[d]
           /\ slot'[d] = slot[d] /\ asked'[d] = asked[d] /\ late'[d] = late[d]
    BY <1>0, <1>2 DEF StateOK, Client, EndProcess, LockToLook, LookUnlocked, StartServer, WaitForServer,
       Connect, ReadInitialState, Ask, SayBye, Send, Listen, TakeReply, ReplyTimeout, Answered, Goto
  <2>2. Orderly(c)'
    <3> USE <1>0, <2>0 DEF StateOK, Goto, Early, Orderly, InOrder
    <3>1. CASE LockToLook(c) BY <3>1 DEF LockToLook
    <3>2. CASE LookUnlocked(c)
      <4>1. cpc[c] \in Early /\ cpc'[c] \in {"wait", "start"}
            /\ UNCHANGED <<inbox, replies, slot, asked, late>>
        BY <3>2 DEF LookUnlocked
      <4>2. QED BY <4>1
    <3>21. CASE StartServer(c)
      <4>1. cpc[c] \in Early /\ cpc'[c] \in {"wait", "gone"}
            /\ UNCHANGED <<inbox, replies, slot, asked, late>>
        BY <3>21 DEF StartServer
      <4>2. QED BY <4>1
    <3>22. CASE WaitForServer(c) BY <3>22 DEF WaitForServer
    <3>3. CASE Connect(c)
      <4>1. cpc[c] \in Early /\ UNCHANGED <<replies, slot, asked, late>>
        BY <3>3 DEF Connect
      <4>2. CASE cpc'[c] = "opening" /\ inbox'[c] = <<0>>
        BY <4>1, <4>2
      <4>3. CASE cpc'[c] \in {"retry", "gone"} /\ inbox'[c] = inbox[c]
        BY <4>1, <4>3
      <4>4. QED BY <3>3, <4>2, <4>3 DEF Connect
    <3>4. CASE ReadInitialState(c)
      BY <3>4 DEF ReadInitialState
    <3>5. CASE Ask(c)
      BY <3>5 DEF Ask, Send
    <3>6. CASE SayBye(c)
      BY <3>6 DEF SayBye, Send
    <3>7. CASE Listen(c)
      BY <3>7 DEF Listen
    <3>8. CASE TakeReply(c)
      BY <3>8 DEF TakeReply, Answered
    <3>9. CASE ReplyTimeout(c)
      BY <3>9 DEF ReplyTimeout, Answered
    <3>10. CASE EndProcess(c)
      BY <3>10 DEF EndProcess
    <3>11. QED BY <1>2, <3>1, <3>2, <3>21, <3>22, <3>3, <3>4, <3>5, <3>6, <3>7, <3>8, <3>9, <3>10 DEF Client
  <2>3. QED BY <2>1, <2>2, OthersOrderly
<1>3. ASSUME NEW s \in Servers, Server(s) PROVE Outstanding'
  BY <1>3, ServerFrame DEF Outstanding, Orderly
<1>4. CASE UNCHANGED vars
  BY <1>4 DEF vars, Outstanding, Orderly
<1>5. QED BY <1>1, <1>2, <1>3, <1>4 DEF Next
-----------------------------------------------------------------------------
\* A step of the processes is a step of the lease, or none.
LEMMA ServerSensor ==
  ASSUME NEW s \in Servers, Server(s)
  PROVE  sensor' = sensor \/ CloseSensor(s)
<1> USE DEF service
<1>1. CASE Boot(s) \/ InitServer(s) \/ SignalRunning(s) \/ AcceptTimeout(s) \/ KeepSensor(s)
  BY <1>1 DEF Boot, InitServer, SignalRunning, AcceptTimeout, KeepSensor
<1>2. CASE WantShutdown(s) \/ GoOn(s) \/ LockToLeave(s) \/ StayUnlocked(s) \/ Recheck(s)
  BY <1>2 DEF WantShutdown, GoOn, LockToLeave, StayUnlocked, Recheck
<1>3. CASE CleanUpSessions(s) \/ CloseSocket(s)
  BY <1>3 DEF CleanUpSessions, CloseSocket
<1>4. CASE \E c \in Clients : Accept(s, c)
  BY <1>4 DEF Accept
<1>5. QED BY <1>1, <1>2, <1>3, <1>4 DEF Server

IsOpen == \E s \in Servers : sensor[s]
Users  == {c \in Clients : holds[c]}

\* The steps of the lease, written with this module's variables.
LeaseStepOf ==
  \/ IsOpen /\ Users = {} /\ IsOpen' = FALSE /\ Users' = Users
  \/ \E c \in Clients : \/ c \notin Users /\ Users' = Users \cup {c} /\ IsOpen' = TRUE
                        \/ c \in Users /\ Users' = Users \ {c} /\ IsOpen' = IsOpen
  \/ IsOpen' = IsOpen /\ Users' = Users

LEMMA LeaseStep ==
  ASSUME TypeOK, Serial, Confined, Counts, [Next]_vars PROVE LeaseStepOf
<1> USE DEF TypeOK
<1>0. sensor' = sensor /\ holds' = holds => LeaseStepOf
  BY DEF LeaseStepOf, IsOpen, Users
<1>1. ASSUME NEW c \in Clients, Session(c) PROVE LeaseStepOf
  <2>1. CASE OpenSensor(c)
    <3>1. sess[c] = "serving" /\ inbox[c] # <<>> /\ Head(inbox[c]) = 0
      BY <2>1, OpenEffect, Zenon
    <3>2. ~holds[c]
      BY <3>1 DEF Counts
    <3>3. host[c] \in Servers
      BY <3>1 DEF Confined, Live
    <3>4. CASE TakeSensor(c)
      <4>1. Users' = Users \cup {c} /\ c \notin Users
        BY <3>2, <3>4 DEF TakeSensor, Users
      <4>2. IsOpen' = TRUE
        BY <3>3, <3>4 DEF TakeSensor, IsOpen
      <4>3. QED BY <4>1, <4>2 DEF LeaseStepOf
    <3>5. CASE UNCHANGED <<sensor, refs, holds>>
      BY <1>0, <3>5
    <3>6. QED BY <2>1, <3>4, <3>5, OpenEffect, Zenon
  <2>2. CASE Answer(c) \/ HandleBye(c) \/ HangUp(c) \/ EndSession(c)
    <3>1. sensor' = sensor /\ (holds' = holds \/ ReleaseSensor(c))
      BY <2>2, OtherEffect, Zenon
    <3>2. CASE ReleaseSensor(c) /\ holds[c]
      <4>1. Users' = Users \ {c} /\ c \in Users
        BY <3>2 DEF ReleaseSensor, Users
      <4>2. IsOpen' = IsOpen
        BY <3>1 DEF IsOpen
      <4>3. QED BY <4>1, <4>2 DEF LeaseStepOf
    <3>3. CASE holds' = holds
      BY <1>0, <3>1, <3>3
    <3>4. QED BY <3>1, <3>2, <3>3 DEF ReleaseSensor
  <2>3. QED BY <1>1, <2>1, <2>2 DEF Session
<1>2. ASSUME NEW c \in Clients, Client(c) \/ EndProcess(c) PROVE LeaseStepOf
  BY <1>0, <1>2, ClientFrame
<1>3. ASSUME NEW s \in Servers, Server(s) PROVE LeaseStepOf
  <2>1. holds' = holds
    BY <1>3, ServerFrame
  <2>2. CASE CloseSensor(s)
    <3>1. sensor[s] /\ refs[s] = 0 /\ sensor' = [sensor EXCEPT ![s] = FALSE]
      BY <2>2 DEF CloseSensor
    <3>2. Holding(s) = {}
      BY <3>1, CountsRestrict, FS_EmptySet DEF Counts
    <3>3. \A t \in Servers : sensor[t] => t = s
      <4>1. \A t \in Servers : sensor[t] => spc[t] \in Serving
        BY DEF Confined, Busy, Serving
      <4>2. \A t \in Servers : sensor[t] => port = t
        BY <4>1 DEF Serial
      <4>3. QED BY <3>1, <4>2
    <3>4. \A c \in Clients : holds[c] => host[c] \in Servers /\ sensor[host[c]]
      BY DEF Counts, Confined, Live
    <3>5. Users = {} /\ Users' = Users
      BY <2>1, <3>2, <3>3, <3>4 DEF Users, Holding
    <3>6. IsOpen /\ IsOpen' = FALSE
      BY <3>1, <3>3 DEF IsOpen
    <3>7. QED BY <3>5, <3>6 DEF LeaseStepOf
  <2>3. QED BY <1>0, <1>3, <2>1, <2>2, ServerSensor
<1>4. CASE UNCHANGED vars
  BY <1>0, <1>4 DEF vars, service
<1>5. QED BY <1>1, <1>2, <1>3, <1>4 DEF Next

\* Who takes an answer has waited for it.
LEMMA AnswerStep ==
  ASSUME TypeOK, Outstanding, NEW c \in Clients, slot[c] # None,
         cpc[c] \in {"asking", "leaving"}, ~late[c]
  PROVE  slot[c] = asked[c]
BY DEF Outstanding, Orderly, InOrder

-----------------------------------------------------------------------------
IInv == TypeOK /\ Serial /\ Confined /\ Counts /\ Outstanding

LEMMA InitInv == Init => IInv
<1> SUFFICES ASSUME Init PROVE IInv
  OBVIOUS
<1>1. TypeOK
  <2>1. inbox \in [Clients -> Seq(0 .. Bye)]
    BY DEF Init
  <2>2. replies \in [Clients -> Seq([to : 0 .. Bye, ok : BOOLEAN])]
    BY DEF Init
  <2>3. asked \in [Clients -> 0 .. Bye]
    BY SensorAssumption DEF Init, Bye
  <2>4. QED BY <2>1, <2>2, <2>3 DEF Init, TypeOK
<1>2. Serial
  BY SensorAssumption DEF Init, Serial, Serving
<1>3. Confined
  BY DEF Init, Confined, Live, Busy
<1>4. Counts
  <2>1. \A s \in Servers : Holding(s) = {}
    BY DEF Init, Holding
  <2>2. \A s \in Servers : refs[s] = Cardinality(Holding(s))
    BY <2>1, FS_EmptySet DEF Init
  <2>3. \A c \in Clients : ~holds[c] /\ DOMAIN inbox[c] = {}
    BY DEF Init
  <2>4. QED BY <2>2, <2>3 DEF Counts
<1>5. Outstanding
  BY DEF Init, Outstanding, Orderly, InOrder, Early
<1>6. QED BY <1>1, <1>2, <1>3, <1>4, <1>5 DEF IInv

LEMMA Invariant == Spec => []IInv
<1>1. IInv /\ [Next]_vars => IInv'
  BY TypeStep, SerialStep, ConfinedStep, CountsStep, OutstandingStep DEF IInv
<1>2. QED BY InitInv, <1>1, PTL DEF Spec

\* The processes, sockets, counts and queues keep their types; above all, no
\* reference count falls below 0 (CloseSensorImpl and ReleaseSensor).
THEOREM SensorTypes == Spec => []TypeOK
<1>1. IInv => TypeOK
  BY DEF IInv
<1>2. QED BY Invariant, <1>1, PTL

\* At most one server serves, and the next to try finds the port free.
THEOREM OneServerAtATime == Spec => []OneServer
<1>1. IInv => OneServer
  <2> SUFFICES ASSUME IInv, NEW s \in Servers
               PROVE  /\ spc[s] \in Serving => port = s
                      /\ spc[s] = "init" /\ ~event => port = None
    BY DEF OneServer
  <2>1. ASSUME spc[s] = "init", ~event PROVE port = None
    <3>1. mutex = s
      BY <2>1 DEF IInv, Serial
    <3>2. ASSUME port \in Servers PROVE spc[port] \notin {"ready", "close"}
      BY <2>1, <3>1, <3>2 DEF IInv, Serial
    <3>3. port = None \/ spc[port] \in {"ready", "close"}
      BY <2>1 DEF IInv, Serial
    <3>4. QED BY <3>2, <3>3 DEF IInv, TypeOK
  <2>2. QED BY <2>1 DEF IInv, Serial
<1>2. QED BY Invariant, <1>1, PTL

\* A server that has decided to leave has no session and no sensor.
THEOREM NobodyIsCutOff == Spec => []NobodyCutOff
<1>1. IInv => NobodyCutOff
  BY DEF IInv, Confined, NobodyCutOff, Live, Busy, Listed
<1>2. QED BY Invariant, <1>1, PTL

\* The Kinect is opened for the first session that wants it, never closed
\* under one, and closed only after the last has given it back.
THEOREM ServerImplementsLease == Spec => LeaseHolds
<1>1. Init => Lease!LeaseInit
  BY DEF Init, Lease!LeaseInit
<1>2. IInv /\ [Next]_vars => [Lease!LeaseNext]_(Lease!leaseVars)
  <2>1. LeaseStepOf => [Lease!LeaseNext]_(Lease!leaseVars)
    BY Zenon DEF LeaseStepOf, IsOpen, Users, Lease!LeaseNext, Lease!Take, Lease!Give, Lease!Close, Lease!leaseVars
  <2>2. QED BY <2>1, LeaseStep DEF IInv
<1>3. QED BY Invariant, <1>1, <1>2, PTL DEF Spec, LeaseHolds, Lease!LeaseSpec

\* A client none of whose waits has timed out takes the answer to its own
\* request out of the reply slot.
THEOREM AnswersAreOwn == Spec => OwnAnswer
<1> DEFINE Own == \A c \in Clients :
       slot[c] # None /\ cpc[c] \in {"asking", "leaving"} /\ cpc'[c] # cpc[c] /\ cpc'[c] # "gone" /\ ~late[c]
         => slot[c] = asked[c]
<1>1. IInv => Own
  BY AnswerStep DEF IInv
<1>2. QED BY Invariant, <1>1, PTL DEF OwnAnswer
-----------------------------------------------------------------------------
(***************************************************************************)
(* What the liveness properties rest on.  The mutex is held only across    *)
(* the few calls that change the event and the port; who has been let in   *)
(* keeps the sensor; and an answer that a client waits for is always on    *)
(* its way.                                                                *)
(***************************************************************************)

\* The converse of Serial: whoever has the mutex is about to let it go.
MutexHasOwner ==
  mutex # None =>
    \/ mutex \in Clients /\ cpc[mutex] = "look"
    \/ mutex \in Servers /\ spc[mutex] \in {"init", "ready", "recheck", "close"}

LEMMA MutexStep ==
  ASSUME TypeOK, Serial, MutexHasOwner, [Next]_vars PROVE MutexHasOwner'
<1> USE SensorAssumption DEF TypeOK, MutexHasOwner
<1>1. ASSUME NEW c \in Clients, Session(c) PROVE MutexHasOwner'
  BY <1>1, SessionFrame
<1>2. ASSUME NEW c \in Clients, Client(c) \/ EndProcess(c) PROVE MutexHasOwner'
  <2>1. CASE LockToLook(c)
    BY <2>1 DEF LockToLook, Goto
  <2>2. CASE LookUnlocked(c)
    BY <2>2 DEF LookUnlocked
  <2>3. CASE StartServer(c)
    <3>1. mutex' = mutex /\ (\A d \in Clients : cpc[d] = "look" => cpc'[d] = "look")
      BY <2>3 DEF StartServer, Goto
    <3>2. \A s \in Servers : spc'[s] = spc[s] \/ spc[s] = "none"
      BY <2>3 DEF StartServer, Run
    <3>3. QED BY <3>1, <3>2
  <2>4. CASE ~(LockToLook(c) \/ LookUnlocked(c) \/ StartServer(c))
    <3>1. UNCHANGED <<mutex, spc>> /\ (\A d \in Clients : cpc[d] = "look" => cpc'[d] = "look")
      BY <1>2, <2>4 DEF Client, EndProcess, WaitForServer, Connect, ReadInitialState, Ask,
         SayBye, Listen, TakeReply, ReplyTimeout, Answered, Goto
    <3>2. QED BY <3>1
  <2>5. QED BY <2>1, <2>2, <2>3, <2>4
<1>3. ASSUME NEW s \in Servers, Server(s) PROVE MutexHasOwner'
  <2> cpc' = cpc
    BY <1>3, ServerFrame
  <2>1. CASE Boot(s) BY <2>1 DEF Boot, Run
  <2>2. CASE InitServer(s) BY <2>2 DEF InitServer, Run
  <2>3. CASE SignalRunning(s) BY <2>3 DEF SignalRunning
  <2>4. CASE LockToLeave(s) BY <2>4 DEF LockToLeave, Run
  <2>5. CASE Recheck(s) BY <2>5 DEF Recheck, Run
  <2>6. CASE CloseSocket(s) BY <2>6 DEF CloseSocket
  <2>7. CASE ~(Boot(s) \/ InitServer(s) \/ SignalRunning(s) \/ LockToLeave(s)
               \/ Recheck(s) \/ CloseSocket(s))
    <3>1. /\ mutex' = mutex
          /\ spc' = spc \/ (spc[s] \in Busy \ {"recheck"} /\ \E b : spc' = [spc EXCEPT ![s] = b])
      BY <1>3, <2>7 DEF Server, Accept, AcceptTimeout, CloseSensor, KeepSensor,
         CleanUpSessions, WantShutdown, GoOn, StayUnlocked, Run, Busy
    <3>2. QED BY <3>1 DEF Busy
  <2>8. QED BY <2>1, <2>2, <2>3, <2>4, <2>5, <2>6, <2>7
<1>4. CASE UNCHANGED vars
  BY <1>4 DEF vars
<1>5. QED BY <1>1, <1>2, <1>3, <1>4 DEF Next

-----------------------------------------------------------------------------
\* What the main thread of a server does to sessions.
LEMMA ServerSessions ==
  ASSUME TypeOK, NEW s \in Servers, Server(s), NEW d \in Clients
  PROVE  \/ sess'[d] = sess[d]
         \/ sess[d] = "none" /\ sess'[d] \in {"serving", "cut"}
         \/ sess[d] = "ended" /\ sess'[d] = "cut"
<1> USE DEF TypeOK, service
<1>1. CASE Boot(s) \/ InitServer(s) \/ SignalRunning(s) \/ AcceptTimeout(s) \/ KeepSensor(s)
  BY <1>1 DEF Boot, InitServer, SignalRunning, AcceptTimeout, KeepSensor
<1>2. CASE WantShutdown(s) \/ GoOn(s) \/ LockToLeave(s) \/ StayUnlocked(s) \/ Recheck(s)
  BY <1>2 DEF WantShutdown, GoOn, LockToLeave, StayUnlocked, Recheck
<1>3. CASE CloseSensor(s)
  BY <1>3 DEF CloseSensor
<1>4. CASE CleanUpSessions(s)
  BY <1>4 DEF CleanUpSessions
<1>5. CASE CloseSocket(s)
  BY <1>5 DEF CloseSocket, Queued
<1>6. CASE \E c \in Clients : Accept(s, c)
  BY <1>6 DEF Accept, Queued
<1>7. QED BY <1>1, <1>2, <1>3, <1>4, <1>5, <1>6 DEF Server

\* A step of a client or of its session is none of another.
LEMMA OnlyOwn ==
  ASSUME TypeOK, NEW c \in Clients, Client(c) \/ EndProcess(c) \/ Session(c),
         NEW d \in Clients, d # c
  PROVE  /\ cpc'[d] = cpc[d] /\ host'[d] = host[d] /\ sess'[d] = sess[d]
         /\ holds'[d] = holds[d] /\ inbox'[d] = inbox[d] /\ replies'[d] = replies[d]
         /\ slot'[d] = slot[d] /\ late'[d] = late[d]
<1> USE TypeParts DEF net, wait, service
<1>1. CASE Client(c) \/ EndProcess(c)
  <2>1. UNCHANGED <<sess, holds>>
    BY <1>1, ClientFrame
  <2>2. QED
    BY <1>1, <2>1 DEF StateOK, Client, EndProcess, LockToLook, LookUnlocked, StartServer,
       WaitForServer, Connect, ReadInitialState, Ask, SayBye, Send, Listen, TakeReply,
       ReplyTimeout, Answered, Goto
<1>2. CASE Session(c)
  <2>1. UNCHANGED <<cpc, host, slot, late>>
    BY <1>2, SessionFrame
  <2>2. inbox'[d] = inbox[d] /\ replies'[d] = replies[d]
    <3>1. inbox'[d] = inbox[d]
      BY <1>2, SessionInbox
    <3>2. replies'[d] = replies[d]
      BY <1>2, SessionAnswers
    <3>3. QED BY <3>1, <3>2
  <2>3. sess'[d] = sess[d] /\ holds'[d] = holds[d]
    <3>1. CASE OpenSensor(c)
      <4>1. sess' = sess /\ (TakeSensor(c) \/ UNCHANGED <<sensor, refs, holds>>)
        BY <3>1, OpenEffect, Zenon
      <4>2. QED BY <4>1 DEF TakeSensor, StateOK
    <3>2. CASE Answer(c) \/ HandleBye(c) \/ HangUp(c) \/ EndSession(c)
      <4>1. \/ sess' = sess /\ holds' = holds
            \/ \E r : sess' = [sess EXCEPT ![c] = r] /\ (holds' = holds \/ ReleaseSensor(c))
        BY <3>2, OtherEffect, Zenon
      <4>2. QED BY <4>1 DEF ReleaseSensor, StateOK
    <3>3. QED BY <1>2, <3>1, <3>2 DEF Session
  <2>4. QED BY <2>1, <2>2, <2>3
<1>3. QED BY <1>1, <1>2

\* A session that reads a request of a client that listens sends it a reply.
LEMMA ReplyArrives ==
  ASSUME TypeOK, NEW c \in Clients, NEW ok, Reply(c, ok),
         cpc[c] \notin {"left", "failed", "gone"}
  PROVE  replies'[c] # <<>>
         /\ (replies[c] = <<>> => \A i \in DOMAIN replies'[c] : replies'[c][i].ok = ok)
<1> DEFINE m == [to |-> Head(inbox[c]), ok |-> ok]
<1>1. replies' = [replies EXCEPT ![c] = Append(@, m)]
  BY DEF Reply
<1> PICK q \in Seq(Answers) : q = replies[c]
  BY TypeParts
<1>2. replies'[c] = Append(q, m)
  BY <1>1, TypeParts
<1>3. m.ok = ok
  OBVIOUS
<1> HIDE DEF m
<1>4. Append(q, m) # <<>>
  OBVIOUS
<1>5. q = <<>> => Append(q, m) = <<m>>
  OBVIOUS
<1>6. \A i \in DOMAIN <<m>> : <<m>>[i].ok = ok
  BY <1>3
<1>7. QED BY <1>2, <1>4, <1>5, <1>6

\* What a client may count on once the server has answered it: the initial
\* state is only sent with a reference to the sensor taken for its session,
\* and no request that reaches the session before the BYE gives that back.
EntitledIn(at, in, out, h) ==
  /\ at = "opening" => /\ \A i \in DOMAIN in : in[i] = 0
                       /\ \A i \in DOMAIN out : out[i].ok => h
  /\ at \in {"using", "asking"} => h /\ \A i \in DOMAIN in : in[i] \in 1 .. MaxAsk
Entitled == \A c \in Clients : EntitledIn(cpc[c], inbox[c], replies[c], holds[c])

\* Where the answer is that a client waits for which has never waited in vain:
\* in its request, read by a session or still to get one; in a reply; or in the
\* slot.  Only a connection that the server has not let in owes nothing.
DueIn(at, h, s, in, out, got, tardy) ==
  /\ at = "opening" => /\ h # None
                       /\ \/ s = "cut" \/ out # <<>>
                          \/ in # <<>> /\ s \in {"none", "serving"}
  /\ at \in {"asking", "leaving"} /\ ~tardy =>
       (in # <<>> /\ s = "serving") \/ out # <<>> \/ got # None
Due == \A c \in Clients :
         DueIn(cpc[c], host[c], sess[c], inbox[c], replies[c], slot[c], late[c])

\* Of two queues that hold one message, one is empty.
LEMMA TwoQueues ==
  ASSUME NEW Q, NEW A, NEW q \in Seq(Q), NEW a \in Seq(A), Len(q) + Len(a) <= 1
  PROVE  (q # <<>> => a = <<>>) /\ (a # <<>> => q = <<>>)
<1>1. Len(q) \in Nat /\ Len(a) \in Nat
  OBVIOUS
<1>2. (Len(q) = 0 <=> q = <<>>) /\ (Len(a) = 0 <=> a = <<>>)
  OBVIOUS
<1>3. QED BY <1>1, <1>2

LEMMA EntitledStep ==
  ASSUME IInv, Entitled, [Next]_vars PROVE Entitled'
<1> USE DEF IInv, net, wait, service
<1>0. StateOK /\ inbox \in [Clients -> Seq(Requests)] /\ replies \in [Clients -> Seq(Answers)]
  BY TypeParts
<1> DEFINE Fits(c) == EntitledIn(cpc[c], inbox[c], replies[c], holds[c])
<1>1. ASSUME NEW c \in Clients, Client(c) \/ EndProcess(c) \/ Session(c), Fits(c)'
      PROVE  Entitled'
  <2>1. \A d \in Clients : d # c => Fits(d)'
    BY <1>1, OnlyOwn DEF Entitled
  <2>2. QED BY <1>1, <2>1 DEF Entitled
<1>2. ASSUME NEW c \in Clients, Session(c) PROVE Fits(c)'
  <2>0. Fits(c) /\ InOrder(cpc[c], inbox[c], replies[c], slot[c], asked[c], late[c])
    BY DEF Entitled, Outstanding, Orderly
  <2>1. cpc' = cpc
    BY <1>2, SessionFrame
  <2> PICK q \in Seq(Requests) : q = inbox[c]
    BY <1>0
  <2>2. CASE OpenSensor(c)
    <3>1. /\ q # <<>> /\ Head(q) = 0 /\ inbox' = [inbox EXCEPT ![c] = Tail(@)]
      BY <2>2, OpenEffect, Zenon
    <3>2. cpc[c] \notin {"using", "asking"}
      <4>1. 1 \in DOMAIN q /\ q[1] = 0
        BY <3>1
      <4>2. QED BY <2>0, <4>1 DEF EntitledIn
    <3>3. CASE cpc[c] = "opening"
      <4>1. replies[c] = <<>>
        <5>1. Len(q) + Len(replies[c]) <= 1
          BY <2>0, <3>3 DEF InOrder
        <5>2. QED BY <1>0, <3>1, <5>1, TwoQueues, Zenon
      <4>2. \A i \in DOMAIN inbox'[c] : inbox'[c][i] = 0
        <5>1. inbox'[c] = Tail(q) /\ \A i \in DOMAIN q : q[i] = 0
          BY <1>0, <2>0, <3>1, <3>3 DEF EntitledIn
        <5>2. QED BY <3>1, <5>1
      <4>3. CASE TakeSensor(c)
        BY <1>0, <2>1, <3>3, <4>2, <4>3 DEF TakeSensor, EntitledIn, StateOK
      <4>4. CASE Reply(c, FALSE)
        <5>1. \A i \in DOMAIN replies'[c] : replies'[c][i].ok = FALSE
          BY <3>3, <4>1, <4>4, ReplyArrives
        <5>2. QED BY <2>1, <3>3, <4>2, <5>1 DEF EntitledIn
      <4>5. QED BY <2>2, <4>3, <4>4, Zenon DEF OpenSensor
    <3>4. QED BY <2>1, <3>2, <3>3 DEF EntitledIn
  <2>3. CASE Answer(c)
    <3>1. /\ q # <<>> /\ Head(q) \in 1 .. MaxAsk
          /\ inbox' = [inbox EXCEPT ![c] = Tail(@)] /\ holds' = holds
      BY <2>3 DEF Answer, Request
    <3>2. 1 \in DOMAIN q /\ q[1] # 0
      BY <3>1
    <3>3. inbox'[c] = Tail(q)
      BY <1>0, <3>1
    <3>4. (\A i \in DOMAIN q : q[i] \in 1 .. MaxAsk)
            => \A i \in DOMAIN Tail(q) : Tail(q)[i] \in 1 .. MaxAsk
      BY <3>1
    <3>5. QED BY <2>0, <2>1, <3>1, <3>2, <3>3, <3>4 DEF EntitledIn
  <2>4. CASE HandleBye(c)
    <3>1. q # <<>> /\ Head(q) = Bye
      BY <2>4 DEF HandleBye, Request
    <3>2. 1 \in DOMAIN q /\ q[1] # 0 /\ q[1] \notin 1 .. MaxAsk
      BY <3>1, SensorAssumption DEF Bye
    <3>3. QED BY <2>0, <2>1, <3>2 DEF EntitledIn
  <2>5. CASE HangUp(c)
    BY <2>1, <2>5 DEF HangUp, EntitledIn
  <2>6. CASE EndSession(c)
    BY <2>0, <2>1, <2>6 DEF EndSession
  <2>7. QED BY <1>2, <2>2, <2>3, <2>4, <2>5, <2>6 DEF Session
<1>3. ASSUME NEW c \in Clients, Client(c) \/ EndProcess(c) PROVE Fits(c)'
  <2>0. Fits(c) /\ InOrder(cpc[c], inbox[c], replies[c], slot[c], asked[c], late[c])
    BY DEF Entitled, Outstanding, Orderly
  <2> PICK q \in Seq(Requests), a \in Seq(Answers) : q = inbox[c] /\ a = replies[c]
    BY <1>0
  <2>1. holds' = holds
    BY <1>3, ClientFrame
  <2>2. CASE Connect(c)
    <3>1. a = <<>> /\ replies' = replies
      BY <2>0, <2>2 DEF Connect, Goto, InOrder, Early
    <3>2. cpc'[c] = "opening" => inbox'[c] = <<0>>
      BY <1>0, <2>2 DEF Connect, Goto, StateOK
    <3>3. cpc'[c] \in {"opening", "retry", "gone"}
      BY <1>0, <2>2 DEF Connect, Goto, StateOK
    <3>4. (\A i \in DOMAIN <<0>> : <<0>>[i] = 0) /\ \A i \in DOMAIN <<>> : FALSE
      OBVIOUS
    <3>5. CASE cpc'[c] = "opening"
      <4>1. inbox'[c] = <<0>> /\ replies'[c] = <<>>
        BY <3>1, <3>2, <3>5
      <4>2. QED BY <3>4, <3>5, <4>1 DEF EntitledIn
    <3>6. CASE cpc'[c] # "opening"
      BY <3>3, <3>6 DEF EntitledIn
    <3>7. QED BY <3>5, <3>6
  <2>3. CASE ReadInitialState(c)
    <3>1. CASE a # <<>> /\ Head(a).ok
      <4>1. cpc[c] = "opening" /\ inbox' = inbox
        BY <2>3 DEF ReadInitialState, Goto
      <4>2. 1 \in DOMAIN a /\ a[1].ok
        BY <3>1
      <4>3. holds[c]
        BY <2>0, <4>1, <4>2 DEF EntitledIn
      <4>4. q = <<>>
        <5>1. Len(q) + Len(a) <= 1
          BY <2>0, <4>1 DEF InOrder
        <5>2. QED BY <3>1, <5>1, TwoQueues, Zenon
      <4>5. cpc'[c] = "using"
        BY <1>0, <2>3, <3>1 DEF ReadInitialState, Goto, StateOK
      <4>6. QED BY <2>1, <4>1, <4>3, <4>4, <4>5 DEF EntitledIn
    <3>2. CASE ~(a # <<>> /\ Head(a).ok)
      <4>1. cpc'[c] = "failed"
        BY <1>0, <2>3, <3>2 DEF ReadInitialState, Goto, StateOK
      <4>2. QED BY <4>1 DEF EntitledIn
    <3>3. QED BY <3>1, <3>2
  <2>4. CASE Ask(c)
    <3>1. cpc[c] = "using" /\ cpc'[c] = "asking"
      BY <1>0, <2>4 DEF Ask, Goto, StateOK
    <3>2. asked[c] + 1 \in 1 .. MaxAsk
      BY <1>0, <2>4, SensorAssumption DEF Ask, StateOK
    <3> PICK n \in 1 .. MaxAsk : n = asked[c] + 1
      BY <3>2
    <3>3. inbox'[c] = Append(q, n)
      BY <1>0, <2>4 DEF Ask, Send
    <3>4. (\A i \in DOMAIN q : q[i] \in 1 .. MaxAsk)
            => \A i \in DOMAIN Append(q, n) : Append(q, n)[i] \in 1 .. MaxAsk
      OBVIOUS
    <3>5. QED BY <2>0, <2>1, <3>1, <3>3, <3>4 DEF EntitledIn
  <2>5. CASE Listen(c) \/ TakeReply(c) \/ ReplyTimeout(c)
    <3>1. inbox' = inbox
      BY <2>5 DEF Listen, TakeReply, ReplyTimeout
    <3>2. /\ cpc[c] \in {"using", "asking", "leaving"} /\ cpc'[c] \in {"using", "asking", "leaving", "left"}
          /\ cpc'[c] \in {"using", "asking"} => cpc[c] \in {"using", "asking"}
      BY <1>0, <2>5 DEF Listen, TakeReply, ReplyTimeout, Answered, Goto, StateOK
    <3>3. QED BY <2>0, <2>1, <3>1, <3>2 DEF EntitledIn
  <2>6. CASE ~(Connect(c) \/ ReadInitialState(c) \/ Ask(c) \/ Listen(c) \/ TakeReply(c) \/ ReplyTimeout(c))
    <3>1. cpc'[c] \notin {"opening", "using", "asking"}
      BY <1>0, <1>3, <2>6 DEF Client, EndProcess, LockToLook, LookUnlocked, StartServer,
         WaitForServer, SayBye, Goto, StateOK
    <3>2. QED BY <3>1 DEF EntitledIn
  <2>7. QED BY <2>2, <2>3, <2>4, <2>5, <2>6
<1>4. ASSUME NEW s \in Servers, Server(s) PROVE Entitled'
  BY <1>4, ServerFrame DEF Entitled
<1>5. CASE UNCHANGED vars
  BY <1>5 DEF vars, Entitled
<1>6. QED BY <1>1, <1>2, <1>3, <1>4, <1>5 DEF Next

\* A connection that waits to be let in waits at the open port.
QueuedAtPort == \A c \in Clients : host[c] # None /\ sess[c] = "none" => port = host[c]

LEMMA DueStep ==
  ASSUME IInv, Entitled, Due, [Next]_vars PROVE Due'
<1> USE DEF IInv, net, wait, service
<1>0. StateOK /\ inbox \in [Clients -> Seq(Requests)] /\ replies \in [Clients -> Seq(Answers)]
  BY TypeParts
<1> DEFINE Fits(c) == DueIn(cpc[c], host[c], sess[c], inbox[c], replies[c], slot[c], late[c])
<1>1. ASSUME NEW c \in Clients, Client(c) \/ EndProcess(c) \/ Session(c), Fits(c)'
      PROVE  Due'
  <2>1. \A d \in Clients : d # c => Fits(d)'
    BY <1>1, OnlyOwn DEF Due
  <2>2. QED BY <1>1, <2>1 DEF Due
<1>2. ASSUME NEW c \in Clients, Session(c) PROVE Fits(c)'
  <2>0. Fits(c)
    BY DEF Due
  <2>1. UNCHANGED <<cpc, host, slot, late>>
    BY <1>2, SessionFrame
  <2>2. ASSUME NEW ok, Reply(c, ok) PROVE Fits(c)'
    <3>1. CASE cpc[c] \in {"left", "failed", "gone"}
      BY <2>1, <3>1 DEF DueIn
    <3>2. CASE cpc[c] \notin {"left", "failed", "gone"}
      <4>1. replies'[c] # <<>>
        BY <2>2, <3>2, ReplyArrives
      <4>2. QED BY <2>0, <2>1, <4>1 DEF DueIn
    <3>3. QED BY <3>1, <3>2
  <2>3. CASE OpenSensor(c)
    BY <2>2, <2>3, Zenon DEF OpenSensor
  <2>4. CASE Answer(c)
    BY <2>2, <2>4, Zenon DEF Answer
  <2>5. CASE HandleBye(c)
    BY <2>2, <2>5, Zenon DEF HandleBye
  <2>6. CASE HangUp(c)
    BY <2>1, <2>6 DEF HangUp, DueIn
  <2>7. CASE EndSession(c)
    <3>1. UNCHANGED <<inbox, replies>> /\ sess[c] = "ending"
      BY <2>7 DEF EndSession
    <3>2. QED BY <2>0, <2>1, <3>1 DEF DueIn
  <2>8. QED BY <1>2, <2>3, <2>4, <2>5, <2>6, <2>7 DEF Session
<1>3. ASSUME NEW c \in Clients, Client(c) \/ EndProcess(c) PROVE Fits(c)'
  <2>0. Fits(c)
    BY DEF Due
  <2> PICK q \in Seq(Requests), a \in Seq(Answers) : q = inbox[c] /\ a = replies[c]
    BY <1>0
  <2>1. UNCHANGED <<sess, port>>
    BY <1>3, ClientFrame
  <2>2. CASE Connect(c)
    <3>1. sess[c] = "none"
      BY <2>2 DEF Connect, Goto, Confined, Early
    <3>2. cpc'[c] = "opening" => inbox'[c] = <<0>> /\ host'[c] # None
      BY <1>0, <2>2, SensorAssumption DEF Connect, Goto, StateOK
    <3>3. cpc'[c] \in {"opening", "retry", "gone"}
      BY <1>0, <2>2 DEF Connect, Goto, StateOK
    <3>4. <<0>> # <<>>
      OBVIOUS
    <3>5. QED BY <2>1, <3>1, <3>2, <3>3, <3>4 DEF DueIn
  <2>3. CASE Ask(c) \/ SayBye(c)
    <3>1. cpc[c] = "using" /\ cpc'[c] \in {"asking", "leaving"}
      BY <1>0, <2>3 DEF Ask, SayBye, Goto, StateOK
    <3>2. sess[c] = "serving"
      BY <3>1 DEF Entitled, EntitledIn, Counts
    <3>3. \E n : inbox'[c] = Append(q, n)
      BY <1>0, <2>3 DEF Ask, SayBye, Send
    <3>4. \A n : Append(q, n) # <<>>
      OBVIOUS
    <3>5. QED BY <2>1, <3>1, <3>2, <3>3, <3>4 DEF DueIn
  <2>4. CASE Listen(c)
    <3>1. a # <<>> /\ slot' = [slot EXCEPT ![c] = Head(a).to] /\ cpc' = cpc
          /\ cpc[c] \in {"using", "asking", "leaving"}
      BY <2>4 DEF Listen
    <3>2. Head(a) \in Answers
      BY <3>1
    <3>3. Head(a).to \in 0 .. MaxAsk + 1
      BY <3>2 DEF Answers, Requests, Bye
    <3>4. slot'[c] # None
      BY <1>0, <3>1, <3>3, SensorAssumption DEF StateOK
    <3>5. QED BY <3>1, <3>4 DEF DueIn
  <2>5. CASE ~(Connect(c) \/ Ask(c) \/ SayBye(c) \/ Listen(c))
    <3>1. cpc'[c] \notin {"opening", "asking", "leaving"}
      BY <1>0, <1>3, <2>5 DEF Client, EndProcess, LockToLook, LookUnlocked, StartServer,
         WaitForServer, ReadInitialState, TakeReply, ReplyTimeout, Answered, Goto, StateOK
    <3>2. QED BY <3>1 DEF DueIn
  <2>6. QED BY <2>2, <2>3, <2>4, <2>5
<1>4. ASSUME NEW s \in Servers, Server(s) PROVE Due'
  <2> SUFFICES ASSUME NEW c \in Clients PROVE Fits(c)'
    BY DEF Due
  <2>1. UNCHANGED <<cpc, host, inbox, replies, slot, late>>
    BY <1>4, ServerFrame
  <2>2. \/ sess'[c] = sess[c]
        \/ sess[c] = "none" /\ sess'[c] \in {"serving", "cut"}
        \/ sess[c] = "ended" /\ sess'[c] = "cut"
    BY <1>4, ServerSessions
  <2>3. Fits(c)
    BY DEF Due
  <2>4. QED BY <2>1, <2>2, <2>3 DEF DueIn
<1>5. CASE UNCHANGED vars
  BY <1>5 DEF vars, Due
<1>6. QED BY <1>1, <1>2, <1>3, <1>4, <1>5 DEF Next

LEMMA QueuedStep ==
  ASSUME IInv, QueuedAtPort, [Next]_vars PROVE QueuedAtPort'
<1> USE SensorAssumption DEF IInv, TypeOK, QueuedAtPort
<1>1. ASSUME NEW c \in Clients, Session(c) PROVE QueuedAtPort'
  <2>1. UNCHANGED <<port, host>>
    BY <1>1, SessionFrame
  <2>2. sess'[c] # "none" \/ sess'[c] = sess[c]
    <3>1. CASE OpenSensor(c) BY <3>1 DEF OpenSensor
    <3>2. CASE Answer(c) BY <3>2 DEF Answer, service
    <3>3. CASE HandleBye(c) BY <3>3 DEF HandleBye
    <3>4. CASE HangUp(c) BY <3>4 DEF HangUp
    <3>5. CASE EndSession(c) BY <3>5 DEF EndSession
    <3>6. QED BY <1>1, <3>1, <3>2, <3>3, <3>4, <3>5 DEF Session
  <2>3. \A d \in Clients : d # c => sess'[d] = sess[d]
    BY <1>1, OnlyOwn
  <2>4. QED BY <2>1, <2>2, <2>3
<1>2. ASSUME NEW c \in Clients, Client(c) \/ EndProcess(c) PROVE QueuedAtPort'
  <2>1. UNCHANGED <<sess, port>>
    BY <1>2, ClientFrame
  <2>2. host' = host \/ host' = [host EXCEPT ![c] = port]
    BY <1>2, ClientInbox
  <2>3. QED BY <2>1, <2>2
<1>3. ASSUME NEW s \in Servers, Server(s) PROVE QueuedAtPort'
  <2>1. host' = host
    BY <1>3, ServerFrame
  <2>2. \A d \in Clients : sess'[d] = "none" => sess[d] = "none"
    BY <1>3, ServerSessions
  <2>3. CASE InitServer(s)
    BY <2>1, <2>2, <2>3 DEF InitServer
  <2>4. CASE CloseSocket(s)
    <3>1. port = s
      BY <2>4 DEF CloseSocket, Run, Serial, Serving
    <3>2. \A d \in Clients : sess'[d] = "none" => sess[d] = "none" /\ host[d] # s
      BY <2>4 DEF CloseSocket, Queued
    <3>3. QED BY <2>1, <3>1, <3>2
  <2>5. CASE ~(InitServer(s) \/ CloseSocket(s))
    <3>1. port' = port
      BY <1>3, <2>5 DEF Server, Boot, SignalRunning, Accept, AcceptTimeout, CloseSensor,
         KeepSensor, CleanUpSessions, WantShutdown, GoOn, LockToLeave, StayUnlocked, Recheck
    <3>2. QED BY <2>1, <2>2, <3>1
  <2>6. QED BY <2>3, <2>4, <2>5
<1>4. CASE UNCHANGED vars
  BY <1>4 DEF vars, net, service
<1>5. QED BY <1>1, <1>2, <1>3, <1>4 DEF Next

\* The whole of it.
JInv == IInv /\ MutexHasOwner /\ Entitled /\ Due /\ QueuedAtPort

LEMMA StrongInvariant == Spec => []JInv
<1>1. Init => JInv
  <2> SUFFICES ASSUME Init PROVE JInv
    OBVIOUS
  <2>1. MutexHasOwner /\ QueuedAtPort
    BY DEF Init, MutexHasOwner, QueuedAtPort
  <2>2. Entitled /\ Due
    BY DEF Init, Entitled, EntitledIn, Due, DueIn
  <2>3. QED BY <2>1, <2>2, InitInv DEF JInv
<1>2. JInv /\ [Next]_vars => JInv'
  BY TypeStep, SerialStep, ConfinedStep, CountsStep, OutstandingStep, MutexStep,
     EntitledStep, DueStep, QueuedStep DEF JInv, IInv
<1>3. QED BY <1>1, <1>2, PTL DEF Spec

\* The named mutex is held only by a client that looks for a server and by a
\* server that starts, looks again or closes: nobody who works, waits, or has
\* ended has it, so that the 15 seconds of XnSensorClient::InitImpl are spent
\* on those few calls alone.
THEOREM MutexIsNeverKept == Spec => []MutexHasOwner
<1>1. JInv => MutexHasOwner
  BY DEF JInv
<1>2. QED BY StrongInvariant, <1>1, PTL

\* A client that uses the Kinect has the sensor open, at a server that runs,
\* and counted for it, however long other clients come and go and whether or
\* not its waits time out: it got its initial state with the reference
\* (HandleOpenSensor), and only its own BYE or its end gives that back.
UsersHaveTheSensor ==
  \A c \in Clients : cpc[c] \in {"using", "asking"} =>
    /\ holds[c] /\ sess[c] = "serving"
    /\ host[c] \in Servers /\ sensor[host[c]] /\ spc[host[c]] \in Busy
    /\ port = host[c] /\ refs[host[c]] > 0

THEOREM UsersKeepTheSensor == Spec => []UsersHaveTheSensor
<1>1. JInv => UsersHaveTheSensor
  <2> SUFFICES ASSUME JInv, NEW c \in Clients, cpc[c] \in {"using", "asking"}
               PROVE  /\ holds[c] /\ sess[c] = "serving"
                      /\ host[c] \in Servers /\ sensor[host[c]] /\ spc[host[c]] \in Busy
                      /\ port = host[c] /\ refs[host[c]] > 0
    BY DEF UsersHaveTheSensor
  <2>1. holds[c] /\ sess[c] = "serving" /\ sensor[host[c]]
    BY DEF JInv, IInv, Entitled, EntitledIn, Counts
  <2>2. host[c] \in Servers /\ spc[host[c]] \in Busy
    BY <2>1 DEF JInv, IInv, Confined, Live
  <2>3. port = host[c]
    BY <2>2 DEF JInv, IInv, Serial, Busy, Serving
  <2>4. refs[host[c]] > 0
    <3>1. c \in Holding(host[c])
      BY <2>1 DEF Holding
    <3>2. refs[host[c]] = Cardinality(Holding(host[c]))
      BY <2>2 DEF JInv, IInv, Counts
    <3>3. QED BY <3>1, <3>2, CountsRestrict, FS_EmptySet
  <2>5. QED BY <2>1, <2>2, <2>3, <2>4
<1>2. QED BY StrongInvariant, <1>1, PTL

\* No answer is ever lost: while a client that has not waited in vain waits,
\* its request is with a session that serves or in the queue of the open
\* port, or the reply is on its way, or it is in the slot; unless the server
\* did not let the client in.  This is what PatientIsServed needs beside the
\* fairness of the threads.
AnswerIsOnItsWay ==
  \A c \in Clients : cpc[c] \in {"opening", "asking", "leaving"} /\ ~late[c] =>
    \/ inbox[c] # <<>> /\ (sess[c] = "serving" \/ (sess[c] = "none" /\ port = host[c]))
    \/ replies[c] # <<>>
    \/ slot[c] # None
    \/ cpc[c] = "opening" /\ sess[c] = "cut"

THEOREM NoAnswerIsLost == Spec => []AnswerIsOnItsWay
<1>1. JInv => AnswerIsOnItsWay
  BY DEF JInv, Due, DueIn, QueuedAtPort, AnswerIsOnItsWay
<1>2. QED BY StrongInvariant, <1>1, PTL
-----------------------------------------------------------------------------
(***************************************************************************)
(* Once every client is gone: what ServerLeaves needs beside the fairness. *)
(***************************************************************************)
\* No reference outlives the sessions: a server none of whose sessions serves
\* has a reference count of 0, the guard of CloseSensor, whether its clients
\* said BYE, failed or died (CloseSensorImpl is called once in each case).
NoReferenceLeaks ==
  \A s \in Servers :
    (\A c \in Clients : host[c] = s => sess[c] # "serving") => refs[s] = 0

THEOREM ReferencesEndWithSessions == Spec => []NoReferenceLeaks
<1>1. IInv => NoReferenceLeaks
  <2> SUFFICES ASSUME IInv, NEW s \in Servers,
                      \A c \in Clients : host[c] = s => sess[c] # "serving"
               PROVE  refs[s] = 0
    BY DEF NoReferenceLeaks
  <2>1. Holding(s) = {}
    BY DEF IInv, Counts, Holding
  <2>2. QED BY <2>1, FS_EmptySet DEF IInv, Counts
<1>2. QED BY Invariant, <1>1, PTL

Gone == \A c \in Clients : cpc[c] = "gone"

\* A session is let in, serves, ends and is buried.
Phase(x) == CASE x = "none" -> 4 [] x = "serving" -> 3 [] x = "ending" -> 2
              [] x = "ended" -> 1 [] OTHER -> 0

\* When the clients are gone they stay gone, sessions only go on to their end
\* and requests become fewer, no server starts that has not yet been started
\* or comes back that has left, and a sensor is opened by an old request only.
OnlyLeftovers ==
  /\ Gone'
  /\ \A c \in Clients : /\ Phase(sess'[c]) <= Phase(sess[c])
                        /\ inbox'[c] = inbox[c] \/ Len(inbox'[c]) < Len(inbox[c])
  /\ \A s \in Servers : spc[s] \in {"none", "exit"} => spc'[s] = spc[s]
  /\ \A s \in Servers : sensor'[s] /\ ~sensor[s] =>
       \E c \in Clients : host[c] = s /\ sess[c] = "serving" /\ Len(inbox'[c]) < Len(inbox[c])

LeftoversRunOut == [][Gone => OnlyLeftovers]_vars

LEMMA TailIsShorter ==
  ASSUME NEW q \in Seq(0 .. Bye), q # <<>>
  PROVE  Len(Tail(q)) < Len(q) /\ Len(<<>>) < Len(q)
<1>1. Len(q) \in Nat /\ Len(q) # 0
  OBVIOUS
<1>2. QED BY <1>1

LEMMA ShorterInbox ==
  ASSUME TypeOK, NEW c \in Clients, inbox[c] # <<>>,
         inbox' = [inbox EXCEPT ![c] = Tail(@)] \/ inbox' = [inbox EXCEPT ![c] = <<>>]
  PROVE  /\ Len(inbox'[c]) < Len(inbox[c])
         /\ \A d \in Clients : inbox'[d] = inbox[d] \/ Len(inbox'[d]) < Len(inbox[d])
<1>1. inbox[c] \in Seq(0 .. Bye) /\ DOMAIN inbox = Clients
  BY DEF TypeOK
<1>2. Len(Tail(inbox[c])) < Len(inbox[c]) /\ Len(<<>>) < Len(inbox[c])
  BY <1>1, TailIsShorter, Zenon
<1>3. /\ inbox'[c] = Tail(inbox[c]) \/ inbox'[c] = <<>>
      /\ \A d \in Clients : d # c => inbox'[d] = inbox[d]
  BY <1>1, Zenon
<1>4. QED BY <1>2, <1>3

LEMMA LeftoverSession ==
  ASSUME TypeOK, Gone, NEW c \in Clients, Session(c) PROVE OnlyLeftovers
<1>1. UNCHANGED <<cpc, spc, host>>
  BY SessionFrame
<1>2. \A d \in Clients : inbox'[d] = inbox[d] \/ Len(inbox'[d]) < Len(inbox[d])
  <2>1. CASE inbox[c] = <<>>
    <3>1. inbox' = [inbox EXCEPT ![c] = <<>>] => inbox' = inbox
      BY <2>1 DEF TypeOK
    <3>2. QED BY <2>1, <3>1, SessionInbox, Zenon
  <2>2. CASE inbox[c] # <<>>
    BY <2>2, SessionInbox, ShorterInbox, Zenon
  <2>3. QED BY <2>1, <2>2
<1>3. CASE OpenSensor(c)
  <2>1. /\ sess[c] = "serving" /\ sess' = sess /\ inbox[c] # <<>>
        /\ inbox' = [inbox EXCEPT ![c] = Tail(@)]
        /\ TakeSensor(c) \/ UNCHANGED <<sensor, refs, holds>>
    BY <1>3, OpenEffect, Zenon
  <2>2. Len(inbox'[c]) < Len(inbox[c])
    BY <2>1, ShorterInbox, Zenon
  <2>3. \A s \in Servers : sensor'[s] /\ ~sensor[s] => host[c] = s
    BY <2>1 DEF TakeSensor, TypeOK
  <2>4. \A d \in Clients : Phase(sess'[d]) <= Phase(sess[d])
    BY <2>1 DEF Phase
  <2>5. QED BY <1>1, <1>2, <2>1, <2>2, <2>3, <2>4 DEF OnlyLeftovers, Gone
<1>4. CASE Answer(c) \/ HandleBye(c) \/ HangUp(c) \/ EndSession(c)
  <2>1. /\ sensor' = sensor
        /\ \/ sess' = sess
           \/ sess[c] = "ending" /\ sess' = [sess EXCEPT ![c] = "ended"]
           \/ sess[c] \in {"serving", "ending"} /\ sess' = [sess EXCEPT ![c] = "ending"]
    <3>1. CASE Answer(c) BY <3>1 DEF Answer, service
    <3>2. CASE HandleBye(c) BY <3>2 DEF HandleBye, Request
    <3>3. CASE HangUp(c) BY <3>3 DEF HangUp
    <3>4. CASE EndSession(c) BY <3>4 DEF EndSession
    <3>5. QED BY <1>4, <3>1, <3>2, <3>3, <3>4
  <2>2. \A d \in Clients : Phase(sess'[d]) <= Phase(sess[d])
    BY <2>1 DEF Phase, TypeOK
  <2>3. QED BY <1>1, <1>2, <2>1, <2>2 DEF OnlyLeftovers, Gone
<1>5. QED BY <1>3, <1>4 DEF Session

LEMMA LeftoverServer ==
  ASSUME TypeOK, Gone, NEW s \in Servers, Server(s) PROVE OnlyLeftovers
<1>1. UNCHANGED <<cpc, host, inbox>>
  BY ServerFrame
<1>2. \A c \in Clients : sess'[c] = sess[c] \/ sess[c] = "none" \/ sess'[c] = "cut"
  BY DEF Server, Boot, InitServer, SignalRunning, Accept, AcceptTimeout, CloseSensor, KeepSensor,
         CleanUpSessions, WantShutdown, GoOn, LockToLeave, StayUnlocked, Recheck, CloseSocket,
         Queued, service, TypeOK
<1>3. \A c \in Clients : Phase(sess'[c]) <= Phase(sess[c])
  <2> SUFFICES ASSUME NEW c \in Clients PROVE Phase(sess'[c]) <= Phase(sess[c])
    OBVIOUS
  <2>1. sess'[c] = sess[c] \/ sess[c] = "none" \/ sess'[c] = "cut"
    BY <1>2
  <2>2. \A x : Phase(x) \in 0 .. 4
    BY DEF Phase
  <2>3. Phase("none") = 4 /\ Phase("cut") = 0
    BY DEF Phase
  <2>4. QED BY <2>1, <2>2, <2>3
<1>4. spc[s] \notin {"none", "exit"} /\ \A r \in Servers : r # s => spc'[r] = spc[r]
  BY DEF Server, Boot, InitServer, SignalRunning, Accept, AcceptTimeout, CloseSensor, KeepSensor,
         CleanUpSessions, WantShutdown, GoOn, LockToLeave, StayUnlocked, Recheck, CloseSocket,
         Run, TypeOK
<1>5. \A r \in Servers : sensor'[r] => sensor[r]
  BY DEF Server, Boot, InitServer, SignalRunning, Accept, AcceptTimeout, CloseSensor, KeepSensor,
         CleanUpSessions, WantShutdown, GoOn, LockToLeave, StayUnlocked, Recheck, CloseSocket,
         service, TypeOK
<1>6. QED BY <1>1, <1>3, <1>4, <1>5 DEF OnlyLeftovers, Gone

\* When every client is gone, what is left of them runs out: a session has at
\* most four phases to go through and its requests become fewer, so the sensor
\* is opened again only finitely often (a request that was on its way may still
\* be served), and no server is started and none comes back.
THEOREM LeftoversDoNotReturn == Spec => LeftoversRunOut
<1>1. IInv /\ [Next]_vars => [Gone => OnlyLeftovers]_vars
  <2> SUFFICES ASSUME IInv, Next, Gone PROVE OnlyLeftovers
    OBVIOUS
  <2>1. TypeOK
    BY DEF IInv
  <2>2. ASSUME NEW c \in Clients PROVE ~Client(c) /\ ~EndProcess(c)
    BY DEF Gone, Client, EndProcess, LockToLook, LookUnlocked, StartServer, WaitForServer,
           Connect, ReadInitialState, Ask, SayBye, Listen, TakeReply, ReplyTimeout, Answered, Goto
  <2>3. QED BY <2>1, <2>2, LeftoverSession, LeftoverServer DEF Next
<1>2. QED BY Invariant, <1>1, PTL DEF Spec, LeftoversRunOut
=============================================================================
