---------------------------- MODULE SensorServer ----------------------------
(***************************************************************************)
(* The processes that share a Kinect (SensorKinect-unstable, directory     *)
(* XnDeviceSensorV2).  A client looks whether a server runs and starts one *)
(* if not (XnSensorClient.cpp); servers settle by a named mutex and a      *)
(* named event which of them serves (XnSensorServer.cpp); each client has  *)
(* a session, a thread of the server (XnServerSession.cpp), which takes a  *)
(* reference to the sensor (XnSensorsManager.cpp).  The server's main loop *)
(* accepts, closes an unused sensor, buries ended sessions and leaves when *)
(* it has been idle for long.                                              *)
(*                                                                         *)
(* One Kinect.  Time is nondeterminism: wherever the code compares times   *)
(* or waits with a timeout, both outcomes are possible.  A client is one   *)
(* run of a client process; it may end at any point at which it does not   *)
(* hold the mutex.  Servers do not crash.                                  *)
(***************************************************************************)
EXTENDS Integers, Sequences, FiniteSets

CONSTANTS Clients, Servers,
          None,           \* neither a client nor a server
          Askers,         \* clients that ask for more than the sensor, ...
          MaxAsk          \* ... at most this often; bounds both

ASSUME SensorAssumption ==
  /\ None \notin Clients \cup Servers /\ None \notin 0 .. MaxAsk + 1
  /\ Clients \cap Servers = {} /\ IsFiniteSet(Clients)
  /\ MaxAsk \in Nat

VARIABLES mutex,          \* holder of XnSensorServerRunningMutex
          event,          \* XnSensorServerRunningEvent is set
          port,           \* the server that listens on the port
          cpc, spc,       \* where a client and a server are
          host,           \* the server a client's connection leads to
          sess,           \* state of its session thread
          holds,          \* m_pSensor # NULL in its session
          sensor, refs,   \* per server: its sensor is open, nRefCount
          inbox,          \* requests on their way to the session
          replies,        \* replies on their way to the client
          slot,           \* m_LastReply with the reply event set, or None
          asked,          \* number of the client's latest request
          late            \* history: a wait of the client has timed out

net     == <<host, inbox, replies>>
wait    == <<slot, asked, late>>
service == <<sess, holds, sensor, refs>>
vars    == <<mutex, event, port, cpc, spc, net, wait, service>>

Init == /\ mutex = None /\ event = FALSE /\ port = None
        /\ cpc = [c \in Clients |-> "off"]
        /\ spc = [s \in Servers |-> "none"]
        /\ host = [c \in Clients |-> None]
        /\ sess = [c \in Clients |-> "none"]
        /\ holds = [c \in Clients |-> FALSE]
        /\ sensor = [s \in Servers |-> FALSE]
        /\ refs = [s \in Servers |-> 0]
        /\ inbox = [c \in Clients |-> <<>>]
        /\ replies = [c \in Clients |-> <<>>]
        /\ slot = [c \in Clients |-> None]
        /\ asked = [c \in Clients |-> 0]
        /\ late = [c \in Clients |-> FALSE]

Goto(c, a, b) == cpc[c] = a /\ cpc' = [cpc EXCEPT ![c] = b]
Run(s, a, b)  == spc[s] = a /\ spc' = [spc EXCEPT ![s] = b]

\* Requests are numbered: 0 opens the sensor, MaxAsk + 1 is the BYE.
Bye == MaxAsk + 1

-----------------------------------------------------------------------------
\* The client's start.

\* XnSensorClient::InitImpl locks the mutex, or gives up after 15 seconds.
LockToLook(c) ==
  /\ IF mutex = None THEN Goto(c, "off", "look") /\ mutex' = c
                     ELSE Goto(c, "off", "gone") /\ mutex' = mutex
  /\ UNCHANGED <<event, port, spc, net, wait, service>>

\* It starts a server, or fails to, unless the event says that one runs.
LookUnlocked(c) ==
  /\ Goto(c, "look", IF event THEN "wait" ELSE "start")
  /\ mutex' = None
  /\ UNCHANGED <<event, port, spc, net, wait, service>>

StartServer(c) ==
  /\ \/ \E s \in Servers : Run(s, "none", "boot") /\ Goto(c, "start", "wait")
     \/ Goto(c, "start", "gone") /\ UNCHANGED spc
  /\ UNCHANGED <<mutex, event, port, net, wait, service>>

\* Then it waits for the event, 5 seconds.
WaitForServer(c) ==
  /\ Goto(c, "wait", IF event THEN "connect" ELSE "gone")
  /\ UNCHANGED <<mutex, event, port, spc, net, wait, service>>

\* CreateIOStreamImpl tries twice to connect, then asks for the sensor.
Connect(c) ==
  /\ IF port # None
     THEN /\ \/ Goto(c, "connect", "opening") \/ Goto(c, "retry", "opening")
          /\ host' = [host EXCEPT ![c] = port]
          /\ inbox' = [inbox EXCEPT ![c] = <<0>>]
     ELSE /\ Goto(c, "connect", "retry") \/ Goto(c, "retry", "gone")
          /\ UNCHANGED <<host, inbox>>
  /\ UNCHANGED <<mutex, event, port, spc, replies, wait, service>>

\* The initial state, an error, a reset connection or 4 seconds of silence.
\* After a failure the device is deleted but not destroyed: its socket stays
\* open until the process ends.
ReadInitialState(c) ==
  /\ IF replies[c] # <<>>
     THEN /\ Goto(c, "opening", IF Head(replies[c]).ok THEN "using" ELSE "failed")
          /\ replies' = [replies EXCEPT ![c] = Tail(@)]
     ELSE Goto(c, "opening", "failed") /\ UNCHANGED replies
  /\ UNCHANGED <<mutex, event, port, spc, host, inbox, wait, service>>

-----------------------------------------------------------------------------
\* The client at work: one thread asks, its listener fills the reply slot.

Send(c, r) == /\ asked' = [asked EXCEPT ![c] = r]
              /\ inbox' = [inbox EXCEPT ![c] = Append(@, r)]

Ask(c) ==
  /\ c \in Askers /\ asked[c] < MaxAsk
  /\ Goto(c, "using", "asking")
  /\ Send(c, asked[c] + 1)
  /\ UNCHANGED <<mutex, event, port, spc, host, replies, slot, late, service>>

\* Destroy.
SayBye(c) ==
  /\ Goto(c, "using", "leaving")
  /\ Send(c, Bye)
  /\ UNCHANGED <<mutex, event, port, spc, host, replies, slot, late, service>>

\* HandlePackedObject on the listener thread: one slot for all replies.
Listen(c) ==
  /\ cpc[c] \in {"using", "asking", "leaving"} /\ replies[c] # <<>>
  /\ slot' = [slot EXCEPT ![c] = Head(replies[c]).to]
  /\ replies' = [replies EXCEPT ![c] = Tail(@)]
  /\ UNCHANGED <<mutex, event, port, cpc, spc, host, inbox, asked, late, service>>

Answered(c) == \/ Goto(c, "asking", "using") \/ Goto(c, "leaving", "left")

TakeReplyKeepsIt(c) ==
  /\ slot[c] # None /\ Answered(c) /\ slot' = slot
  /\ UNCHANGED <<mutex, event, port, spc, net, asked, late, service>>
\* WaitForReply: the reply event is set, ...
TakeReply(c) ==
  /\ slot[c] # None /\ Answered(c)
  /\ slot' = [slot EXCEPT ![c] = None]
  /\ UNCHANGED <<mutex, event, port, spc, net, asked, late, service>>

\* ... or is not within 30 seconds.
ReplyTimeout(c) ==
  /\ slot[c] = None /\ Answered(c)
  /\ late' = [late EXCEPT ![c] = TRUE]
  /\ UNCHANGED <<mutex, event, port, spc, net, slot, asked, service>>

\* The connection is closed, by Destroy after the BYE or because the process
\* ends, whatever it was doing; nothing is left at the client's end.
EndProcess(c) ==
  /\ cpc[c] \notin {"off", "look", "gone"}
  /\ cpc' = [cpc EXCEPT ![c] = "gone"]
  /\ replies' = [replies EXCEPT ![c] = <<>>]
  /\ slot' = [slot EXCEPT ![c] = None]
  /\ asked' = [asked EXCEPT ![c] = 0]
  /\ late' = [late EXCEPT ![c] = FALSE]
  /\ UNCHANGED <<mutex, event, port, spc, host, inbox, service>>

Client(c) == \/ LockToLook(c) \/ LookUnlocked(c) \/ StartServer(c) \/ WaitForServer(c)
             \/ Connect(c) \/ ReadInitialState(c)
             \/ Ask(c) \/ SayBye(c) \/ Listen(c) \/ TakeReply(c) \/ ReplyTimeout(c)

-----------------------------------------------------------------------------
\* The server's main thread.

Boot(s) ==
  /\ IF mutex = None THEN Run(s, "boot", "init") /\ mutex' = s
                     ELSE Run(s, "boot", "exit") /\ mutex' = mutex
  /\ UNCHANGED <<event, port, cpc, net, wait, service>>

\* InitServer, all under the mutex: no other server, then the listen socket
\* (any of it may fail), ...
InitServer(s) ==
  /\ \/ /\ ~event /\ port = None
        /\ Run(s, "init", "ready") /\ port' = s /\ UNCHANGED mutex
     \/ Run(s, "init", "exit") /\ mutex' = None /\ UNCHANGED port
  /\ UNCHANGED <<event, cpc, net, wait, service>>

\* ... then the event, then the mutex is free.
SignalRunning(s) ==
  /\ Run(s, "ready", "accept")
  /\ event' = TRUE /\ mutex' = None
  /\ UNCHANGED <<port, cpc, net, wait, service>>

Queued(s) == {c \in Clients : host[c] = s /\ sess[c] = "none"}
Listed(s) == {c \in Clients : host[c] = s /\ sess[c] \in {"serving", "ending", "ended"}}

\* CheckForNewClients gives everyone who waits a session, or fails to.
Accept(s, c) ==
  /\ spc[s] \in {"accept", "recheck"} /\ c \in Queued(s)
  /\ \E r \in {"serving", "cut"} : sess' = [sess EXCEPT ![c] = r]
  /\ UNCHANGED <<mutex, event, port, cpc, spc, net, wait, holds, sensor, refs>>

AcceptTimeout(s) ==
  /\ Queued(s) = {} /\ Run(s, "accept", "clean")
  /\ UNCHANGED <<mutex, event, port, cpc, net, wait, service>>

CloseAnySensor(s) ==
  /\ Run(s, "clean", "bury")
  /\ sensor[s] /\ sensor' = [sensor EXCEPT ![s] = FALSE]
  /\ UNCHANGED <<mutex, event, port, cpc, net, wait, sess, holds, refs>>
\* XnSensorsManager::CleanUp: closed if unused for long, else not.
CloseSensor(s) ==
  /\ Run(s, "clean", "bury")
  /\ sensor[s] /\ refs[s] = 0 /\ sensor' = [sensor EXCEPT ![s] = FALSE]
  /\ UNCHANGED <<mutex, event, port, cpc, net, wait, sess, holds, refs>>

KeepSensor(s) ==
  /\ Run(s, "clean", "bury")
  /\ UNCHANGED <<mutex, event, port, cpc, net, wait, service>>

CleanUpSessions(s) ==
  /\ Run(s, "bury", "idle")
  /\ sess' = [c \in Clients |->
                IF c \in Listed(s) /\ sess[c] = "ended" THEN "cut" ELSE sess[c]]
  /\ UNCHANGED <<mutex, event, port, cpc, net, wait, holds, sensor, refs>>

CanShutdown(s) == ~sensor[s] /\ Listed(s) = {}

\* ShutdownIfPossible: idle for long, ...
WantShutdown(s) ==
  /\ CanShutdown(s) /\ Run(s, "idle", "lock")
  /\ UNCHANGED <<mutex, event, port, cpc, net, wait, service>>

GoOn(s) ==
  /\ Run(s, "idle", "accept")
  /\ UNCHANGED <<mutex, event, port, cpc, net, wait, service>>

\* ... so lock the mutex, or try again later, ...
LockToLeave(s) ==
  /\ mutex = None /\ mutex' = s /\ Run(s, "lock", "recheck")
  /\ UNCHANGED <<event, port, cpc, net, wait, service>>

StayUnlocked(s) ==
  /\ mutex # None /\ Run(s, "lock", "accept")
  /\ UNCHANGED <<mutex, event, port, cpc, net, wait, service>>

LeaveAtOnce(s) ==
  /\ Queued(s) = {}
  /\ Run(s, "recheck", "close") /\ event' = FALSE /\ UNCHANGED mutex
  /\ UNCHANGED <<port, cpc, net, wait, service>>
\* ... let in who waits, look again, reset the event ...
Recheck(s) ==
  /\ Queued(s) = {}
  /\ \/ CanShutdown(s) /\ Run(s, "recheck", "close") /\ event' = FALSE /\ UNCHANGED mutex
     \/ ~CanShutdown(s) /\ Run(s, "recheck", "accept") /\ mutex' = None /\ UNCHANGED event
  /\ UNCHANGED <<port, cpc, net, wait, service>>

UnlockBeforeClosing(s) ==
  /\ spc[s] = "close" /\ port = s
  /\ IF mutex = s THEN mutex' = None /\ UNCHANGED <<port, spc, sess>>
     ELSE /\ Run(s, "close", "exit") /\ port' = None /\ UNCHANGED mutex
          /\ sess' = [c \in Clients |-> IF c \in Queued(s) THEN "cut" ELSE sess[c]]
  /\ UNCHANGED <<event, cpc, net, wait, holds, sensor, refs>>
\* ... and close the socket, which resets the connections not let in.
CloseSocket(s) ==
  /\ Run(s, "close", "exit")
  /\ port' = None /\ mutex' = None
  /\ sess' = [c \in Clients |-> IF c \in Queued(s) THEN "cut" ELSE sess[c]]
  /\ UNCHANGED <<event, cpc, net, wait, holds, sensor, refs>>

Server(s) == \/ Boot(s) \/ InitServer(s) \/ SignalRunning(s)
             \/ (\E c \in Clients : Accept(s, c)) \/ AcceptTimeout(s)
             \/ CloseSensor(s) \/ KeepSensor(s) \/ CleanUpSessions(s)
             \/ WantShutdown(s) \/ GoOn(s) \/ LockToLeave(s) \/ StayUnlocked(s)
             \/ Recheck(s) \/ CloseSocket(s)

-----------------------------------------------------------------------------
\* A session's thread: ServeThread.

Request(c, R) ==
  /\ sess[c] = "serving" /\ inbox[c] # <<>> /\ Head(inbox[c]) \in R
  /\ inbox' = [inbox EXCEPT ![c] = Tail(@)]

\* SendReply; what no one will read any more is left out.
Reply(c, ok) ==
  replies' = IF cpc[c] \in {"left", "failed", "gone"} THEN replies
             ELSE [replies EXCEPT ![c] = Append(@, [to |-> Head(inbox[c]), ok |-> ok])]

TakeSensor(c) ==
  /\ sensor' = [sensor EXCEPT ![host[c]] = TRUE]
  /\ refs' = [refs EXCEPT ![host[c]] = @ + 1]
  /\ holds' = [holds EXCEPT ![c] = TRUE]

FailSilently(c) ==
  /\ Request(c, {0})
  /\ \/ TakeSensor(c) /\ \E ok \in BOOLEAN : Reply(c, ok)
     \/ ~sensor[host[c]] /\ UNCHANGED <<replies, sensor, refs, holds>>
  /\ UNCHANGED <<mutex, event, port, cpc, spc, host, wait, sess>>
\* HandleOpenSensor: a reference to the sensor, opened if it is not yet
\* (under the manager's lock, XnSensorsManager::GetSensor); then the initial
\* state, or an error.
OpenSensor(c) ==
  /\ Request(c, {0})
  /\ \/ TakeSensor(c) /\ \E ok \in BOOLEAN : Reply(c, ok)
     \/ ~sensor[host[c]] /\ Reply(c, FALSE) /\ UNCHANGED <<sensor, refs, holds>>
  /\ UNCHANGED <<mutex, event, port, cpc, spc, host, wait, sess>>

\* Any other request.
Answer(c) ==
  /\ Request(c, 1 .. MaxAsk)
  /\ Reply(c, TRUE)
  /\ UNCHANGED <<mutex, event, port, cpc, spc, host, wait, service>>

ReleaseAlways(c) ==
  /\ refs' = [refs EXCEPT ![host[c]] = @ - 1]
  /\ holds' = [holds EXCEPT ![c] = FALSE]
\* CloseSensorImpl: at most once per session.
ReleaseSensor(c) ==
  IF holds[c] THEN /\ refs' = [refs EXCEPT ![host[c]] = @ - 1]
                   /\ holds' = [holds EXCEPT ![c] = FALSE]
              ELSE UNCHANGED <<refs, holds>>

HandleBye(c) ==
  /\ Request(c, {Bye})
  /\ ReleaseSensor(c) /\ Reply(c, TRUE)
  /\ sess' = [sess EXCEPT ![c] = "ending"]
  /\ UNCHANGED <<mutex, event, port, cpc, spc, host, wait, sensor>>

\* The connection is closed; what was still in it may or may not be served.
HangUpAndForget(c) ==
  /\ sess[c] = "serving" /\ cpc[c] = "gone"
  /\ sess' = [sess EXCEPT ![c] = "ending"]
  /\ inbox' = [inbox EXCEPT ![c] = <<>>]
  /\ UNCHANGED <<mutex, event, port, cpc, spc, host, replies, wait, sensor, refs, holds>>
HangUp(c) ==
  /\ sess[c] = "serving" /\ cpc[c] = "gone"
  /\ ReleaseSensor(c)
  /\ sess' = [sess EXCEPT ![c] = "ending"]
  /\ inbox' = [inbox EXCEPT ![c] = <<>>]
  /\ UNCHANGED <<mutex, event, port, cpc, spc, host, replies, wait, sensor>>

\* m_bHasEnded, for the main thread to see.
EndSession(c) ==
  /\ sess[c] = "ending"
  /\ sess' = [sess EXCEPT ![c] = "ended"]
  /\ UNCHANGED <<mutex, event, port, cpc, spc, net, wait, holds, sensor, refs>>

Session(c) == OpenSensor(c) \/ Answer(c) \/ HandleBye(c) \/ HangUp(c) \/ EndSession(c)

Next == \/ \E c \in Clients : Client(c) \/ EndProcess(c) \/ Session(c)
        \/ \E s \in Servers : Server(s)

Spec == Init /\ [][Next]_vars

\* What the server puts off until a time has passed or the mutex is free.
PutOff(s) == CloseSensor(s) \/ WantShutdown(s) \/ LockToLeave(s)

\* The threads of servers run, and time passes: nothing is put off for ever.
\* Of clients no more is assumed than that they let go of the mutex.
FairSpec ==
  /\ Spec
  /\ \A s \in Servers : WF_vars(Server(s))
  /\ SF_vars(\E s \in Servers : PutOff(s))
  /\ WF_vars(\E c \in Clients : Session(c) \/ LookUnlocked(c))

-----------------------------------------------------------------------------
TypeOK ==
  /\ mutex \in Clients \cup Servers \cup {None}
  /\ event \in BOOLEAN /\ port \in Servers \cup {None}
  /\ cpc \in [Clients -> {"off", "look", "start", "wait", "connect", "retry", "opening",
                          "using", "asking", "leaving", "left", "failed", "gone"}]
  /\ spc \in [Servers -> {"none", "boot", "init", "ready", "accept", "clean", "bury",
                          "idle", "lock", "recheck", "close", "exit"}]
  /\ host \in [Clients -> Servers \cup {None}]
  /\ sess \in [Clients -> {"none", "serving", "ending", "ended", "cut"}]
  /\ holds \in [Clients -> BOOLEAN]
  /\ sensor \in [Servers -> BOOLEAN] /\ refs \in [Servers -> Nat]
  /\ inbox \in [Clients -> Seq(0 .. Bye)]
  /\ replies \in [Clients -> Seq([to : 0 .. Bye, ok : BOOLEAN])]
  /\ slot \in [Clients -> 0 .. Bye \cup {None}]
  /\ asked \in [Clients -> 0 .. Bye] /\ late \in [Clients -> BOOLEAN]

Serving == {"ready", "accept", "clean", "bury", "idle", "lock", "recheck", "close"}

\* However many clients find no server and start one, at most one serves, and
\* it is the one that owns the port: the next finds the port free
\* (XnSensorServer.cpp line 267, "to free the port for another server").
OneServer == \A s \in Servers : /\ spc[s] \in Serving => port = s
                                /\ spc[s] = "init" /\ ~event => port = None

\* A server leaves nobody behind: when it has decided to go it has no session
\* and no sensor, although it decided before it had the mutex.
NobodyCutOff ==
  \A s \in Servers : spc[s] \in {"close", "exit"} => Listed(s) = {} /\ ~sensor[s]

\* The Kinect is open for the sessions that hold it, and only then closed.
Lease == INSTANCE SensorLease WITH
           open  <- \E s \in Servers : sensor[s],
           users <- {c \in Clients : holds[c]}
LeaseHolds == Lease!LeaseSpec

\* The reply slot holds one answer and is filled by another thread: still, a
\* client none of whose waits has timed out takes the answer to its own
\* request (after a timeout it may take the late one for the next).
OwnAnswer ==
  [][\A c \in Clients :
       slot[c] # None /\ cpc[c] \in {"asking", "leaving"} /\ cpc'[c] # cpc[c] /\ cpc'[c] # "gone" /\ ~late[c]
         => slot[c] = asked[c]]_vars

\* A client that stays gets an answer to its request to open the sensor,
\* unless the server was already leaving.
PatientIsServed ==
  \A c \in Clients : cpc[c] = "opening"
                       ~> cpc[c] # "opening" \/ replies[c] # <<>> \/ sess[c] = "cut"

\* Nothing keeps the server alive when every client is gone, whether it said
\* bye, failed or died.
ServerLeaves ==
  (\A c \in Clients : cpc[c] = "gone") ~> \A s \in Servers : spc[s] \in {"none", "exit"}
=============================================================================
