---------------------------- MODULE FrameBuffers ----------------------------
(***************************************************************************)
(* The frames of one stream of a shared Kinect (SensorKinect-unstable,     *)
(* XnDDK and XnDeviceSensorV2): a pool of buffers in shared memory with    *)
(* reference counts.  The USB thread fills a working buffer, makes it the  *)
(* stable one and takes a new one (XnFrameBufferManager.cpp).  The reader  *)
(* thread of the server takes the stable one and tells the clients         *)
(* (XnServerSensorInvoker::ReadStreams); the session thread of each client *)
(* that asks copies the reader's (XnServerSensorInvoker::ReadStream).      *)
(*                                                                         *)
(* The stream is open and keeps its size; corrupt frames change nothing.   *)
(***************************************************************************)
EXTENDS Integers, Sequences, FiniteSets

CONSTANTS Clients, Buffers, None,
          MaxFree         \* bound on the list of free buffers

Owners == {"working", "stable", "reader"}
Holders == Owners \cup Clients
NumBuffers == Cardinality(Buffers)

ASSUME FrameAssumption ==
  /\ Clients \cap Owners = {} /\ Clients # {}
  /\ None \notin Buffers
  /\ IsFiniteSet(Clients) /\ IsFiniteSet(Buffers)
  /\ NumBuffers >= 3 /\ MaxFree \in Nat

VARIABLES count,          \* m_nRefCount of each buffer
          free,           \* m_FreeBuffers
          ptr,            \* the buffer each holder points to
          upc, rpc, spc,  \* USB thread, reader thread, session threads
          stuck,          \* the USB thread has kept the manager's lock
          avail,          \* m_bNewDataAvailable of the stream
          news,           \* bNewData of the server's stream
          event           \* m_hNewDataEvent

pool == <<count, free>>
pcs  == <<upc, rpc, spc>>
vars == <<pool, ptr, pcs, stuck, avail, news, event>>

\* OnStreamAdded, NewStreamImpl and the manager's Reallocate have each taken a
\* buffer of the new pool; one client has the stream.
Init ==
  /\ \E s \in [1 .. NumBuffers -> Buffers], c \in Clients :
       /\ \A b \in Buffers : \E i \in 1 .. NumBuffers : s[i] = b
       /\ ptr = [h \in Holders |-> CASE h = "reader"  -> s[1]
                                     [] h = c         -> s[2]
                                     [] h = "working" -> s[3]
                                     [] OTHER         -> None]
       /\ free = SubSeq(s, 4, NumBuffers)
       /\ count = [b \in Buffers |-> IF b \in {s[1], s[2], s[3]} THEN 1 ELSE 0]
       /\ spc = [d \in Clients |-> IF d = c THEN "in" ELSE "out"]
  /\ upc = "fill" /\ rpc = "wait" /\ stuck = FALSE
  /\ avail = FALSE /\ news = FALSE /\ event = FALSE

\* XnBufferPool::AddRef, and DecRef, which returns the buffer to the end of
\* the list; the pool's own lock makes each of them atomic.
Referred(b) == [count EXCEPT ![b] = @ + 1]
Released(b) == [count EXCEPT ![b] = @ - 1]
Returned(b) == IF count[b] = 1 THEN Append(free, b) ELSE free

Release(h) == /\ count' = Released(ptr[h]) /\ free' = Returned(ptr[h])
              /\ Len(free') <= MaxFree

\* XnBufferPool::GetBuffer, after a DecRef or not: the first of the list.
GetBuffer(h, counts, list) ==
  /\ list # <<>>
  /\ count' = [counts EXCEPT ![Head(list)] = 1]
  /\ free' = Tail(list)
  /\ ptr' = [ptr EXCEPT ![h] = Head(list), !["stable"] = IF h = "working" THEN ptr[h] ELSE @]

-----------------------------------------------------------------------------
\* The USB thread.

UStep(a, b) == upc = a /\ upc' = b /\ UNCHANGED <<rpc, spc>>

\* The buffers left once MarkWriteBufferAsStable has released the old stable.
CountsLeft == IF ptr["stable"] = None THEN count ELSE Released(ptr["stable"])
FreeLeft   == IF ptr["stable"] = None THEN free  ELSE Returned(ptr["stable"])

\* MarkWriteBufferAsStable.  If no buffer is left everything is undone, but
\* the manager's lock is kept; it does not block the thread that holds it.
MarkStable ==
  IF FreeLeft # <<>>
  THEN UStep("fill", "notify") /\ GetBuffer("working", CountsLeft, FreeLeft)
         /\ UNCHANGED <<stuck, avail, news, event>>
  ELSE UStep("fill", "fill") /\ stuck' = TRUE
         /\ UNCHANGED <<pool, ptr, avail, news, event>>

\* XnDeviceStream::NewDataAvailable ...
NewDataAvailable ==
  /\ UStep("notify", "get") /\ avail' = TRUE
  /\ UNCHANGED <<pool, ptr, stuck, news, event>>

\* ... and OnNewStreamData of the server, which looks up its stream in the
\* collection the reader locks, ...
GetStream ==
  /\ rpc = "wait" /\ UStep("get", "flag")
  /\ UNCHANGED <<pool, ptr, stuck, avail, news, event>>

\* ... and uses it without that lock.
SetFlag ==
  /\ UStep("flag", "signal") /\ news' = TRUE
  /\ UNCHANGED <<pool, ptr, stuck, avail, event>>

SetEvent ==
  /\ UStep("signal", "fill") /\ event' = TRUE
  /\ UNCHANGED <<pool, ptr, stuck, avail, news>>

USB == MarkStable \/ NewDataAvailable \/ GetStream \/ SetFlag \/ SetEvent

-----------------------------------------------------------------------------
\* The reader thread: ReadStreams, with the collection locked except at "wait".

RStep(a, b) == rpc = a /\ rpc' = b /\ UNCHANGED <<upc, spc>>

WaitEvent ==
  /\ event /\ RStep("wait", "look") /\ event' = FALSE
  /\ UNCHANGED <<pool, ptr, stuck, avail, news>>

Look ==
  /\ RStep("look", IF news THEN "read" ELSE "wait")
  /\ UNCHANGED <<pool, ptr, stuck, avail, news, event>>

\* XnDeviceBase::ReadStream waits for data in vain.
ReadTimeout ==
  /\ ~avail /\ RStep("read", "wait") /\ news' = FALSE
  /\ UNCHANGED <<pool, ptr, stuck, avail, event>>

\* XnFrameStream::ReadImpl releases the old frame, to which the pointer leads
\* until ...
DropFrame ==
  /\ avail /\ RStep("read", "take")
  /\ Release("reader")
  /\ UNCHANGED <<ptr, stuck, avail, news, event>>

\* ... ReadLastStableBuffer has the manager's lock.
TakeStable ==
  /\ ~stuck /\ RStep("take", "taken")
  /\ ptr' = [ptr EXCEPT !["reader"] = ptr["stable"]]
  /\ count' = Referred(ptr["stable"])
  /\ UNCHANGED <<free, stuck, avail, news, event>>

\* XnDeviceStream::Read.
ClearAvailable ==
  /\ RStep("taken", "clear") /\ avail' = FALSE
  /\ UNCHANGED <<pool, ptr, stuck, news, event>>

ClearFlag ==
  /\ RStep("clear", "tell") /\ news' = FALSE
  /\ UNCHANGED <<pool, ptr, stuck, avail, event>>

\* Every client is told of the frame.
Tell ==
  /\ RStep("tell", "wait")
  /\ UNCHANGED <<pool, ptr, stuck, avail, news, event>>

Reader == \/ WaitEvent \/ Look \/ ReadTimeout \/ DropFrame \/ TakeStable
          \/ ClearAvailable \/ ClearFlag \/ Tell

-----------------------------------------------------------------------------
\* The session of client c.

SStep(c, a, b) == spc[c] = a /\ spc' = [spc EXCEPT ![c] = b] /\ UNCHANGED <<upc, rpc>>

SensorFree == \A c \in Clients : spc[c] # "copied"

\* NewStreamImpl: CreateStreamData takes a buffer, or there is none and it
\* fails.
NewStream(c) ==
  /\ SensorFree /\ SStep(c, "out", "in")
  /\ GetBuffer(c, count, free)
  /\ UNCHANGED <<stuck, avail, news, event>>

CopyKeepsOld(c) ==
  /\ SensorFree /\ SStep(c, "in", "copied")
  /\ ptr' = [ptr EXCEPT ![c] = ptr["reader"]]
  /\ UNCHANGED <<pool, stuck, avail, news, event>>
\* ReadStream, under the sensor's lock, which the reader does not take:
\* release the old frame, copy the reader's pointer, ...
CopyFrame(c) ==
  /\ SensorFree /\ SStep(c, "in", "copied")
  /\ Release(c)
  /\ ptr' = [ptr EXCEPT ![c] = ptr["reader"]]
  /\ UNCHANGED <<stuck, avail, news, event>>

\* ... and add the reference.
ReferFrame(c) ==
  /\ SStep(c, "copied", "in")
  /\ count' = Referred(ptr[c])
  /\ UNCHANGED <<free, ptr, stuck, avail, news, event>>

RemoveKeepsFrame(c) ==
  /\ \E d \in Clients \ {c} : spc[d] # "out"
  /\ SStep(c, "in", "out")
  /\ ptr' = [ptr EXCEPT ![c] = None]
  /\ UNCHANGED <<pool, stuck, avail, news, event>>
\* RemoveStreamImpl, which releases the frame after the sensor's lock.  The
\* last client's would take the stream away.
RemoveStream(c) ==
  /\ \E d \in Clients \ {c} : spc[d] # "out"
  /\ SStep(c, "in", "out")
  /\ Release(c)
  /\ ptr' = [ptr EXCEPT ![c] = None]
  /\ UNCHANGED <<stuck, avail, news, event>>

Session(c) == NewStream(c) \/ CopyFrame(c) \/ ReferFrame(c) \/ RemoveStream(c)

Next == USB \/ Reader \/ \E c \in Clients : Session(c)

Spec == Init /\ [][Next]_vars

-----------------------------------------------------------------------------
\* The holders that have a reference they must release.
Counted(h) == /\ ptr[h] # None
              /\ h = "reader" => rpc # "take"
              /\ h \in Clients => spc[h] = "in"
HoldersOf(b) == {h \in Holders : ptr[h] = b /\ Counted(h)}
Listed == {free[i] : i \in DOMAIN free}

\* No buffer leaks: one that is not in the list has a reference, and no more
\* references than holders who will release theirs.  (It may have fewer: a
\* buffer that was free when a session referred to it starts again at 1.)
NoLeak == \A b \in Buffers \ Listed :
            1 <= count[b] /\ count[b] <= Cardinality(HoldersOf(b))

\* "NumberOfBuffers = clients + 3" (GlobalDefaultsKinect.ini line 30): with so
\* many the USB thread always finds a new working buffer, whatever the sessions
\* do, and does not stop with the manager's lock held.
ClientsPlusThree ==
  NumBuffers >= Cardinality(Clients) + 3 =>
    /\ upc = "fill" => FreeLeft # <<>>
    /\ ~stuck

\* The reader iterates under "lock sensor" (XnServerSensorInvoker.cpp line 802)
\* and the session reads under the sensor's lock, so the frame a client has been
\* given is not the one being filled.  The code breaks this: the reader's lock
\* is another, and the frame may become free between the copy of its pointer
\* and the reference.
GivenFrameIsKept == \A c \in Clients : spc[c] = "in" => ptr[c] # ptr["working"]
=============================================================================
