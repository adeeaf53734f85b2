------------------------ MODULE FrameBuffers_proofs -------------------------
(***************************************************************************)
(* That three buffers more than clients are enough, for any number of      *)
(* clients.  NoLeak is inductive once the types and the life of the        *)
(* pointers are added; with it the buffers that are not in the list are no *)
(* more than the holders other than the stable pointer, which the USB      *)
(* thread has just moved.                                                  *)
(*                                                                         *)
(* The invariant bounds the counts from above only, because of the race of *)
(* the run frames_torn.  The second part says what an exact count takes:   *)
(* LockInv, an invariant of the behaviours in which the two pairs of steps *)
(* that race never overlap.                                                *)
(***************************************************************************)
EXTENDS FrameBuffers, FiniteSetTheorems, SequenceTheorems, TLAPS

TypeInv ==
  /\ count \in [Buffers -> Int] /\ free \in Seq(Buffers)
  /\ ptr \in [Holders -> Buffers \cup {None}]
  /\ spc \in [Clients -> {"in", "out", "copied"}]
  /\ stuck \in BOOLEAN /\ avail \in BOOLEAN

\* The pointers that lead to a buffer.
Pointed ==
  /\ ptr["working"] \in Buffers /\ ptr["reader"] \in Buffers
  /\ \A c \in Clients : spc[c] # "out" => ptr[c] \in Buffers
  /\ (avail \/ upc # "fill" \/ rpc = "take") => ptr["stable"] \in Buffers

PoolInv == TypeInv /\ Pointed /\ NoLeak

Enough == NumBuffers >= Cardinality(Clients) + 3

-----------------------------------------------------------------------------
\* The holders are finitely many.
LEMMA HoldersFinite ==
  /\ IsFiniteSet(Holders)
  /\ IsFiniteSet(Holders \ {"stable"})
  /\ Cardinality(Holders \ {"stable"}) = Cardinality(Clients) + 2
<1>1. IsFiniteSet(Clients) /\ Cardinality(Clients) \in Nat
  BY FrameAssumption, FS_CardinalityType
<1>2. "working" \notin Clients /\ "reader" \notin Clients /\ "stable" \notin Clients
  BY FrameAssumption DEF Owners
<1> DEFINE A == Clients \cup {"working"}
           B == A \cup {"reader"}
<1>3. IsFiniteSet(A) /\ Cardinality(A) = Cardinality(Clients) + 1
  BY <1>1, <1>2, FS_AddElement
<1>4. "reader" \notin A /\ "stable" \notin B
  BY <1>2
<1> HIDE DEF A
<1>5. IsFiniteSet(B) /\ Cardinality(B) = Cardinality(Clients) + 2
  BY <1>1, <1>3, <1>4, FS_AddElement
<1>6. IsFiniteSet(B \cup {"stable"})
  BY <1>5, FS_AddElement
<1>7. Holders = B \cup {"stable"} /\ Holders \ {"stable"} = B
  BY <1>4 DEF Holders, Owners, A
<1>8. QED BY <1>5, <1>6, <1>7

\* So are the holders of each buffer.
LEMMA HoldersOfFinite ==
  ASSUME NEW b
  PROVE  /\ IsFiniteSet(HoldersOf(b)) /\ Cardinality(HoldersOf(b)) \in Nat
         /\ \A h \in HoldersOf(b) :
              Cardinality(HoldersOf(b) \ {h}) = Cardinality(HoldersOf(b)) - 1
         /\ \A h : h \notin HoldersOf(b) =>
              Cardinality(HoldersOf(b) \cup {h}) = Cardinality(HoldersOf(b)) + 1
<1>1. HoldersOf(b) \in SUBSET Holders
  BY DEF HoldersOf
<1>2. IsFiniteSet(HoldersOf(b))
  BY <1>1, HoldersFinite, FS_Subset
<1>3. QED BY <1>2, FS_CardinalityType, FS_RemoveElement, FS_AddElement

\* Once the old stable buffer has been released one is left.
LEMMA OneIsLeft == ASSUME PoolInv, Enough PROVE FreeLeft # <<>>
<1> SUFFICES ASSUME FreeLeft = <<>> PROVE FALSE
  OBVIOUS
<1> USE DEF PoolInv, TypeInv
<1> DEFINE Others == Holders \ {"stable"}
<1>0. "stable" \in Holders
  BY DEF Holders, Owners
<1>1. free = <<>> /\ Listed = {}
  <2>1. free = <<>>
    BY <1>0 DEF FreeLeft, Returned
  <2>2. QED BY <2>1 DEF Listed
<1>2. \A b \in Buffers : \E h \in Others : ptr[h] = b
  <2> SUFFICES ASSUME NEW b \in Buffers, \A h \in Others : ptr[h] # b PROVE FALSE
    OBVIOUS
  <2>1. 1 <= count[b] /\ count[b] <= Cardinality(HoldersOf(b)) /\ count[b] \in Int
    BY <1>1 DEF NoLeak
  <2>2. HoldersOf(b) \in SUBSET {"stable"}
    BY DEF HoldersOf
  <2>3. IsFiniteSet({"stable"}) /\ Cardinality({"stable"}) = 1
    BY FS_Singleton
  <2>4. Cardinality(HoldersOf(b)) <= 1
    BY <2>2, <2>3, FS_Subset
  <2>5. Cardinality(HoldersOf(b)) \in Nat
    BY HoldersOfFinite
  <2>6. HoldersOf(b) # {}
    <3>1. HoldersOf(b) = {} => Cardinality(HoldersOf(b)) = 0
      BY FS_EmptySet
    <3>2. QED BY <2>1, <2>5, <3>1
  <2>7. ptr["stable"] = b /\ count[b] = 1
    BY <2>1, <2>2, <2>4, <2>5, <2>6 DEF HoldersOf
  <2>8. QED BY <2>7, FrameAssumption DEF FreeLeft, Returned
<1> DEFINE f == [b \in Buffers |-> CHOOSE h \in Others : ptr[h] = b]
<1>3. f \in [Buffers -> Others] /\ \A b \in Buffers : ptr[f[b]] = b
  BY <1>2
<1>4. IsFiniteSet(Buffers) /\ Cardinality(Buffers) \in Nat /\ Cardinality(Clients) \in Nat
  BY FrameAssumption, FS_CardinalityType
<1>5. Cardinality(Others) < Cardinality(Buffers)
  BY <1>4, HoldersFinite DEF Enough, NumBuffers
<1> HIDE DEF f, Others
<1>6. \E x, y \in Buffers : x # y /\ f[x] = f[y]
  <2>1. IsFiniteSet(Others)
    BY HoldersFinite DEF Others
  <2>2. QED BY <1>3, <1>4, <1>5, <2>1, FS_PigeonHole
<1>7. QED BY <1>3, <1>6

-----------------------------------------------------------------------------
\* NoLeak under the four ways in which a step changes references.

Holds(b) == 1 <= count[b] /\ count[b] <= Cardinality(HoldersOf(b))

\* Nothing is referred to or released.
LEMMA QuietStep ==
  ASSUME NoLeak, UNCHANGED pool,
         \A b \in Buffers : HoldersOf(b)' = HoldersOf(b)
  PROVE  NoLeak'
BY DEF NoLeak, pool, Listed

\* h releases its buffer.
LEMMA ReleaseStep ==
  ASSUME PoolInv, NEW h \in Holders, h \in HoldersOf(ptr[h]), ptr[h] \in Buffers,
         count' = Released(ptr[h]), free' = Returned(ptr[h]),
         \A b \in Buffers : HoldersOf(b)' = HoldersOf(b) \ {h}
  PROVE  count' \in [Buffers -> Int] /\ free' \in Seq(Buffers) /\ NoLeak'
<1> USE DEF PoolInv, TypeInv
<1> DEFINE p == ptr[h]
<1>1. count' \in [Buffers -> Int] /\ free' \in Seq(Buffers)
  BY DEF Released, Returned
<1>2. ASSUME NEW b \in Buffers, b \notin Listed' PROVE Holds(b)'
  <2>1. b \notin Listed
    <3> SUFFICES ASSUME NEW i \in DOMAIN free, free[i] = b PROVE b \in Listed'
      BY <1>2 DEF Listed
    <3>1. i \in DOMAIN free' /\ free'[i] = b
      BY DEF Returned
    <3>2. QED BY <3>1 DEF Listed
  <2>2. 1 <= count[b] /\ count[b] <= Cardinality(HoldersOf(b)) /\ count[b] \in Int
    BY <2>1 DEF NoLeak
  <2>3. CASE b = p
    <3>1. count[b] # 1
      <4> SUFFICES ASSUME count[b] = 1 PROVE FALSE
        OBVIOUS
      <4>1. free' = Append(free, b)
        BY <2>3 DEF Returned
      <4>2. Len(free) + 1 \in DOMAIN free' /\ free'[Len(free) + 1] = b
        BY <4>1
      <4>3. QED BY <1>2, <4>2 DEF Listed
    <3>2. count'[b] = count[b] - 1
      BY <2>3 DEF Released
    <3>3. Cardinality(HoldersOf(b) \ {h}) = Cardinality(HoldersOf(b)) - 1
          /\ Cardinality(HoldersOf(b)) \in Nat
      BY <2>3, HoldersOfFinite
    <3>4. HoldersOf(b)' = HoldersOf(b) \ {h}
      OBVIOUS
    <3>5. QED BY <2>2, <3>1, <3>2, <3>3, <3>4 DEF Holds
  <2>4. CASE b # p
    <3>1. HoldersOf(b)' = HoldersOf(b)
      BY <2>4 DEF HoldersOf
    <3>2. count'[b] = count[b]
      BY <2>4 DEF Released
    <3>3. QED BY <2>2, <3>1, <3>2 DEF Holds
  <2>5. QED BY <2>3, <2>4
<1>3. QED BY <1>1, <1>2 DEF NoLeak, Holds

\* h refers to buffer p.
LEMMA ReferStep ==
  ASSUME PoolInv, NEW h, NEW p \in Buffers, h \notin HoldersOf(p),
         count' = Referred(p), free' = free,
         HoldersOf(p)' = HoldersOf(p) \cup {h},
         \A b \in Buffers \ {p} : HoldersOf(b)' = HoldersOf(b)
  PROVE  count' \in [Buffers -> Int] /\ NoLeak'
<1> USE DEF PoolInv, TypeInv
<1>1. count' \in [Buffers -> Int]
  BY DEF Referred
<1>2. ASSUME NEW b \in Buffers, b \notin Listed' PROVE Holds(b)'
  <2>1. b \notin Listed
    BY <1>2 DEF Listed
  <2>2. 1 <= count[b] /\ count[b] <= Cardinality(HoldersOf(b)) /\ count[b] \in Int
    BY <2>1 DEF NoLeak
  <2>3. CASE b = p
    <3>1. count'[b] = count[b] + 1
      BY <2>3 DEF Referred
    <3>2. Cardinality(HoldersOf(b) \cup {h}) = Cardinality(HoldersOf(b)) + 1
          /\ Cardinality(HoldersOf(b)) \in Nat
      BY <2>3, HoldersOfFinite
    <3>3. HoldersOf(b)' = HoldersOf(b) \cup {h}
      BY <2>3
    <3>4. QED BY <2>2, <3>1, <3>2, <3>3 DEF Holds
  <2>4. CASE b # p
    BY <2>2, <2>4 DEF Referred, Holds
  <2>5. QED BY <2>3, <2>4
<1>3. QED BY <1>1, <1>2 DEF NoLeak, Holds

\* h takes the first buffer of a list.
LEMMA TakeStep ==
  ASSUME NEW counts \in [Buffers -> Int], NEW list \in Seq(Buffers), list # <<>>,
         count' = [counts EXCEPT ![Head(list)] = 1], free' = Tail(list),
         NEW h, h \in HoldersOf(Head(list))',
         \A b \in Buffers : (\A i \in DOMAIN list : list[i] # b) =>
           1 <= counts[b] /\ counts[b] <= Cardinality(HoldersOf(b)')
  PROVE  count' \in [Buffers -> Int] /\ free' \in Seq(Buffers) /\ NoLeak'
<1>1. count' \in [Buffers -> Int] /\ free' \in Seq(Buffers) /\ Head(list) \in Buffers
  OBVIOUS
<1>2. ASSUME NEW b \in Buffers, b \notin Listed' PROVE Holds(b)'
  <2>1. CASE b = Head(list)
    <3>1. count'[b] = 1
      BY <1>1, <2>1
    <3>2. Cardinality(HoldersOf(b)') \in Nat /\ IsFiniteSet(HoldersOf(b)')
      <4>1. HoldersOf(b)' \in SUBSET Holders
        BY DEF HoldersOf
      <4>2. QED BY <4>1, HoldersFinite, FS_Subset, FS_CardinalityType
    <3>3. Cardinality(HoldersOf(b)') # 0
      BY <2>1, <3>2, FS_EmptySet
    <3>4. QED BY <3>1, <3>2, <3>3 DEF Holds
  <2>2. CASE b # Head(list)
    <3>1. ASSUME NEW i \in DOMAIN list, list[i] = b PROVE FALSE
      <4>1. i \in 1 .. Len(list) /\ i # 1
        BY <2>2, <3>1
      <4>2. i - 1 \in DOMAIN free' /\ free'[i - 1] = b
        BY <3>1, <4>1
      <4>3. QED BY <1>2, <4>2 DEF Listed
    <3>2. 1 <= counts[b] /\ counts[b] <= Cardinality(HoldersOf(b)')
      BY <3>1
    <3>3. QED BY <1>1, <2>2, <3>2 DEF Holds
  <2>3. QED BY <2>1, <2>2
<1>3. QED BY <1>1, <1>2 DEF NoLeak, Holds

-----------------------------------------------------------------------------
\* The four names of holders are four.
LEMMA Distinct ==
  /\ {"working", "stable", "reader"} \subseteq Holders
  /\ \A c \in Clients : c \in Holders /\ c \notin {"working", "stable", "reader"}
BY FrameAssumption DEF Holders, Owners

\* A step that moves no pointer and does not begin or end to take a frame.
LEMMA SameHolders ==
  ASSUME UNCHANGED <<ptr, spc>>, (rpc = "take") <=> (rpc' = "take")
  PROVE  \A b \in Buffers : HoldersOf(b)' = HoldersOf(b)
BY DEF HoldersOf, Counted

\* The notifications.
LEMMA NoticeStep ==
  ASSUME PoolInv,
         \/ NewDataAvailable \/ GetStream \/ SetFlag \/ SetEvent
         \/ WaitEvent \/ Look \/ ReadTimeout \/ ClearAvailable \/ ClearFlag \/ Tell
  PROVE  PoolInv' /\ stuck' = stuck
<1> USE DEF NewDataAvailable, GetStream, SetFlag, SetEvent, WaitEvent, Look,
            ReadTimeout, ClearAvailable, ClearFlag, Tell, UStep, RStep
<1>1. UNCHANGED <<pool, ptr, spc, stuck>> /\ ((rpc = "take") <=> (rpc' = "take"))
  BY DEF pool
<1>2. NoLeak'
  BY <1>1, SameHolders, QuietStep DEF PoolInv
<1>3. TypeInv'
  BY <1>1 DEF TypeInv, PoolInv, pool
<1>4. Pointed'
  BY <1>1 DEF Pointed, PoolInv
<1>5. QED BY <1>1, <1>2, <1>3, <1>4 DEF PoolInv

LEMMA MarkStableStep ==
  ASSUME PoolInv, MarkStable PROVE PoolInv' /\ (FreeLeft # <<>> => stuck' = stuck)
<1> USE DEF PoolInv
<1>1. CASE FreeLeft = <<>>
  <2>1. UNCHANGED <<pool, ptr, rpc, spc, upc, avail>> /\ stuck' = TRUE
    BY <1>1 DEF MarkStable, UStep
  <2>2. NoLeak'
    BY <2>1, SameHolders, QuietStep
  <2>3. QED BY <1>1, <2>1, <2>2 DEF TypeInv, Pointed, pool
<1>2. CASE FreeLeft # <<>>
  <2> DEFINE w == ptr["working"]
             s == ptr["stable"]
  <2>0. CountsLeft \in [Buffers -> Int] /\ FreeLeft \in Seq(Buffers)
    BY Distinct DEF CountsLeft, FreeLeft, TypeInv, Released, Returned
  <2> PICK counts \in [Buffers -> Int], list \in Seq(Buffers) :
        counts = CountsLeft /\ list = FreeLeft
    BY <2>0
  <2> DEFINE n == Head(list)
  <2>1. /\ count' = [counts EXCEPT ![n] = 1] /\ free' = Tail(list)
        /\ ptr' = [ptr EXCEPT !["working"] = n, !["stable"] = w]
        /\ UNCHANGED <<rpc, spc, stuck, avail>>
    BY <1>2 DEF MarkStable, GetBuffer, UStep
  <2>2. list # <<>> /\ n \in Buffers
        /\ w \in Buffers /\ s \in Buffers \cup {None}
    BY <1>2, Distinct DEF TypeInv, Pointed
  <2>3. ptr' \in [Holders -> Buffers \cup {None}]
        /\ ptr'["working"] = n /\ ptr'["stable"] = w
        /\ \A h \in Holders \ {"working", "stable"} : ptr'[h] = ptr[h]
    BY <2>1, <2>2, Distinct DEF TypeInv
  <2>4. "working" \in HoldersOf(n)'
    BY <2>2, <2>3, Distinct, FrameAssumption DEF HoldersOf, Counted
  <2>5. ASSUME NEW b \in Buffers, \A i \in DOMAIN list : list[i] # b
        PROVE  1 <= counts[b] /\ counts[b] <= Cardinality(HoldersOf(b)')
    <3> DEFINE H == HoldersOf(b)
    <3>1. b # n
      BY <1>2, <2>2, <2>5
    <3>2. b \notin Listed
      <4> SUFFICES ASSUME NEW i \in DOMAIN free, free[i] = b PROVE FALSE
        BY DEF Listed
      <4>1. i \in DOMAIN list /\ list[i] = b
        BY DEF FreeLeft, Returned, TypeInv
      <4>2. QED BY <2>5, <4>1
    <3>3. 1 <= count[b] /\ count[b] <= Cardinality(H) /\ count[b] \in Int
      BY <3>2 DEF NoLeak, TypeInv
    <3>4. \A h \in Holders : h \in H' <=> \/ h = "stable" /\ b = w
                                          \/ h \in H /\ h # "stable" /\ h # "working"
      BY <2>1, <2>2, <2>3, <3>1, Distinct, FrameAssumption DEF HoldersOf, Counted
    <3>5. "working" \in H <=> b = w
      BY <2>2, Distinct, FrameAssumption DEF HoldersOf, Counted
    <3>6. "stable" \in H <=> b = s
      BY <2>2, Distinct, FrameAssumption DEF HoldersOf, Counted
    <3>7. H \subseteq Holders /\ H' \subseteq Holders
      BY DEF HoldersOf
    <3>8. "stable" \in Holders
      BY Distinct
    <3>9. Cardinality(H) \in Nat
      BY HoldersOfFinite
    <3>10. CASE b = s
      <4>1. s # None /\ count[b] # 1
        <5>1. s # None
          BY <3>10, FrameAssumption
        <5>2. ASSUME count[b] = 1 PROVE FALSE
          <6>1. list = Append(free, b)
            BY <3>10, <5>1, <5>2 DEF FreeLeft, Returned
          <6>2. Len(free) + 1 \in DOMAIN list /\ list[Len(free) + 1] = b
            BY <6>1 DEF TypeInv
          <6>3. QED BY <2>5, <6>2
        <5>3. QED BY <5>1, <5>2
      <4>2. counts[b] = count[b] - 1
        BY <3>10, <4>1 DEF CountsLeft, Released, TypeInv
      <4>3. \E h \in H : H' = H \ {h}
        <5>1. CASE b = w
          <6>1. H' = H \ {"working"}
            BY <3>4, <3>6, <3>7, <3>8, <3>10, <5>1
          <6>2. QED BY <3>5, <5>1, <6>1
        <5>2. CASE b # w
          <6>1. H' = H \ {"stable"}
            BY <3>4, <3>5, <3>7, <5>2
          <6>2. QED BY <3>6, <3>10, <6>1
        <5>3. QED BY <5>1, <5>2
      <4>4. Cardinality(H') = Cardinality(H) - 1
        BY <4>3, HoldersOfFinite
      <4>5. QED BY <3>3, <3>9, <4>1, <4>2, <4>4
    <3>11. CASE b # s
      <4>1. counts[b] = count[b]
        BY <3>11 DEF CountsLeft, Released, TypeInv
      <4>2. Cardinality(H') = Cardinality(H)
        <5>1. CASE b = w
          <6>1. H' = (H \ {"working"}) \cup {"stable"}
            BY <3>4, <3>7, <3>8, <5>1
          <6>2. IsFiniteSet(H) /\ IsFiniteSet(H \ {"working"})
            BY HoldersOfFinite, FS_RemoveElement
          <6>3. Cardinality(H \ {"working"}) = Cardinality(H) - 1
            BY <3>5, <5>1, HoldersOfFinite
          <6>4. "stable" \notin H \ {"working"}
            BY <3>6, <3>11
          <6>5. Cardinality((H \ {"working"}) \cup {"stable"})
                  = Cardinality(H \ {"working"}) + 1
            BY <6>2, <6>4, FS_AddElement
          <6>6. QED BY <3>9, <6>1, <6>3, <6>5
        <5>2. CASE b # w
          <6>1. H' = H
            BY <3>4, <3>5, <3>6, <3>7, <3>11, <5>2
          <6>2. QED BY <6>1
        <5>3. QED BY <5>1, <5>2
      <4>3. QED BY <3>3, <4>1, <4>2
    <3>12. QED BY <3>10, <3>11
  <2>6. count' \in [Buffers -> Int] /\ free' \in Seq(Buffers) /\ NoLeak'
    BY <2>1, <2>2, <2>4, <2>5, TakeStep
  <2>7. TypeInv'
    BY <2>1, <2>3, <2>6 DEF TypeInv
  <2>8. Pointed'
    BY <2>1, <2>2, <2>3, Distinct DEF Pointed
  <2>9. QED BY <2>1, <2>6, <2>7, <2>8
<1>3. QED BY <1>1, <1>2

LEMMA DropFrameStep == ASSUME PoolInv, DropFrame PROVE PoolInv' /\ stuck' = stuck
<1> USE DEF PoolInv
<1>1. /\ count' = Released(ptr["reader"]) /\ free' = Returned(ptr["reader"])
      /\ UNCHANGED <<ptr, spc, upc, stuck, avail>>
      /\ rpc = "read" /\ rpc' = "take" /\ avail
  BY DEF DropFrame, Release, RStep
<1>2. "reader" \in HoldersOf(ptr["reader"]) /\ ptr["reader"] \in Buffers
  BY <1>1, Distinct, FrameAssumption DEF Pointed, HoldersOf, Counted
<1>3. \A b \in Buffers : HoldersOf(b)' = HoldersOf(b) \ {"reader"}
  BY <1>1, Distinct DEF HoldersOf, Counted
<1>4. count' \in [Buffers -> Int] /\ free' \in Seq(Buffers) /\ NoLeak'
  BY <1>1, <1>2, <1>3, Distinct, ReleaseStep
<1>5. QED BY <1>1, <1>4 DEF TypeInv, Pointed

LEMMA TakeStableStep == ASSUME PoolInv, TakeStable PROVE PoolInv' /\ stuck' = stuck
<1> USE DEF PoolInv
<1>1. /\ count' = Referred(ptr["stable"]) /\ free' = free
      /\ ptr' = [ptr EXCEPT !["reader"] = ptr["stable"]]
      /\ UNCHANGED <<spc, upc, stuck, avail>>
      /\ rpc = "take" /\ rpc' = "taken"
  BY DEF TakeStable, RStep
<1> PICK p \in Buffers : p = ptr["stable"]
  BY <1>1 DEF Pointed
<1>2. /\ ptr' \in [Holders -> Buffers \cup {None}] /\ ptr'["reader"] = p
      /\ \A h \in Holders \ {"reader"} : ptr'[h] = ptr[h]
  BY <1>1, Distinct DEF TypeInv
<1>3. "reader" \notin HoldersOf(p)
  BY <1>1 DEF HoldersOf, Counted
<1>4. HoldersOf(p)' = HoldersOf(p) \cup {"reader"}
  <2> SUFFICES ASSUME NEW h \in Holders
               PROVE  h \in HoldersOf(p)' <=> h \in HoldersOf(p) \/ h = "reader"
    BY Distinct DEF HoldersOf
  <2>1. QED BY <1>1, <1>2, Distinct, FrameAssumption DEF HoldersOf, Counted
<1>5. ASSUME NEW b \in Buffers \ {p} PROVE HoldersOf(b)' = HoldersOf(b)
  <2> SUFFICES ASSUME NEW h \in Holders
               PROVE  h \in HoldersOf(b)' <=> h \in HoldersOf(b)
    BY DEF HoldersOf
  <2>1. QED BY <1>1, <1>2, Distinct, FrameAssumption DEF HoldersOf, Counted
<1>6. count' \in [Buffers -> Int] /\ NoLeak'
  BY <1>1, <1>3, <1>4, <1>5, ReferStep
<1>7. TypeInv'
  BY <1>1, <1>2, <1>6 DEF TypeInv
<1>8. Pointed'
  BY <1>1, <1>2, Distinct DEF Pointed
<1>9. QED BY <1>1, <1>6, <1>7, <1>8

LEMMA NewStreamStep ==
  ASSUME PoolInv, NEW c \in Clients, NewStream(c) PROVE PoolInv' /\ stuck' = stuck
<1> USE DEF PoolInv
<1>1. /\ free # <<>> /\ count' = [count EXCEPT ![Head(free)] = 1] /\ free' = Tail(free)
      /\ ptr' = [ptr EXCEPT ![c] = Head(free)]
      /\ spc[c] = "out" /\ spc' = [spc EXCEPT ![c] = "in"]
      /\ UNCHANGED <<upc, rpc, stuck, avail>>
  BY Distinct DEF NewStream, GetBuffer, SStep, TypeInv
<1> PICK counts \in [Buffers -> Int], list \in Seq(Buffers) :
      counts = count /\ list = free
  BY DEF TypeInv
<1> DEFINE n == Head(list)
<1>2. /\ n \in Buffers /\ ptr' \in [Holders -> Buffers \cup {None}] /\ ptr'[c] = n
      /\ \A h \in Holders \ {c} : ptr'[h] = ptr[h]
      /\ spc' \in [Clients -> {"in", "out", "copied"}] /\ spc'[c] = "in"
      /\ \A d \in Clients \ {c} : spc'[d] = spc[d]
  BY <1>1, Distinct DEF TypeInv
<1>3. c \in HoldersOf(n)'
  BY <1>2, Distinct, FrameAssumption DEF HoldersOf, Counted
<1>4. ASSUME NEW b \in Buffers, \A i \in DOMAIN list : list[i] # b
      PROVE  1 <= counts[b] /\ counts[b] <= Cardinality(HoldersOf(b)')
  <2>1. b # n /\ b \notin Listed
    BY <1>1, <1>4 DEF Listed
  <2>2. HoldersOf(b)' = HoldersOf(b)
    <3> SUFFICES ASSUME NEW h \in Holders
                 PROVE  h \in HoldersOf(b)' <=> h \in HoldersOf(b)
      BY DEF HoldersOf
    <3>1. CASE h = c
      BY <1>1, <1>2, <2>1, <3>1 DEF HoldersOf, Counted
    <3>2. CASE h # c
      BY <1>1, <1>2, <3>2 DEF HoldersOf, Counted
    <3>3. QED BY <3>1, <3>2
  <2>3. QED BY <2>1, <2>2 DEF NoLeak
<1>5. count' \in [Buffers -> Int] /\ free' \in Seq(Buffers) /\ NoLeak'
  BY <1>1, <1>3, <1>4, TakeStep
<1>6. TypeInv'
  BY <1>1, <1>2, <1>5 DEF TypeInv
<1>7. Pointed'
  BY <1>1, <1>2, Distinct DEF Pointed
<1>8. QED BY <1>1, <1>5, <1>6, <1>7

\* A session that releases its frame and goes on without counting.
LEMMA SessionReleases ==
  ASSUME PoolInv, NEW c \in Clients, NEW q \in Buffers \cup {None}, NEW to \in {"out", "copied"},
         to = "copied" => q \in Buffers,
         spc[c] = "in", spc' = [spc EXCEPT ![c] = to], ptr' = [ptr EXCEPT ![c] = q],
         count' = Released(ptr[c]), free' = Returned(ptr[c]),
         UNCHANGED <<upc, rpc, stuck, avail>>
  PROVE  PoolInv' /\ stuck' = stuck
<1> USE DEF PoolInv
<1>1. /\ ptr' \in [Holders -> Buffers \cup {None}] /\ ptr'[c] = q
      /\ \A h \in Holders \ {c} : ptr'[h] = ptr[h]
      /\ spc' \in [Clients -> {"in", "out", "copied"}] /\ spc'[c] = to
      /\ \A d \in Clients \ {c} : spc'[d] = spc[d]
  BY Distinct DEF TypeInv
<1>2. c \in HoldersOf(ptr[c]) /\ ptr[c] \in Buffers
  BY Distinct, FrameAssumption DEF HoldersOf, Counted, Pointed
<1>3. ASSUME NEW b \in Buffers PROVE HoldersOf(b)' = HoldersOf(b) \ {c}
  <2> SUFFICES ASSUME NEW h \in Holders
               PROVE  h \in HoldersOf(b)' <=> h \in HoldersOf(b) /\ h # c
    BY DEF HoldersOf
  <2>1. CASE h = c
    BY <1>1, <2>1 DEF HoldersOf, Counted
  <2>2. CASE h # c
    BY <1>1, <2>2 DEF HoldersOf, Counted
  <2>3. QED BY <2>1, <2>2
<1>4. count' \in [Buffers -> Int] /\ free' \in Seq(Buffers) /\ NoLeak'
  <2>1. c \in Holders
    BY Distinct
  <2>2. QED BY <1>2, <1>3, <2>1, ReleaseStep
<1>5. TypeInv'
  BY <1>1, <1>4 DEF TypeInv
<1>6. Pointed'
  BY <1>1, Distinct DEF Pointed
<1>7. QED BY <1>4, <1>5, <1>6

LEMMA CopyFrameStep ==
  ASSUME PoolInv, NEW c \in Clients, CopyFrame(c) PROVE PoolInv' /\ stuck' = stuck
<1> PICK q \in Buffers : q = ptr["reader"]
  BY DEF PoolInv, Pointed
<1>1. /\ spc[c] = "in" /\ spc' = [spc EXCEPT ![c] = "copied"]
      /\ ptr' = [ptr EXCEPT ![c] = q]
      /\ count' = Released(ptr[c]) /\ free' = Returned(ptr[c])
      /\ UNCHANGED <<upc, rpc, stuck, avail>>
  BY DEF CopyFrame, Release, SStep
<1>2. QED BY <1>1, SessionReleases

LEMMA RemoveStreamStep ==
  ASSUME PoolInv, NEW c \in Clients, RemoveStream(c) PROVE PoolInv' /\ stuck' = stuck
<1>1. /\ spc[c] = "in" /\ spc' = [spc EXCEPT ![c] = "out"]
      /\ ptr' = [ptr EXCEPT ![c] = None]
      /\ count' = Released(ptr[c]) /\ free' = Returned(ptr[c])
      /\ UNCHANGED <<upc, rpc, stuck, avail>>
  BY DEF RemoveStream, Release, SStep
<1>2. QED BY <1>1, SessionReleases

LEMMA ReferFrameStep ==
  ASSUME PoolInv, NEW c \in Clients, ReferFrame(c) PROVE PoolInv' /\ stuck' = stuck
<1> USE DEF PoolInv
<1>1. /\ spc[c] = "copied" /\ spc' = [spc EXCEPT ![c] = "in"]
      /\ count' = Referred(ptr[c]) /\ free' = free
      /\ UNCHANGED <<ptr, upc, rpc, stuck, avail>>
  BY DEF ReferFrame, SStep
<1> PICK p \in Buffers : p = ptr[c]
  BY <1>1 DEF Pointed
<1>2. /\ spc' \in [Clients -> {"in", "out", "copied"}] /\ spc'[c] = "in"
      /\ \A d \in Clients \ {c} : spc'[d] = spc[d]
  BY <1>1 DEF TypeInv
<1>3. c \notin HoldersOf(p)
  BY <1>1 DEF HoldersOf, Counted
<1>4. ASSUME NEW b \in Buffers, NEW h \in Holders
      PROVE  h \in HoldersOf(b)' <=> h \in HoldersOf(b) \/ (h = c /\ b = p)
  <2>1. CASE h = c
    BY <1>1, <1>2, <2>1, Distinct, FrameAssumption DEF HoldersOf, Counted
  <2>2. CASE h # c
    BY <1>1, <1>2, <2>2 DEF HoldersOf, Counted
  <2>3. QED BY <2>1, <2>2
<1>5. HoldersOf(p)' = HoldersOf(p) \cup {c}
      /\ \A b \in Buffers \ {p} : HoldersOf(b)' = HoldersOf(b)
  <2>1. \A b \in Buffers : HoldersOf(b) \subseteq Holders /\ HoldersOf(b)' \subseteq Holders
    BY DEF HoldersOf
  <2>2. QED BY <1>4, <2>1, Distinct
<1>6. count' \in [Buffers -> Int] /\ NoLeak'
  BY <1>1, <1>3, <1>5, ReferStep
<1>7. QED BY <1>1, <1>2, <1>6 DEF TypeInv, Pointed

-----------------------------------------------------------------------------
LEMMA NextPoolInv ==
  ASSUME PoolInv, [Next]_vars PROVE PoolInv' /\ (Enough /\ ~stuck => ~stuck')
<1>1. CASE MarkStable
  BY <1>1, MarkStableStep, OneIsLeft DEF PoolInv, TypeInv
<1>2. CASE DropFrame
  BY <1>2, DropFrameStep
<1>3. CASE TakeStable
  BY <1>3, TakeStableStep
<1>4. ASSUME NEW c \in Clients, Session(c) PROVE PoolInv' /\ stuck' = stuck
  BY <1>4, NewStreamStep, CopyFrameStep, ReferFrameStep, RemoveStreamStep DEF Session
<1>5. CASE UNCHANGED vars
  <2>1. NoLeak'
    BY <1>5, QuietStep, SameHolders DEF vars, pool, pcs, PoolInv
  <2>2. QED BY <1>5, <2>1 DEF vars, pool, pcs, PoolInv, TypeInv, Pointed
<1>6. QED
  BY <1>1, <1>2, <1>3, <1>4, <1>5, NoticeStep DEF Next, USB, Reader

LEMMA SomeBuffers == NumBuffers \in Nat /\ NumBuffers >= 3
BY FrameAssumption, FS_CardinalityType DEF NumBuffers

\* What is free at first: the buffers from the fourth.
LEMMA FromTheFourth ==
  ASSUME NEW s \in [1 .. NumBuffers -> Buffers], NEW l, l = SubSeq(s, 4, NumBuffers)
  PROVE  /\ l \in Seq(Buffers)
         /\ DOMAIN l = 1 .. NumBuffers - 3
         /\ \A i \in 1 .. NumBuffers - 3 : l[i] = s[i + 3]
<1>1. \A i \in 4 .. NumBuffers : s[i] \in Buffers
  BY SomeBuffers
<1>2. /\ l \in Seq(Buffers)
      /\ Len(l) = IF 4 <= NumBuffers THEN NumBuffers - 4 + 1 ELSE 0
      /\ \A i \in 1 .. NumBuffers - 4 + 1 : l[i] = s[4 + i - 1]
  <2> DEFINE t == SubSeq(s, 4, NumBuffers)
  <2>1. NumBuffers \in Int /\ 4 \in Int
    BY SomeBuffers
  <2>2. /\ t \in Seq(Buffers)
        /\ Len(t) = IF 4 <= NumBuffers THEN NumBuffers - 4 + 1 ELSE 0
        /\ \A i \in 1 .. NumBuffers - 4 + 1 : t[i] = s[4 + i - 1]
    <3>1. \A a, e \in Int : (\A i \in a .. e : s[i] \in Buffers) =>
            /\ SubSeq(s, a, e) \in Seq(Buffers)
            /\ Len(SubSeq(s, a, e)) = IF a <= e THEN e - a + 1 ELSE 0
            /\ \A i \in 1 .. e - a + 1 : SubSeq(s, a, e)[i] = s[a + i - 1]
      BY SubSeqProperties, SMTT(30)
    <3>2. QED BY <1>1, <2>1, <3>1, Zenon
  <2>3. l = t
    OBVIOUS
  <2> HIDE DEF t
  <2>4. QED BY <2>2, <2>3
<1>3. Len(l) = NumBuffers - 3
  BY SomeBuffers, <1>2
<1>4. DOMAIN l = 1 .. Len(l)
  BY <1>2, LenProperties
<1>5. \A i \in 1 .. NumBuffers - 3 : 4 + i - 1 = i + 3 /\ i \in 1 .. NumBuffers - 4 + 1
  BY SomeBuffers
<1>6. \A i \in 1 .. NumBuffers - 3 : l[i] = s[i + 3]
  BY <1>2, <1>5
<1>7. QED BY <1>2, <1>3, <1>4, <1>6

LEMMA InitPoolInv == Init => PoolInv /\ ~stuck
<1> SUFFICES ASSUME Init PROVE PoolInv /\ ~stuck
  OBVIOUS
<1>1. NumBuffers \in Nat /\ NumBuffers >= 3
  BY SomeBuffers
<1>2. PICK s \in [1 .. NumBuffers -> Buffers], c \in Clients :
        /\ \A b \in Buffers : \E i \in 1 .. NumBuffers : s[i] = b
        /\ ptr = [h \in Holders |-> CASE h = "reader"  -> s[1]
                                      [] h = c         -> s[2]
                                      [] h = "working" -> s[3]
                                      [] OTHER         -> None]
        /\ free = SubSeq(s, 4, NumBuffers)
        /\ count = [b \in Buffers |-> IF b \in {s[1], s[2], s[3]} THEN 1 ELSE 0]
        /\ spc = [d \in Clients |-> IF d = c THEN "in" ELSE "out"]
  BY DEF Init
<1>3. s[1] \in Buffers /\ s[2] \in Buffers /\ s[3] \in Buffers
  <2>1. {1, 2, 3} \subseteq 1 .. NumBuffers
    BY <1>1
  <2>2. QED BY <2>1, <1>2
<1>4. /\ free \in Seq(Buffers)
      /\ DOMAIN free = 1 .. NumBuffers - 3
      /\ \A i \in 1 .. NumBuffers - 3 : free[i] = s[i + 3]
  BY <1>2, FromTheFourth
<1>5. /\ ptr \in [Holders -> Buffers \cup {None}]
      /\ ptr["reader"] = s[1] /\ ptr[c] = s[2] /\ ptr["working"] = s[3]
      /\ spc[c] = "in" /\ rpc = "wait" /\ upc = "fill" /\ stuck = FALSE /\ avail = FALSE
  BY <1>2, <1>3, Distinct DEF Init
<1>6. TypeInv
  <2>1. count \in [Buffers -> Int]
    BY <1>2
  <2>2. spc \in [Clients -> {"in", "out", "copied"}]
    BY <1>2
  <2>3. QED BY <1>4, <1>5, <2>1, <2>2 DEF TypeInv
<1>7. Pointed
  BY <1>2, <1>3, <1>5 DEF Pointed
<1>8. ASSUME NEW b \in Buffers, b \notin Listed
      PROVE  1 <= count[b] /\ count[b] <= Cardinality(HoldersOf(b))
  <2>1. b \in {s[1], s[2], s[3]}
    <3>1. PICK i \in 1 .. NumBuffers : s[i] = b
      BY <1>2
    <3>2. ASSUME i >= 4 PROVE FALSE
      <4>1. i - 3 \in 1 .. NumBuffers - 3 /\ i - 3 + 3 = i
        BY <1>1, <3>2
      <4>2. i - 3 \in DOMAIN free /\ free[i - 3] = s[i]
        BY <1>4, <4>1
      <4>3. QED BY <1>8, <3>1, <4>2 DEF Listed
    <3>3. i = 1 \/ i = 2 \/ i = 3
      BY <1>1, <3>2
    <3>4. QED BY <3>1, <3>3
  <2>2. count[b] = 1
    BY <1>2, <2>1
  <2>3. HoldersOf(b) # {}
    BY <1>5, <2>1, Distinct, FrameAssumption DEF HoldersOf, Counted
  <2>4. Cardinality(HoldersOf(b)) \in Nat /\ IsFiniteSet(HoldersOf(b))
    BY HoldersOfFinite
  <2>5. Cardinality(HoldersOf(b)) # 0
    BY <2>3, <2>4, FS_EmptySet
  <2>6. QED BY <2>2, <2>4, <2>5
<1>9. QED BY <1>5, <1>6, <1>7, <1>8 DEF PoolInv, NoLeak

\* No buffer leaks, whatever the three kinds of threads do to each other.
THEOREM BuffersDoNotLeak == Spec => []NoLeak
<1>1. PoolInv => NoLeak
  BY DEF PoolInv
<1>2. PoolInv /\ [Next]_vars => PoolInv'
  BY NextPoolInv
<1>3. QED BY <1>1, <1>2, InitPoolInv, PTL DEF Spec

\* The comment of the configuration file is right for every number of clients.
THEOREM ThreeMoreAreEnough == Spec => []ClientsPlusThree
<1> DEFINE I == PoolInv /\ (Enough => ~stuck)
<1>1. Init => I
  BY InitPoolInv
<1>2. I /\ [Next]_vars => I'
  <2> SUFFICES ASSUME I, [Next]_vars PROVE I'
    OBVIOUS
  <2>1. Enough' = Enough
    BY DEF Enough
  <2>2. QED BY <2>1, NextPoolInv
<1>3. I => ClientsPlusThree
  BY OneIsLeft DEF ClientsPlusThree, Enough
<1>4. QED BY <1>1, <1>2, <1>3, PTL DEF Spec
-----------------------------------------------------------------------------
(***************************************************************************)
(* That the torn frame has one cause.  The reader lets go of its frame and *)
(* takes the next (ReadImpl); a session copies the reader's pointer and    *)
(* refers to it (ReadStream).  The code holds two different locks over     *)
(* these two pairs of steps.  Were it one lock, every count would be       *)
(* exact, and no frame that a client has been given would be filled.       *)
(***************************************************************************)

\* The two pairs of steps exclude each other.
OneLock == rpc = "take" => SensorFree

\* A pool whose counts k and list l are right, H[b] being the holders of b.
Balanced(k, l, H) ==
  /\ k \in [Buffers -> Int] /\ l \in Seq(Buffers)
  /\ H \in [Buffers -> SUBSET Holders]
  /\ \A b \in Buffers : k[b] = Cardinality(H[b])
  /\ \A b \in Buffers : (\E i \in DOMAIN l : l[i] = b) <=> H[b] = {}
  /\ \A i, j \in DOMAIN l : l[i] = l[j] => i = j

\* Sets of holders are finite, and grow and shrink by one.
LEMMA HolderSets ==
  ASSUME NEW A \in SUBSET Holders
  PROVE  /\ Cardinality(A) \in Nat /\ (Cardinality(A) = 0 <=> A = {})
         /\ \A h \in A : /\ Cardinality(A \ {h}) = Cardinality(A) - 1
                         /\ Cardinality(A) = 1 <=> A \ {h} = {}
         /\ \A h : h \notin A => Cardinality(A \cup {h}) = Cardinality(A) + 1
<1>1. IsFiniteSet(A)
  BY HoldersFinite, FS_Subset
<1>2. Cardinality(A) \in Nat /\ (Cardinality(A) = 0 <=> A = {})
  BY <1>1, FS_CardinalityType, FS_EmptySet
<1>3. ASSUME NEW h \in A
      PROVE  /\ Cardinality(A \ {h}) = Cardinality(A) - 1
             /\ Cardinality(A) = 1 <=> A \ {h} = {}
  <2>1. IsFiniteSet(A \ {h}) /\ Cardinality(A \ {h}) = Cardinality(A) - 1
    BY <1>1, FS_RemoveElement
  <2>2. Cardinality(A \ {h}) = 0 <=> A \ {h} = {}
    BY <2>1, FS_EmptySet
  <2>3. QED BY <1>2, <2>1, <2>2
<1>4. QED BY <1>1, <1>2, <1>3, FS_AddElement

\* h gives back buffer p.
LEMMA GiveBack ==
  ASSUME NEW k, NEW l, NEW H, Balanced(k, l, H), NEW p \in Buffers, NEW h \in H[p]
  PROVE  Balanced([k EXCEPT ![p] = @ - 1], IF k[p] = 1 THEN Append(l, p) ELSE l,
                  [H EXCEPT ![p] = @ \ {h}])
<1> USE DEF Balanced
<1> DEFINE k2 == [k EXCEPT ![p] = @ - 1]
           H2 == [H EXCEPT ![p] = @ \ {h}]
           l2 == IF k[p] = 1 THEN Append(l, p) ELSE l
<1>1. H[p] \in SUBSET Holders /\ k[p] = Cardinality(H[p])
  OBVIOUS
<1>2. Cardinality(H[p] \ {h}) = k[p] - 1 /\ (k[p] = 1 <=> H[p] \ {h} = {})
  <2>1. /\ Cardinality(H[p] \ {h}) = Cardinality(H[p]) - 1
        /\ Cardinality(H[p]) = 1 <=> H[p] \ {h} = {}
    BY <1>1, HolderSets, Zenon
  <2>2. QED BY <1>1, <2>1
<1>3. /\ k2 \in [Buffers -> Int] /\ l2 \in Seq(Buffers) /\ H2 \in [Buffers -> SUBSET Holders]
      /\ k2[p] = k[p] - 1 /\ H2[p] = H[p] \ {h}
      /\ \A b \in Buffers \ {p} : k2[b] = k[b] /\ H2[b] = H[b]
  OBVIOUS
<1>4. \A b \in Buffers : k2[b] = Cardinality(H2[b])
  BY <1>2, <1>3
<1>5. \A i \in DOMAIN l : l[i] # p
  OBVIOUS
<1>6. CASE k[p] = 1
  <2>1. /\ DOMAIN l2 = DOMAIN l \cup {Len(l) + 1} /\ Len(l) + 1 \notin DOMAIN l
        /\ l2[Len(l) + 1] = p /\ \A i \in DOMAIN l : l2[i] = l[i]
    BY <1>6
  <2>2. \A b \in Buffers : (\E i \in DOMAIN l2 : l2[i] = b) <=> b = p \/ \E i \in DOMAIN l : l[i] = b
    BY <2>1
  <2>3. \A i, j \in DOMAIN l2 : l2[i] = l2[j] => i = j
    BY <1>5, <2>1
  <2> HIDE DEF k2, l2, H2
  <2>4. \A b \in Buffers : (\E i \in DOMAIN l2 : l2[i] = b) <=> H2[b] = {}
    BY <1>2, <1>3, <1>6, <2>2
  <2>5. Balanced(k2, l2, H2)
    BY <1>3, <1>4, <2>3, <2>4
  <2>6. QED BY <2>5 DEF k2, l2, H2
<1>7. CASE k[p] # 1
  <2>1. l2 = l
    BY <1>7
  <2> HIDE DEF k2, l2, H2
  <2>2. \A b \in Buffers : (\E i \in DOMAIN l : l[i] = b) <=> H2[b] = {}
    BY <1>2, <1>3, <1>5, <1>7
  <2>3. Balanced(k2, l2, H2)
    BY <1>3, <1>4, <2>1, <2>2
  <2>4. QED BY <2>3 DEF k2, l2, H2
<1>8. QED BY <1>6, <1>7

\* h refers to a buffer that somebody has.
LEMMA Share ==
  ASSUME NEW k, NEW l, NEW H, Balanced(k, l, H), NEW p \in Buffers, H[p] # {},
         NEW h \in Holders, h \notin H[p]
  PROVE  Balanced([k EXCEPT ![p] = @ + 1], l, [H EXCEPT ![p] = @ \cup {h}])
<1> USE DEF Balanced
<1> DEFINE k2 == [k EXCEPT ![p] = @ + 1]
           H2 == [H EXCEPT ![p] = @ \cup {h}]
<1>1. Cardinality(H[p] \cup {h}) = k[p] + 1
  BY HolderSets
<1>2. /\ k2 \in [Buffers -> Int] /\ H2 \in [Buffers -> SUBSET Holders]
      /\ k2[p] = k[p] + 1 /\ H2[p] = H[p] \cup {h}
      /\ \A b \in Buffers \ {p} : k2[b] = k[b] /\ H2[b] = H[b]
  OBVIOUS
<1> HIDE DEF k2, H2
<1>3. \A b \in Buffers : k2[b] = Cardinality(H2[b]) /\ (H2[b] = {} <=> H[b] = {})
  BY <1>1, <1>2
<1>4. Balanced(k2, l, H2)
  BY <1>2, <1>3
<1>5. QED BY <1>4 DEF k2, H2

\* h takes the first of the list.
LEMMA TakeFirst ==
  ASSUME NEW k, NEW l, NEW H, Balanced(k, l, H), l # <<>>, NEW h \in Holders
  PROVE  Balanced([k EXCEPT ![Head(l)] = 1], Tail(l), [H EXCEPT ![Head(l)] = {h}])
<1> USE DEF Balanced
<1> DEFINE n  == Head(l)
           k2 == [k EXCEPT ![n] = 1]
           l2 == Tail(l)
           H2 == [H EXCEPT ![n] = {h}]
<1>1. n \in Buffers /\ l2 \in Seq(Buffers) /\ Len(l) >= 1
      /\ 1 \in DOMAIN l /\ l[1] = n /\ DOMAIN l = 1 .. Len(l) /\ Len(l) \in Nat
      /\ DOMAIN l2 = 1 .. Len(l) - 1 /\ \A i \in DOMAIN l2 : l2[i] = l[i + 1]
  OBVIOUS
<1>2. Cardinality({h}) = 1
  BY FS_Singleton
<1>3. /\ k2 \in [Buffers -> Int] /\ H2 \in [Buffers -> SUBSET Holders]
      /\ k2[n] = 1 /\ H2[n] = {h}
      /\ \A b \in Buffers \ {n} : k2[b] = k[b] /\ H2[b] = H[b]
  BY <1>1
<1> HIDE DEF n, k2, l2, H2
<1>4. \A b \in Buffers : k2[b] = Cardinality(H2[b])
  BY <1>2, <1>3
<1>5. ASSUME NEW b \in Buffers
      PROVE  (\E i \in DOMAIN l2 : l2[i] = b) <=> b # n /\ \E i \in DOMAIN l : l[i] = b
  <2>1. ASSUME NEW i \in DOMAIN l2, l2[i] = b PROVE b # n /\ \E j \in DOMAIN l : l[j] = b
    <3>1. \A m \in Nat : \A x \in 1 .. m - 1 : x + 1 \in 1 .. m /\ x + 1 # 1
      OBVIOUS
    <3>2. Len(l) \in Nat /\ i \in 1 .. Len(l) - 1 /\ l[i + 1] = b
      BY <1>1, <2>1
    <3>3. i + 1 \in DOMAIN l /\ i + 1 # 1
      BY <1>1, <3>1, <3>2
    <3>4. QED BY <1>1, <3>2, <3>3
  <2>2. ASSUME NEW i \in DOMAIN l, l[i] = b, b # n PROVE \E j \in DOMAIN l2 : l2[j] = b
    <3>1. i # 1
      BY <1>1, <2>2
    <3>2. \A m \in Nat : \A x \in 1 .. m : x # 1 => x - 1 \in 1 .. m - 1 /\ x - 1 + 1 = x
      OBVIOUS
    <3>3. Len(l) \in Nat /\ i \in 1 .. Len(l)
      BY <1>1, <2>2
    <3>4. i - 1 \in DOMAIN l2 /\ i - 1 + 1 = i
      BY <1>1, <3>1, <3>2, <3>3
    <3>5. l2[i - 1] = b
      BY <1>1, <2>2, <3>4
    <3>6. QED BY <3>4, <3>5
  <2>3. QED BY <2>1, <2>2
<1>6. ASSUME NEW b \in Buffers PROVE (\E i \in DOMAIN l2 : l2[i] = b) <=> H2[b] = {}
  <2>1. (\E i \in DOMAIN l : l[i] = b) <=> H[b] = {}
    OBVIOUS
  <2>2. CASE b = n
    BY <1>3, <1>5, <2>2
  <2>3. CASE b # n
    BY <1>3, <1>5, <2>1, <2>3
  <2>4. QED BY <2>2, <2>3
<1>7. \A i, j \in DOMAIN l2 : l2[i] = l2[j] => i = j
  <2> SUFFICES ASSUME NEW i \in DOMAIN l2, NEW j \in DOMAIN l2, l2[i] = l2[j] PROVE i = j
    OBVIOUS
  <2>1. i + 1 \in DOMAIN l /\ j + 1 \in DOMAIN l
    <3>1. \A m \in Nat : \A x \in 1 .. m - 1 : x + 1 \in 1 .. m
      OBVIOUS
    <3>2. Len(l) \in Nat /\ i \in 1 .. Len(l) - 1 /\ j \in 1 .. Len(l) - 1
      BY <1>1
    <3>3. i + 1 \in 1 .. Len(l) /\ j + 1 \in 1 .. Len(l)
      BY <3>1, <3>2
    <3>4. QED BY <1>1, <3>3
  <2>2. l[i + 1] = l[j + 1]
    <3>1. \A x \in DOMAIN l2 : l2[x] = l[x + 1]
      BY <1>1
    <3>2. l2[i] = l[i + 1] /\ l2[j] = l[j + 1]
      BY <3>1
    <3>3. QED BY <3>2
  <2>3. i + 1 = j + 1
    BY <2>1, <2>2
  <2>4. QED BY <1>1, <2>3
<1>8. Balanced(k2, l2, H2)
  BY <1>1, <1>3, <1>4, <1>6, <1>7
<1>9. QED BY <1>8 DEF n, k2, l2, H2

\* One holder passes its reference on to another.
LEMMA PassOn ==
  ASSUME NEW k, NEW l, NEW H, Balanced(k, l, H), NEW p \in Buffers,
         NEW g \in H[p], NEW h \in Holders, h \notin H[p]
  PROVE  Balanced(k, l, [H EXCEPT ![p] = (@ \ {g}) \cup {h}])
<1> USE DEF Balanced
<1> DEFINE A  == H[p] \ {g}
           H2 == [H EXCEPT ![p] = A \cup {h}]
<1>1. Cardinality(A) = k[p] - 1 /\ A \in SUBSET Holders /\ h \notin A
  BY HolderSets
<1>2. Cardinality(A \cup {h}) = Cardinality(A) + 1
  BY <1>1, HolderSets
<1>3. H2 \in [Buffers -> SUBSET Holders] /\ H2[p] = A \cup {h}
      /\ \A b \in Buffers \ {p} : H2[b] = H[b]
  BY <1>1
<1> HIDE DEF A, H2
<1>4. ASSUME NEW b \in Buffers
      PROVE  k[b] = Cardinality(H2[b]) /\ (H2[b] = {} <=> H[b] = {})
  <2>1. CASE b = p
    <3>1. k[p] \in Int
      OBVIOUS
    <3>2. k[p] = Cardinality(A \cup {h})
      BY <1>1, <1>2, <3>1
    <3>3. H[p] # {} /\ A \cup {h} # {}
      OBVIOUS
    <3>4. QED BY <1>3, <2>1, <3>2, <3>3
  <2>2. CASE b # p
    BY <1>3, <2>2
  <2>3. QED BY <2>1, <2>2
<1>5. (\A b \in Buffers : k[b] = Cardinality(H2[b]))
      /\ \A b \in Buffers : (\E i \in DOMAIN l : l[i] = b) <=> H2[b] = {}
  BY <1>4
<1>6. Balanced(k, l, H2)
  BY <1>3, <1>4, <1>5
<1>7. QED BY <1>6 DEF A, H2

-----------------------------------------------------------------------------
HoldersNow == [b \in Buffers |-> HoldersOf(b)]

\* The working buffer is the USB thread's alone, and a session between its
\* two steps points where the reader does.
Sole   == HoldersOf(ptr["working"]) = {"working"}
Copied == \A c \in Clients : spc[c] = "copied" => ptr[c] = ptr["reader"]

LockInv == PoolInv /\ Balanced(count, free, HoldersNow) /\ Sole /\ Copied

LEMMA HoldersNowTyped == HoldersNow \in [Buffers -> SUBSET Holders]
                         /\ \A b \in Buffers : HoldersNow[b] = HoldersOf(b)
BY DEF HoldersNow, HoldersOf

\* Who is a holder: the pointers that always lead to a buffer, and the others.
LEMMA WhoHolds ==
  ASSUME PoolInv, NEW b \in Buffers
  PROVE  /\ "working" \in HoldersOf(b) <=> ptr["working"] = b
         /\ "stable" \in HoldersOf(b) <=> ptr["stable"] = b
         /\ "reader" \in HoldersOf(b) <=> ptr["reader"] = b /\ rpc # "take"
         /\ \A c \in Clients : c \in HoldersOf(b) <=> ptr[c] = b /\ spc[c] = "in"
         /\ HoldersOf(b) \subseteq Holders
BY Distinct, FrameAssumption DEF HoldersOf, Counted, PoolInv, Pointed

\* A step that changes no references and moves no pointer.
LEMMA LockQuiet ==
  ASSUME LockInv, PoolInv', UNCHANGED <<count, free, ptr, spc>>, (rpc = "take") <=> (rpc' = "take")
  PROVE  LockInv'
<1>1. \A b \in Buffers : HoldersOf(b)' = HoldersOf(b)
  BY SameHolders
<1>2. HoldersNow' = HoldersNow
  BY <1>1 DEF HoldersNow
<1>3. ptr["working"] \in Buffers
  BY DEF LockInv, PoolInv, Pointed
<1>4. HoldersOf(ptr["working"])' = HoldersOf(ptr["working"])
  BY <1>1, <1>3
<1>5. Balanced(count, free, HoldersNow)'
  BY <1>2 DEF LockInv, Balanced
<1>6. QED BY <1>4, <1>5 DEF LockInv, Sole, Copied

\* A step of holder h, neither the working nor the stable pointer, that does
\* not lead h to the working buffer.
LEMMA SoleStep ==
  ASSUME LockInv, NEW h \in Holders \ {"working", "stable"}, NEW w \in Buffers,
         w = ptr["working"], ptr'["working"] = w,
         \A g \in Holders \ {h} : g \in HoldersOf(w)' <=> g \in HoldersOf(w),
         h \notin HoldersOf(w)'
  PROVE  Sole'
<1>1. HoldersOf(w)' \subseteq Holders /\ HoldersOf(w) = {"working"}
  BY DEF HoldersOf, LockInv, Sole
<1>2. HoldersOf(w)' = {"working"}
  BY <1>1, Distinct
<1>3. QED BY <1>2 DEF Sole, HoldersOf, Counted

\* The holders after a step, given for each buffer.
LEMMA HoldersNext ==
  ASSUME NEW H \in [Buffers -> SUBSET Holders], \A b \in Buffers : HoldersOf(b)' = H[b]
  PROVE  HoldersNow' = H
BY DEF HoldersNow

LEMMA BalancedNext ==
  ASSUME NEW k, NEW l, NEW H, Balanced(k, l, H), count' = k, free' = l, HoldersNow' = H
  PROVE  Balanced(count, free, HoldersNow)'
BY DEF Balanced

LEMMA LockMark ==
  ASSUME LockInv, PoolInv', MarkStable PROVE LockInv'
<1> USE DEF LockInv
<1>1. CASE FreeLeft = <<>>
  <2>1. UNCHANGED <<count, free, ptr, spc, rpc>>
    BY <1>1 DEF MarkStable, UStep, pool
  <2>2. QED BY <2>1, LockQuiet
<1>2. CASE FreeLeft # <<>>
  <2>1. /\ count' = [CountsLeft EXCEPT ![Head(FreeLeft)] = 1] /\ free' = Tail(FreeLeft)
        /\ ptr' = [ptr EXCEPT !["working"] = Head(FreeLeft), !["stable"] = ptr["working"]]
        /\ UNCHANGED <<rpc, spc>>
    BY <1>2 DEF MarkStable, GetBuffer, UStep
  <2> DEFINE s  == ptr["stable"]
             H  == HoldersNow
             H1 == IF s = None THEN H ELSE [H EXCEPT ![s] = @ \ {"stable"}]
  <2>2. s \in Buffers \cup {None}
    BY Distinct DEF PoolInv, TypeInv
  <2>3. Balanced(CountsLeft, FreeLeft, H1)
    <3>1. CASE s = None
      BY <3>1 DEF CountsLeft, FreeLeft
    <3>2. CASE s # None
      <4>1. s \in Buffers /\ "stable" \in H[s]
        BY <2>2, <3>2, HoldersNowTyped, WhoHolds
      <4>2. Balanced([count EXCEPT ![s] = @ - 1], IF count[s] = 1 THEN Append(free, s) ELSE free,
                     [H EXCEPT ![s] = @ \ {"stable"}])
        BY <4>1, GiveBack
      <4>3. QED BY <3>2, <4>2 DEF CountsLeft, FreeLeft, Released, Returned
    <3>3. QED BY <3>1, <3>2
  <2>4. /\ H1 \in [Buffers -> SUBSET Holders]
        /\ \A b \in Buffers : H1[b] = HoldersOf(b) \ {"stable"}
    <3>1. CASE s = None
      BY <3>1, HoldersNowTyped, WhoHolds, FrameAssumption DEF PoolInv, TypeInv
    <3>2. CASE s # None
      BY <2>2, <3>2, HoldersNowTyped, WhoHolds
    <3>3. QED BY <3>1, <3>2
  <2> HIDE DEF s, H, H1
  <2> PICK w \in Buffers : w = ptr["working"]
    BY DEF PoolInv, Pointed
  <2> PICK counts, list : counts = CountsLeft /\ list = FreeLeft
    OBVIOUS
  <2>5. HoldersOf(w) = {"working"} /\ H1[w] = {"working"}
    BY <2>4 DEF Sole
  <2> DEFINE H2 == [H1 EXCEPT ![w] = (@ \ {"working"}) \cup {"stable"}]
  <2>6. Balanced(counts, list, H2)
    <3>1. "working" \in H1[w] /\ "stable" \notin H1[w] /\ "stable" \in Holders
      BY <2>5, Distinct
    <3>2. QED BY <2>3, <3>1, PassOn
  <2> DEFINE n  == Head(list)
             H3 == [H2 EXCEPT ![n] = {"working"}]
  <2>7. Balanced([counts EXCEPT ![n] = 1], Tail(list), H3)
    <3>1. "working" \in Holders
      BY Distinct
    <3> HIDE DEF H2
    <3>2. QED BY <1>2, <2>6, <3>1, TakeFirst
  <2>8. n \in Buffers /\ H1[n] = {}
    <3>1. list \in Seq(Buffers) /\ list # <<>>
      BY <1>2, <2>3 DEF Balanced
    <3>2. n \in Buffers /\ 1 \in DOMAIN list /\ list[1] = n
      BY <3>1
    <3>3. QED BY <2>3, <3>2 DEF Balanced
  <2>9. n # w
    BY <2>5, <2>8
  <2>10. H3 \in [Buffers -> SUBSET Holders]
    BY <2>7 DEF Balanced
  <2>11. /\ ptr'["working"] = n /\ ptr'["stable"] = w
         /\ \A h \in Holders \ {"working", "stable"} : ptr'[h] = ptr[h]
    BY <2>1, Distinct DEF PoolInv, TypeInv
  <2>12. ASSUME NEW b \in Buffers PROVE HoldersOf(b)' = H3[b]
    <3>1. H3[b] = IF b = n THEN {"working"} ELSE IF b = w THEN {"stable"} ELSE H1[b]
      BY <2>4, <2>5, <2>8
    <3>2. \A h \in Holders : h \in HoldersOf(b)' <=>
             \/ h = "working" /\ b = n
             \/ h = "stable" /\ b = w
             \/ h \notin {"working", "stable"} /\ h \in HoldersOf(b)
      BY <2>1, <2>11, Distinct, FrameAssumption DEF HoldersOf, Counted
    <3>3. HoldersOf(b)' \subseteq Holders /\ HoldersOf(b) \subseteq Holders
      BY DEF HoldersOf
    <3>4. CASE b = n
      <4>1. HoldersOf(b) \subseteq {"stable"}
        BY <2>4, <2>8, <3>4
      <4>2. HoldersOf(b)' = {"working"}
        BY <2>9, <3>2, <3>3, <3>4, <4>1, Distinct
      <4>3. QED BY <3>1, <3>4, <4>2
    <3>5. CASE b = w
      <4>1. HoldersOf(b)' = {"stable"}
        BY <2>5, <2>9, <3>2, <3>3, <3>5, Distinct
      <4>2. QED BY <2>9, <3>1, <3>5, <4>1
    <3>6. CASE b # n /\ b # w
      <4>1. "working" \notin HoldersOf(b)
        BY <3>6, WhoHolds
      <4>2. HoldersOf(b)' = HoldersOf(b) \ {"stable"}
        BY <3>2, <3>3, <3>6, <4>1
      <4>3. QED BY <2>4, <3>1, <3>6, <4>2
    <3>7. QED BY <3>4, <3>5, <3>6
  <2> HIDE DEF H2, H3
  <2>13. HoldersNow' = H3
    BY <2>10, <2>12, HoldersNext
  <2>14. Balanced(count, free, HoldersNow)'
    <3>1. count' = [counts EXCEPT ![n] = 1] /\ free' = Tail(list)
      BY <2>1
    <3> HIDE DEF n
    <3>2. QED BY <2>7, <2>13, <3>1, BalancedNext
  <2>15. Sole'
    <3>1. HoldersOf(n)' = {"working"}
      <4>1. H3[n] = {"working"}
        BY <2>6, <2>8 DEF H3, Balanced
      <4>2. QED BY <2>8, <2>12, <4>1
    <3>2. QED BY <2>11, <3>1 DEF Sole, HoldersOf, Counted
  <2>16. Copied'
    BY <2>1, <2>11, Distinct DEF Copied
  <2>17. QED BY <2>14, <2>15, <2>16
<1>3. QED BY <1>1, <1>2

LEMMA LockDrop ==
  ASSUME LockInv, PoolInv', DropFrame PROVE LockInv'
<1> USE DEF LockInv
<1> DEFINE p == ptr["reader"]
           H == [HoldersNow EXCEPT ![p] = @ \ {"reader"}]
<1>1. /\ count' = Released(p) /\ free' = Returned(p) /\ UNCHANGED <<ptr, spc>>
      /\ rpc = "read" /\ rpc' = "take"
  BY DEF DropFrame, Release, RStep
<1>2. p \in Buffers /\ "reader" \in HoldersNow[p]
  BY <1>1, HoldersNowTyped, WhoHolds DEF PoolInv, Pointed
<1>3. Balanced(Released(p), Returned(p), H)
  BY <1>2, GiveBack DEF Released, Returned
<1>4. HoldersNow' = H
  <2>1. H \in [Buffers -> SUBSET Holders]
    BY <1>3 DEF Balanced
  <2>2. \A b \in Buffers : H[b] = HoldersOf(b) \ {"reader"}
    BY <1>2, HoldersNowTyped, WhoHolds
  <2>3. \A b \in Buffers : HoldersOf(b)' = HoldersOf(b) \ {"reader"}
    BY <1>1, Distinct DEF HoldersOf, Counted
  <2>4. QED BY <2>1, <2>2, <2>3, HoldersNext
<1>5. Balanced(count, free, HoldersNow)'
  BY <1>1, <1>3, <1>4, BalancedNext
<1> PICK w \in Buffers : w = ptr["working"]
  BY DEF PoolInv, Pointed
<1>6. Sole'
  <2>1. \A g \in Holders \ {"reader"} : g \in HoldersOf(w)' <=> g \in HoldersOf(w)
    BY <1>1 DEF HoldersOf, Counted
  <2>2. "reader" \notin HoldersOf(w)'
    BY <1>1 DEF HoldersOf, Counted
  <2>3. QED BY <1>1, <2>1, <2>2, Distinct, SoleStep
<1>7. QED BY <1>1, <1>5, <1>6 DEF Copied

LEMMA LockTake ==
  ASSUME LockInv, PoolInv', OneLock, TakeStable PROVE LockInv'
<1> USE DEF LockInv
<1> DEFINE H == [HoldersNow EXCEPT ![ptr["stable"]] = @ \cup {"reader"}]
<1>1. /\ count' = Referred(ptr["stable"]) /\ free' = free /\ spc' = spc
      /\ ptr' = [ptr EXCEPT !["reader"] = ptr["stable"]]
      /\ rpc = "take" /\ rpc' = "taken"
  BY DEF TakeStable, RStep
<1> PICK p \in Buffers : p = ptr["stable"]
  BY <1>1 DEF PoolInv, Pointed
<1>2. "stable" \in HoldersNow[p] /\ "reader" \notin HoldersNow[p] /\ "reader" \in Holders
  BY <1>1, HoldersNowTyped, WhoHolds, Distinct
<1>3. Balanced(Referred(p), free, H)
  BY <1>2, Share DEF Referred
<1>4. ptr'["reader"] = p /\ \A h \in Holders \ {"reader"} : ptr'[h] = ptr[h]
  BY <1>1, Distinct DEF PoolInv, TypeInv
<1>5. ASSUME NEW b \in Buffers, NEW h \in Holders
      PROVE  h \in HoldersOf(b)' <=> h \in HoldersOf(b) \/ (h = "reader" /\ b = p)
  BY <1>1, <1>4, Distinct, FrameAssumption DEF HoldersOf, Counted
<1>6. HoldersNow' = H
  <2>1. H \in [Buffers -> SUBSET Holders]
    BY <1>3 DEF Balanced
  <2>2. \A b \in Buffers : H[b] = IF b = p THEN HoldersOf(b) \cup {"reader"} ELSE HoldersOf(b)
    BY HoldersNowTyped
  <2>3. \A b \in Buffers : HoldersOf(b) \subseteq Holders /\ HoldersOf(b)' \subseteq Holders
    BY DEF HoldersOf
  <2> HIDE DEF H
  <2>4. ASSUME NEW b \in Buffers PROVE HoldersOf(b)' = H[b]
    <3>1. CASE b = p
      <4>1. HoldersOf(b)' = HoldersOf(b) \cup {"reader"}
        BY <1>2, <1>5, <2>3, <3>1
      <4>2. QED BY <2>2, <3>1, <4>1
    <3>2. CASE b # p
      <4>1. HoldersOf(b)' = HoldersOf(b)
        BY <1>5, <2>3, <3>2
      <4>2. QED BY <2>2, <3>2, <4>1
    <3>3. QED BY <3>1, <3>2
  <2>5. QED BY <2>1, <2>4, HoldersNext
<1>7. Balanced(count, free, HoldersNow)'
  BY <1>1, <1>3, <1>6, BalancedNext
<1> PICK w \in Buffers : w = ptr["working"]
  BY DEF PoolInv, Pointed
<1>8. p # w
  BY <1>2, HoldersNowTyped DEF Sole
<1>9. Sole'
  <2>1. "reader" \in Holders \ {"working", "stable"} /\ ptr'["working"] = w
    BY <1>4, Distinct
  <2>2. "reader" \notin HoldersOf(w)
    BY DEF Sole
  <2>3. QED BY <1>5, <1>8, <2>1, <2>2, Distinct, SoleStep
<1>10. Copied'
  BY <1>1 DEF OneLock, SensorFree, Copied
<1>11. QED BY <1>7, <1>9, <1>10

LEMMA LockNew ==
  ASSUME LockInv, PoolInv', NEW c \in Clients, NewStream(c) PROVE LockInv'
<1> USE DEF LockInv
<1> DEFINE n == Head(free)
           H == [HoldersNow EXCEPT ![n] = {c}]
<1>1. /\ free # <<>> /\ count' = [count EXCEPT ![n] = 1] /\ free' = Tail(free)
      /\ ptr' = [ptr EXCEPT ![c] = n] /\ rpc' = rpc
      /\ spc[c] = "out" /\ spc' = [spc EXCEPT ![c] = "in"]
  BY Distinct DEF NewStream, GetBuffer, SStep, PoolInv, TypeInv
<1>2. Balanced([count EXCEPT ![n] = 1], Tail(free), H)
  BY <1>1, Distinct, TakeFirst
<1>3. n \in Buffers /\ HoldersOf(n) = {}
  <2>1. n \in Buffers /\ 1 \in DOMAIN free /\ free[1] = n
    BY <1>1 DEF PoolInv, TypeInv
  <2>2. HoldersNow[n] = {}
    BY <2>1 DEF Balanced
  <2>3. QED BY <2>1, <2>2, HoldersNowTyped
<1>4. /\ ptr'[c] = n /\ \A h \in Holders \ {c} : ptr'[h] = ptr[h]
      /\ spc'[c] = "in" /\ \A d \in Clients \ {c} : spc'[d] = spc[d]
  BY <1>1, Distinct DEF PoolInv, TypeInv
<1> HIDE DEF n
<1>5. ASSUME NEW b \in Buffers, NEW h \in Holders
      PROVE  h \in HoldersOf(b)' <=> h \in HoldersOf(b) \/ (h = c /\ b = n)
  <2>1. CASE h = c
    BY <1>1, <1>3, <1>4, <2>1, Distinct, FrameAssumption DEF HoldersOf, Counted
  <2>2. CASE h # c
    BY <1>1, <1>4, <2>2 DEF HoldersOf, Counted
  <2>3. QED BY <2>1, <2>2
<1>6. HoldersNow' = H
  <2>1. H \in [Buffers -> SUBSET Holders]
    BY <1>2 DEF Balanced
  <2>2. \A b \in Buffers : H[b] = IF b = n THEN {c} ELSE HoldersOf(b)
    BY HoldersNowTyped
  <2>3. \A b \in Buffers : HoldersOf(b) \subseteq Holders /\ HoldersOf(b)' \subseteq Holders
    BY DEF HoldersOf
  <2>4. ASSUME NEW b \in Buffers PROVE HoldersOf(b)' = H[b]
    BY <1>3, <1>5, <2>2, <2>3, Distinct
  <2>5. QED BY <2>1, <2>4, HoldersNext
<1>7. Balanced(count, free, HoldersNow)'
  BY <1>1, <1>2, <1>6, BalancedNext
<1> PICK w \in Buffers : w = ptr["working"]
  BY DEF PoolInv, Pointed
<1>8. n # w
  BY <1>3 DEF Sole
<1>9. Sole'
  <2>1. c \in Holders \ {"working", "stable"} /\ ptr'["working"] = w
    BY <1>4, Distinct
  <2>2. c \notin HoldersOf(w)
    BY Distinct DEF Sole
  <2>3. QED BY <1>5, <1>8, <2>1, <2>2, SoleStep
<1>10. Copied'
  BY <1>4, Distinct DEF Copied
<1>11. QED BY <1>7, <1>9, <1>10

\* A session gives its frame back: CopyFrame and RemoveStream.
LEMMA LockGive ==
  ASSUME LockInv, PoolInv', NEW c \in Clients, NEW to \in {"out", "copied"}, NEW q,
         spc[c] = "in", spc' = [spc EXCEPT ![c] = to], ptr' = [ptr EXCEPT ![c] = q],
         count' = Released(ptr[c]), free' = Returned(ptr[c]), rpc' = rpc,
         to = "copied" => q = ptr["reader"]
  PROVE  LockInv'
<1> USE DEF LockInv
<1> DEFINE H == [HoldersNow EXCEPT ![ptr[c]] = @ \ {c}]
<1> PICK p \in Buffers : p = ptr[c]
  BY DEF PoolInv, Pointed
<1>1. c \in HoldersNow[p]
  BY HoldersNowTyped, WhoHolds
<1>2. Balanced(Released(p), Returned(p), H)
  BY <1>1, GiveBack DEF Released, Returned
<1>3. /\ ptr'[c] = q /\ \A h \in Holders \ {c} : ptr'[h] = ptr[h]
      /\ spc'[c] = to /\ \A d \in Clients \ {c} : spc'[d] = spc[d]
  BY Distinct DEF PoolInv, TypeInv
<1>4. ASSUME NEW b \in Buffers, NEW h \in Holders
      PROVE  h \in HoldersOf(b)' <=> h \in HoldersOf(b) /\ h # c
  <2>1. CASE h = c
    BY <1>3, <2>1 DEF HoldersOf, Counted
  <2>2. CASE h # c
    BY <1>3, <2>2 DEF HoldersOf, Counted
  <2>3. QED BY <2>1, <2>2
<1>5. HoldersNow' = H
  <2>1. H \in [Buffers -> SUBSET Holders]
    BY <1>2 DEF Balanced
  <2>2. \A b \in Buffers : H[b] = HoldersOf(b) \ {c}
    BY HoldersNowTyped, WhoHolds
  <2>3. \A b \in Buffers : HoldersOf(b) \subseteq Holders /\ HoldersOf(b)' \subseteq Holders
    BY DEF HoldersOf
  <2>4. \A b \in Buffers : HoldersOf(b)' = HoldersOf(b) \ {c}
    BY <1>4, <2>3
  <2>5. QED BY <2>1, <2>2, <2>4, HoldersNext
<1>6. Balanced(count, free, HoldersNow)'
  BY <1>2, <1>5, BalancedNext
<1> PICK w \in Buffers : w = ptr["working"]
  BY DEF PoolInv, Pointed
<1>7. Sole'
  <2>1. c \in Holders \ {"working", "stable"} /\ ptr'["working"] = w
    BY <1>3, Distinct
  <2>2. QED BY <1>4, <2>1, SoleStep
<1>8. Copied'
  BY <1>3, Distinct DEF Copied
<1>9. QED BY <1>6, <1>7, <1>8

LEMMA LockRefer ==
  ASSUME LockInv, PoolInv', OneLock, NEW c \in Clients, ReferFrame(c) PROVE LockInv'
<1> USE DEF LockInv
<1> DEFINE H == [HoldersNow EXCEPT ![ptr[c]] = @ \cup {c}]
<1>1. /\ spc[c] = "copied" /\ spc' = [spc EXCEPT ![c] = "in"]
      /\ count' = Referred(ptr[c]) /\ free' = free /\ UNCHANGED <<ptr, rpc>>
  BY DEF ReferFrame, SStep
<1> PICK p \in Buffers : p = ptr[c]
  BY <1>1 DEF PoolInv, Pointed
<1>2. "reader" \in HoldersNow[p] /\ c \notin HoldersNow[p] /\ c \in Holders
  <2>1. ptr["reader"] = p /\ rpc # "take"
    BY <1>1 DEF Copied, OneLock, SensorFree
  <2>2. QED BY <1>1, <2>1, HoldersNowTyped, WhoHolds, Distinct
<1>3. Balanced(Referred(p), free, H)
  BY <1>2, Share DEF Referred
<1>4. spc'[c] = "in" /\ \A d \in Clients \ {c} : spc'[d] = spc[d]
  BY <1>1 DEF PoolInv, TypeInv
<1>5. ASSUME NEW b \in Buffers, NEW h \in Holders
      PROVE  h \in HoldersOf(b)' <=> h \in HoldersOf(b) \/ (h = c /\ b = p)
  <2>1. CASE h = c
    BY <1>1, <1>4, <2>1, Distinct, FrameAssumption DEF HoldersOf, Counted
  <2>2. CASE h # c
    BY <1>1, <1>4, <2>2 DEF HoldersOf, Counted
  <2>3. QED BY <2>1, <2>2
<1>6. HoldersNow' = H
  <2>1. H \in [Buffers -> SUBSET Holders]
    BY <1>3 DEF Balanced
  <2>2. \A b \in Buffers : H[b] = IF b = p THEN HoldersOf(b) \cup {c} ELSE HoldersOf(b)
    BY HoldersNowTyped
  <2>3. \A b \in Buffers : HoldersOf(b) \subseteq Holders /\ HoldersOf(b)' \subseteq Holders
    BY DEF HoldersOf
  <2> HIDE DEF H
  <2>4. ASSUME NEW b \in Buffers PROVE HoldersOf(b)' = H[b]
    <3>1. CASE b = p
      <4>1. HoldersOf(b)' = HoldersOf(b) \cup {c}
        BY <1>2, <1>5, <2>3, <3>1
      <4>2. QED BY <2>2, <3>1, <4>1
    <3>2. CASE b # p
      <4>1. HoldersOf(b)' = HoldersOf(b)
        BY <1>5, <2>3, <3>2
      <4>2. QED BY <2>2, <3>2, <4>1
    <3>3. QED BY <3>1, <3>2
  <2>5. QED BY <2>1, <2>4, HoldersNext
<1>7. Balanced(count, free, HoldersNow)'
  BY <1>1, <1>3, <1>6, BalancedNext
<1> PICK w \in Buffers : w = ptr["working"]
  BY DEF PoolInv, Pointed
<1>8. p # w
  BY <1>2, HoldersNowTyped DEF Sole
<1>9. Sole'
  <2>1. c \in Holders \ {"working", "stable"} /\ ptr'["working"] = w
    BY <1>1, Distinct
  <2>2. c \notin HoldersOf(w)
    BY Distinct DEF Sole
  <2>3. QED BY <1>5, <1>8, <2>1, <2>2, SoleStep
<1>10. Copied'
  BY <1>1, <1>4 DEF Copied
<1>11. QED BY <1>7, <1>9, <1>10

LEMMA LockStep ==
  ASSUME LockInv, OneLock, [Next]_vars PROVE LockInv'
<1>0. PoolInv'
  BY NextPoolInv DEF LockInv
<1>1. CASE MarkStable
  BY <1>0, <1>1, LockMark
<1>2. CASE DropFrame
  BY <1>0, <1>2, LockDrop
<1>3. CASE TakeStable
  BY <1>0, <1>3, LockTake
<1>4. ASSUME NEW c \in Clients, Session(c) PROVE LockInv'
  <2>1. CASE NewStream(c)
    BY <1>0, <2>1, LockNew
  <2>2. CASE CopyFrame(c)
    <3>1. /\ spc[c] = "in" /\ spc' = [spc EXCEPT ![c] = "copied"]
          /\ ptr' = [ptr EXCEPT ![c] = ptr["reader"]]
          /\ count' = Released(ptr[c]) /\ free' = Returned(ptr[c]) /\ rpc' = rpc
      BY <2>2 DEF CopyFrame, Release, SStep
    <3>2. QED BY <1>0, <3>1, LockGive
  <2>3. CASE ReferFrame(c)
    BY <1>0, <2>3, LockRefer
  <2>4. CASE RemoveStream(c)
    <3>1. /\ spc[c] = "in" /\ spc' = [spc EXCEPT ![c] = "out"]
          /\ ptr' = [ptr EXCEPT ![c] = None]
          /\ count' = Released(ptr[c]) /\ free' = Returned(ptr[c]) /\ rpc' = rpc
      BY <2>4 DEF RemoveStream, Release, SStep
    <3>2. QED BY <1>0, <3>1, LockGive
  <2>5. QED BY <1>4, <2>1, <2>2, <2>3, <2>4 DEF Session
<1>5. CASE \/ NewDataAvailable \/ GetStream \/ SetFlag \/ SetEvent
           \/ WaitEvent \/ Look \/ ReadTimeout \/ ClearAvailable \/ ClearFlag \/ Tell
  <2>1. UNCHANGED <<count, free, ptr, spc>> /\ ((rpc = "take") <=> (rpc' = "take"))
    BY <1>5 DEF NewDataAvailable, GetStream, SetFlag, SetEvent, WaitEvent, Look,
       ReadTimeout, ClearAvailable, ClearFlag, Tell, UStep, RStep, pool
  <2>2. QED BY <1>0, <2>1, LockQuiet
<1>6. CASE UNCHANGED vars
  <2>1. UNCHANGED <<count, free, ptr, spc>> /\ ((rpc = "take") <=> (rpc' = "take"))
    BY <1>6 DEF vars, pool, pcs
  <2>2. QED BY <1>0, <2>1, LockQuiet
<1>7. QED BY <1>1, <1>2, <1>3, <1>4, <1>5, <1>6 DEF Next, USB, Reader

\* At first each buffer is in one place: three have a holder, the others are
\* in the list.
LEMMA InitLockInv == Init => LockInv
<1> SUFFICES ASSUME Init PROVE LockInv
  OBVIOUS
<1>1. PoolInv
  BY InitPoolInv
<1>2. PICK s \in [1 .. NumBuffers -> Buffers], c \in Clients :
        /\ \A b \in Buffers : \E i \in 1 .. NumBuffers : s[i] = b
        /\ ptr = [h \in Holders |-> CASE h = "reader"  -> s[1]
                                      [] h = c         -> s[2]
                                      [] h = "working" -> s[3]
                                      [] OTHER         -> None]
        /\ free = SubSeq(s, 4, NumBuffers)
        /\ count = [b \in Buffers |-> IF b \in {s[1], s[2], s[3]} THEN 1 ELSE 0]
        /\ spc = [d \in Clients |-> IF d = c THEN "in" ELSE "out"]
  BY DEF Init
<1>3. {1, 2, 3} \subseteq 1 .. NumBuffers
  BY SomeBuffers
<1>4. \A i, j \in 1 .. NumBuffers : s[i] = s[j] => i = j
  <2>1. s \in Surjection(1 .. NumBuffers, Buffers)
    BY <1>2 DEF Surjection
  <2>2. IsFiniteSet(1 .. NumBuffers) /\ Cardinality(1 .. NumBuffers) = NumBuffers
    <3>1. /\ IsFiniteSet(1 .. NumBuffers)
          /\ Cardinality(1 .. NumBuffers) = IF 1 > NumBuffers THEN 0 ELSE NumBuffers - 1 + 1
      BY SomeBuffers, FS_Interval
    <3>2. QED BY SomeBuffers, <3>1
  <2>3. s \in Injection(1 .. NumBuffers, Buffers)
    BY <2>1, <2>2, FS_SurjSameCardinalityImpliesInj DEF NumBuffers
  <2>4. QED BY <2>3 DEF Injection, IsInjective
<1>5. /\ s[1] \in Buffers /\ s[2] \in Buffers /\ s[3] \in Buffers
      /\ s[1] # s[2] /\ s[1] # s[3] /\ s[2] # s[3]
  BY <1>3, <1>4
<1>6. /\ ptr["reader"] = s[1] /\ ptr[c] = s[2] /\ ptr["working"] = s[3]
      /\ ptr["stable"] = None /\ spc[c] = "in" /\ rpc = "wait"
      /\ \A d \in Clients \ {c} : spc[d] = "out"
  BY <1>2, Distinct DEF Init
<1>7. ASSUME NEW b \in Buffers
      PROVE  HoldersOf(b) = IF b = s[1] THEN {"reader"} ELSE IF b = s[2] THEN {c}
                            ELSE IF b = s[3] THEN {"working"} ELSE {}
  <2>1. \A h \in Holders : h \in HoldersOf(b) <=> \/ h = "reader" /\ b = s[1]
                                                  \/ h = c /\ b = s[2]
                                                  \/ h = "working" /\ b = s[3]
    <3>1. ASSUME NEW h \in Holders, h \in HoldersOf(b)
          PROVE  \/ h = "reader" /\ b = s[1]
                 \/ h = c /\ b = s[2]
                 \/ h = "working" /\ b = s[3]
      BY <1>6, <3>1, FrameAssumption DEF HoldersOf, Counted, Holders, Owners
    <3>2. QED BY <1>1, <1>6, <3>1, WhoHolds
  <2>2. HoldersOf(b) \subseteq Holders
    BY DEF HoldersOf
  <2>3. QED BY <1>5, <2>1, <2>2, Distinct
<1>8. ASSUME NEW b \in Buffers
      PROVE  /\ count[b] = Cardinality(HoldersNow[b])
             /\ b \in {s[1], s[2], s[3]} <=> HoldersNow[b] # {}
  <2>1. HoldersNow[b] = HoldersOf(b)
    BY HoldersNowTyped
  <2>2. /\ Cardinality({"reader"}) = 1 /\ Cardinality({c}) = 1
        /\ Cardinality({"working"}) = 1 /\ Cardinality({}) = 0
    BY FS_Singleton, FS_EmptySet
  <2>3. count[b] = IF b \in {s[1], s[2], s[3]} THEN 1 ELSE 0
    BY <1>2
  <2>4. CASE b \in {s[1], s[2], s[3]}
    <3>1. HoldersOf(b) \in {{"reader"}, {c}, {"working"}}
      BY <1>7, <2>4
    <3>2. \A A \in {{"reader"}, {c}, {"working"}} : A # {} /\ Cardinality(A) = 1
      BY <2>2
    <3>3. HoldersOf(b) # {} /\ Cardinality(HoldersOf(b)) = 1
      BY <3>1, <3>2
    <3>4. QED BY <2>1, <2>3, <2>4, <3>3
  <2>5. CASE b \notin {s[1], s[2], s[3]}
    <3>1. HoldersOf(b) = {}
      BY <1>7, <2>5
    <3>2. QED BY <2>1, <2>2, <2>3, <2>5, <3>1
  <2>6. QED BY <2>4, <2>5
<1>9. /\ free \in Seq(Buffers)
      /\ DOMAIN free = 1 .. NumBuffers - 3
      /\ \A i \in 1 .. NumBuffers - 3 : free[i] = s[i + 3]
  BY <1>2, FromTheFourth
<1>10. \A i \in 1 .. NumBuffers - 3 : i \in Int /\ i + 3 \in 1 .. NumBuffers
                                      /\ i + 3 \notin {1, 2, 3}
  BY SomeBuffers
<1>11. \A i, j \in DOMAIN free : free[i] = free[j] => i = j
  <2> TAKE i, j \in DOMAIN free
  <2> HAVE free[i] = free[j]
  <2>1. s[i + 3] = s[j + 3]
    BY <1>9
  <2>2. i + 3 = j + 3 /\ i \in Int /\ j \in Int
    BY <1>4, <1>9, <1>10, <2>1
  <2>3. QED BY <2>2
<1>12. ASSUME NEW b \in Buffers
       PROVE  (\E i \in DOMAIN free : free[i] = b) <=> b \notin {s[1], s[2], s[3]}
  <2>1. ASSUME NEW i \in DOMAIN free, free[i] = b PROVE b \notin {s[1], s[2], s[3]}
    <3>1. s[i + 3] = b /\ i + 3 \in 1 .. NumBuffers /\ i + 3 \notin {1, 2, 3}
      BY <1>9, <1>10, <2>1
    <3>2. QED BY <1>3, <1>4, <3>1
  <2>2. ASSUME b \notin {s[1], s[2], s[3]} PROVE \E i \in DOMAIN free : free[i] = b
    <3>1. PICK j \in 1 .. NumBuffers : s[j] = b
      BY <1>2
    <3>2. j - 3 \in 1 .. NumBuffers - 3 /\ j - 3 + 3 = j
      BY SomeBuffers, <2>2, <3>1
    <3>3. QED BY <1>9, <3>1, <3>2
  <2>3. QED BY <2>1, <2>2
<1>13. Balanced(count, free, HoldersNow)
  <2>1. count \in [Buffers -> Int]
    BY <1>1 DEF PoolInv, TypeInv
  <2>2. QED BY <1>8, <1>9, <1>11, <1>12, <2>1, HoldersNowTyped DEF Balanced
<1>14. Sole
  BY <1>5, <1>6, <1>7 DEF Sole
<1>15. Copied
  BY <1>6 DEF Copied
<1>16. QED BY <1>1, <1>13, <1>14, <1>15 DEF LockInv

\* Every count is the number of holders who will release the buffer, and the
\* buffers in the list are those without one, each in it once.
CountsExact ==
  /\ \A b \in Buffers : count[b] = Cardinality(HoldersOf(b))
  /\ \A b \in Buffers : b \in Listed <=> HoldersOf(b) = {}
  /\ \A i, j \in DOMAIN free : free[i] = free[j] => i = j

\* If no session is between the two halves of ReadStream while the reader is
\* between those of ReadImpl, the pool's counts are exact: what NoLeak allows
\* besides, a count below the holders, comes from these two pairs only.
THEOREM OneLockKeepsCounts == Spec /\ []OneLock => []CountsExact
<1>1. LockInv => CountsExact
  <2> SUFFICES ASSUME LockInv PROVE CountsExact
    OBVIOUS
  <2>1. Balanced(count, free, HoldersNow)
    BY DEF LockInv
  <2>2. \A b \in Buffers : HoldersNow[b] = HoldersOf(b)
    BY HoldersNowTyped, Zenon
  <2>3. /\ \A b \in Buffers : count[b] = Cardinality(HoldersNow[b])
        /\ \A b \in Buffers : (\E i \in DOMAIN free : free[i] = b) <=> HoldersNow[b] = {}
        /\ \A i, j \in DOMAIN free : free[i] = free[j] => i = j
    BY <2>1, Zenon DEF Balanced
  <2>4. \A b \in Buffers : count[b] = Cardinality(HoldersOf(b))
    BY <2>2, <2>3
  <2>5. ASSUME NEW b \in Buffers PROVE b \in Listed <=> HoldersOf(b) = {}
    <3>1. b \in Listed <=> \E i \in DOMAIN free : free[i] = b
      BY Zenon DEF Listed
    <3>2. QED BY <2>2, <2>3, <3>1
  <2>6. QED BY <2>3, <2>4, <2>5 DEF CountsExact
<1>2. LockInv /\ OneLock /\ [Next]_vars => LockInv'
  BY LockStep
<1>3. QED BY <1>1, <1>2, InitLockInv, PTL DEF Spec

\* Then a client's frame is never the one the USB thread fills: the promise of
\* the comment "lock sensor", which the two locks of the code break.
THEOREM OneLockKeepsFrames == Spec /\ []OneLock => []GivenFrameIsKept
<1>1. LockInv => GivenFrameIsKept
  <2> SUFFICES ASSUME LockInv, NEW c \in Clients, spc[c] = "in"
               PROVE  ptr[c] # ptr["working"]
    BY DEF GivenFrameIsKept
  <2>1. PICK w \in Buffers : w = ptr["working"]
    BY DEF LockInv, PoolInv, Pointed
  <2>2. c \notin HoldersOf(w)
    BY <2>1, Distinct DEF LockInv, Sole
  <2>3. QED BY <2>1, <2>2, WhoHolds DEF LockInv
<1>2. LockInv /\ OneLock /\ [Next]_vars => LockInv'
  BY LockStep
<1>3. QED BY <1>1, <1>2, InitLockInv, PTL DEF Spec
=============================================================================
