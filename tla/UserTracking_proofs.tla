------------------------ MODULE UserTracking_proofs ------------------------
(***************************************************************************)
(* What UserTracking promises, for any number of guests.  The three parts  *)
(* of Stages hold each other up: that nobody is at two stages needs that   *)
(* the stages hold people in view only, and that nobody is forgotten needs *)
(* that the stage a callback takes a guest from was the only one.          *)
(***************************************************************************)
EXTENDS UserTracking, TLAPS

Stages == TypeOK /\ OneStage /\ NobodyForgotten

LEMMA InitStages == Init => Stages
BY DEF Init, Stages, TypeOK, OneStage, NobodyForgotten

LEMMA NextStages == Stages /\ [Next]_vars => Stages'
<1> SUFFICES ASSUME Stages, [Next]_vars PROVE Stages'
  OBVIOUS
<1> USE DEF Stages, TypeOK, OneStage, NobodyForgotten
<1>1. ASSUME NEW u \in Users, NewUser(u) PROVE Stages'
  BY <1>1 DEF NewUser, Solicit, StartPoseDetection, RequestCalibration
<1>2. ASSUME NEW u \in Users, LostUser(u) PROVE Stages'
  BY <1>2 DEF LostUser
<1>3. ASSUME NEW u \in Users, PoseDetected(u) PROVE Stages'
  BY <1>3 DEF PoseDetected, RequestCalibration
<1>4. ASSUME NEW u \in Users, CalibrationOk(u) PROVE Stages'
  BY <1>4 DEF CalibrationOk, StartTracking
<1>5. ASSUME NEW u \in Users, CalibrationAborted(u) PROVE Stages'
  BY <1>5 DEF CalibrationAborted
<1>6. ASSUME NEW u \in Users, CalibrationFailed(u) PROVE Stages'
  BY <1>6 DEF CalibrationFailed, Solicit, StartPoseDetection, RequestCalibration
<1>7. CASE UNCHANGED vars
  BY <1>7 DEF vars
<1> QED
  BY <1>1, <1>2, <1>3, <1>4, <1>5, <1>6, <1>7 DEF Next, Event

LEMMA StagesInvariant == Spec => []Stages
<1>1. Init => Stages
  BY InitStages
<1>2. Stages /\ [Next]_vars => Stages'
  BY NextStages
<1> QED
  BY <1>1, <1>2, PTL DEF Spec

\* No guest is at two stages at a time (the four callbacks of multipleParty.cpp
\* lines 84-169 never double up on a guest), whoever comes and goes.
THEOREM OneStageAtATime == Spec => [](TypeOK /\ OneStage)
<1>1. Stages => TypeOK /\ OneStage
  BY DEF Stages
<1> QED
  BY <1>1, StagesInvariant, PTL

\* Nothing is left of a guest who is gone, but a calibration that still has to
\* report (User_LostUser and the generator).
THEOREM TrackingTypes == Spec => []TypeOK
<1>1. Stages => TypeOK
  BY DEF Stages
<1> QED
  BY <1>1, StagesInvariant, PTL

\* No path through the callbacks drops a guest who is still there.
THEOREM NobodyIsForgotten == Spec => []NobodyForgotten
<1>1. Stages => NobodyForgotten
  BY DEF Stages
<1> QED
  BY <1>1, StagesInvariant, PTL

\* After an operator's abort (line 156) nothing is asked for that guest again.
THEOREM AbortStaysFinal == Spec => AbortIsFinal
<1> DEFINE A == \A u \in aborted : u \notin present' \/ u \in aborted' \ (posing' \cup calibrating')
<1>1. Stages /\ Stages' /\ [Next]_vars => [A]_vars
  <2> SUFFICES ASSUME Stages, Stages', Next PROVE A
    OBVIOUS
  <2> SUFFICES ASSUME NEW v \in aborted, v \in present' PROVE v \in aborted'
    BY DEF Stages, OneStage
  <2> PICK u \in Users : Event(u)
    BY DEF Next
  <2> QED
    BY DEF Event, NewUser, LostUser, PoseDetected, CalibrationOk, CalibrationAborted, CalibrationFailed
<1> QED
  BY <1>1, StagesInvariant, PTL DEF Spec, AbortIsFinal

\* If the generator needs a pose, calibration follows a detected pose only.
THEOREM PoseComesFirst == Spec => PoseFirst
<1>1. Next => [needPose => calibrating' \ calibrating \subseteq posing]_vars
  <2> SUFFICES ASSUME Next, needPose PROVE calibrating' \ calibrating \subseteq posing
    OBVIOUS
  <2> PICK u \in Users : Event(u)
    BY DEF Next
  <2> QED
    BY DEF Event, NewUser, LostUser, PoseDetected, CalibrationOk, CalibrationAborted,
           CalibrationFailed, Solicit, StartPoseDetection, RequestCalibration
<1> QED
  BY <1>1, PTL DEF Spec, PoseFirst

\* A guest who is tracked stays so for as long as they stay in view, and nobody
\* gets there but at the end of a calibration.
TrackedForGood ==
  [][/\ \A u \in tracked : u \in present' => u \in tracked' \ (posing' \cup calibrating')
     /\ \A u \in tracked' \ tracked : u \in calibrating /\ u \in present]_vars

\* The stable half of EventuallyTracked: no late report of a calibration and no
\* other callback (multipleParty.cpp lines 114-169) takes a tracked guest back
\* into the retry loop; NobodyIsForgotten and OneStageAtATime keep everybody
\* else in exactly one stage of it.
THEOREM TrackedStaysTracked == Spec => TrackedForGood
<1> DEFINE A == /\ \A u \in tracked : u \in present' => u \in tracked' \ (posing' \cup calibrating')
                /\ \A u \in tracked' \ tracked : u \in calibrating /\ u \in present
<1>1. Stages /\ Stages' /\ [Next]_vars => [A]_vars
  <2> SUFFICES ASSUME Stages, Stages', Next PROVE A
    OBVIOUS
  <2> PICK u \in Users : Event(u)
    BY DEF Next
  <2>1. \A v \in tracked : v \in present' => v \in tracked'
    BY DEF Event, NewUser, LostUser, PoseDetected, CalibrationOk, CalibrationAborted,
           CalibrationFailed, StartTracking
  <2>2. \A v \in tracked' : v \notin posing' \cup calibrating'
    BY DEF Stages, OneStage
  <2>3. \A v \in tracked' \ tracked : v \in calibrating /\ v \in present
    BY DEF Event, NewUser, LostUser, PoseDetected, CalibrationOk, CalibrationAborted,
           CalibrationFailed, StartTracking
  <2> QED BY <2>1, <2>2, <2>3
<1> QED
  BY <1>1, StagesInvariant, PTL DEF Spec, TrackedForGood
=============================================================================
