---------------------------- MODULE UserTracking ----------------------------
(***************************************************************************)
(* How a guest gets tracked: the callbacks that multipleParty.cpp and      *)
(* Lifeoftheparty.cpp register with the OpenNI user generator.  Every      *)
(* event runs one callback inside WaitOneUpdateAll, on the program's only  *)
(* thread, so an action is one event with its whole callback.              *)
(*                                                                         *)
(* The generator is external: it announces users, remembers for whom pose  *)
(* detection and calibration are on, refuses both for a user it does not   *)
(* know, and reports how each calibration ended, also for a user who left  *)
(* during it (XN_CALIBRATION_STATUS_NO_USER).                              *)
(***************************************************************************)

CONSTANT Users

VARIABLES needPose,     \* g_bNeedPose
          present,      \* users the generator has announced and not lost
          posing,       \* users it watches for the calibration pose
          calibrating,  \* users it was asked to calibrate, result not reported
          tracked,      \* users whose skeleton it tracks
          aborted       \* users whose calibration the operator aborted

vars == <<needPose, present, posing, calibrating, tracked, aborted>>

Init == /\ needPose \in BOOLEAN
        /\ present = {} /\ posing = {} /\ calibrating = {}
        /\ tracked = {} /\ aborted = {}

\* The generator's three requests.  Their error status is not looked at.
StartPoseDetection(u) == posing' = posing \cup ({u} \cap present')
RequestCalibration(u) == calibrating' = (calibrating \ {u}) \cup ({u} \cap present')
StartTracking(u)      == tracked' = tracked \cup ({u} \cap present')

\* A mistaken Solicit that forgets the generators that need no pose.
SolicitPoseOnly(u) ==
  /\ posing' = posing \cup (IF needPose THEN {u} \cap present' ELSE {})
  /\ calibrating' = calibrating \ {u}
\* What both NewUser and a failed calibration do next.
Solicit(u) ==
  IF needPose THEN StartPoseDetection(u) /\ calibrating' = calibrating \ {u}
              ELSE RequestCalibration(u) /\ posing' = posing

\* User_NewUser.  An id is used again once everything about it has
\* ended.
NewUser(u) ==
  /\ u \notin present \cup calibrating
  /\ present' = present \cup {u}
  /\ Solicit(u)
  /\ UNCHANGED <<needPose, tracked, aborted>>

LostUserKeepsSkeleton(u) ==
  /\ u \in present
  /\ present' = present \ {u}
  /\ posing'  = posing \ {u}
  /\ aborted' = aborted \ {u}
  /\ UNCHANGED <<needPose, calibrating, tracked>>
\* User_LostUser only prints.  The generator forgets the user; a calibration
\* it was busy with still reports.
LostUser(u) ==
  /\ u \in present
  /\ present' = present \ {u}
  /\ posing'  = posing \ {u}
  /\ tracked' = tracked \ {u}
  /\ aborted' = aborted \ {u}
  /\ UNCHANGED <<needPose, calibrating>>

\* UserPose_PoseDetected.
PoseStaysOn(u) ==
  /\ u \in posing
  /\ present' = present
  /\ RequestCalibration(u)
  /\ UNCHANGED <<needPose, posing, tracked, aborted>>
PoseDetected(u) ==
  /\ u \in posing
  /\ present' = present
  /\ posing' = posing \ {u}
  /\ RequestCalibration(u)
  /\ UNCHANGED <<needPose, tracked, aborted>>

\* UserCalibration_CalibrationComplete.
CalibrationOk(u) ==
  /\ u \in calibrating /\ u \in present
  /\ present' = present
  /\ calibrating' = calibrating \ {u}
  /\ StartTracking(u)
  /\ UNCHANGED <<needPose, posing, aborted>>

AbortFallsThrough(u) ==
  /\ u \in calibrating /\ u \in present
  /\ present' = present
  /\ aborted' = aborted \cup {u}
  /\ Solicit(u)
  /\ UNCHANGED <<needPose, tracked>>
CalibrationAborted(u) ==
  /\ u \in calibrating /\ u \in present
  /\ calibrating' = calibrating \ {u}
  /\ aborted' = aborted \cup {u}
  /\ UNCHANGED <<needPose, present, posing, tracked>>

FailureIsDropped(u) ==
  /\ u \in calibrating
  /\ calibrating' = calibrating \ {u}
  /\ UNCHANGED <<needPose, present, posing, tracked, aborted>>
CalibrationFailed(u) ==
  /\ u \in calibrating
  /\ present' = present
  /\ Solicit(u)
  /\ UNCHANGED <<needPose, tracked, aborted>>

Event(u) == \/ NewUser(u) \/ LostUser(u) \/ PoseDetected(u)
            \/ CalibrationOk(u) \/ CalibrationAborted(u) \/ CalibrationFailed(u)

Next == \E u \in Users : Event(u)

Spec == Init /\ [][Next]_vars

\* A guest who stays strikes the pose whenever it is asked for, and not every
\* calibration of the same guest fails.
Patience == \A u \in Users : WF_vars(PoseDetected(u)) /\ SF_vars(CalibrationOk(u))

FairSpec == Spec /\ Patience

-----------------------------------------------------------------------------
TypeOK == /\ needPose \in BOOLEAN
          /\ calibrating \subseteq Users
          /\ present \subseteq Users
          /\ posing \cup tracked \cup aborted \subseteq present

\* A guest is at one stage at a time: nobody is calibrated while the pose
\* detection is still on, and nobody tracked is sent back to either
\* (multipleParty.cpp lines 114-169, four callbacks that share no state).
OneStage ==
  /\ posing \cap (calibrating \cup tracked \cup aborted) = {}
  /\ calibrating \cap (tracked \cup aborted) = {}
  /\ tracked \cap aborted = {}

\* No path through the callbacks drops a guest who is still there: everyone
\* present is at some stage, however often pose and calibration failed.
NobodyForgotten == present \subseteq posing \cup calibrating \cup tracked \cup aborted

\* "Manual abort occured, stop attempting to calibrate!" (line 156): from the
\* abort until the guest leaves nothing is asked of the generator again.
AbortIsFinal ==
  [][\A u \in aborted : u \notin present' \/ u \in aborted' \ (posing' \cup calibrating')]_vars

\* If the generator needs a pose, calibration follows a detected pose only.
PoseFirst ==
  [][needPose => calibrating' \ calibrating \subseteq posing]_vars

\* The retry loop closes: a guest who stays ends up tracked, unless the
\* operator aborts, after any number of failed calibrations.
EventuallyTracked ==
  \A u \in Users : u \in present ~> u \in tracked \cup aborted \/ u \notin present
=============================================================================
