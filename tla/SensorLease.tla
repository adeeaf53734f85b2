---------------------------- MODULE SensorLease -----------------------------
(***************************************************************************)
(* What the sensor server promises, whatever processes come and go: the    *)
(* Kinect is open for a set of users.  It is opened for the first of them, *)
(* never closed under one, and may be closed after the last has left.      *)
(***************************************************************************)
CONSTANT Clients

VARIABLES open, users

leaseVars == <<open, users>>

LeaseInit == open = FALSE /\ users = {}

Take(c) == c \notin users /\ users' = users \cup {c} /\ open' = TRUE

Give(c) == c \in users /\ users' = users \ {c} /\ UNCHANGED open

Close == open /\ users = {} /\ open' = FALSE /\ UNCHANGED users

LeaseNext == Close \/ \E c \in Clients : Take(c) \/ Give(c)

LeaseSpec == LeaseInit /\ [][LeaseNext]_leaseVars
=============================================================================
