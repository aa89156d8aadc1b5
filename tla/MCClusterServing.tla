-------------------------- MODULE MCClusterServing --------------------------
(***************************************************************************)
(* Instances of ClusterServing for TLC.                                    *)
(***************************************************************************)
EXTENDS ClusterServing

CONSTANTS car, foot

MCProfiles == {car, foot}

Profile(name, autoscaled, speedUpdates) ==
  [name |-> name, autoscaled |-> autoscaled, speedUpdates |-> speedUpdates]

PlainCar == Profile(car, FALSE, FALSE)
BusyCar  == Profile(car, TRUE, TRUE)
PlainFoot == Profile(foot, FALSE, FALSE)

(* Profiles come and go, speed updates and autoscaler with them.           *)
SomeSpecs == {<<BusyCar>>, <<PlainCar>>, <<PlainFoot>>, <<PlainCar, PlainFoot>>,
              << >>}
First == <<BusyCar>>
=============================================================================
