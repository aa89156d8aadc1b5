--------------------------- MODULE MCSharedNames ---------------------------
(***************************************************************************)
(* Instances of SharedNames for TLC.                                       *)
(***************************************************************************)
EXTENDS SharedNames

cluster == [kind |-> "OSRMCluster", name |-> <<"osrm">>,
            profiles |-> <<"car">>]

(* Its gateway has the names of the workers above.                         *)
clusterCar == [kind |-> "OSRMCluster", name |-> <<"osrm", "car">>,
               profiles |-> <<"bike">>]

(* Its workers and its volumes have the names of those above.              *)
instanceCar == [kind |-> "OSRMInstance", name |-> <<"osrm", "car">>,
                profiles |-> <<"">>]

(* It has the name and the label of the first one.                         *)
namesake == [kind |-> "OSRMInstance", name |-> <<"osrm">>,
             profiles |-> <<"">>]

Rivals == {{cluster, clusterCar}, {cluster, instanceCar}}

Namesakes == {{cluster, namesake}}
=============================================================================
