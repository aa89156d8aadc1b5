--------------------------- MODULE MCOSRMInstance ---------------------------
(***************************************************************************)
(* Instances of OSRMInstance for TLC.                                      *)
(***************************************************************************)
EXTENDS OSRMInstance

CONSTANTS u1, u2

MCURLs == {u1, u2}

Submit(url, maxReplicas, speedUpdates) ==
  [url |-> url, maxReplicas |-> maxReplicas, speedUpdates |-> speedUpdates]

(* The extract changes together with something else: speed updates end, or *)
(* maxReplicas is forgotten, until an edit changes both back.              *)
Autoscaled == {Submit(u1, TRUE, TRUE), Submit(u2, TRUE, FALSE),
               Submit(u2, FALSE, TRUE)}

MCFirst == Submit(u1, TRUE, TRUE)
=============================================================================
