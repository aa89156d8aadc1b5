--------------------------- MODULE MCOSRMCluster ---------------------------
(***************************************************************************)
(* Instances of OSRMCluster for TLC.                                       *)
(***************************************************************************)
EXTENDS OSRMCluster

CONSTANTS car, foot, u1, u2

MCProfiles == {car, foot}
MCOneProfile == {car}
MCURLs == {u1, u2}

Submit(url, profiles) == [url |-> url, profiles |-> profiles]

(* Two profiles that stay, two extracts to switch between.                 *)
UrlSpecs == {Submit(u, <<car, foot>>) : u \in {u1, u2}}

(* The first profile may go and come back.                                 *)
SomeSpecs == UrlSpecs \cup {Submit(u1, <<foot>>)}

(* Every combination.                                                      *)
AllSpecs == {Submit(u, ps) : u \in {u1, u2},
                             ps \in {<< >>, <<car>>, <<foot>>, <<car, foot>>}}

(* One profile.                                                            *)
OneProfile == {Submit(u, <<car>>) : u \in {u1, u2}}

First == Submit(u1, <<car, foot>>)
FirstOne == Submit(u1, <<car>>)
=============================================================================
