----------------------------- MODULE BlueGreen -----------------------------
(***************************************************************************)
(* What the operator promises of maps, without saying how: maps are built  *)
(* one generation after the other, and the workers of a profile are moved  *)
(* from one map to the next.                                               *)
(*                                                                         *)
(* Spec is promised whatever fails and whatever others do to the children: *)
(* workers are only ever given a generation whose map has been built.      *)
(* SafeSpec is promised as long as nothing fails: a map that is served is  *)
(* neither rebuilt nor discarded, and workers only move forward, to a map  *)
(* that is still there.                                                    *)
(***************************************************************************)
EXTENDS Integers

CONSTANTS Profiles, Generations

VARIABLES
  built,    \* claims whose map was built at some time
  stored,   \* claims whose map is on its volume
  serving   \* profile |-> the generation its workers use, 0 if it has none

vars == <<built, stored, serving>>

Claims == Profiles \X Generations

Init ==
  /\ built = {} /\ stored = {}
  /\ serving = [p \in Profiles |-> 0]

Build(p, g) ==
  /\ built' = built \cup {<<p, g>>}
  /\ stored' = stored \cup {<<p, g>>}
  /\ UNCHANGED serving

Discard(p, g) ==
  /\ stored' = stored \ {<<p, g>>}
  /\ UNCHANGED <<built, serving>>

Switch(p, g) ==
  /\ <<p, g>> \in built
  /\ serving' = [serving EXCEPT ![p] = g]
  /\ UNCHANGED <<built, stored>>

(* The workers of a profile are removed.                                   *)
Retire(p) ==
  /\ serving' = [serving EXCEPT ![p] = 0]
  /\ UNCHANGED <<built, stored>>

Next ==
  \E p \in Profiles :
    \/ Retire(p)
    \/ \E g \in Generations : Build(p, g) \/ Discard(p, g) \/ Switch(p, g)

Spec == Init /\ [][Next]_vars

SafeNext ==
  \E p \in Profiles :
    \/ Retire(p)
    \/ \E g \in Generations :
         \/ serving[p] # g /\ Build(p, g)
         \/ serving[p] # g /\ Discard(p, g)
         \/ <<p, g>> \in stored /\ serving[p] <= g /\ Switch(p, g)

SafeSpec == Init /\ [][SafeNext]_vars
=============================================================================
