---------------------------- MODULE CacheService ----------------------------
(***************************************************************************)
(* What those who ask the dependency-map cache can rely on, without a      *)
(* lock and at any moment (dependencies, dependents, cache.rs): a map that *)
(* changes as a whole.  A commit brings a new map; every answer goes once  *)
(* from what the index says to what the new map says, the index follows    *)
(* when all of them have, and at rest both directions say the same.  A     *)
(* commit that dies leaves a mixture, which is known to be one; the repair *)
(* takes the targets it finds for the map, and until it is done a file may *)
(* seem to have no importers, but never others than the targets say.       *)
(* compromised records that the power was lost, after which a record can   *)
(* be older than what was said before.                                     *)
(***************************************************************************)
CONSTANT File

VARIABLES
    targets,      \* what dependencies answers for each file
    importers,    \* what dependents answers
    known,        \* what the index says of the targets
    due,          \* what it will say after the commit
    phase,        \* steady, commit or broken
    compromised

vars == <<targets, importers, known, due, phase, compromised>>

Maps == [File -> SUBSET File]

Inverse(map) == [d \in File |-> {f \in File : d \in map[f]}]

Init ==
    /\ targets = [f \in File |-> {}]
    /\ importers = targets /\ known = targets /\ due = targets
    /\ phase = "steady"
    /\ compromised = FALSE

Begin ==
    /\ phase = "steady"
    /\ phase' = "commit"
    /\ due' \in Maps
    /\ UNCHANGED <<targets, importers, known, compromised>>

ShowTargets(f) ==
    /\ phase = "commit"
    /\ targets' = [targets EXCEPT ![f] = due[f]]
    /\ UNCHANGED <<importers, known, due, phase, compromised>>

ShowImporters(d) ==
    /\ phase = "commit"
    /\ importers' = [importers EXCEPT ![d] = Inverse(due)[d]]
    /\ UNCHANGED <<targets, known, due, phase, compromised>>

\* The index is the last to change.
Save ==
    /\ phase = "commit"
    /\ targets = due /\ importers = Inverse(due)
    /\ known' = due
    /\ UNCHANGED <<targets, importers, due, phase, compromised>>

Finish ==
    /\ phase = "commit"
    /\ known = due /\ targets = due /\ importers = Inverse(due)
    /\ phase' = "steady"
    /\ UNCHANGED <<targets, importers, known, due, compromised>>

Die ==
    /\ phase = "commit"
    /\ phase' = "broken"
    /\ due' = known
    /\ UNCHANGED <<targets, importers, known, compromised>>

\* Importers are forgotten and found again.
Repair ==
    /\ phase = "broken"
    /\ importers' \in Maps
    /\ \A d \in File : importers'[d] \in {importers[d], {}, Inverse(targets)[d]}
    /\ UNCHANGED <<targets, known, due, phase, compromised>>

Accept ==
    /\ phase = "broken"
    /\ importers = Inverse(targets)
    /\ known' = targets /\ due' = targets
    /\ UNCHANGED <<targets, importers, phase, compromised>>

Repaired ==
    /\ phase = "broken"
    /\ known = targets /\ importers = Inverse(targets)
    /\ phase' = "steady"
    /\ UNCHANGED <<targets, importers, known, due, compromised>>

\* Nothing is promised any more.
PowerLoss == compromised' = TRUE

Next ==
    \/ Begin
    \/ \E f \in File : ShowTargets(f) \/ ShowImporters(f)
    \/ Save \/ Finish \/ Die
    \/ Repair \/ Accept \/ Repaired
    \/ PowerLoss

Spec == Init /\ [][Next]_vars
=============================================================================
