--------------------------- MODULE PolicyReplica ---------------------------
(***************************************************************************)
(* What policy synchronisation promises, without the service's rows, the   *)
(* fetches and the failures: each profile has a growing list of versions,  *)
(* and a device runs some of them, in order, perhaps skipping some, and    *)
(* acknowledges what it runs, until it forgets everything in a restart.    *)
(***************************************************************************)
EXTENDS Naturals

CONSTANT Profiles

VARIABLES latest,   \* latest[p]: the newest version of profile p
          runs,     \* runs[p]: the version the device runs
          known     \* known[p]: the version the device has acknowledged

vars == <<latest, runs, known>>

Init ==
    /\ latest \in [Profiles -> Nat]
    /\ runs = [p \in Profiles |-> 0] /\ known = [p \in Profiles |-> 0]

Publish(p) == latest' = [latest EXCEPT ![p] = @ + 1] /\ UNCHANGED <<runs, known>>

\* A version the device does not know yet is run; it may go unacknowledged.
CatchUp(p, v) ==
    /\ known[p] < v /\ runs[p] <= v /\ v <= latest[p]
    /\ runs' = [runs EXCEPT ![p] = v]
    /\ known' \in {known, [known EXCEPT ![p] = v]}
    /\ UNCHANGED latest

Forget ==
    /\ runs' = [p \in Profiles |-> 0] /\ known' = [p \in Profiles |-> 0]
    /\ UNCHANGED latest

Next ==
    \/ \E p \in Profiles : Publish(p) \/ \E v \in 1..latest[p] : CatchUp(p, v)
    \/ Forget

Spec == Init /\ [][Next]_vars
=============================================================================
