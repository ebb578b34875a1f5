-------------------------------- MODULE Suite --------------------------------
(***************************************************************************)
(* What the conformance runner promises: the test of every playbook ends   *)
(* once, well or badly, in any order, and then, not before, there is one   *)
(* verdict.  Conformance implements it with workers, channels and docker.  *)
(***************************************************************************)
CONSTANT Playbook

VARIABLES passed, failed, verdict

vars == <<passed, failed, verdict>>

Init == passed = {} /\ failed = {} /\ verdict = "none"

Untested == Playbook \ (passed \cup failed)

Pass ==
  /\ \E p \in Untested : passed' = passed \cup {p}
  /\ verdict = "none" /\ UNCHANGED <<failed, verdict>>

Fail ==
  /\ \E p \in Untested : failed' = failed \cup {p}
  /\ verdict = "none" /\ UNCHANGED <<passed, verdict>>

Conclude ==
  /\ verdict = "none" /\ Untested = {}
  /\ verdict' = IF failed = {} THEN "passed" ELSE "failed"
  /\ UNCHANGED <<passed, failed>>

Next == Pass \/ Fail \/ Conclude

Safety == Init /\ [][Next]_vars

\* The verdict comes.
Spec == Safety /\ WF_vars(Next)
=============================================================================
