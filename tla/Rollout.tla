------------------------------- MODULE Rollout -------------------------------
(***************************************************************************)
(* What a dialer promises: it takes every host once, one after the other,  *)
(* and the next one only when the executer has succeeded on the last; the  *)
(* first failure ends it; it exits with success when all hosts are done.   *)
(* Dialer implements it with connections, directories and executers.       *)
(***************************************************************************)
CONSTANTS Dialer, Host, NoHost

VARIABLES
  waiting,   \* hosts that each dialer has not taken
  current,   \* the one it is at
  applied,   \* those that it has done
  outcome    \* "running" or how it has ended

vars == <<waiting, current, applied, outcome>>

Init ==
  /\ waiting = [d \in Dialer |-> Host]
  /\ current = [d \in Dialer |-> NoHost]
  /\ applied = [d \in Dialer |-> {}]
  /\ outcome = [d \in Dialer |-> "running"]

Take(d) ==
  /\ outcome[d] = "running" /\ current[d] = NoHost
  /\ \E h \in waiting[d] :
       /\ current' = [current EXCEPT ![d] = h]
       /\ waiting' = [waiting EXCEPT ![d] = @ \ {h}]
  /\ UNCHANGED <<applied, outcome>>

Pending(d) == current[d] # NoHost /\ current[d] \notin applied[d]

Apply(d) ==
  /\ outcome[d] = "running" /\ Pending(d)
  /\ applied' = [applied EXCEPT ![d] = @ \cup {current[d]}]
  /\ UNCHANGED <<waiting, current, outcome>>

Leave(d) ==
  /\ outcome[d] = "running" /\ current[d] \in applied[d]
  /\ current' = [current EXCEPT ![d] = NoHost]
  /\ UNCHANGED <<waiting, applied, outcome>>

End(d, o) ==
  /\ outcome[d] = "running"
  /\ outcome' = [outcome EXCEPT ![d] = o]
  /\ current' = [current EXCEPT ![d] = NoHost]
  /\ UNCHANGED <<waiting, applied>>

Exit(d) == End(d, "exit") /\ current[d] = NoHost /\ waiting[d] = {}
Fail(d) == End(d, "fatal") /\ Pending(d)
Kill(d) == End(d, "killed")

Step(d) == Take(d) \/ Apply(d) \/ Leave(d) \/ Exit(d) \/ Fail(d)

Next == \E d \in Dialer : Step(d) \/ Kill(d)

Safety == Init /\ [][Next]_vars

\* Each dialer gets on, and so ends.
Spec == Safety /\ \A d \in Dialer : WF_vars(Step(d))
=============================================================================
