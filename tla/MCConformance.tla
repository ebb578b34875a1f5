---------------------------- MODULE MCConformance ----------------------------
(* Two workers and three playbooks: one worker gets two of them or more.   *)
EXTENDS Conformance

CONSTANTS p1, p2, p3

MCPlaybooks == <<p1, p2, p3>>
=============================================================================
