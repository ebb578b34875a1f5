------------------------------ MODULE MCDialer ------------------------------
(* Two dialers, two hosts and two directory names.  Hosts and names are    *)
(* not interchangeable for the liveness property, so no symmetry is used.  *)
EXTENDS Dialer
=============================================================================
