---------------------------- MODULE MCLifecycle ----------------------------
(* Two processes of one load balancer.                                     *)
EXTENDS Lifecycle

CONSTANTS p1, p2

Pods == {p1, p2}
=============================================================================
