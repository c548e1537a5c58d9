-------------------------- MODULE MCIngressStatus --------------------------
(* Instances of IngressStatus for TLC. *)
EXTENDS IngressStatus

CONSTANTS m, n, i, x, y, z

\* An ingress of no class, and one of the class of alb m that also needs https.
OpenOrM == {[class |-> {m, n}, need |-> {80}], [class |-> {m}, need |-> {80, 443}]}

\* Alb m moves to another address, alb n in and out of the project of the ingress.
Atx == [address |-> x, covers |-> {i}]
Atz == [address |-> z, covers |-> {i}]
TwoScopes ==
  [a \in {m, n} |-> IF a = m THEN {Atx, [Atx EXCEPT !.address = y]}
                    ELSE {Atz, [Atz EXCEPT !.covers = {}]}]
InTheProject == [a \in {m, n} |-> IF a = m THEN Atx ELSE Atz]
=============================================================================
