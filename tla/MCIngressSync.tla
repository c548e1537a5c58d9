--------------------------- MODULE MCIngressSync ---------------------------
(* Small instances of IngressSync. *)
EXTENDS IngressSync

CONSTANTS s1, s2, u

\* A rule a user made on the http frontend, with the position of an ingress path.
OneUserRule ==
  {[name |-> u, source |-> None, proto |-> "http", index |-> 1, service |-> s1]}

\* A path list with the given services from position 1 on.
Paths(a, b) == [n \in Index |-> CASE n = 1 -> a [] n = 2 -> b]

\* Ingresses of one or two paths on http, and one of another class.
OneProto ==
  {[ours |-> "yes", need |-> {"http"}, paths |-> Paths(s1, None), backend |-> None],
   [ours |-> "yes", need |-> {"http"}, paths |-> Paths(s2, s1), backend |-> None],
   [ours |-> "no", need |-> {"http"}, paths |-> Paths(s1, None), backend |-> None]}

\* Ingresses that move between http and https, with and without a default backend, and
\* one of another project.
TwoProtos ==
  {[ours |-> "yes", need |-> {"http"}, paths |-> Paths(s1, None), backend |-> s1],
   [ours |-> "yes", need |-> {"http", "https"}, paths |-> Paths(s1, s1), backend |-> None],
   [ours |-> "class", need |-> {"https"}, paths |-> Paths(s1, None), backend |-> None]}
=============================================================================
