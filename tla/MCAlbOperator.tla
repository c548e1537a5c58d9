--------------------------- MODULE MCAlbOperator ---------------------------
(* Small instances of AlbOperator. *)
EXTENDS AlbOperator

CONSTANTS hostConf, sharedConf, ownConf

\* An alb for ingresses on the host network, with a project and a roomy limit.
HostSpec ==
  [Projects |-> {"p1"}, Resources |-> [NginxLimits |-> [CPU |-> Milli(4000)]],
   DefaultSSLStrategy |-> "Both"]

\* A shared gateway behind a load balancer service, without ingresses: ports belong to
\* projects, snippets are overwritten for every version and an image for the second.
SharedSpec ==
  [NetworkMode |-> "container", EnableIngress |-> "False", EnablePortprobe |-> "false",
   Gateway |-> [Enable |-> TRUE],
   Vip |-> [EnableLbSvc |-> TRUE, LbSvcAnnotations |-> {<<"a", "1">>}],
   EnablePortProject |-> TRUE,
   PortProjects |-> <<[ports |-> 80..90, projects |-> {"p1"}]>>,
   NodeSelector |-> {<<"zone", "1">>}, MetricsPort |-> 1936,
   Overwrite |-> [Configmap |-> {Version},
                  Image |-> <<[Target |-> {2}, Alb |-> <<"fixed">>, Nginx |-> <<>>]>>]]

\* A gateway of its own: the load balancer service and the network come with it.
OwnSpec ==
  [Gateway |-> [Mode |-> "standalone", Name |-> <<"gw", "ns2">>],
   Vip |-> [LbSvcAnnotations |-> {<<"b", "1">>}], EnableHTTP2 |-> "false"]

Plainly == [tolerateAll |-> FALSE, nginxEnv |-> <<>>]

MCSpecOf(c) ==
  CASE c = hostConf   -> [spec |-> HostSpec, ann |-> Plainly]
    [] c = sharedConf -> [spec |-> SharedSpec, ann |-> [Plainly EXCEPT !.tolerateAll = TRUE]]
    [] c = ownConf    -> [spec |-> OwnSpec, ann |-> [Plainly EXCEPT !.nginxEnv = <<"DEBUG", "1">>]]

ASSUME UserConfs == CloudKeyFree /\ OwnClasses
=============================================================================
