---------------------------- MODULE MCPolicySync ----------------------------
(* Instances of PolicySync: which entries there are and which of them a key reads. *)
EXTENDS PolicySync

\* A port's rules and a shared configuration.
RuleAndConfig == {"80", "conf"}
RuleAndConfigKind == [e \in RuleAndConfig |-> IF e = "80" THEN "httpRule" ELSE "config"]
RuleAndConfigReads == [k \in RuleAndConfig |-> <<k>>]

\* The certificates that a TLS handshake for host "a" on port 443 tries, and a stream port.
CertAndStream == {"a", "a/443", "53"}
CertAndStreamKey == {"a/443", "53"}
CertAndStreamKind == [e \in CertAndStream |-> IF e = "53" THEN "streamRule" ELSE "cert"]
CertAndStreamReads ==
  [k \in CertAndStreamKey |-> IF k = "53" THEN <<k>> ELSE <<"a", "a/443">>]
=============================================================================
