----------------------------- MODULE MCHandshake -----------------------------
(* Instances of Handshake for TLC.                                          *)
EXTENDS Handshake

\* From one call to the next the client changes its domain, its expectation or
\* its version, or forgets to name its domain.
ClientConfigs ==
  {[local |-> "prod-a", expected |-> AnyDomain, version |-> 1],
   [local |-> "prod-a", expected |-> "prod-b",  version |-> 1],
   [local |-> "prod-b", expected |-> AnyDomain, version |-> 1],
   [local |-> "prod-a", expected |-> AnyDomain, version |-> 2],
   [local |-> EmptyDomain, expected |-> AnyDomain, version |-> 1]}

\* The server's policy admits one domain or all, and it too may have none.
ServerConfigs ==
  {[local |-> "prod-a", expected |-> "prod-a", version |-> 1],
   [local |-> "prod-b", expected |-> AnyDomain, version |-> 1],
   [local |-> EmptyDomain, expected |-> AnyDomain, version |-> 1]}
=============================================================================
