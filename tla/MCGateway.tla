------------------------------ MODULE MCGateway ------------------------------
(* Instances of Gateway for TLC.                                            *)
EXTENDS Gateway

\* Local messages that fit an IPC frame or claim not to, and numbered remote
\* ones that fit it or not.
AllMessages == GatewayMessage
=============================================================================
