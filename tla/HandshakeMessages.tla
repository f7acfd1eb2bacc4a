--------------------------- MODULE HandshakeMessages ---------------------------
(***************************************************************************)
(* The messages of the trust-domain handshake and the checks each side     *)
(* makes on them (crates/laic/src/handshake.rs), as pure operators.        *)
(***************************************************************************)
EXTENDS Errors

CONSTANTS
  Domain,        \* trust-domain names, the empty one included
  EmptyDomain,   \* the empty string
  AnyDomain,     \* expected_remote_trust_domain = None
  Version        \* protocol versions a configuration can carry

ASSUME DomainAssumption ==
  /\ EmptyDomain \in Domain
  /\ AnyDomain \notin Domain

\* ClientHandshakeConfig and ServerHandshakeConfig
Config == [local : Domain, expected : Domain \cup {AnyDomain}, version : Version]

-----------------------------------------------------------------------------
(* Values                                                                  *)

\* The counter starts at 1, so 0 stands for a token field left empty.
NoToken == 0
Token == Nat \ {NoToken}

Accepted == "Accepted"
\* The protocol errors a handshake ends with.
ProtocolCode == {"UnsupportedHandshakeVersion", "TrustDomainMismatch",
                 "HandshakeNonceMismatch", "InvalidHandshakePayload"}

Hello == [version : Version, trust_domain : Domain, client_nonce : Nat]

HelloAck == [version : Version, trust_domain : Domain,
             client_nonce : Nat, server_nonce : Nat, session_id : Nat,
             rejection_code : Nat,
             rejected_expected : Domain \cup {AnyDomain}]

Session == [version : Version, local : Domain, remote : Domain,
            client_nonce : Token, server_nonce : Token, session_id : Token]

-----------------------------------------------------------------------------
(* Validation                                                              *)

\* Mutant: the expectation is read but not compared.
AdmitsAll(cfg, domain) == TRUE

\* validate_expected_domain
Admits(cfg, domain) == cfg.expected \in {AnyDomain, domain}

\* validate_peer_hello: empty domain, then version, then expected domain.
HelloVerdict(cfg, hello) ==
  IF hello.trust_domain = EmptyDomain          THEN "InvalidHandshakePayload"
  ELSE IF hello.version # cfg.version          THEN "UnsupportedHandshakeVersion"
  ELSE IF ~Admits(cfg, hello.trust_domain)     THEN "TrustDomainMismatch"
  ELSE Accepted

\* handshake_rejected_expected_domain
RejectedExpected(cfg, code) ==
  IF code = "TrustDomainMismatch" THEN cfg.expected ELSE AnyDomain

\* rejection_code of an ack: what the server's error is numbered, 0 for none.
RejectionCode(code) ==
  IF code = Accepted THEN 0 ELSE ProtocolErrorCode[code]

\* validate_ack_shape: a success carries both tokens and no explanation, a
\* rejection carries no token.
WellShaped(ack) ==
  IF ack.rejection_code = 0
    THEN /\ ack.rejected_expected = AnyDomain
         /\ ack.server_nonce # NoToken
         /\ ack.session_id # NoToken
    ELSE /\ ack.server_nonce = NoToken
         /\ ack.session_id = NoToken

\* The number validate_ack_rejection knows for a domain mismatch, 0x0309; it
\* has numbers of its own and does not ask ProtocolError for them.
TRUST_DOMAIN_MISMATCH_CODE == 777

\* validate_ack_rejection on a well-shaped ack whose version already matched
\* the client's: a version rejection then contradicts itself, a domain
\* rejection must name the domain the server expected, and every other code,
\* known or not, counts as a malformed payload.
RejectionReported(ack) ==
  IF /\ ack.rejection_code = TRUST_DOMAIN_MISMATCH_CODE
     /\ ack.rejected_expected # AnyDomain
    THEN "TrustDomainMismatch"
    ELSE "InvalidHandshakePayload"

\* Mutant: the echoed nonce is decoded and not compared.
EchoIgnored(nonce, ack) == TRUE

\* The echoed client_nonce is the one this call sent.
Echoes(nonce, ack) == ack.client_nonce = nonce

\* client_handshake after the ack arrived, in the order of its checks.
AckVerdict(cfg, nonce, ack) ==
  IF ack.version # cfg.version            THEN "UnsupportedHandshakeVersion"
  ELSE IF ack.trust_domain = EmptyDomain  THEN "InvalidHandshakePayload"
  ELSE IF ~Admits(cfg, ack.trust_domain)  THEN "TrustDomainMismatch"
  ELSE IF ~WellShaped(ack)                THEN "InvalidHandshakePayload"
  ELSE IF ack.rejection_code # 0          THEN RejectionReported(ack)
  ELSE IF ~Echoes(nonce, ack)             THEN "HandshakeNonceMismatch"
  ELSE Accepted

\* Mutant: the two branches of server_handshake fill each other's tokens.
TokenSwapped(code, token) == IF code = Accepted THEN NoToken ELSE token

\* Token fields are filled on success and left empty on rejection.
TokenField(code, token) == IF code = Accepted THEN token ELSE NoToken

\* The HelloAck server_handshake builds; a rejection fabricates no session
\* material and draws no token.
ReplyTo(cfg, hello, token) ==
  LET code == HelloVerdict(cfg, hello)
  IN  [version           |-> cfg.version,
       trust_domain      |-> cfg.local,
       client_nonce      |-> hello.client_nonce,
       server_nonce      |-> TokenField(code, token),
       session_id        |-> TokenField(code, token + 1),
       rejection_code    |-> RejectionCode(code),
       rejected_expected |-> RejectedExpected(cfg, code)]

\* Mutant: the counter advances once for the two tokens.
OneTokenDrawn(code) == IF code = Accepted THEN 1 ELSE 0

\* next_handshake_token is called twice for an accepted hello.
TokensDrawn(code) == IF code = Accepted THEN 2 ELSE 0

ClientSession(cfg, nonce, ack) ==
  [version |-> cfg.version, local |-> cfg.local, remote |-> ack.trust_domain,
   client_nonce |-> nonce, server_nonce |-> ack.server_nonce,
   session_id |-> ack.session_id]

ServerSession(cfg, hello, ack) ==
  [version |-> cfg.version, local |-> cfg.local, remote |-> hello.trust_domain,
   client_nonce |-> hello.client_nonce, server_nonce |-> ack.server_nonce,
   session_id |-> ack.session_id]
=============================================================================
