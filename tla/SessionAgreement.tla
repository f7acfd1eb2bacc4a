--------------------------- MODULE SessionAgreement ---------------------------
(***************************************************************************)
(* What the trust-domain handshake of crates/laic/src/handshake.rs         *)
(* promises to the two applications, with no messages: the server side     *)
(* offers sessions whose tokens were never used before, and the client     *)
(* side establishes a session only as the mirror image of an offered one,  *)
(* and each offer at most once.                                            *)
(***************************************************************************)

VARIABLES
  offered,      \* sessions server_handshake returned to its caller
  established   \* sessions client_handshake returned to its caller

agreementVars == <<offered, established>>

\* The two ends describe the same handshake: same version, tokens and
\* session id, and each end's local domain is the other end's remote one.
Mirror(c, s) ==
  /\ c.version      = s.version
  /\ c.client_nonce = s.client_nonce
  /\ c.server_nonce = s.server_nonce
  /\ c.session_id   = s.session_id
  /\ c.local        = s.remote
  /\ c.remote       = s.local

AgreementInit ==
  /\ offered = {}
  /\ established = {}

\* A session is offered under a client nonce and a session id of its own.
Offer ==
  /\ \E s \in offered' :
       /\ \A t \in offered : /\ s.client_nonce # t.client_nonce
                             /\ s.session_id   # t.session_id
       /\ offered' = offered \cup {s}
  /\ UNCHANGED established

Establish ==
  /\ \E c \in established' :
       /\ \E s \in offered : Mirror(c, s)
       /\ \A d \in established : d.client_nonce # c.client_nonce
       /\ established' = established \cup {c}
  /\ UNCHANGED offered

AgreementNext == Offer \/ Establish

AgreementSpec == AgreementInit /\ [][AgreementNext]_agreementVars
=============================================================================
