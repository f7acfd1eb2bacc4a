------------------------------- MODULE Handshake -------------------------------
(***************************************************************************)
(* The trust-domain handshake of crates/laic/src/handshake.rs over one     *)
(* QuicConnection.  A client application may call client_handshake several *)
(* times on the connection (a retry), and may drop the call at any of its  *)
(* await points (a timeout).  The server application calls                 *)
(* server_handshake once per hello.  Either application may close or drop  *)
(* the connection, and the network may take it down.                       *)
(*                                                                         *)
(* Granularity: a frame is written or read whole.  What a call dropped in  *)
(* the middle of a frame does to the stream is the subject of FrameStream. *)
(***************************************************************************)
EXTENDS HandshakeMessages, Sequences

CONSTANTS
  ClientConfig,  \* configurations client_handshake is called with
  ServerConfig,  \* configurations server_handshake is called with
  MaxAttempts    \* bound: calls of client_handshake on the connection

ASSUME ConfigAssumption ==
  /\ ClientConfig \subseteq Config /\ ClientConfig # {}
  /\ ServerConfig \subseteq Config /\ ServerConfig # {}
  /\ MaxAttempts \in Nat

VARIABLES
  clientCounter, serverCounter,   \* HANDSHAKE_COUNTER of the two processes
  cpc, ccfg, cnonce,              \* the client_handshake call in progress
  spc, scfg, shello, sack,        \* the server_handshake call in progress
  c2s, s2c,                       \* frames sent and not yet read
  alive,                          \* the QUIC connection is up
  closed,                         \* ends whose `closed` flag is set
  clientSessions, serverSessions, \* TrustDomainSessions returned so far
  outcome,                        \* how each client_handshake call ended
  verdict                         \* how each received hello was answered

clientVars  == <<clientCounter, cpc, ccfg, cnonce, clientSessions, outcome>>
serverVars  == <<serverCounter, spc, scfg, shello, sack, serverSessions, verdict>>
channelVars == <<c2s, s2c, alive, closed>>
vars == <<clientVars, serverVars, channelVars>>

-----------------------------------------------------------------------------
Ends == {"client", "server"}

TransportCode == {"SendFailed", "ReceiveFailed", "ShuttingDown"}

\* Result of one client call, with the nonce of the hello that was answered
\* by the ack the call read (NoToken when it read none).
Outcome == [nonce : Nat, answers : Nat, cfg : Config,
            code : {Accepted, "Cancelled"} \cup ProtocolCode \cup TransportCode]

Verdict == [nonce : Nat, cfg : Config,
            code : {Accepted, "Unanswered"} \cup ProtocolCode]

-----------------------------------------------------------------------------
Init ==
  /\ clientCounter = 1
  /\ serverCounter = 1
  /\ cpc = "idle"
  /\ ccfg = (CHOOSE cfg \in ClientConfig : TRUE)
  /\ cnonce = NoToken
  /\ spc = "idle"
  /\ scfg = (CHOOSE cfg \in ServerConfig : TRUE)
  /\ shello = [version |-> scfg.version, trust_domain |-> EmptyDomain,
               client_nonce |-> NoToken]
  /\ sack = ReplyTo(scfg, shello, NoToken)
  /\ c2s = <<>>
  /\ s2c = <<>>
  /\ alive = TRUE
  /\ closed = {}
  /\ clientSessions = {}
  /\ serverSessions = {}
  /\ outcome = {}
  /\ verdict = {}

-----------------------------------------------------------------------------
\* Mutant: a frame is written again although its first write succeeded.
SentTwice(frames, frame) == Append(Append(frames, frame), frame)

\* A frame written by an end that has not closed: queued for the peer, or going
\* nowhere when the connection is gone and this end has not noticed.
Sent(frames, frame) == IF alive THEN Append(frames, frame) ELSE frames

-----------------------------------------------------------------------------
(* client_handshake                                                        *)

\* The call ends with an error or is dropped: no session.
ClientFails(code, answers) ==
  /\ cpc' = "idle"
  /\ outcome' = outcome \cup {[nonce |-> cnonce, answers |-> answers,
                               cfg |-> ccfg, code |-> code]}
  /\ UNCHANGED <<clientCounter, ccfg, cnonce, clientSessions>>

\* The call starts: an empty local domain is refused before anything happens,
\* otherwise a fresh nonce is drawn for the hello.
ClientStart(cfg) ==
  /\ cpc = "idle"
  /\ clientCounter <= MaxAttempts
  /\ cfg.local # EmptyDomain
  /\ cpc' = "sending"
  /\ ccfg' = cfg
  /\ cnonce' = clientCounter
  /\ clientCounter' = clientCounter + 1
  /\ UNCHANGED <<clientSessions, outcome, serverVars, channelVars>>

\* send_control_message returns Ok.
ClientSend ==
  /\ cpc = "sending"
  /\ "client" \notin closed
  /\ cpc' = "waiting"
  /\ c2s' = Sent(c2s, [version |-> ccfg.version, trust_domain |-> ccfg.local,
                       client_nonce |-> cnonce])
  /\ UNCHANGED <<clientCounter, ccfg, cnonce, clientSessions, outcome,
                 serverVars, s2c, alive, closed>>

\* The send fails: the connection is gone, or this end closed it.
ClientSendFails ==
  /\ cpc = "sending"
  /\ ~alive
  /\ ClientFails(IF "client" \in closed THEN "ShuttingDown" ELSE "SendFailed",
                 NoToken)
  /\ UNCHANGED <<serverVars, channelVars>>

\* conn.receive() returns an ack, which is validated in the same poll.
ClientReceive ==
  /\ cpc = "waiting"
  /\ s2c # <<>>
  /\ s2c' = Tail(s2c)
  /\ LET ack  == Head(s2c)
         code == AckVerdict(ccfg, cnonce, ack)
     IN  /\ outcome' = outcome \cup {[nonce |-> cnonce,
                                      answers |-> ack.client_nonce,
                                      cfg |-> ccfg, code |-> code]}
         /\ clientSessions' =
              IF code = Accepted
                THEN clientSessions \cup {ClientSession(ccfg, cnonce, ack)}
                ELSE clientSessions
  /\ cpc' = "idle"
  /\ UNCHANGED <<clientCounter, ccfg, cnonce, serverVars, c2s, alive, closed>>

\* Mutant: the loss of the connection is not reported to the reader.
ReceiveFailsOnlyWhenClosed ==
  /\ cpc = "waiting"
  /\ "client" \in closed
  /\ ClientFails("ShuttingDown", NoToken)
  /\ UNCHANGED <<serverVars, channelVars>>

\* Frames already received are still readable after the connection is gone;
\* then conn.receive() fails.
ClientReceiveFails ==
  /\ cpc = "waiting"
  /\ s2c = <<>>
  /\ ~alive
  /\ ClientFails("ReceiveFailed", NoToken)
  /\ UNCHANGED <<serverVars, channelVars>>

\* The caller drops the future at one of its two await points.
ClientCancel ==
  /\ cpc \in {"sending", "waiting"}
  /\ ClientFails("Cancelled", NoToken)
  /\ UNCHANGED <<serverVars, channelVars>>

-----------------------------------------------------------------------------
(* server_handshake                                                        *)

\* A call of server_handshake reads the next hello, decides, and builds the
\* ack; the tokens of an accepted hello are drawn before the ack is sent.
ServerReceive(cfg) ==
  /\ spc = "idle"
  /\ "server" \notin closed
  /\ cfg.local # EmptyDomain
  /\ c2s # <<>>
  /\ spc' = "replying"
  /\ c2s' = Tail(c2s)
  /\ scfg' = cfg
  /\ shello' = Head(c2s)
  /\ sack' = ReplyTo(cfg, Head(c2s), serverCounter)
  /\ serverCounter' =
       serverCounter + TokensDrawn(HelloVerdict(cfg, Head(c2s)))
  /\ UNCHANGED <<serverSessions, verdict, clientVars, s2c, alive, closed>>

\* The last byte of the ack is accepted by the stream and the call returns in
\* the same poll: the session on success, the rejection error otherwise.
ServerReply ==
  /\ spc = "replying"
  /\ spc' = "idle"
  /\ s2c' = Sent(s2c, sack)
  /\ serverSessions' =
       IF sack.rejection_code = 0
         THEN serverSessions \cup {ServerSession(scfg, shello, sack)}
         ELSE serverSessions
  /\ verdict' = verdict \cup {[nonce |-> shello.client_nonce, cfg |-> scfg,
                               code |-> HelloVerdict(scfg, shello)]}
  /\ UNCHANGED <<serverCounter, scfg, shello, sack, clientVars, c2s,
                 alive, closed>>

\* The send of the ack fails or the caller drops the future while it waits
\* for the stream: the hello is consumed, unanswered, and there is no session.
ServerGivesUp ==
  /\ spc = "replying"
  /\ spc' = "idle"
  /\ verdict' = verdict \cup {[nonce |-> shello.client_nonce, cfg |-> scfg,
                               code |-> "Unanswered"]}
  /\ UNCHANGED <<serverCounter, scfg, shello, sack, serverSessions,
                 clientVars, channelVars>>

-----------------------------------------------------------------------------
(* The connection                                                          *)

\* What is left of a direction whose sender went away: the frames that had
\* reached the peer.
Truncated(frames, rest) ==
  \E k \in 0..Len(frames) : rest = SubSeq(frames, 1, k)

\* QuicConnection::close, or the drop of the connection, by an end that is not
\* inside a handshake call.  CONNECTION_CLOSE goes out at once: what the
\* stream had not delivered is abandoned.
Close(e) ==
  /\ e \notin closed
  /\ e = "client" => cpc = "idle"
  /\ e = "server" => spc = "idle"
  /\ closed' = closed \cup {e}
  /\ alive' = FALSE
  /\ IF alive /\ e = "client" THEN Truncated(c2s, c2s') ELSE UNCHANGED c2s
  /\ IF alive /\ e = "server" THEN Truncated(s2c, s2c') ELSE UNCHANGED s2c
  /\ UNCHANGED <<clientVars, serverVars>>

\* Idle timeout or network failure.
ConnectionLost ==
  /\ alive
  /\ alive' = FALSE
  /\ Truncated(c2s, c2s')
  /\ Truncated(s2c, s2c')
  /\ UNCHANGED <<closed, clientVars, serverVars>>

Next ==
  \/ \E cfg \in ClientConfig : ClientStart(cfg)
  \/ ClientSend
  \/ ClientSendFails
  \/ ClientReceive
  \/ ClientReceiveFails
  \/ ClientCancel
  \/ \E cfg \in ServerConfig : ServerReceive(cfg)
  \/ ServerReply
  \/ ServerGivesUp
  \/ \E e \in Ends : Close(e)
  \/ ConnectionLost

Spec == Init /\ [][Next]_vars

\* The runtime polls a task whose I/O is ready, so a call in progress moves on
\* when it can; the server application serves every hello.  Nothing obliges
\* an application to start, drop or close, or the network to fail.
Fairness ==
  /\ WF_vars(ClientSend)
  /\ WF_vars(ClientSendFails)
  /\ WF_vars(ClientReceive)
  /\ WF_vars(ClientReceiveFails)
  /\ WF_vars(\E cfg \in ServerConfig : ServerReceive(cfg))
  /\ WF_vars(ServerReply)

FairSpec == Spec /\ Fairness

-----------------------------------------------------------------------------
(* Properties                                                              *)

TypeOK ==
  /\ clientCounter \in Nat \ {0}
  /\ serverCounter \in Nat \ {0}
  /\ cpc \in {"idle", "sending", "waiting"}
  /\ ccfg \in Config
  /\ cnonce \in Nat
  /\ spc \in {"idle", "replying"}
  /\ scfg \in Config
  /\ shello \in Hello
  /\ sack \in HelloAck
  /\ c2s \in Seq(Hello)
  /\ s2c \in Seq(HelloAck)
  /\ alive \in BOOLEAN
  /\ closed \subseteq Ends
  /\ clientSessions \subseteq Session
  /\ serverSessions \subseteq Session
  /\ outcome \subseteq Outcome
  /\ verdict \subseteq Verdict

Abstract == INSTANCE SessionAgreement WITH offered <- serverSessions,
                                           established <- clientSessions

\* Whenever client_handshake returned a session, server_handshake returned its
\* mirror image: same version, tokens and id, domains crossed over.  Retries
\* after a dropped call, late acks and lost connections included.
Agreement ==
  \A c \in clientSessions : \E s \in serverSessions : Abstract!Mirror(c, s)

\* No two sessions share a token or an id, on either side, however many
\* handshakes the connection carried.
NoSessionReuse ==
  /\ \A s, t \in serverSessions :
       s # t => /\ s.client_nonce # t.client_nonce
                /\ {s.server_nonce, s.session_id} \cap
                     {t.server_nonce, t.session_id} = {}
  /\ \A c, d \in clientSessions : c # d => c.session_id # d.session_id

\* A session on the client means both policies were met by what the peer
\* really is: the server's expectation by the client's own domain, the
\* client's by the server's, and the versions are equal.
MutualExpectations ==
  \A o \in outcome : o.code = Accepted =>
    \E v \in verdict : /\ v.nonce = o.nonce
                       /\ v.code = Accepted
                       /\ v.cfg.expected \in {AnyDomain, o.cfg.local}
                       /\ o.cfg.expected \in {AnyDomain, v.cfg.local}
                       /\ v.cfg.version = o.cfg.version

\* The error a client call reports from the answer to its own hello is the
\* server's own reason for refusing it, or the client's refusal of the
\* server's domain.
VerdictStable ==
  \A o \in outcome : o.answers = o.nonce =>
    \E v \in verdict :
      /\ v.nonce = o.nonce
      /\ \/ v.code = o.code
         \/ /\ v.code = Accepted
            /\ o.code = "TrustDomainMismatch"
            /\ o.cfg.expected \notin {AnyDomain, v.cfg.local}

\* A call reads the ack of an earlier hello only because an earlier call was
\* dropped: the two streams never slip on their own.
StaleAckMeansCancelled ==
  \A o \in outcome : o.answers \notin {NoToken, o.nonce} =>
    \E p \in outcome : p.code = "Cancelled" /\ p.nonce <= o.answers

\* When a call returns a session the connection carries no leftover of an
\* earlier attempt in either direction, so the first application message
\* either side reads is one the other sent after the handshake.
SessionLeavesCleanStream ==
  [][clientSessions' # clientSessions =>
       /\ c2s' = <<>> /\ s2c' = <<>> /\ spc' = "idle"]_vars

\* The handshake implements the two-step agreement.
ImplementsAgreement == Abstract!AgreementSpec

\* A call that sent its hello ends, unless the server left a hello unanswered.
ClientUnblocks ==
  (cpc = "waiting") ~>
    (cpc # "waiting" \/ \E v \in verdict : v.code = "Unanswered")
=============================================================================
