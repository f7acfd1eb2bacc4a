---------------------------- MODULE HandshakeProofs ----------------------------
(***************************************************************************)
(* Proofs about Handshake for any configurations, any number of attempts   *)
(* and any set of domains and versions: the types, what the two ends agree *)
(* on, and the history that it rests on, which is which hello an ack       *)
(* answers, what was decided about it and which tokens were spent on it.   *)
(***************************************************************************)
EXTENDS Handshake, TLAPS

-----------------------------------------------------------------------------
(* Types                                                                   *)

\* What the types of the sessions rest on: a call in progress holds a nonce,
\* a hello carries one, and an ack about to be sent fills its token fields
\* exactly when it accepts.
CallsCarryTokens ==
  /\ cpc # "idle" => cnonce \in Token
  /\ \A i \in 1..Len(c2s) : c2s[i].client_nonce \in Token
  /\ spc = "replying" =>
       /\ shello.client_nonce \in Token
       /\ sack.rejection_code = 0 =>
            sack.server_nonce \in Token /\ sack.session_id \in Token

TypeInv == TypeOK /\ CallsCarryTokens

\* The server's decision is a success or one of three refusals, each with a
\* number other than 0.
LEMMA VerdictCoded ==
  ASSUME NEW cfg, NEW hello
  PROVE  /\ HelloVerdict(cfg, hello) \in {Accepted} \cup ProtocolCode
         /\ RejectionCode(HelloVerdict(cfg, hello)) \in Nat
         /\ RejectionCode(HelloVerdict(cfg, hello)) = 0 =>
              HelloVerdict(cfg, hello) = Accepted
<1>1. HelloVerdict(cfg, hello) \in
        {Accepted, "InvalidHandshakePayload", "UnsupportedHandshakeVersion",
         "TrustDomainMismatch"}
  BY DEF HelloVerdict
<1>2. /\ ProtocolErrorCode["InvalidHandshakePayload"] = 779
      /\ ProtocolErrorCode["UnsupportedHandshakeVersion"] = 776
      /\ ProtocolErrorCode["TrustDomainMismatch"] = 777
  BY DEF ProtocolErrorCode
<1> QED
  BY <1>1, <1>2 DEF RejectionCode, Accepted, ProtocolCode

\* The reply has the type of an ack whatever the hello, and its tokens are
\* filled exactly on success.
LEMMA ReplyType ==
  ASSUME NEW cfg \in Config, NEW hello \in Hello, NEW token \in Nat
  PROVE  /\ ReplyTo(cfg, hello, token) \in HelloAck
         /\ HelloVerdict(cfg, hello) \in {Accepted} \cup ProtocolCode
         /\ token # 0 /\ ReplyTo(cfg, hello, token).rejection_code = 0 =>
              /\ ReplyTo(cfg, hello, token).server_nonce \in Token
              /\ ReplyTo(cfg, hello, token).session_id \in Token
<1> DEFINE code == HelloVerdict(cfg, hello)
<1>1. /\ code \in {Accepted} \cup ProtocolCode
      /\ RejectionCode(code) \in Nat
      /\ RejectionCode(code) = 0 => code = Accepted
  BY VerdictCoded
<1>2. /\ RejectedExpected(cfg, code) \in Domain \cup {AnyDomain}
      /\ TokenField(code, token) \in Nat
      /\ TokenField(code, token + 1) \in Nat
  BY DEF RejectedExpected, TokenField, Config, NoToken
<1>3. ReplyTo(cfg, hello, token) =
        [version |-> cfg.version, trust_domain |-> cfg.local,
         client_nonce |-> hello.client_nonce,
         server_nonce |-> TokenField(code, token),
         session_id |-> TokenField(code, token + 1),
         rejection_code |-> RejectionCode(code),
         rejected_expected |-> RejectedExpected(cfg, code)]
  BY DEF ReplyTo
<1> HIDE DEF code
<1>4. ReplyTo(cfg, hello, token) \in HelloAck
  BY <1>1, <1>2, <1>3 DEF HelloAck, Config, Hello
<1>5. code = Accepted /\ token # 0 =>
        TokenField(code, token) \in Token /\ TokenField(code, token + 1) \in Token
  BY DEF TokenField, Token, NoToken
<1> QED
  BY <1>1, <1>3, <1>4, <1>5 DEF code

\* The client reports success only for an ack it can build a session from.
LEMMA AckVerdictType ==
  ASSUME NEW cfg \in Config, NEW nonce \in Nat, NEW ack \in HelloAck
  PROVE  /\ AckVerdict(cfg, nonce, ack) \in {Accepted} \cup ProtocolCode
         /\ AckVerdict(cfg, nonce, ack) = Accepted =>
              /\ ack.version = cfg.version
              /\ ack.rejection_code = 0
              /\ ack.client_nonce = nonce
              /\ ack.server_nonce \in Token
              /\ ack.session_id \in Token
  BY DEF AckVerdict, WellShaped, RejectionReported, Echoes, HelloAck, Accepted,
         ProtocolCode, Token, NoToken

\* The types hold before the first call.
LEMMA InitTypes == Init => TypeInv
<1> SUFFICES ASSUME Init PROVE TypeInv
  OBVIOUS
<1>1. ccfg \in Config /\ scfg \in Config
  BY ConfigAssumption DEF Init
<1>2. shello \in Hello
  BY <1>1, DomainAssumption DEF Init, Hello, Config, NoToken
<1>3. sack \in HelloAck
  BY <1>1, <1>2, ReplyType DEF Init, NoToken
<1>. QED
  BY <1>1, <1>2, <1>3 DEF Init, TypeInv, TypeOK, CallsCarryTokens, NoToken

\* What is read or truncated from a queue was in it, what is sent joins it.
LEMMA SentType ==
  ASSUME NEW S, NEW q \in Seq(S), NEW x \in S
  PROVE  Sent(q, x) \in Seq(S)
  BY DEF Sent

\* What a lost connection still delivers is a prefix.
LEMMA TruncatedType ==
  ASSUME NEW S, NEW q \in Seq(S), NEW r, Truncated(q, r)
  PROVE  /\ r \in Seq(S)
         /\ Len(r) <= Len(q)
         /\ \A i \in 1..Len(r) : r[i] = q[i]
<1>1. PICK k \in 0..Len(q) : r = SubSeq(q, 1, k)
  BY DEF Truncated
<1> QED
  BY <1>1

\* ClientFails records a well-typed outcome and leaves the sessions alone.
LEMMA ClientFailsTypes ==
  ASSUME TypeInv, NEW code \in {Accepted, "Cancelled"} \cup ProtocolCode
                                \cup TransportCode,
         ClientFails(code, NoToken), UNCHANGED <<serverVars, c2s>>
  PROVE  /\ outcome' \subseteq Outcome
         /\ cpc' \in {"idle", "sending", "waiting"}
         /\ CallsCarryTokens'
  BY DEF TypeInv, TypeOK, CallsCarryTokens, ClientFails, Outcome, NoToken,
         serverVars

\* Every step keeps the types.
LEMMA StepTypes == TypeInv /\ [Next]_vars => TypeInv'
<1> SUFFICES ASSUME TypeInv, [Next]_vars PROVE TypeInv'
  OBVIOUS
<1> USE DEF TypeInv, TypeOK
<1>1. ASSUME NEW cfg \in ClientConfig, ClientStart(cfg) PROVE TypeInv'
  <2>1. cfg \in Config
    BY ConfigAssumption
  <2> QED
    BY <1>1, <2>1 DEF ClientStart, CallsCarryTokens, Token, NoToken,
       serverVars, channelVars
<1>2. CASE ClientSend
  <2>1. [version |-> ccfg.version, trust_domain |-> ccfg.local,
         client_nonce |-> cnonce] \in Hello
    BY DEF Hello, Config
  <2>2. c2s' \in Seq(Hello)
    BY <1>2, <2>1, SentType DEF ClientSend
  <2>3. CallsCarryTokens'
    <3>1. \A i \in 1..Len(c2s') : c2s'[i].client_nonce \in Token
      BY <1>2, <2>1 DEF ClientSend, Sent, CallsCarryTokens
    <3> QED
      BY <1>2, <3>1 DEF ClientSend, CallsCarryTokens, serverVars
  <2> QED
    BY <1>2, <2>2, <2>3 DEF ClientSend, serverVars
<1>3. CASE ClientSendFails
  BY <1>3, ClientFailsTypes
  DEF ClientSendFails, ClientFails, TransportCode, serverVars, channelVars
<1>4. CASE ClientReceive
  <2>1. Head(s2c) \in HelloAck /\ Tail(s2c) \in Seq(HelloAck)
    BY <1>4 DEF ClientReceive
  <2> DEFINE code == AckVerdict(ccfg, cnonce, Head(s2c))
  <2>2. code \in {Accepted} \cup ProtocolCode
    BY <2>1, AckVerdictType
  <2>3. outcome' \subseteq Outcome
    <3>1. Head(s2c).client_nonce \in Nat
      BY <2>1 DEF HelloAck
    <3> QED
      BY <1>4, <2>2, <3>1 DEF ClientReceive, Outcome
  <2>4. clientSessions' \subseteq Session
    <3>1. CASE code = Accepted
      <4>1. ClientSession(ccfg, cnonce, Head(s2c)) \in Session
        BY <1>4, <2>1, <3>1, AckVerdictType
        DEF ClientReceive, CallsCarryTokens, ClientSession, Session, Config,
            HelloAck
      <4> QED
        BY <1>4, <3>1, <4>1 DEF ClientReceive
    <3>2. CASE code # Accepted
      BY <1>4, <3>2 DEF ClientReceive
    <3> QED
      BY <3>1, <3>2
  <2> QED
    BY <1>4, <2>1, <2>3, <2>4 DEF ClientReceive, CallsCarryTokens, serverVars
<1>5. CASE ClientReceiveFails
  BY <1>5, ClientFailsTypes
  DEF ClientReceiveFails, ClientFails, TransportCode, serverVars, channelVars
<1>6. CASE ClientCancel
  BY <1>6, ClientFailsTypes
  DEF ClientCancel, ClientFails, serverVars, channelVars
<1>7. ASSUME NEW cfg \in ServerConfig, ServerReceive(cfg) PROVE TypeInv'
  <2>1. cfg \in Config /\ Head(c2s) \in Hello /\ Tail(c2s) \in Seq(Hello)
    BY <1>7, ConfigAssumption DEF ServerReceive
  <2>2. Head(c2s).client_nonce \in Token
    BY <1>7 DEF ServerReceive, CallsCarryTokens
  <2>3. serverCounter' \in Nat \ {0}
    BY <1>7 DEF ServerReceive, TokensDrawn
  <2>4. CallsCarryTokens'
    <3>1. /\ sack'.rejection_code = 0 =>
              sack'.server_nonce \in Token /\ sack'.session_id \in Token
      BY <1>7, <2>1, ReplyType DEF ServerReceive
    <3>2. \A i \in 1..Len(c2s') : c2s'[i].client_nonce \in Token
      BY <1>7 DEF ServerReceive, CallsCarryTokens
    <3> QED
      BY <1>7, <2>2, <3>1, <3>2 DEF ServerReceive, CallsCarryTokens, clientVars
  <2>5. sack' \in HelloAck
    BY <1>7, <2>1, ReplyType DEF ServerReceive
  <2> QED
    BY <1>7, <2>1, <2>3, <2>4, <2>5 DEF ServerReceive, clientVars
<1>8. CASE ServerReply
  <2>1. s2c' \in Seq(HelloAck)
    BY <1>8, SentType DEF ServerReply
  <2>2. serverSessions' \subseteq Session
    BY <1>8 DEF ServerReply, CallsCarryTokens, ServerSession, Session, Config,
                Hello
  <2>3. verdict' \subseteq Verdict
    BY <1>8, VerdictCoded DEF ServerReply, Verdict, Hello
  <2> QED
    BY <1>8, <2>1, <2>2, <2>3 DEF ServerReply, CallsCarryTokens, clientVars
<1>9. CASE ServerGivesUp
  <2>1. verdict' \subseteq Verdict
    BY <1>9 DEF ServerGivesUp, Verdict, Hello
  <2> QED
    BY <1>9, <2>1 DEF ServerGivesUp, CallsCarryTokens, clientVars, channelVars
<1>10. ASSUME NEW e \in Ends, Close(e) PROVE TypeInv'
  <2>1. c2s' \in Seq(Hello) /\ s2c' \in Seq(HelloAck)
    BY <1>10, TruncatedType DEF Close
  <2>2. \A i \in 1..Len(c2s') : c2s'[i].client_nonce \in Token
    BY <1>10, TruncatedType DEF Close, CallsCarryTokens
  <2> QED
    BY <1>10, <2>1, <2>2 DEF Close, CallsCarryTokens, clientVars, serverVars
<1>11. CASE ConnectionLost
  <2>1. c2s' \in Seq(Hello) /\ s2c' \in Seq(HelloAck)
    BY <1>11, TruncatedType DEF ConnectionLost
  <2>2. \A i \in 1..Len(c2s') : c2s'[i].client_nonce \in Token
    BY <1>11, TruncatedType DEF ConnectionLost, CallsCarryTokens
  <2> QED
    BY <1>11, <2>1, <2>2
    DEF ConnectionLost, CallsCarryTokens, clientVars, serverVars
<1>12. CASE UNCHANGED vars
  BY <1>12 DEF vars, CallsCarryTokens, clientVars, serverVars, channelVars
<1> QED
  BY <1>1, <1>2, <1>3, <1>4, <1>5, <1>6, <1>7, <1>8, <1>9, <1>10, <1>11, <1>12
  DEF Next

\* The two ends' state, the frames in flight and the sessions returned keep
\* their types through every interleaving of calls, drops and losses.
THEOREM TypeCorrect == Spec => []TypeOK
<1>1. TypeInv => TypeOK
  BY DEF TypeInv
<1> QED
  BY InitTypes, StepTypes, <1>1, PTL DEF Spec

-----------------------------------------------------------------------------
(* Agreement                                                               *)

\* What the nonce of the current call guarantees about a hello, a session or
\* anything else that carries a client nonce and a domain: nonces come from
\* the counter, and the one of the current call goes with its domain.
FromClient(nonce, domain) ==
  /\ nonce < clientCounter
  /\ nonce = cnonce => domain = ccfg.local

\* An accepting ack has its session on the server.
Backed(ack) ==
  ack.rejection_code = 0 =>
    \E s \in serverSessions : /\ s.client_nonce = ack.client_nonce
                              /\ s.server_nonce = ack.server_nonce
                              /\ s.session_id   = ack.session_id
                              /\ s.local        = ack.trust_domain
                              /\ s.version      = ack.version

\* The ack being sent speaks for the hello it answers.
ReplyInHand ==
  spc = "replying" =>
    /\ FromClient(shello.client_nonce, shello.trust_domain)
    /\ sack.client_nonce = shello.client_nonce
    /\ sack.trust_domain = scfg.local
    /\ sack.version      = scfg.version

\* The strengthening of Agreement that every step preserves.
AgreementInv ==
  /\ cnonce < clientCounter
  /\ \A i \in 1..Len(c2s) : FromClient(c2s[i].client_nonce, c2s[i].trust_domain)
  /\ ReplyInHand
  /\ \A s \in serverSessions : FromClient(s.client_nonce, s.remote)
  /\ \A i \in 1..Len(s2c) : Backed(s2c[i])
  /\ Agreement

\* Nothing is to agree on before the first call.
LEMMA InitAgreement == Init => AgreementInv
  BY DEF Init, AgreementInv, ReplyInHand, Agreement, NoToken

\* A step that leaves the current call, the reply in hand and the sessions
\* alone keeps the invariant, whatever frames it takes off the queues.
LEMMA FramesDropped ==
  ASSUME TypeInv, AgreementInv,
         UNCHANGED <<clientCounter, cnonce, ccfg, scfg, shello, sack,
                     serverSessions, clientSessions>>,
         spc' = "replying" => spc = "replying",
         \A i \in 1..Len(c2s') : \E j \in 1..Len(c2s) : c2s'[i] = c2s[j],
         \A i \in 1..Len(s2c') : \E j \in 1..Len(s2c) : s2c'[i] = s2c[j]
  PROVE  AgreementInv'
<1>1. ReplyInHand'
  BY DEF AgreementInv, ReplyInHand, FromClient
<1>2. \A i \in 1..Len(c2s') :
        FromClient(c2s[i].client_nonce, c2s[i].trust_domain)'
  BY DEF AgreementInv, FromClient
<1>3. \A i \in 1..Len(s2c') : Backed(s2c[i])'
  <2>1. SUFFICES ASSUME NEW i \in 1..Len(s2c') PROVE Backed(s2c[i])'
    OBVIOUS
  <2>2. PICK j \in 1..Len(s2c) : s2c'[i] = s2c[j]
    OBVIOUS
  <2>3. Backed(s2c[j])
    BY DEF AgreementInv
  <2> QED
    BY <2>2, <2>3 DEF Backed
<1>4. Agreement'
  BY DEF AgreementInv, Agreement, Abstract!Mirror
<1> QED
  BY <1>1, <1>2, <1>3, <1>4 DEF AgreementInv, FromClient

\* A queue's head and tail come from the queue.
LEMMA TailElements ==
  ASSUME NEW S, NEW q \in Seq(S), q # <<>>
  PROVE  /\ \A i \in 1..Len(Tail(q)) : \E j \in 1..Len(q) : Tail(q)[i] = q[j]
         /\ \E j \in 1..Len(q) : Head(q) = q[j]
<1>1. \A i \in 1..Len(Tail(q)) : i + 1 \in 1..Len(q) /\ Tail(q)[i] = q[i + 1]
  OBVIOUS
<1>2. 1 \in 1..Len(q) /\ Head(q) = q[1]
  OBVIOUS
<1> QED
  BY <1>1, <1>2

\* Every step keeps what the ends agree on.
LEMMA StepAgreement ==
  ASSUME TypeInv, AgreementInv, [Next]_vars
  PROVE  AgreementInv'
<1> USE DEF TypeInv, TypeOK
<1>1. ASSUME NEW cfg \in ClientConfig, ClientStart(cfg) PROVE AgreementInv'
  <2>1. UNCHANGED <<c2s, s2c, spc, scfg, shello, sack, serverSessions,
                    clientSessions>>
    BY <1>1 DEF ClientStart, serverVars, channelVars
  <2>2. ASSUME NEW n \in Nat, NEW d, FromClient(n, d)
        PROVE  FromClient(n, d)'
    BY <1>1, <2>2 DEF ClientStart, FromClient
  <2>3. ReplyInHand'
    BY <2>1, <2>2 DEF AgreementInv, ReplyInHand, Hello
  <2>4. \A i \in 1..Len(c2s') :
          FromClient(c2s[i].client_nonce, c2s[i].trust_domain)'
    <3> SUFFICES ASSUME NEW i \in 1..Len(c2s)
                 PROVE  FromClient(c2s[i].client_nonce, c2s[i].trust_domain)'
      BY <2>1
    <3>1. c2s[i] \in Hello
      OBVIOUS
    <3>2. c2s[i].client_nonce \in Nat
      BY <3>1 DEF Hello
    <3> QED
      BY <1>1, <2>1, <3>2 DEF AgreementInv, FromClient, ClientStart
  <2>5. \A s \in serverSessions' : FromClient(s.client_nonce, s.remote)'
    BY <2>1, <2>2 DEF AgreementInv, Session, Token
  <2>6. Agreement' /\ \A i \in 1..Len(s2c') : Backed(s2c[i])'
    BY <2>1 DEF AgreementInv, Agreement, Abstract!Mirror, Backed
  <2> QED
    BY <1>1, <2>3, <2>4, <2>5, <2>6 DEF ClientStart, AgreementInv
<1>2. CASE ClientSend
  <2>1. UNCHANGED <<clientCounter, ccfg, cnonce, s2c, spc, scfg, shello, sack,
                    serverSessions, clientSessions>>
    BY <1>2 DEF ClientSend, serverVars
  <2>2. \A i \in 1..Len(c2s') :
          FromClient(c2s[i].client_nonce, c2s[i].trust_domain)'
    BY <1>2, <2>1 DEF AgreementInv, ClientSend, Sent, FromClient
  <2>3. ReplyInHand' /\ Agreement' /\ \A i \in 1..Len(s2c') : Backed(s2c[i])'
    BY <2>1 DEF AgreementInv, ReplyInHand, FromClient, Agreement,
                Abstract!Mirror, Backed
  <2> QED
    BY <2>1, <2>2, <2>3 DEF AgreementInv, FromClient
<1>3. CASE ClientSendFails \/ ClientReceiveFails \/ ClientCancel
  BY <1>3, FramesDropped
  DEF ClientSendFails, ClientReceiveFails, ClientCancel, ClientFails,
      serverVars, channelVars
<1>4. CASE ClientReceive
  <2>1. UNCHANGED <<clientCounter, ccfg, cnonce, c2s, spc, scfg, shello, sack,
                    serverSessions>>
    BY <1>4 DEF ClientReceive, serverVars
  <2> DEFINE ack == Head(s2c)
  <2>2. ack \in HelloAck /\ Backed(ack)
    BY <1>4, TailElements DEF ClientReceive, AgreementInv
  <2>3. Agreement'
    <3>1. CASE AckVerdict(ccfg, cnonce, ack) = Accepted
      <4>1. /\ ack.version = ccfg.version /\ ack.rejection_code = 0
            /\ ack.client_nonce = cnonce
        BY <2>2, <3>1, AckVerdictType
      <4>2. PICK s \in serverSessions :
              /\ s.client_nonce = cnonce
              /\ s.server_nonce = ack.server_nonce
              /\ s.session_id   = ack.session_id
              /\ s.local        = ack.trust_domain
              /\ s.version      = ccfg.version
        BY <2>2, <4>1 DEF Backed
      <4>3. s.remote = ccfg.local
        BY <4>2 DEF AgreementInv, FromClient
      <4>4. Abstract!Mirror(ClientSession(ccfg, cnonce, ack), s)
        BY <4>2, <4>3 DEF Abstract!Mirror, ClientSession
      <4> QED
        BY <1>4, <2>1, <3>1, <4>4
        DEF ClientReceive, AgreementInv, Agreement, Abstract!Mirror
    <3>2. CASE AckVerdict(ccfg, cnonce, ack) # Accepted
      BY <1>4, <2>1, <3>2
      DEF ClientReceive, AgreementInv, Agreement, Abstract!Mirror
    <3> QED
      BY <3>1, <3>2
  <2>4. \A i \in 1..Len(s2c') : Backed(s2c[i])'
    <3> SUFFICES ASSUME NEW i \in 1..Len(s2c') PROVE Backed(s2c[i])'
      OBVIOUS
    <3>1. PICK j \in 1..Len(s2c) : s2c'[i] = s2c[j]
      BY <1>4, TailElements DEF ClientReceive
    <3>2. Backed(s2c[j])
      BY DEF AgreementInv
    <3> QED
      BY <2>1, <3>1, <3>2 DEF Backed
  <2> QED
    BY <2>1, <2>3, <2>4 DEF AgreementInv, ReplyInHand, FromClient
<1>5. ASSUME NEW cfg \in ServerConfig, ServerReceive(cfg) PROVE AgreementInv'
  <2>1. UNCHANGED <<clientCounter, ccfg, cnonce, s2c, serverSessions,
                    clientSessions>>
    BY <1>5 DEF ServerReceive, clientVars
  <2>2. FromClient(Head(c2s).client_nonce, Head(c2s).trust_domain)
    BY <1>5, TailElements DEF ServerReceive, AgreementInv
  <2>3. ReplyInHand'
    BY <1>5, <2>1, <2>2 DEF ServerReceive, ReplyInHand, ReplyTo, FromClient
  <2>4. \A i \in 1..Len(c2s') :
          FromClient(c2s[i].client_nonce, c2s[i].trust_domain)'
    <3>1. \A i \in 1..Len(c2s') : \E j \in 1..Len(c2s) : c2s'[i] = c2s[j]
      BY <1>5, TailElements DEF ServerReceive
    <3> QED
      BY <2>1, <3>1 DEF AgreementInv, FromClient
  <2>5. Agreement' /\ \A i \in 1..Len(s2c') : Backed(s2c[i])'
    BY <2>1 DEF AgreementInv, Agreement, Abstract!Mirror, Backed
  <2> QED
    BY <2>1, <2>3, <2>4, <2>5 DEF AgreementInv, FromClient
<1>6. CASE ServerReply
  <2>1. UNCHANGED <<clientCounter, ccfg, cnonce, c2s, clientSessions>>
    BY <1>6 DEF ServerReply, clientVars
  <2>2. serverSessions \subseteq serverSessions'
    BY <1>6 DEF ServerReply
  <2>3. \A s \in serverSessions' : FromClient(s.client_nonce, s.remote)'
    BY <1>6, <2>1
    DEF ServerReply, AgreementInv, ReplyInHand, ServerSession, FromClient
  <2>4. ASSUME sack.rejection_code = 0 PROVE Backed(sack)'
    <3> DEFINE s == ServerSession(scfg, shello, sack)
    <3>1. s \in serverSessions' /\ sack' = sack
      BY <1>6, <2>4 DEF ServerReply
    <3>2. /\ s.client_nonce = sack.client_nonce
          /\ s.server_nonce = sack.server_nonce
          /\ s.session_id   = sack.session_id
          /\ s.local        = sack.trust_domain
          /\ s.version      = sack.version
      BY <1>6 DEF ServerReply, AgreementInv, ReplyInHand, ServerSession
    <3> QED
      BY <3>1, <3>2 DEF Backed
  <2>5. \A i \in 1..Len(s2c') : Backed(s2c[i])'
    <3> SUFFICES ASSUME NEW i \in 1..Len(s2c') PROVE Backed(s2c[i])'
      OBVIOUS
    <3>1. CASE s2c'[i] = sack
      BY <1>6, <2>4, <3>1, <2>2 DEF Backed, ServerReply
    <3>2. CASE \E j \in 1..Len(s2c) : s2c'[i] = s2c[j]
      <4>1. PICK j \in 1..Len(s2c) : s2c'[i] = s2c[j]
        BY <3>2
      <4>2. Backed(s2c[j])
        BY DEF AgreementInv
      <4> QED
        BY <2>2, <4>1, <4>2 DEF Backed
    <3> QED
      BY <1>6, <3>1, <3>2 DEF ServerReply, Sent
  <2>6. Agreement' /\ ReplyInHand'
    BY <1>6, <2>1, <2>2
    DEF ServerReply, AgreementInv, Agreement, Abstract!Mirror, ReplyInHand
  <2> QED
    BY <2>1, <2>3, <2>5, <2>6 DEF AgreementInv, FromClient
<1>7. CASE ServerGivesUp
  BY <1>7, FramesDropped DEF ServerGivesUp, clientVars, channelVars
<1>8. ASSUME NEW e \in Ends, Close(e) PROVE AgreementInv'
  <2>1. /\ Len(c2s') <= Len(c2s) /\ \A i \in 1..Len(c2s') : c2s'[i] = c2s[i]
        /\ Len(s2c') <= Len(s2c) /\ \A i \in 1..Len(s2c') : s2c'[i] = s2c[i]
        /\ c2s' \in Seq(Hello) /\ s2c' \in Seq(HelloAck)
    BY <1>8, TruncatedType DEF Close
  <2> QED
    BY <1>8, <2>1, FramesDropped DEF Close, clientVars, serverVars
<1>9. CASE ConnectionLost
  <2>1. /\ Len(c2s') <= Len(c2s) /\ \A i \in 1..Len(c2s') : c2s'[i] = c2s[i]
        /\ Len(s2c') <= Len(s2c) /\ \A i \in 1..Len(s2c') : s2c'[i] = s2c[i]
        /\ c2s' \in Seq(Hello) /\ s2c' \in Seq(HelloAck)
    BY <1>9, TruncatedType DEF ConnectionLost
  <2> QED
    BY <1>9, <2>1, FramesDropped DEF ConnectionLost, clientVars, serverVars
<1>10. CASE UNCHANGED vars
  BY <1>10, FramesDropped DEF vars, clientVars, serverVars, channelVars
<1> QED
  BY <1>1, <1>2, <1>3, <1>4, <1>5, <1>6, <1>7, <1>8, <1>9, <1>10 DEF Next

\* Whenever client_handshake has returned a session, server_handshake has
\* returned its mirror image, for any configurations, any number of retries
\* and any point at which calls are dropped or the connection is lost.
THEOREM SessionsAgree == Spec => []Agreement
<1>1. Init => TypeInv /\ AgreementInv
  BY InitTypes, InitAgreement
<1>2. TypeInv /\ AgreementInv /\ [Next]_vars => (TypeInv /\ AgreementInv)'
  BY StepTypes, StepAgreement
<1>3. AgreementInv => Agreement
  BY DEF AgreementInv
<1> QED
  BY <1>1, <1>2, <1>3, PTL DEF Spec

-----------------------------------------------------------------------------
(* The order of the nonces in flight                                       *)

\* Nonces of what is on its way: hellos, the one the server is answering, acks.
HelloNonce(i) == c2s[i].client_nonce
AckNonce(i) == s2c[i].client_nonce
Replying == spc = "replying"

\* A nonce the client has sent a hello with.
SentNonce(n) == n <= cnonce /\ (cpc = "sending" => n < cnonce)

\* A nonce of a call that is over.
PastNonce(n) == n <= cnonce /\ (cpc # "idle" => n < cnonce)

\* The stream of hellos, the server and the stream of acks form one queue in
\* the order of the calls.
InFlightOrder ==
  /\ \A i, j \in 1..Len(c2s) : i < j => HelloNonce(i) < HelloNonce(j)
  /\ \A i, j \in 1..Len(s2c) : i < j => AckNonce(i) < AckNonce(j)
  /\ \A i \in 1..Len(s2c), j \in 1..Len(c2s) : AckNonce(i) < HelloNonce(j)
  /\ Replying => /\ \A j \in 1..Len(c2s) : shello.client_nonce < HelloNonce(j)
                 /\ \A i \in 1..Len(s2c) : AckNonce(i) < shello.client_nonce

\* What is in flight was sent, and what the server decided on is out of the
\* stream of hellos.
FlightIsSent ==
  /\ \A j \in 1..Len(c2s) : SentNonce(HelloNonce(j))
  /\ Replying => SentNonce(shello.client_nonce)
  /\ \A i \in 1..Len(s2c) : SentNonce(AckNonce(i))
  /\ \A v \in verdict :
       /\ SentNonce(v.nonce)
       /\ \A j \in 1..Len(c2s) : v.nonce < HelloNonce(j)
       /\ Replying => v.nonce < shello.client_nonce

\* The results of calls are results of calls that are over.
CallsOver ==
  /\ \A o \in outcome : PastNonce(o.nonce)
  /\ \A c \in clientSessions : PastNonce(c.client_nonce)

OrderInv == InFlightOrder /\ FlightIsSent /\ CallsOver

-----------------------------------------------------------------------------
(* Cancelled calls                                                         *)

\* Why an ack of nonce n may be read: the call waits for it, or a call was
\* dropped no later than n.
Awaited(n) ==
  \/ cpc = "waiting" /\ n = cnonce
  \/ \E p \in outcome : p.code = "Cancelled" /\ p.nonce <= n

LateInv ==
  /\ alive => /\ \A j \in 1..Len(c2s) : Awaited(HelloNonce(j))
              /\ Replying => Awaited(shello.client_nonce)
  /\ \A i \in 1..Len(s2c) : Awaited(AckNonce(i))
  /\ StaleAckMeansCancelled

-----------------------------------------------------------------------------
(* Tokens                                                                  *)

\* The two tokens of an accepting ack were drawn one after the other.
Paired(ack) == ack.session_id = ack.server_nonce + 1

TokenInv ==
  /\ \A s \in serverSessions :
       /\ Paired(s)
       /\ s.session_id < serverCounter
       /\ \E v \in verdict : v.nonce = s.client_nonce
  /\ \A s, t \in serverSessions : s # t =>
       /\ s.client_nonce # t.client_nonce
       /\ s.session_id < t.server_nonce \/ t.session_id < s.server_nonce
  /\ Replying /\ sack.rejection_code = 0 =>
       /\ Paired(sack)
       /\ sack.session_id < serverCounter
       /\ \A s \in serverSessions : s.session_id < sack.server_nonce

-----------------------------------------------------------------------------
(* Verdicts                                                                *)

\* The hello of the current call.
ThisHello == [version |-> ccfg.version, trust_domain |-> ccfg.local,
              client_nonce |-> cnonce]

\* A hello in flight is the current call's if it has its nonce.
Genuine(hello) == hello.client_nonce = cnonce => hello = ThisHello

\* An ack says what a server of configuration cfg decided, and, if it answers
\* the current call's hello, what it decided about that.
Speaks(ack, cfg, code) ==
  /\ ack.version = cfg.version
  /\ ack.trust_domain = cfg.local
  /\ ack.rejection_code = RejectionCode(code)
  /\ ack.rejected_expected = RejectedExpected(cfg, code)
  /\ WellShaped(ack)
  /\ ack.client_nonce = cnonce => code = HelloVerdict(cfg, ThisHello)

VerdictInv ==
  /\ cpc # "idle" => ccfg.local # EmptyDomain
  /\ scfg.local # EmptyDomain \/ ~Replying
  /\ \A j \in 1..Len(c2s) : Genuine(c2s[j])
  /\ Replying => /\ Genuine(shello)
                 /\ sack.client_nonce = shello.client_nonce
                 /\ Speaks(sack, scfg, HelloVerdict(scfg, shello))
  /\ \A v \in verdict : v.cfg.local # EmptyDomain
  /\ \A i \in 1..Len(s2c) :
       \E v \in verdict : /\ v.nonce = AckNonce(i)
                          /\ Speaks(s2c[i], v.cfg, v.code)
  /\ VerdictStable
  /\ MutualExpectations
-----------------------------------------------------------------------------
(* Queues                                                                  *)

\* What a queue holds after a read, a write and a loss.
LEMMA QueueTail ==
  ASSUME NEW S, NEW q \in Seq(S), q # <<>>
  PROVE  /\ 1 \in 1..Len(q) /\ Head(q) = q[1]
         /\ \A i \in 1..Len(Tail(q)) : /\ i + 1 \in 1..Len(q)
                                       /\ Tail(q)[i] = q[i + 1]
  OBVIOUS

\* A frame sent comes last, if it comes at all.
LEMMA QueueSent ==
  ASSUME NEW S, NEW q \in Seq(S), NEW x \in S
  PROVE  \A i \in 1..Len(Sent(q, x)) :
           \/ i \in 1..Len(q) /\ Sent(q, x)[i] = q[i]
           \/ alive /\ i = Len(q) + 1 /\ Sent(q, x)[i] = x
  BY DEF Sent

\* What a loss leaves is where it was.
LEMMA QueueCut ==
  ASSUME NEW S, NEW q \in Seq(S), NEW r, Truncated(q, r)
  PROVE  \A i \in 1..Len(r) : i \in 1..Len(q) /\ r[i] = q[i]
<1>1. r \in Seq(S) /\ Len(r) <= Len(q) /\ \A i \in 1..Len(r) : r[i] = q[i]
  BY TruncatedType
<1> QED
  BY <1>1

\* The nonces and counters are numbers.
LEMMA NonceTypes ==
  ASSUME TypeInv
  PROVE  /\ \A j \in 1..Len(c2s) : HelloNonce(j) \in Nat
         /\ \A i \in 1..Len(s2c) : AckNonce(i) \in Nat
         /\ shello.client_nonce \in Nat
         /\ cnonce \in Nat /\ clientCounter \in Nat /\ serverCounter \in Nat
         /\ \A v \in verdict : v.nonce \in Nat
         /\ \A o \in outcome : o.nonce \in Nat /\ o.answers \in Nat
         /\ \A c \in clientSessions : c.client_nonce \in Nat
         /\ \A s \in serverSessions :
              /\ s.client_nonce \in Nat
              /\ s.server_nonce \in Nat /\ s.session_id \in Nat
         /\ sack.server_nonce \in Nat /\ sack.session_id \in Nat
         /\ cpc \in {"idle", "sending", "waiting"}
<1> USE DEF TypeInv, TypeOK
<1>1. \A j \in 1..Len(c2s) : HelloNonce(j) \in Nat
  <2>1. \A j \in 1..Len(c2s) : c2s[j] \in Hello
    OBVIOUS
  <2> QED
    BY <2>1 DEF Hello, HelloNonce
<1>2. \A i \in 1..Len(s2c) : AckNonce(i) \in Nat
  <2>1. \A i \in 1..Len(s2c) : s2c[i] \in HelloAck
    OBVIOUS
  <2> QED
    BY <2>1 DEF HelloAck, AckNonce
<1>3. /\ shello.client_nonce \in Nat
      /\ sack.server_nonce \in Nat /\ sack.session_id \in Nat
  BY DEF Hello, HelloAck
<1>4. /\ \A v \in verdict : v.nonce \in Nat
      /\ \A o \in outcome : o.nonce \in Nat /\ o.answers \in Nat
  BY DEF Verdict, Outcome
<1>5. /\ \A c \in clientSessions : c.client_nonce \in Nat
      /\ \A s \in serverSessions :
           /\ s.client_nonce \in Nat
           /\ s.server_nonce \in Nat /\ s.session_id \in Nat
  BY DEF Session, Token
<1> QED
  BY <1>1, <1>2, <1>3, <1>4, <1>5

-----------------------------------------------------------------------------
(* The order of the nonces in flight: proof                                *)

\* Nothing is in flight before the first call.
LEMMA InitOrder == Init => OrderInv
  BY DEF Init, OrderInv, InFlightOrder, FlightIsSent, CallsOver, Replying

\* A step that only takes frames off the queues, and does not move the calls,
\* keeps them in order.
LEMMA OrderKept ==
  ASSUME TypeInv, OrderInv,
         UNCHANGED <<cpc, cnonce, spc, shello, outcome, verdict,
                     clientSessions>>,
         \A i \in 1..Len(c2s') : i \in 1..Len(c2s) /\ c2s'[i] = c2s[i],
         \A i \in 1..Len(s2c') : i \in 1..Len(s2c) /\ s2c'[i] = s2c[i]
  PROVE  OrderInv'
<1>1. InFlightOrder'
  BY DEF OrderInv, InFlightOrder, HelloNonce, AckNonce, Replying
<1>2. FlightIsSent'
  BY DEF OrderInv, FlightIsSent, HelloNonce, AckNonce, Replying, SentNonce
<1>3. CallsOver'
  BY DEF OrderInv, CallsOver, PastNonce
<1> QED
  BY <1>1, <1>2, <1>3 DEF OrderInv

\* The end of a call that got nothing.
LEMMA OrderClientFails ==
  ASSUME TypeInv, OrderInv, cpc \in {"sending", "waiting"},
         NEW code, ClientFails(code, NoToken),
         UNCHANGED <<serverVars, channelVars>>
  PROVE  OrderInv'
<1>1. UNCHANGED <<cnonce, spc, shello, c2s, s2c, verdict, clientSessions>>
  BY DEF ClientFails, serverVars, channelVars
<1>2. cpc' = "idle"
  BY DEF ClientFails
<1>3. InFlightOrder'
  BY <1>1 DEF OrderInv, InFlightOrder, HelloNonce, AckNonce, Replying
<1>4. FlightIsSent'
  BY <1>1, <1>2
  DEF OrderInv, FlightIsSent, HelloNonce, AckNonce, Replying, SentNonce
<1>5. CallsOver'
  <2>1. \A c \in clientSessions : PastNonce(c.client_nonce)'
    BY <1>1, <1>2, NonceTypes DEF OrderInv, CallsOver, PastNonce
  <2>2. \A o \in outcome' : PastNonce(o.nonce)'
    BY <1>1, <1>2, NonceTypes DEF OrderInv, CallsOver, PastNonce, ClientFails
  <2> QED
    BY <1>1, <2>1, <2>2 DEF CallsOver
<1> QED
  BY <1>3, <1>4, <1>5 DEF OrderInv

\* Every step keeps the order of the nonces.
LEMMA StepOrder ==
  ASSUME TypeInv, AgreementInv, OrderInv, [Next]_vars
  PROVE  OrderInv'
<1>t. /\ c2s \in Seq(Hello) /\ s2c \in Seq(HelloAck)
      /\ shello \in Hello /\ sack \in HelloAck /\ Len(c2s) \in Nat
      /\ Len(s2c) \in Nat
  BY DEF TypeInv, TypeOK
<1>1. ASSUME NEW cfg \in ClientConfig, ClientStart(cfg) PROVE OrderInv'
  <2>1. UNCHANGED <<spc, shello, c2s, s2c, outcome, verdict, clientSessions>>
    BY <1>1 DEF ClientStart, serverVars, channelVars
  <2>2. cnonce < cnonce' /\ cpc = "idle" /\ cpc' = "sending"
    BY <1>1 DEF ClientStart, AgreementInv
  <2>3. \A n \in Nat : (SentNonce(n) => SentNonce(n)') /\ (PastNonce(n) => PastNonce(n)')
    BY <1>1, <2>2, NonceTypes DEF SentNonce, PastNonce, ClientStart
  <2>4. InFlightOrder'
    BY <2>1 DEF OrderInv, InFlightOrder, HelloNonce, AckNonce, Replying
  <2>5. FlightIsSent'
    <3>1. \A j \in 1..Len(c2s) : SentNonce(HelloNonce(j))'
      BY <2>1, <2>2, <1>1, NonceTypes DEF OrderInv, FlightIsSent, SentNonce, HelloNonce, ClientStart
    <3>2. \A i \in 1..Len(s2c) : SentNonce(AckNonce(i))'
      BY <2>1, <2>2, <1>1, NonceTypes DEF OrderInv, FlightIsSent, SentNonce, AckNonce, ClientStart
    <3>3. \A v \in verdict : SentNonce(v.nonce)'
      BY <2>1, <2>3, NonceTypes DEF OrderInv, FlightIsSent
    <3>4. Replying => SentNonce(shello.client_nonce)'
      BY <2>1, <2>2, <1>1, NonceTypes DEF OrderInv, FlightIsSent, SentNonce, ClientStart
    <3> QED
      BY <2>1, <3>1, <3>2, <3>3, <3>4
      DEF OrderInv, FlightIsSent, HelloNonce, AckNonce, Replying
  <2>6. CallsOver'
    BY <2>1, <2>3, NonceTypes DEF OrderInv, CallsOver
  <2> QED
    BY <2>4, <2>5, <2>6 DEF OrderInv
<1>2. CASE ClientSend
  <2>1. UNCHANGED <<cnonce, spc, shello, s2c, outcome, verdict, clientSessions>>
    BY <1>2 DEF ClientSend, serverVars
  <2>2. cpc = "sending" /\ cpc' = "waiting"
    BY <1>2 DEF ClientSend
  <2>3. \A j \in 1..Len(c2s') :
          \/ j \in 1..Len(c2s) /\ c2s'[j] = c2s[j]
          \/ j = Len(c2s) + 1 /\ c2s'[j].client_nonce = cnonce
    <3>1. ThisHello \in Hello
      BY DEF ThisHello, Hello, Config, TypeInv, TypeOK
    <3>2. c2s' = Sent(c2s, ThisHello) /\ ThisHello.client_nonce = cnonce
      BY <1>2 DEF ClientSend, ThisHello
    <3> HIDE DEF ThisHello
    <3> QED
      BY <1>t, <3>1, <3>2, QueueSent
  <2>4. InFlightOrder'
    <3>1. \A i, j \in 1..Len(c2s') : i < j => HelloNonce(i)' < HelloNonce(j)'
      <4>1. \A i \in 1..Len(c2s) : c2s[i].client_nonce < cnonce
        BY <2>2, NonceTypes DEF OrderInv, FlightIsSent, SentNonce, HelloNonce
      <4>2. \A i, j \in 1..Len(c2s) :
              i < j => c2s[i].client_nonce < c2s[j].client_nonce
        BY DEF OrderInv, InFlightOrder, HelloNonce
      <4> SUFFICES ASSUME NEW i \in 1..Len(c2s'), NEW j \in 1..Len(c2s'), i < j
                   PROVE  c2s'[i].client_nonce < c2s'[j].client_nonce
        BY DEF HelloNonce
      <4>3. i \in 1..Len(c2s) /\ c2s'[i] = c2s[i]
        BY <1>t, <2>3
      <4> QED
        BY <2>3, <4>1, <4>2, <4>3
    <3>2. \A i \in 1..Len(s2c), j \in 1..Len(c2s') : AckNonce(i)' < HelloNonce(j)'
      BY <2>1, <2>2, <2>3, NonceTypes
      DEF OrderInv, InFlightOrder, FlightIsSent, SentNonce, HelloNonce, AckNonce
    <3>3. Replying => \A j \in 1..Len(c2s') : shello.client_nonce < HelloNonce(j)'
      BY <2>1, <2>2, <2>3, NonceTypes
      DEF OrderInv, InFlightOrder, FlightIsSent, SentNonce, HelloNonce
    <3> QED
      BY <2>1, <3>1, <3>2, <3>3
      DEF OrderInv, InFlightOrder, AckNonce, Replying
  <2>5. FlightIsSent'
    <3>1. \A n \in Nat : SentNonce(n) => SentNonce(n)' /\ n < cnonce
      BY <2>1, <2>2 DEF SentNonce
    <3>2. \A j \in 1..Len(c2s') : SentNonce(HelloNonce(j))'
      BY <2>1, <2>2, <2>3, NonceTypes
      DEF OrderInv, FlightIsSent, SentNonce, HelloNonce
    <3>3. \A i \in 1..Len(s2c) : SentNonce(AckNonce(i))'
      BY <2>1, <2>2, NonceTypes DEF OrderInv, FlightIsSent, SentNonce, AckNonce
    <3>4. \A v \in verdict, j \in 1..Len(c2s') : v.nonce < HelloNonce(j)'
      BY <2>1, <2>2, <2>3, NonceTypes
      DEF OrderInv, FlightIsSent, SentNonce, HelloNonce
    <3>5. \A v \in verdict : SentNonce(v.nonce)'
      BY <2>1, <3>1, NonceTypes DEF OrderInv, FlightIsSent
    <3>6. Replying => SentNonce(shello.client_nonce)'
      BY <2>1, <2>2 DEF OrderInv, FlightIsSent, SentNonce
    <3> QED
      BY <2>1, <3>2, <3>3, <3>4, <3>5, <3>6 DEF OrderInv, FlightIsSent, Replying
  <2>6. CallsOver'
    BY <2>1, <2>2 DEF OrderInv, CallsOver, PastNonce
  <2> QED
    BY <2>4, <2>5, <2>6 DEF OrderInv
<1>3. CASE ClientSendFails \/ ClientReceiveFails \/ ClientCancel
  BY <1>3, OrderClientFails
  DEF ClientSendFails, ClientReceiveFails, ClientCancel
<1>4. CASE ClientReceive
  <2>1. UNCHANGED <<cnonce, spc, shello, c2s, verdict>>
    BY <1>4 DEF ClientReceive, serverVars
  <2>2. cpc = "waiting" /\ cpc' = "idle"
    BY <1>4 DEF ClientReceive
  <2>3. \A i \in 1..Len(s2c') : i + 1 \in 1..Len(s2c) /\ s2c'[i] = s2c[i + 1]
    BY <1>t, <1>4, QueueTail DEF ClientReceive
  <2>4. InFlightOrder'
    <3>1. \A i, j \in 1..Len(s2c') : i < j => AckNonce(i)' < AckNonce(j)'
      BY <2>3 DEF OrderInv, InFlightOrder, AckNonce
    <3> QED
      BY <2>1, <2>3, <3>1
      DEF OrderInv, InFlightOrder, HelloNonce, AckNonce, Replying
  <2>5. FlightIsSent'
    BY <2>1, <2>2, <2>3
    DEF OrderInv, FlightIsSent, HelloNonce, AckNonce, Replying, SentNonce
  <2>6. CallsOver'
    <3>1. \A o \in outcome' : o \in outcome \/ o.nonce = cnonce
      BY <1>4 DEF ClientReceive
    <3>2. \A c \in clientSessions' : c \in clientSessions \/ c.client_nonce = cnonce
      BY <1>4 DEF ClientReceive, ClientSession
    <3> QED
      BY <2>1, <2>2, <3>1, <3>2, NonceTypes DEF OrderInv, CallsOver, PastNonce
  <2> QED
    BY <2>4, <2>5, <2>6 DEF OrderInv
<1>5. ASSUME NEW cfg \in ServerConfig, ServerReceive(cfg) PROVE OrderInv'
  <2>1. UNCHANGED <<cpc, cnonce, s2c, outcome, verdict, clientSessions>>
    BY <1>5 DEF ServerReceive, clientVars
  <2>2. /\ 1 \in 1..Len(c2s) /\ shello' = c2s[1]
        /\ \A i \in 1..Len(c2s') : i + 1 \in 1..Len(c2s) /\ c2s'[i] = c2s[i + 1]
    BY <1>t, <1>5, QueueTail DEF ServerReceive
  <2>3. InFlightOrder'
    <3>1. \A i, j \in 1..Len(c2s') : i < j => HelloNonce(i)' < HelloNonce(j)'
      BY <2>2 DEF OrderInv, InFlightOrder, HelloNonce
    <3>2. \A j \in 1..Len(c2s') : shello'.client_nonce < HelloNonce(j)'
      BY <2>2 DEF OrderInv, InFlightOrder, HelloNonce
    <3> QED
      BY <2>1, <2>2, <3>1, <3>2
      DEF OrderInv, InFlightOrder, HelloNonce, AckNonce, Replying
  <2>4. FlightIsSent'
    BY <2>1, <2>2
    DEF OrderInv, FlightIsSent, HelloNonce, AckNonce, Replying, SentNonce
  <2>5. CallsOver'
    BY <2>1 DEF OrderInv, CallsOver, PastNonce
  <2> QED
    BY <2>3, <2>4, <2>5 DEF OrderInv
<1>6. CASE ServerReply
  <2>1. UNCHANGED <<cpc, cnonce, shello, c2s, outcome, clientSessions>>
    BY <1>6 DEF ServerReply, clientVars
  <2>2. Replying /\ spc' = "idle" /\ sack.client_nonce = shello.client_nonce
    BY <1>6 DEF ServerReply, AgreementInv, ReplyInHand, Replying
  <2>3. \A i \in 1..Len(s2c') :
          \/ i \in 1..Len(s2c) /\ s2c'[i] = s2c[i]
          \/ i = Len(s2c) + 1 /\ s2c'[i] = sack
    BY <1>t, <1>6, QueueSent DEF ServerReply
  <2>4. InFlightOrder'
    <3>1. \A i, j \in 1..Len(s2c') : i < j => AckNonce(i)' < AckNonce(j)'
      BY <1>t, <2>2, <2>3 DEF OrderInv, InFlightOrder, AckNonce
    <3>2. \A i \in 1..Len(s2c'), j \in 1..Len(c2s) : AckNonce(i)' < HelloNonce(j)'
      BY <2>1, <2>2, <2>3 DEF OrderInv, InFlightOrder, AckNonce, HelloNonce
    <3> QED
      BY <2>1, <2>2, <3>1, <3>2
      DEF OrderInv, InFlightOrder, HelloNonce, AckNonce, Replying
  <2>5. FlightIsSent'
    <3>1. \A v \in verdict' : v \in verdict \/ v.nonce = shello.client_nonce
      BY <1>6 DEF ServerReply
    <3>2. \A i \in 1..Len(s2c') : SentNonce(AckNonce(i))'
      BY <2>1, <2>2, <2>3 DEF OrderInv, FlightIsSent, AckNonce, SentNonce
    <3>3. \A v \in verdict' :
            SentNonce(v.nonce)' /\ \A j \in 1..Len(c2s) : v.nonce < HelloNonce(j)'
      BY <2>1, <2>2, <3>1
      DEF OrderInv, FlightIsSent, InFlightOrder, HelloNonce, SentNonce
    <3> QED
      BY <2>1, <2>2, <3>2, <3>3
      DEF OrderInv, FlightIsSent, HelloNonce, Replying, SentNonce
  <2>6. CallsOver'
    BY <2>1 DEF OrderInv, CallsOver, PastNonce
  <2> QED
    BY <2>4, <2>5, <2>6 DEF OrderInv
<1>7. CASE ServerGivesUp
  <2>1. UNCHANGED <<cpc, cnonce, shello, c2s, s2c, outcome, clientSessions>>
    BY <1>7 DEF ServerGivesUp, clientVars, channelVars
  <2>2. /\ Replying /\ spc' = "idle"
        /\ \A v \in verdict' : v \in verdict \/ v.nonce = shello.client_nonce
    BY <1>7 DEF ServerGivesUp, Replying
  <2>3. InFlightOrder'
    BY <2>1, <2>2 DEF OrderInv, InFlightOrder, HelloNonce, AckNonce, Replying
  <2>4. FlightIsSent'
    BY <2>1, <2>2
    DEF OrderInv, FlightIsSent, InFlightOrder, HelloNonce, AckNonce, Replying,
        SentNonce
  <2>5. CallsOver'
    BY <2>1 DEF OrderInv, CallsOver, PastNonce
  <2> QED
    BY <2>3, <2>4, <2>5 DEF OrderInv
<1>8. CASE ConnectionLost \/ \E e \in Ends : Close(e)
  BY <1>t, <1>8, QueueCut, OrderKept
  DEF ConnectionLost, Close, clientVars, serverVars
<1>9. CASE UNCHANGED vars
  BY <1>9, OrderKept DEF vars, clientVars, serverVars, channelVars
<1> QED
  BY <1>1, <1>2, <1>3, <1>4, <1>5, <1>6, <1>7, <1>8, <1>9 DEF Next

-----------------------------------------------------------------------------
(* Cancelled calls: proof                                                  *)

\* No ack is late before the first call.
LEMMA InitLate == Init => LateInv
  BY DEF Init, LateInv, StaleAckMeansCancelled, Replying

\* What was cancelled stays cancelled.
LEMMA AwaitedKept ==
  ASSUME NEW n, Awaited(n), cnonce' = cnonce,
         cpc = "waiting" => cpc' = "waiting", outcome \subseteq outcome'
  PROVE  Awaited(n)'
  BY DEF Awaited

\* A step that leaves the calls alone and puts nothing new on the queues.
LEMMA LateKept ==
  ASSUME LateInv, UNCHANGED <<cpc, cnonce, outcome>>,
         alive' => alive,
         \A j \in 1..Len(c2s') : \E k \in 1..Len(c2s) : c2s'[j] = c2s[k],
         \A j \in 1..Len(s2c') : \E k \in 1..Len(s2c) : s2c'[j] = s2c[k],
         Replying' => \/ Replying /\ shello' = shello
                      \/ \E k \in 1..Len(c2s) : shello' = c2s[k]
  PROVE  LateInv'
<1>1. \A n : Awaited(n) => Awaited(n)'
  BY DEF Awaited
<1>2. alive' => \A j \in 1..Len(c2s') : Awaited(HelloNonce(j))'
  BY <1>1 DEF LateInv, HelloNonce, Awaited
<1>3. alive' /\ Replying' => Awaited(shello.client_nonce)'
  BY <1>1 DEF LateInv, HelloNonce, Awaited
<1>4. \A i \in 1..Len(s2c') : Awaited(AckNonce(i))'
  BY <1>1 DEF LateInv, AckNonce, Awaited
<1>5. StaleAckMeansCancelled'
  BY DEF LateInv, StaleAckMeansCancelled
<1> QED
  BY <1>2, <1>3, <1>4, <1>5 DEF LateInv

\* What is in flight is awaited by the call in progress or excused by a
\* cancelled one; a step that excuses all of it keeps the invariant.
LEMMA LateExcused ==
  ASSUME LateInv, UNCHANGED <<c2s, s2c, spc, shello, alive>>,
         StaleAckMeansCancelled',
         \A j \in 1..Len(c2s) : alive /\ Awaited(HelloNonce(j)) => Awaited(HelloNonce(j))',
         \A i \in 1..Len(s2c) : Awaited(AckNonce(i)) => Awaited(AckNonce(i))',
         alive /\ Replying /\ Awaited(shello.client_nonce) => Awaited(shello.client_nonce)'
  PROVE  LateInv'
  BY DEF LateInv, HelloNonce, AckNonce, Replying

\* Every step keeps each late ack explained by a call that was dropped.
LEMMA StepLate ==
  ASSUME TypeInv, AgreementInv, OrderInv, LateInv, [Next]_vars
  PROVE  LateInv'
<1>t. /\ c2s \in Seq(Hello) /\ s2c \in Seq(HelloAck)
      /\ shello \in Hello /\ sack \in HelloAck
  BY DEF TypeInv, TypeOK
<1>o. /\ \A j \in 1..Len(c2s) : SentNonce(HelloNonce(j))
      /\ Replying => SentNonce(shello.client_nonce)
      /\ \A i \in 1..Len(s2c) : SentNonce(AckNonce(i))
  BY DEF OrderInv, FlightIsSent
<1>1. ASSUME NEW cfg \in ClientConfig, ClientStart(cfg) PROVE LateInv'
  <2>1. UNCHANGED <<spc, shello, c2s, s2c, alive, outcome>> /\ cpc = "idle"
    BY <1>1 DEF ClientStart, serverVars, channelVars
  <2>2. \A n : Awaited(n) => \E p \in outcome : p.code = "Cancelled" /\ p.nonce <= n
    BY <2>1 DEF Awaited
  <2>3. StaleAckMeansCancelled'
    BY <2>1 DEF LateInv, StaleAckMeansCancelled
  <2>4. /\ \A j \in 1..Len(c2s) : Awaited(HelloNonce(j)) => Awaited(HelloNonce(j))'
        /\ \A i \in 1..Len(s2c) : Awaited(AckNonce(i)) => Awaited(AckNonce(i))'
        /\ Awaited(shello.client_nonce) => Awaited(shello.client_nonce)'
    BY <2>1, <2>2 DEF Awaited, HelloNonce, AckNonce
  <2> QED
    BY <2>1, <2>3, <2>4, LateExcused
<1>2. CASE ClientSend
  <2>1. /\ UNCHANGED <<cnonce, spc, shello, s2c, outcome, alive>>
        /\ cpc = "sending" /\ cpc' = "waiting"
    BY <1>2 DEF ClientSend, serverVars
  <2>2. \A n : Awaited(n) => \E p \in outcome : p.code = "Cancelled" /\ p.nonce <= n
    BY <2>1 DEF Awaited
  <2>3. \A n : Awaited(n) => Awaited(n)'
    BY <2>1, <2>2 DEF Awaited
  <2>4. \A j \in 1..Len(c2s') :
          \/ j \in 1..Len(c2s) /\ c2s'[j] = c2s[j]
          \/ j = Len(c2s) + 1 /\ c2s'[j].client_nonce = cnonce
    <3>1. ThisHello \in Hello
      BY DEF ThisHello, Hello, Config, TypeInv, TypeOK
    <3>2. c2s' = Sent(c2s, ThisHello) /\ ThisHello.client_nonce = cnonce
      BY <1>2 DEF ClientSend, ThisHello
    <3> HIDE DEF ThisHello
    <3> QED
      BY <1>t, <3>1, <3>2, QueueSent
  <2>5. alive' => \A j \in 1..Len(c2s') : Awaited(HelloNonce(j))'
    <3> SUFFICES ASSUME alive, NEW j \in 1..Len(c2s') PROVE Awaited(HelloNonce(j))'
      BY <2>1
    <3>1. CASE j \in 1..Len(c2s) /\ c2s'[j] = c2s[j]
      <4>1. Awaited(HelloNonce(j))
        BY <3>1 DEF LateInv
      <4> QED
        BY <2>1, <3>1, <4>1 DEF Awaited, HelloNonce
    <3>2. CASE c2s'[j].client_nonce = cnonce
      BY <2>1, <3>2 DEF Awaited, HelloNonce
    <3> QED
      BY <2>4, <3>1, <3>2
  <2>6. \A i \in 1..Len(s2c') : Awaited(AckNonce(i))'
    BY <2>1 DEF LateInv, Awaited, AckNonce
  <2>7. alive' /\ Replying' => Awaited(shello.client_nonce)'
    BY <2>1 DEF LateInv, Awaited, Replying
  <2>8. StaleAckMeansCancelled'
    BY <2>1 DEF LateInv, StaleAckMeansCancelled
  <2> QED
    BY <2>5, <2>6, <2>7, <2>8 DEF LateInv
<1>3. CASE ClientCancel
  <2>1. UNCHANGED <<cnonce, spc, shello, c2s, s2c, alive>>
    BY <1>3 DEF ClientCancel, ClientFails, serverVars, channelVars
  <2>2. /\ outcome \subseteq outcome'
        /\ \E p \in outcome' : p.code = "Cancelled" /\ p.nonce = cnonce
    <3> DEFINE p == [nonce |-> cnonce, answers |-> NoToken, cfg |-> ccfg,
                     code |-> "Cancelled"]
    <3>1. outcome' = outcome \cup {p}
      BY <1>3 DEF ClientCancel, ClientFails
    <3>2. p.code = "Cancelled" /\ p.nonce = cnonce
      OBVIOUS
    <3> HIDE DEF p
    <3> QED
      BY <3>1, <3>2
  <2>4. StaleAckMeansCancelled'
    <3>1. \A o \in outcome' : o \in outcome \/ o.answers = NoToken
      BY <1>3 DEF ClientCancel, ClientFails
    <3> QED
      BY <2>2, <3>1 DEF LateInv, StaleAckMeansCancelled
  <2>5. /\ \A j \in 1..Len(c2s) : Awaited(HelloNonce(j)) => Awaited(HelloNonce(j))'
        /\ \A i \in 1..Len(s2c) : Awaited(AckNonce(i)) => Awaited(AckNonce(i))'
        /\ Awaited(shello.client_nonce) => Awaited(shello.client_nonce)'
    BY <2>1, <2>2, NonceTypes DEF Awaited, HelloNonce, AckNonce
  <2> QED
    BY <2>1, <2>4, <2>5, LateExcused
<1>4. CASE ClientSendFails \/ ClientReceiveFails
  <2>1. UNCHANGED <<cnonce, spc, shello, c2s, s2c, alive>> /\ ~alive
    BY <1>4 DEF ClientSendFails, ClientReceiveFails, ClientFails, serverVars,
                channelVars
  <2>2. outcome \subseteq outcome' /\ (cpc = "sending" \/ s2c = <<>>)
    BY <1>4 DEF ClientSendFails, ClientReceiveFails, ClientFails
  <2>3. StaleAckMeansCancelled'
    <3>1. \A o \in outcome' : o \in outcome \/ o.answers = NoToken
      BY <1>4 DEF ClientSendFails, ClientReceiveFails, ClientFails
    <3> QED
      BY <2>2, <3>1 DEF LateInv, StaleAckMeansCancelled
  <2>4. \A i \in 1..Len(s2c) : Awaited(AckNonce(i)) => Awaited(AckNonce(i))'
    BY <2>1, <2>2 DEF Awaited, AckNonce
  <2> QED
    BY <2>1, <2>3, <2>4, LateExcused
<1>5. CASE ClientReceive
  <2>1. UNCHANGED <<cnonce, spc, shello, c2s, alive>> /\ cpc = "waiting"
    BY <1>5 DEF ClientReceive, serverVars
  <2>2. /\ 1 \in 1..Len(s2c) /\ Head(s2c) = s2c[1]
        /\ \A i \in 1..Len(s2c') : i + 1 \in 1..Len(s2c) /\ s2c'[i] = s2c[i + 1]
    BY <1>t, <1>5, QueueTail DEF ClientReceive
  <2>3. outcome \subseteq outcome'
    BY <1>5 DEF ClientReceive
  <2>4. Awaited(AckNonce(1)) /\ AckNonce(1) \in Nat
    BY <2>2, NonceTypes DEF LateInv
  <2>5. ASSUME NEW n \in Nat, AckNonce(1) < n, n <= cnonce, Awaited(n)
        PROVE  Awaited(n)'
    <3>1. \E p \in outcome : p.code = "Cancelled" /\ p.nonce <= n
      BY <2>4, <2>5, NonceTypes DEF Awaited
    <3> QED
      BY <2>3, <3>1 DEF Awaited
  <2>6. alive' => \A j \in 1..Len(c2s') : Awaited(HelloNonce(j))'
    <3> SUFFICES ASSUME alive, NEW j \in 1..Len(c2s) PROVE Awaited(HelloNonce(j))'
      BY <2>1
    <3>1. /\ Awaited(HelloNonce(j)) /\ AckNonce(1) < HelloNonce(j)
          /\ HelloNonce(j) \in Nat /\ HelloNonce(j) <= cnonce
      BY <1>o, <2>2, NonceTypes
      DEF LateInv, OrderInv, InFlightOrder, SentNonce
    <3>2. \E p \in outcome : p.code = "Cancelled" /\ p.nonce <= HelloNonce(j)
      BY <2>4, <3>1, NonceTypes DEF Awaited
    <3> QED
      BY <2>1, <2>3, <3>2 DEF Awaited, HelloNonce
  <2>7. alive' /\ Replying' => Awaited(shello.client_nonce)'
    <3> SUFFICES ASSUME alive, Replying PROVE Awaited(shello.client_nonce)'
      BY <2>1 DEF Replying
    <3>1. /\ Awaited(shello.client_nonce) /\ AckNonce(1) < shello.client_nonce
          /\ shello.client_nonce \in Nat /\ shello.client_nonce <= cnonce
      BY <1>o, <2>2, NonceTypes
      DEF LateInv, OrderInv, InFlightOrder, SentNonce
    <3>2. \E p \in outcome : p.code = "Cancelled" /\ p.nonce <= shello.client_nonce
      BY <2>4, <3>1, NonceTypes DEF Awaited
    <3> QED
      BY <2>1, <2>3, <3>2 DEF Awaited
  <2>8. \A i \in 1..Len(s2c') : Awaited(AckNonce(i))'
    <3> SUFFICES ASSUME NEW i \in 1..Len(s2c') PROVE Awaited(AckNonce(i))'
      OBVIOUS
    <3>1. i + 1 \in 1..Len(s2c) /\ s2c'[i] = s2c[i + 1] /\ 1 < i + 1
      BY <2>2
    <3>2. /\ Awaited(AckNonce(i + 1)) /\ AckNonce(1) < AckNonce(i + 1)
          /\ AckNonce(i + 1) \in Nat /\ AckNonce(i + 1) <= cnonce
      BY <1>o, <2>2, <3>1, NonceTypes
      DEF LateInv, OrderInv, InFlightOrder, SentNonce
    <3>3. \E p \in outcome : p.code = "Cancelled" /\ p.nonce <= AckNonce(i + 1)
      BY <2>4, <3>2, NonceTypes DEF Awaited
    <3> QED
      BY <2>3, <3>1, <3>3 DEF Awaited, AckNonce
  <2>9. StaleAckMeansCancelled'
    <3>1. \A o \in outcome' :
            o \in outcome \/ (o.nonce = cnonce /\ o.answers = AckNonce(1))
      BY <1>5, <2>2 DEF ClientReceive, AckNonce
    <3>2. AckNonce(1) = cnonce \/
            \E p \in outcome : p.code = "Cancelled" /\ p.nonce <= AckNonce(1)
      BY <2>4 DEF Awaited
    <3> QED
      BY <2>3, <3>1, <3>2 DEF LateInv, StaleAckMeansCancelled
  <2> QED
    BY <2>6, <2>7, <2>8, <2>9 DEF LateInv
<1>6. ASSUME NEW cfg \in ServerConfig, ServerReceive(cfg) PROVE LateInv'
  <2>1. UNCHANGED <<cpc, cnonce, s2c, outcome, alive>>
    BY <1>6 DEF ServerReceive, clientVars
  <2>2. /\ \E k \in 1..Len(c2s) : shello' = c2s[k]
        /\ \A j \in 1..Len(c2s') : \E k \in 1..Len(c2s) : c2s'[j] = c2s[k]
    BY <1>t, <1>6, QueueTail DEF ServerReceive
  <2> QED
    BY <2>1, <2>2, LateKept
<1>7. CASE ServerReply
  <2>1. /\ UNCHANGED <<cpc, cnonce, shello, c2s, outcome, alive>>
        /\ Replying /\ ~Replying'
        /\ sack.client_nonce = shello.client_nonce
    BY <1>7 DEF ServerReply, clientVars, Replying, AgreementInv, ReplyInHand
  <2>2. \A i \in 1..Len(s2c') :
          \/ i \in 1..Len(s2c) /\ s2c'[i] = s2c[i]
          \/ alive /\ s2c'[i] = sack
    BY <1>t, <1>7, QueueSent DEF ServerReply
  <2>3. \A i \in 1..Len(s2c') : Awaited(AckNonce(i))'
    <3> SUFFICES ASSUME NEW i \in 1..Len(s2c') PROVE Awaited(AckNonce(i))'
      OBVIOUS
    <3>1. CASE i \in 1..Len(s2c) /\ s2c'[i] = s2c[i]
      BY <2>1, <3>1 DEF LateInv, Awaited, AckNonce
    <3>2. CASE alive /\ s2c'[i] = sack
      BY <2>1, <3>2 DEF LateInv, Awaited, AckNonce
    <3> QED
      BY <2>2, <3>1, <3>2
  <2>4. alive' => \A j \in 1..Len(c2s') : Awaited(HelloNonce(j))'
    BY <2>1 DEF LateInv, Awaited, HelloNonce
  <2>5. StaleAckMeansCancelled'
    BY <2>1 DEF LateInv, StaleAckMeansCancelled
  <2> QED
    BY <2>1, <2>3, <2>4, <2>5 DEF LateInv
<1>8. CASE ServerGivesUp
  <2>1. UNCHANGED <<cpc, cnonce, c2s, s2c, outcome, alive>> /\ ~Replying'
    BY <1>8 DEF ServerGivesUp, clientVars, channelVars, Replying
  <2> QED
    BY <2>1, LateKept
<1>9. CASE ConnectionLost \/ \E e \in Ends : Close(e)
  <2>1. UNCHANGED <<cpc, cnonce, outcome, spc, shello>> /\ ~alive'
    BY <1>9 DEF ConnectionLost, Close, clientVars, serverVars
  <2>2. /\ \A i \in 1..Len(c2s') : i \in 1..Len(c2s) /\ c2s'[i] = c2s[i]
        /\ \A i \in 1..Len(s2c') : i \in 1..Len(s2c) /\ s2c'[i] = s2c[i]
    BY <1>t, <1>9, QueueCut DEF ConnectionLost, Close
  <2> QED
    BY <2>1, <2>2, LateKept DEF Replying
<1>10. CASE UNCHANGED vars
  BY <1>10, LateKept DEF vars, clientVars, serverVars, channelVars, Replying
<1> QED
  BY <1>1, <1>2, <1>3, <1>4, <1>5, <1>6, <1>7, <1>8, <1>9, <1>10 DEF Next

-----------------------------------------------------------------------------
(* Tokens: proof                                                           *)

\* No token is spent before the first call.
LEMMA InitTokens == Init => TokenInv
  BY DEF Init, TokenInv, Replying

\* A step that draws no token and offers no session.
LEMMA TokensKept ==
  ASSUME TokenInv, UNCHANGED <<serverCounter, sack, serverSessions>>,
         verdict \subseteq verdict', Replying' => Replying
  PROVE  TokenInv'
  BY DEF TokenInv, Paired

\* The tokens of a reply are the next two of the counter.
LEMMA TokensOfReply ==
  ASSUME NEW cfg, NEW hello, NEW token \in Nat,
         ReplyTo(cfg, hello, token).rejection_code = 0
  PROVE  /\ ReplyTo(cfg, hello, token).server_nonce = token
         /\ ReplyTo(cfg, hello, token).session_id = token + 1
         /\ TokensDrawn(HelloVerdict(cfg, hello)) = 2
<1>1. HelloVerdict(cfg, hello) = Accepted
  BY VerdictCoded DEF ReplyTo
<1> QED
  BY <1>1 DEF ReplyTo, TokenField, TokensDrawn

\* Every step draws its tokens above all those spent.
LEMMA StepTokens ==
  ASSUME TypeInv, AgreementInv, OrderInv, TokenInv, [Next]_vars
  PROVE  TokenInv'
<1>1. CASE UNCHANGED serverVars
  BY <1>1, TokensKept DEF serverVars, Replying
<1>2. ASSUME NEW cfg \in ServerConfig, ServerReceive(cfg) PROVE TokenInv'
  <2>1. UNCHANGED <<serverSessions, verdict>>
    BY <1>2 DEF ServerReceive
  <2>2. /\ sack' = ReplyTo(cfg, Head(c2s), serverCounter)
        /\ serverCounter' = serverCounter + TokensDrawn(HelloVerdict(cfg, Head(c2s)))
    BY <1>2 DEF ServerReceive
  <2>3. serverCounter \in Nat /\ serverCounter' \in Nat /\ serverCounter <= serverCounter'
    BY <2>2, NonceTypes DEF TokensDrawn
  <2>4. ASSUME sack'.rejection_code = 0
        PROVE  /\ sack'.server_nonce = serverCounter
               /\ sack'.session_id = serverCounter + 1
               /\ serverCounter' = serverCounter + 2
    BY <2>2, <2>3, <2>4, TokensOfReply
  <2>5. \A s \in serverSessions' :
          /\ Paired(s)' /\ s.session_id < serverCounter'
          /\ \E v \in verdict' : v.nonce = s.client_nonce
    BY <2>1, <2>3, NonceTypes DEF TokenInv, Paired
  <2>6. \A s, t \in serverSessions' : s # t =>
          /\ s.client_nonce # t.client_nonce
          /\ s.session_id < t.server_nonce \/ t.session_id < s.server_nonce
    BY <2>1 DEF TokenInv
  <2>7. sack'.rejection_code = 0 =>
          /\ Paired(sack)'
          /\ sack'.session_id < serverCounter'
          /\ \A s \in serverSessions' : s.session_id < sack'.server_nonce
    BY <2>1, <2>3, <2>4, NonceTypes DEF TokenInv, Paired
  <2> QED
    BY <2>5, <2>6, <2>7 DEF TokenInv
<1>3. CASE ServerReply
  <2>1. UNCHANGED <<serverCounter, sack>> /\ Replying /\ ~Replying'
    BY <1>3 DEF ServerReply, Replying
  <2> DEFINE new == ServerSession(scfg, shello, sack)
  <2>2. /\ new.client_nonce = shello.client_nonce
        /\ new.server_nonce = sack.server_nonce
        /\ new.session_id = sack.session_id
    BY DEF ServerSession
  <2>3. serverSessions' = IF sack.rejection_code = 0
                            THEN serverSessions \cup {new} ELSE serverSessions
    BY <1>3 DEF ServerReply
  <2>4. /\ verdict \subseteq verdict'
        /\ \E v \in verdict' : v.nonce = shello.client_nonce
    <3> DEFINE v == [nonce |-> shello.client_nonce, cfg |-> scfg,
                     code |-> HelloVerdict(scfg, shello)]
    <3>1. verdict' = verdict \cup {v}
      BY <1>3 DEF ServerReply
    <3>2. v.nonce = shello.client_nonce
      OBVIOUS
    <3> HIDE DEF v
    <3> QED
      BY <3>1, <3>2
  <2> HIDE DEF new
  <2>5. CASE sack.rejection_code = 0
    <3>1. /\ Paired(sack) /\ sack.session_id < serverCounter
          /\ \A s \in serverSessions : s.session_id < sack.server_nonce
      BY <2>1, <2>5 DEF TokenInv
    <3>2. \A s \in serverSessions : s.client_nonce # shello.client_nonce
      <4>1. \A v \in verdict : v.nonce < shello.client_nonce
        BY <2>1 DEF OrderInv, FlightIsSent
      <4> QED
        BY <4>1, NonceTypes DEF TokenInv
    <3>3. \A s \in serverSessions' :
            /\ Paired(s)' /\ s.session_id < serverCounter'
            /\ \E v \in verdict' : v.nonce = s.client_nonce
      BY <2>1, <2>2, <2>3, <2>4, <2>5, <3>1 DEF TokenInv, Paired
    <3>4. \A s, t \in serverSessions' : s # t =>
            /\ s.client_nonce # t.client_nonce
            /\ s.session_id < t.server_nonce \/ t.session_id < s.server_nonce
      BY <2>2, <2>3, <2>5, <3>1, <3>2 DEF TokenInv
    <3> QED
      BY <2>1, <3>3, <3>4 DEF TokenInv
  <2>6. CASE sack.rejection_code # 0
    BY <2>1, <2>3, <2>4, <2>6, TokensKept
  <2> QED
    BY <2>5, <2>6
<1>4. CASE ServerGivesUp
  BY <1>4, TokensKept DEF ServerGivesUp, Replying
<1>5. CASE UNCHANGED vars
  BY <1>1, <1>5 DEF vars
<1> QED
  BY <1>1, <1>2, <1>3, <1>4, <1>5
  DEF Next, ClientStart, ClientSend, ClientSendFails, ClientReceive,
      ClientReceiveFails, ClientCancel, Close, ConnectionLost

-----------------------------------------------------------------------------
(* Verdicts: proof                                                         *)

\* Nothing is decided before the first call.
LEMMA InitVerdicts == Init => VerdictInv
  BY DEF Init, VerdictInv, VerdictStable, MutualExpectations, Replying

\* The numbers of the refusals tell them apart.
LEMMA CodesApart ==
  ASSUME NEW c \in {Accepted, "InvalidHandshakePayload",
                    "UnsupportedHandshakeVersion", "TrustDomainMismatch"}
  PROVE  /\ RejectionCode(c) = 0 <=> c = Accepted
         /\ RejectionCode(c) = TRUST_DOMAIN_MISMATCH_CODE <=> c = "TrustDomainMismatch"
<1>1. /\ ProtocolErrorCode["InvalidHandshakePayload"] = 779
      /\ ProtocolErrorCode["UnsupportedHandshakeVersion"] = 776
      /\ ProtocolErrorCode["TrustDomainMismatch"] = 777
  BY DEF ProtocolErrorCode
<1> QED
  BY <1>1 DEF RejectionCode, Accepted, TRUST_DOMAIN_MISMATCH_CODE

\* The reply to a hello speaks for the server's decision on it.
LEMMA ReplySpeaks ==
  ASSUME NEW cfg \in Config, NEW hello \in Hello, NEW token \in Token,
         Genuine(hello)
  PROVE  Speaks(ReplyTo(cfg, hello, token), cfg, HelloVerdict(cfg, hello))
<1> DEFINE ack == ReplyTo(cfg, hello, token)
           code == HelloVerdict(cfg, hello)
<1>1. /\ ack.version = cfg.version
      /\ ack.trust_domain = cfg.local
      /\ ack.client_nonce = hello.client_nonce
      /\ ack.rejection_code = RejectionCode(code)
      /\ ack.rejected_expected = RejectedExpected(cfg, code)
      /\ ack.server_nonce = TokenField(code, token)
      /\ ack.session_id = TokenField(code, token + 1)
  BY DEF ReplyTo
<1>2. WellShaped(ack)
  <2>1. /\ TokenField(Accepted, token) # NoToken
        /\ TokenField(Accepted, token + 1) # NoToken
        /\ code # Accepted => TokenField(code, token) = NoToken
        /\ code # Accepted => TokenField(code, token + 1) = NoToken
        /\ RejectedExpected(cfg, Accepted) = AnyDomain
    BY DEF TokenField, Token, NoToken, RejectedExpected, Accepted
  <2>2. code = Accepted <=> RejectionCode(code) = 0
    BY CodesApart DEF HelloVerdict
  <2> HIDE DEF ack, code
  <2> QED
    BY <1>1, <2>1, <2>2 DEF WellShaped
<1>3. ack.client_nonce = cnonce => code = HelloVerdict(cfg, ThisHello)
  BY <1>1 DEF Genuine
<1> HIDE DEF ack, code
<1>4. Speaks(ack, cfg, code)
  BY <1>1, <1>2, <1>3 DEF Speaks
<1> QED
  BY <1>4 DEF ack, code

\* What the client makes of the answer to its own hello: the server's reason,
\* or its own refusal of the server's domain.
LEMMA AnswerUnderstood ==
  ASSUME TypeInv, ccfg.local # EmptyDomain,
         NEW ack \in HelloAck, ack.client_nonce = cnonce,
         NEW cfg, NEW code, Speaks(ack, cfg, code), cfg.local # EmptyDomain
  PROVE  LET result == AckVerdict(ccfg, cnonce, ack)
         IN  /\ \/ code = result
                \/ /\ code = Accepted
                   /\ result = "TrustDomainMismatch"
                   /\ ccfg.expected \notin {AnyDomain, cfg.local}
             /\ result = Accepted =>
                  /\ code = Accepted
                  /\ cfg.expected \in {AnyDomain, ccfg.local}
                  /\ ccfg.expected \in {AnyDomain, cfg.local}
                  /\ cfg.version = ccfg.version
<1> DEFINE result == AckVerdict(ccfg, cnonce, ack)
<1>1. code = IF ccfg.version # cfg.version THEN "UnsupportedHandshakeVersion"
             ELSE IF cfg.expected \notin {AnyDomain, ccfg.local}
               THEN "TrustDomainMismatch"
             ELSE Accepted
  BY DEF Speaks, HelloVerdict, ThisHello, Admits
<1>2. result = IF cfg.version # ccfg.version THEN "UnsupportedHandshakeVersion"
               ELSE IF ccfg.expected \notin {AnyDomain, cfg.local}
                 THEN "TrustDomainMismatch"
               ELSE IF RejectionCode(code) # 0 THEN RejectionReported(ack)
               ELSE Accepted
  BY DEF Speaks, AckVerdict, Admits, Echoes
<1>3. code = "TrustDomainMismatch" =>
        /\ RejectionCode(code) # 0
        /\ RejectionReported(ack) = "TrustDomainMismatch"
  <2> SUFFICES ASSUME code = "TrustDomainMismatch"
               PROVE  /\ RejectionCode(code) # 0
                      /\ RejectionReported(ack) = "TrustDomainMismatch"
    OBVIOUS
  <2>1. ack.rejected_expected # AnyDomain
    BY <1>1 DEF Speaks, RejectedExpected, Accepted
  <2>2. /\ RejectionCode(code) # 0
        /\ ack.rejection_code = TRUST_DOMAIN_MISMATCH_CODE
    BY CodesApart DEF Speaks, Accepted
  <2> QED
    BY <2>1, <2>2 DEF RejectionReported
<1>4. RejectionCode(Accepted) = 0
  BY DEF RejectionCode
<1> HIDE DEF result
<1>5. /\ \/ code = result
         \/ /\ code = Accepted
            /\ result = "TrustDomainMismatch"
            /\ ccfg.expected \notin {AnyDomain, cfg.local}
      /\ result = Accepted =>
           /\ code = Accepted
           /\ cfg.expected \in {AnyDomain, ccfg.local}
           /\ ccfg.expected \in {AnyDomain, cfg.local}
           /\ cfg.version = ccfg.version
  BY <1>1, <1>2, <1>3, <1>4 DEF Accepted
<1> QED
  BY <1>5 DEF result

\* A step that starts no call and adds no result, and takes frames off the
\* queues only.
LEMMA VerdictsKept ==
  ASSUME VerdictInv, UNCHANGED <<ccfg, cnonce>>,
         cpc' # "idle" => cpc # "idle",
         Replying' => Replying /\ UNCHANGED <<scfg, shello, sack>>,
         verdict \subseteq verdict',
         \A v \in verdict' : v.cfg.local # EmptyDomain,
         \A j \in 1..Len(c2s') : \E k \in 1..Len(c2s) : c2s'[j] = c2s[k],
         \A j \in 1..Len(s2c') : \E k \in 1..Len(s2c) : s2c'[j] = s2c[k],
         VerdictStable', MutualExpectations'
  PROVE  VerdictInv'
<1>1. /\ cpc' # "idle" => ccfg'.local # EmptyDomain
      /\ scfg'.local # EmptyDomain \/ ~Replying'
  BY DEF VerdictInv
<1>2. \A j \in 1..Len(c2s') : Genuine(c2s[j])'
  BY DEF VerdictInv, Genuine, ThisHello
<1>3. Replying' => /\ Genuine(shello)'
                   /\ sack'.client_nonce = shello'.client_nonce
                   /\ Speaks(sack, scfg, HelloVerdict(scfg, shello))'
  BY DEF VerdictInv, Genuine, ThisHello, Speaks
<1>4. \A i \in 1..Len(s2c') :
        \E v \in verdict' : /\ v.nonce = AckNonce(i)'
                            /\ Speaks(s2c[i], v.cfg, v.code)'
  <2> SUFFICES ASSUME NEW i \in 1..Len(s2c')
               PROVE  \E v \in verdict' : /\ v.nonce = AckNonce(i)'
                                          /\ Speaks(s2c[i], v.cfg, v.code)'
    OBVIOUS
  <2>1. PICK k \in 1..Len(s2c) : s2c'[i] = s2c[k]
    OBVIOUS
  <2>2. PICK v \in verdict : v.nonce = AckNonce(k) /\ Speaks(s2c[k], v.cfg, v.code)
    BY DEF VerdictInv
  <2> QED
    BY <2>1, <2>2 DEF AckNonce, Speaks, ThisHello
<1> QED
  BY <1>1, <1>2, <1>3, <1>4 DEF VerdictInv

\* Decisions are only added, and results added that answer nothing keep the
\* two properties of results.
LEMMA ResultsKept ==
  ASSUME TypeInv, VerdictInv, verdict \subseteq verdict',
         \A o \in outcome' : \/ o \in outcome
                             \/ /\ o.answers = NoToken /\ o.nonce # NoToken
                                /\ o.code # Accepted
  PROVE  VerdictStable' /\ MutualExpectations'
  BY DEF VerdictInv, VerdictStable, MutualExpectations

\* Every step keeps the verdicts, the acks and the hellos in line.
LEMMA StepVerdicts ==
  ASSUME TypeInv, AgreementInv, OrderInv, VerdictInv, [Next]_vars
  PROVE  VerdictInv'
<1>t. /\ c2s \in Seq(Hello) /\ s2c \in Seq(HelloAck)
      /\ shello \in Hello /\ sack \in HelloAck
  BY DEF TypeInv, TypeOK
<1>1. ASSUME NEW cfg \in ClientConfig, ClientStart(cfg) PROVE VerdictInv'
  <2>1. UNCHANGED <<spc, scfg, shello, sack, c2s, s2c, verdict, outcome>>
    BY <1>1 DEF ClientStart, serverVars, channelVars
  <2>2. cnonce < cnonce' /\ cnonce' \in Nat /\ ccfg'.local # EmptyDomain
    BY <1>1, NonceTypes DEF ClientStart, AgreementInv
  <2>3. /\ \A j \in 1..Len(c2s) : c2s[j].client_nonce # cnonce'
        /\ Replying => shello.client_nonce # cnonce'
        /\ \A i \in 1..Len(s2c) : s2c[i].client_nonce # cnonce'
    BY <2>2, NonceTypes DEF OrderInv, FlightIsSent, SentNonce, HelloNonce, AckNonce
  <2>4. VerdictStable' /\ MutualExpectations'
    BY <2>1, ResultsKept
  <2>5. Replying' => /\ Genuine(shello)'
                     /\ sack'.client_nonce = shello'.client_nonce
                     /\ Speaks(sack, scfg, HelloVerdict(scfg, shello))'
    BY <2>1, <2>3 DEF VerdictInv, Genuine, Speaks, Replying
  <2>6. \A j \in 1..Len(c2s') : Genuine(c2s[j])'
    BY <2>1, <2>3 DEF Genuine
  <2>7. \A i \in 1..Len(s2c') :
          \E v \in verdict' : /\ v.nonce = AckNonce(i)'
                              /\ Speaks(s2c[i], v.cfg, v.code)'
    BY <2>1, <2>3 DEF VerdictInv, Speaks, AckNonce
  <2> QED
    BY <2>1, <2>2, <2>4, <2>5, <2>6, <2>7 DEF VerdictInv, Replying
<1>2. CASE ClientSend
  <2>1. /\ UNCHANGED <<ccfg, cnonce, spc, scfg, shello, sack, s2c, verdict, outcome>>
        /\ cpc = "sending"
    BY <1>2 DEF ClientSend, serverVars
  <2>2. \A j \in 1..Len(c2s') :
          \/ j \in 1..Len(c2s) /\ c2s'[j] = c2s[j]
          \/ c2s'[j] = ThisHello
    <3>1. ThisHello \in Hello
      BY DEF ThisHello, Hello, Config, TypeInv, TypeOK
    <3>2. c2s' = Sent(c2s, ThisHello)
      BY <1>2 DEF ClientSend, ThisHello
    <3> HIDE DEF ThisHello
    <3> QED
      BY <1>t, <3>1, <3>2, QueueSent
  <2>3. ThisHello' = ThisHello
    BY <2>1 DEF ThisHello
  <2>4. \A j \in 1..Len(c2s') : Genuine(c2s[j])'
    BY <2>1, <2>2, <2>3 DEF VerdictInv, Genuine
  <2>5. Replying' => /\ Genuine(shello)'
                     /\ sack'.client_nonce = shello'.client_nonce
                     /\ Speaks(sack, scfg, HelloVerdict(scfg, shello))'
    BY <2>1, <2>3 DEF VerdictInv, Genuine, Speaks, Replying
  <2>6. \A i \in 1..Len(s2c') :
          \E v \in verdict' : /\ v.nonce = AckNonce(i)'
                              /\ Speaks(s2c[i], v.cfg, v.code)'
    BY <2>1, <2>3 DEF VerdictInv, Speaks, AckNonce
  <2>7. VerdictStable' /\ MutualExpectations'
    BY <2>1, ResultsKept
  <2> QED
    BY <2>1, <2>4, <2>5, <2>6, <2>7 DEF VerdictInv, Replying
<1>3. CASE ClientSendFails \/ ClientReceiveFails \/ ClientCancel
  <2>1. /\ UNCHANGED <<ccfg, cnonce, spc, scfg, shello, sack, c2s, s2c, verdict>>
        /\ cpc # "idle" /\ cpc' = "idle"
    BY <1>3 DEF ClientSendFails, ClientReceiveFails, ClientCancel, ClientFails,
                serverVars, channelVars
  <2>2. \A o \in outcome' : o \in outcome \/
          (o.answers = NoToken /\ o.nonce = cnonce /\ o.code # Accepted)
    BY <1>3 DEF ClientSendFails, ClientReceiveFails, ClientCancel, ClientFails,
                Accepted
  <2>3. cnonce # NoToken
    BY <2>1 DEF TypeInv, CallsCarryTokens, Token
  <2>4. VerdictStable' /\ MutualExpectations'
    BY <2>1, <2>2, <2>3, ResultsKept
  <2> QED
    BY <2>1, <2>4, VerdictsKept DEF Replying, VerdictInv
<1>4. CASE ClientReceive
  <2>1. /\ UNCHANGED <<ccfg, cnonce, spc, scfg, shello, sack, c2s, verdict>>
        /\ cpc # "idle" /\ cpc' = "idle"
    BY <1>4 DEF ClientReceive, serverVars
  <2>2. /\ 1 \in 1..Len(s2c) /\ Head(s2c) = s2c[1] /\ s2c[1] \in HelloAck
        /\ \A i \in 1..Len(s2c') : i + 1 \in 1..Len(s2c) /\ s2c'[i] = s2c[i + 1]
    BY <1>t, <1>4, QueueTail DEF ClientReceive
  <2> DEFINE ack == s2c[1]
             o == [nonce |-> cnonce, answers |-> ack.client_nonce, cfg |-> ccfg,
                   code |-> AckVerdict(ccfg, cnonce, ack)]
  <2>3. outcome' = outcome \cup {o}
    BY <1>4, <2>2 DEF ClientReceive
  <2>4. PICK v \in verdict : v.nonce = ack.client_nonce /\ Speaks(ack, v.cfg, v.code)
    BY <2>2 DEF VerdictInv, AckNonce
  <2>5. ccfg.local # EmptyDomain /\ v.cfg.local # EmptyDomain
    BY <2>1 DEF VerdictInv
  <2>6. ASSUME ack.client_nonce = cnonce
        PROVE  /\ \/ v.code = o.code
                  \/ /\ v.code = Accepted
                     /\ o.code = "TrustDomainMismatch"
                     /\ ccfg.expected \notin {AnyDomain, v.cfg.local}
               /\ o.code = Accepted =>
                    /\ v.code = Accepted
                    /\ v.cfg.expected \in {AnyDomain, ccfg.local}
                    /\ ccfg.expected \in {AnyDomain, v.cfg.local}
                    /\ v.cfg.version = ccfg.version
    BY <2>2, <2>4, <2>5, <2>6, AnswerUnderstood
  <2>7. o.code = Accepted => ack.client_nonce = cnonce
    BY <2>2, NonceTypes, AckVerdictType DEF TypeInv, TypeOK
  <2>8. o.nonce = cnonce /\ o.answers = ack.client_nonce /\ o.cfg = ccfg
    OBVIOUS
  <2> HIDE DEF o, ack
  <2>9. VerdictStable'
    BY <2>1, <2>3, <2>4, <2>6, <2>8 DEF VerdictInv, VerdictStable
  <2>10. MutualExpectations'
    BY <2>1, <2>3, <2>4, <2>6, <2>7, <2>8 DEF VerdictInv, MutualExpectations
  <2>11. \A i \in 1..Len(s2c') : \E k \in 1..Len(s2c) : s2c'[i] = s2c[k]
    BY <2>2
  <2> QED
    BY <2>1, <2>9, <2>10, <2>11, VerdictsKept DEF Replying, VerdictInv
<1>5. ASSUME NEW cfg \in ServerConfig, ServerReceive(cfg) PROVE VerdictInv'
  <2>1. UNCHANGED <<cpc, ccfg, cnonce, s2c, verdict, outcome>>
    BY <1>5 DEF ServerReceive, clientVars
  <2>2. /\ shello' \in Hello /\ 1 \in 1..Len(c2s) /\ shello' = c2s[1]
        /\ \A i \in 1..Len(c2s') : i + 1 \in 1..Len(c2s) /\ c2s'[i] = c2s[i + 1]
    BY <1>t, <1>5, QueueTail DEF ServerReceive
  <2>3. /\ scfg' = cfg /\ cfg \in Config /\ cfg.local # EmptyDomain
        /\ sack' = ReplyTo(cfg, shello', serverCounter)
        /\ serverCounter \in Token
    BY <1>5, ConfigAssumption DEF ServerReceive, Token, NoToken, TypeInv, TypeOK
  <2>4. ThisHello' = ThisHello
    BY <2>1 DEF ThisHello
  <2>5. Genuine(shello') /\ Genuine(shello)'
    BY <2>1, <2>2, <2>4 DEF VerdictInv, Genuine
  <2>6. Speaks(sack', cfg, HelloVerdict(cfg, shello'))
    BY <2>2, <2>3, <2>5, ReplySpeaks
  <2>7. Speaks(sack, scfg, HelloVerdict(scfg, shello))'
    BY <2>1, <2>3, <2>4, <2>6 DEF Speaks
  <2>8. sack'.client_nonce = shello'.client_nonce
    BY <2>3 DEF ReplyTo
  <2>9. \A j \in 1..Len(c2s') : Genuine(c2s[j])'
    BY <2>1, <2>2, <2>4 DEF VerdictInv, Genuine
  <2>10. \A i \in 1..Len(s2c') :
          \E v \in verdict' : /\ v.nonce = AckNonce(i)'
                              /\ Speaks(s2c[i], v.cfg, v.code)'
    BY <2>1, <2>4 DEF VerdictInv, Speaks, AckNonce
  <2>11. VerdictStable' /\ MutualExpectations'
    BY <2>1, ResultsKept
  <2> QED
    BY <2>1, <2>3, <2>5, <2>7, <2>8, <2>9, <2>10, <2>11 DEF VerdictInv
<1>6. CASE ServerReply
  <2>1. /\ UNCHANGED <<cpc, ccfg, cnonce, scfg, shello, sack, c2s, outcome>>
        /\ Replying /\ ~Replying'
    BY <1>6 DEF ServerReply, clientVars, Replying
  <2> DEFINE v == [nonce |-> shello.client_nonce, cfg |-> scfg,
                   code |-> HelloVerdict(scfg, shello)]
  <2>2. verdict' = verdict \cup {v}
    BY <1>6 DEF ServerReply
  <2>3. /\ v.nonce = sack.client_nonce /\ Speaks(sack, v.cfg, v.code)
        /\ v.cfg.local # EmptyDomain
    BY <2>1 DEF VerdictInv
  <2> HIDE DEF v
  <2>4. ThisHello' = ThisHello
    BY <2>1 DEF ThisHello
  <2>5. \A i \in 1..Len(s2c') :
          \E w \in verdict' : /\ w.nonce = AckNonce(i)'
                              /\ Speaks(s2c[i], w.cfg, w.code)'
    <3> SUFFICES ASSUME NEW i \in 1..Len(s2c')
                 PROVE  \E w \in verdict' : /\ w.nonce = AckNonce(i)'
                                            /\ Speaks(s2c[i], w.cfg, w.code)'
      OBVIOUS
    <3>1. CASE i \in 1..Len(s2c) /\ s2c'[i] = s2c[i]
      BY <2>1, <2>2, <2>4, <3>1 DEF VerdictInv, Speaks, AckNonce
    <3>2. CASE s2c'[i] = sack
      BY <2>1, <2>2, <2>3, <2>4, <3>2 DEF Speaks, AckNonce
    <3> QED
      BY <1>t, <1>6, <3>1, <3>2, QueueSent DEF ServerReply
  <2>6. \A j \in 1..Len(c2s') : Genuine(c2s[j])'
    BY <2>1, <2>4 DEF VerdictInv, Genuine
  <2>7. VerdictStable' /\ MutualExpectations'
    BY <2>1, <2>2, ResultsKept
  <2> QED
    BY <2>1, <2>2, <2>3, <2>5, <2>6, <2>7 DEF VerdictInv
<1>7. CASE ServerGivesUp
  <2>1. /\ UNCHANGED <<cpc, ccfg, cnonce, scfg, c2s, s2c, outcome>>
        /\ Replying /\ ~Replying'
    BY <1>7 DEF ServerGivesUp, clientVars, channelVars, Replying
  <2>2. /\ verdict \subseteq verdict'
        /\ \A v \in verdict' : v \in verdict \/ v.cfg = scfg
    BY <1>7 DEF ServerGivesUp
  <2>3. VerdictStable' /\ MutualExpectations'
    BY <2>1, <2>2, ResultsKept
  <2> QED
    BY <2>1, <2>2, <2>3, VerdictsKept DEF VerdictInv
<1>8. CASE ConnectionLost \/ \E e \in Ends : Close(e)
  <2>1. UNCHANGED <<cpc, ccfg, cnonce, spc, scfg, shello, sack, outcome, verdict>>
    BY <1>8 DEF ConnectionLost, Close, clientVars, serverVars
  <2>2. /\ \A i \in 1..Len(c2s') : i \in 1..Len(c2s) /\ c2s'[i] = c2s[i]
        /\ \A i \in 1..Len(s2c') : i \in 1..Len(s2c) /\ s2c'[i] = s2c[i]
    BY <1>t, <1>8, QueueCut DEF ConnectionLost, Close
  <2>3. VerdictStable' /\ MutualExpectations'
    BY <2>1, ResultsKept
  <2> QED
    BY <2>1, <2>2, <2>3, VerdictsKept DEF Replying, VerdictInv
<1>9. CASE UNCHANGED vars
  <2>1. VerdictStable' /\ MutualExpectations'
    BY <1>9, ResultsKept DEF vars, clientVars, serverVars, channelVars
  <2> QED
    BY <1>9, <2>1, VerdictsKept
    DEF vars, clientVars, serverVars, channelVars, Replying, VerdictInv
<1> QED
  BY <1>1, <1>2, <1>3, <1>4, <1>5, <1>6, <1>7, <1>8, <1>9 DEF Next

-----------------------------------------------------------------------------
(* Theorems                                                                *)

HistoryInv ==
  TypeInv /\ AgreementInv /\ OrderInv /\ LateInv /\ TokenInv /\ VerdictInv

\* The invariant of the history, from the five of its parts and the types.
LEMMA HistoryInvariant == Spec => []HistoryInv
<1>1. Init => HistoryInv
  BY InitTypes, InitAgreement, InitOrder, InitLate, InitTokens, InitVerdicts
  DEF HistoryInv
<1>2. HistoryInv /\ [Next]_vars => HistoryInv'
  BY StepTypes, StepAgreement, StepOrder, StepLate, StepTokens, StepVerdicts
  DEF HistoryInv
<1> QED
  BY <1>1, <1>2, PTL DEF Spec

\* Two sessions that mirror the same one are the same.
LEMMA MirrorsEqual ==
  ASSUME NEW c \in Session, NEW d \in Session, NEW s,
         Abstract!Mirror(c, s), Abstract!Mirror(d, s)
  PROVE  c = d
  BY DEF Abstract!Mirror, Session

\* No token or session id is ever used for two sessions, on either side.
THEOREM TokensUsedOnce == Spec => []NoSessionReuse
<1>1. HistoryInv => NoSessionReuse
  <2> SUFFICES ASSUME HistoryInv PROVE NoSessionReuse
    OBVIOUS
  <2> USE DEF HistoryInv
  <2>1. \A s, t \in serverSessions :
          s # t => /\ s.client_nonce # t.client_nonce
                   /\ {s.server_nonce, s.session_id} \cap
                        {t.server_nonce, t.session_id} = {}
    <3> SUFFICES ASSUME NEW s \in serverSessions, NEW t \in serverSessions, s # t
                 PROVE  /\ s.client_nonce # t.client_nonce
                        /\ {s.server_nonce, s.session_id} \cap
                             {t.server_nonce, t.session_id} = {}
      OBVIOUS
    <3>1. /\ s.session_id = s.server_nonce + 1 /\ s.server_nonce \in Nat
          /\ t.session_id = t.server_nonce + 1 /\ t.server_nonce \in Nat
      BY NonceTypes DEF TokenInv, Paired
    <3>2. /\ s.client_nonce # t.client_nonce
          /\ s.session_id < t.server_nonce \/ t.session_id < s.server_nonce
      BY DEF TokenInv
    <3> QED
      BY <3>1, <3>2
  <2>2. ASSUME NEW c \in clientSessions, NEW d \in clientSessions,
               c.session_id = d.session_id
        PROVE  c = d
    <3>1. PICK s \in serverSessions : Abstract!Mirror(c, s)
      BY DEF AgreementInv, Agreement
    <3>2. PICK t \in serverSessions : Abstract!Mirror(d, t)
      BY DEF AgreementInv, Agreement
    <3>3. s = t
      BY <2>1, <2>2, <3>1, <3>2 DEF Abstract!Mirror
    <3> QED
      BY <3>1, <3>2, <3>3, MirrorsEqual DEF TypeInv, TypeOK
  <2> QED
    BY <2>1, <2>2 DEF NoSessionReuse
<1> QED
  BY HistoryInvariant, <1>1, PTL

\* A session on the client means both policies were met by what the peer is.
THEOREM PoliciesMet == Spec => []MutualExpectations
<1>1. HistoryInv => MutualExpectations
  BY DEF HistoryInv, VerdictInv
<1> QED
  BY HistoryInvariant, <1>1, PTL

\* The error a client reports is the server's own reason, or the client's.
THEOREM ReasonsMatch == Spec => []VerdictStable
<1>1. HistoryInv => VerdictStable
  BY DEF HistoryInv, VerdictInv
<1> QED
  BY HistoryInvariant, <1>1, PTL

\* Streams slip only through a dropped call.
THEOREM SlipsAreCancellations == Spec => []StaleAckMeansCancelled
<1>1. HistoryInv => StaleAckMeansCancelled
  BY DEF HistoryInv, LateInv
<1> QED
  BY HistoryInvariant, <1>1, PTL

\* The ack of the current call is the last thing in flight.
LEMMA NothingBehind ==
  ASSUME TypeInv, OrderInv, s2c # <<>>, Head(s2c).client_nonce = cnonce
  PROVE  c2s = <<>> /\ Tail(s2c) = <<>> /\ ~Replying
<1>t. c2s \in Seq(Hello) /\ s2c \in Seq(HelloAck)
  BY DEF TypeInv, TypeOK
<1>1. /\ 1 \in 1..Len(s2c) /\ AckNonce(1) = cnonce
      /\ \A i \in 1..Len(Tail(s2c)) : i + 1 \in 1..Len(s2c)
  BY <1>t, QueueTail DEF AckNonce
<1>2. ~Replying
  BY <1>1, NonceTypes DEF OrderInv, InFlightOrder, FlightIsSent, SentNonce
<1>3. 1 \notin 1..Len(c2s)
  BY <1>1, NonceTypes DEF OrderInv, InFlightOrder, FlightIsSent, SentNonce
<1>4. 2 \notin 1..Len(s2c)
  BY <1>1, NonceTypes DEF OrderInv, InFlightOrder, FlightIsSent, SentNonce
<1> QED
  BY <1>t, <1>1, <1>2, <1>3, <1>4

\* When a call returns a session no leftover of an earlier attempt is in
\* flight, for any number of earlier attempts.
THEOREM CleanAfterHandshake == Spec => SessionLeavesCleanStream
<1>1. HistoryInv /\ [Next]_vars =>
        [clientSessions' # clientSessions =>
           /\ c2s' = <<>> /\ s2c' = <<>> /\ spc' = "idle"]_vars
  <2> SUFFICES ASSUME HistoryInv, Next, clientSessions' # clientSessions
               PROVE  c2s' = <<>> /\ s2c' = <<>> /\ spc' = "idle"
    BY DEF vars, clientVars
  <2>1. ClientReceive
    BY DEF Next, ClientStart, ClientSend, ClientSendFails, ClientReceiveFails,
           ClientCancel, ClientFails, ServerReceive, ServerReply, ServerGivesUp,
           Close, ConnectionLost, clientVars
  <2>2. /\ AckVerdict(ccfg, cnonce, Head(s2c)) = Accepted
        /\ UNCHANGED <<c2s, spc>> /\ s2c # <<>> /\ s2c' = Tail(s2c)
    BY <2>1 DEF ClientReceive, serverVars
  <2>3. Head(s2c).client_nonce = cnonce
    <3>1. ccfg \in Config /\ cnonce \in Nat /\ s2c \in Seq(HelloAck)
      BY DEF HistoryInv, TypeInv, TypeOK
    <3>2. Head(s2c) \in HelloAck
      BY <2>2, <3>1
    <3> QED
      BY <2>2, <3>1, <3>2, AckVerdictType
  <2> QED
    BY <2>2, <2>3, NothingBehind DEF HistoryInv, TypeInv, TypeOK, Replying
<1> QED
  BY HistoryInvariant, <1>1, PTL DEF Spec, SessionLeavesCleanStream

\* The handshake implements the two-step agreement: the only steps that are
\* not stutters offer a session under a nonce and an id of its own, or
\* establish, once, the mirror image of an offered one.
THEOREM HandshakeIsAgreement == Spec => ImplementsAgreement
<1>1. Init => Abstract!AgreementInit
  BY DEF Init, Abstract!AgreementInit
<1>2. HistoryInv /\ HistoryInv' /\ [Next]_vars =>
        [Abstract!AgreementNext]_(Abstract!agreementVars)
  <2> SUFFICES ASSUME HistoryInv, HistoryInv', [Next]_vars
               PROVE  [Abstract!AgreementNext]_(Abstract!agreementVars)
    OBVIOUS
  <2>1. CASE ClientReceive
    <3>1. UNCHANGED serverSessions
      BY <2>1 DEF ClientReceive, serverVars
    <3>2. CASE AckVerdict(ccfg, cnonce, Head(s2c)) = Accepted
      <4> DEFINE c == ClientSession(ccfg, cnonce, Head(s2c))
      <4>1. clientSessions' = clientSessions \cup {c} /\ c.client_nonce = cnonce
        BY <2>1, <3>2 DEF ClientReceive, ClientSession
      <4> HIDE DEF c
      <4>2. \E s \in serverSessions : Abstract!Mirror(c, s)
        BY <3>1, <4>1 DEF HistoryInv, AgreementInv, Agreement, Abstract!Mirror
      <4>3. \A d \in clientSessions : d.client_nonce # c.client_nonce
        BY <2>1, <4>1, NonceTypes
        DEF HistoryInv, OrderInv, CallsOver, PastNonce, ClientReceive
      <4>4. c \in clientSessions'
        BY <4>1
      <4> QED
        BY <3>1, <4>1, <4>2, <4>3, <4>4
        DEF Abstract!AgreementNext, Abstract!Establish
    <3>3. CASE AckVerdict(ccfg, cnonce, Head(s2c)) # Accepted
      BY <2>1, <3>1, <3>3 DEF ClientReceive, Abstract!agreementVars
    <3> QED
      BY <3>2, <3>3
  <2>2. CASE ServerReply
    <3>1. UNCHANGED clientSessions
      BY <2>2 DEF ServerReply, clientVars
    <3>2. CASE sack.rejection_code = 0
      <4> DEFINE s == ServerSession(scfg, shello, sack)
      <4>1. /\ serverSessions' = serverSessions \cup {s}
            /\ s.client_nonce = shello.client_nonce
            /\ s.session_id = sack.session_id
        BY <2>2, <3>2 DEF ServerReply, ServerSession
      <4> HIDE DEF s
      <4>2. Replying
        BY <2>2 DEF ServerReply, Replying
      <4>3. \A t \in serverSessions : s.client_nonce # t.client_nonce
        <5>1. \A v \in verdict : v.nonce < shello.client_nonce
          BY <4>2 DEF HistoryInv, OrderInv, FlightIsSent
        <5> QED
          BY <4>1, <5>1, NonceTypes DEF HistoryInv, TokenInv
      <4>4. \A t \in serverSessions : s.session_id # t.session_id
        <5>1. /\ sack.session_id = sack.server_nonce + 1
              /\ \A t \in serverSessions : t.session_id < sack.server_nonce
          BY <3>2, <4>2 DEF HistoryInv, TokenInv, Paired
        <5> QED
          BY <4>1, <5>1, NonceTypes DEF HistoryInv
      <4>5. s \in serverSessions'
        BY <4>1
      <4> QED
        BY <3>1, <4>1, <4>3, <4>4, <4>5 DEF Abstract!AgreementNext, Abstract!Offer
    <3>3. CASE sack.rejection_code # 0
      BY <2>2, <3>1, <3>3 DEF ServerReply, Abstract!agreementVars
    <3> QED
      BY <3>2, <3>3
  <2>3. CASE UNCHANGED <<clientSessions, serverSessions>>
    BY <2>3 DEF Abstract!agreementVars
  <2> QED
    BY <2>1, <2>2, <2>3
    DEF Next, vars, clientVars, serverVars, ClientStart, ClientSend,
        ClientSendFails, ClientReceiveFails, ClientCancel, ClientFails,
        ServerReceive, ServerGivesUp, Close, ConnectionLost
<1> QED
  BY HistoryInvariant, <1>1, <1>2, PTL DEF Spec, ImplementsAgreement, Abstract!AgreementSpec
=============================================================================
