------------------------------ MODULE QuicAccept ------------------------------
(***************************************************************************)
(* QuicServer::accept and QuicConnection::connect                          *)
(* (crates/laic/src/transport/quic.rs).  accept takes one incoming         *)
(* connection, completes TLS with it, then waits for its first stream; the *)
(* server calls it again for the next one.  connect returns after TLS and  *)
(* open_bi(), which sends nothing: the stream is announced by the first    *)
(* bytes written on it.                                                    *)
(***************************************************************************)
EXTENDS Naturals, Sequences

CONSTANTS
  Client,   \* connections clients make, one each
  Talker,   \* clients that send first; the others receive first
  None      \* no client

ASSUME AcceptAssumption ==
  /\ Talker \subseteq Client
  /\ None \notin Client

VARIABLES
  client,     \* what each client knows of its connection
  wrote,      \* clients that wrote on their stream
  gone,       \* connections given up by a caller's choice: closed, dropped,
              \*   accept cancelled, server closed
  incoming,   \* connections the endpoint holds for accept, in order
  call,       \* the accept call in progress
  current,    \* the connection it holds
  accepted,   \* connections accept returned
  open        \* the server endpoint is open

acceptVars == <<client, wrote, gone, incoming, call, current, accepted, open>>

-----------------------------------------------------------------------------
AcceptInit ==
  /\ client = [c \in Client |-> "absent"]
  /\ wrote = {}
  /\ gone = {}
  /\ incoming = <<>>
  /\ call = "none"
  /\ current = None
  /\ accepted = {}
  /\ open = TRUE

Holds(c) == call \in {"tls", "stream"} /\ current = c

-----------------------------------------------------------------------------
(* Clients                                                                 *)

\* connect() is called: the endpoint queues the connection.
Dial(c) ==
  /\ client[c] = "absent"
  /\ open
  /\ client' = [client EXCEPT ![c] = "dialing"]
  /\ incoming' = Append(incoming, c)
  /\ UNCHANGED <<wrote, gone, call, current, accepted, open>>

\* There is nobody to answer: connect() fails.
DialFails(c) ==
  /\ client[c] = "absent"
  /\ ~open
  /\ client' = [client EXCEPT ![c] = "failed"]
  /\ UNCHANGED <<wrote, gone, incoming, call, current, accepted, open>>

\* TLS completes at the client, open_bi() is immediate: connect() returns Ok.
Connected(c) ==
  /\ client[c] = "dialing"
  /\ call = "tls" /\ current = c
  /\ client' = [client EXCEPT ![c] = "up"]
  /\ UNCHANGED <<wrote, gone, incoming, call, current, accepted, open>>

\* The first send on the connection; a client that receives first sends when
\* the server has the connection and spoke.
Write(c) ==
  /\ client[c] = "up"
  /\ c \notin wrote
  /\ c \in Talker \cup accepted
  /\ wrote' = wrote \cup {c}
  /\ UNCHANGED <<client, gone, incoming, call, current, accepted, open>>

\* The client closes or drops its connection, gives up connecting, or dies.
Leave(c) ==
  /\ client[c] \in {"dialing", "up"}
  /\ client' = [client EXCEPT ![c] = "down"]
  /\ gone' = gone \cup {c}
  /\ UNCHANGED <<wrote, incoming, call, current, accepted, open>>

\* quinn takes down a connection on which nothing is exchanged; a client that
\* sends first does so before that.
IdleTimeout(c) ==
  /\ client[c] = "up"
  /\ c \notin Talker
  /\ c \notin wrote
  /\ client' = [client EXCEPT ![c] = "down"]
  /\ UNCHANGED <<wrote, gone, incoming, call, current, accepted, open>>

-----------------------------------------------------------------------------
(* QuicServer                                                              *)

\* accept() ends with an error or is dropped.
NoConnection == call' = "none" /\ current' = None /\ UNCHANGED accepted

\* accept() is called; endpoint.accept() waits for an incoming connection.
Accept ==
  /\ call = "none"
  /\ open
  /\ call' = "waiting"
  /\ UNCHANGED <<client, wrote, gone, incoming, current, accepted, open>>

TakeIncoming ==
  /\ call = "waiting"
  /\ incoming # <<>>
  /\ call' = "tls"
  /\ current' = Head(incoming)
  /\ incoming' = Tail(incoming)
  /\ UNCHANGED <<client, wrote, gone, accepted, open>>

\* incoming.await returns; accept_bi() waits for the client's stream.
TlsDone ==
  /\ call = "tls"
  /\ client[current] = "up"
  /\ call' = "stream"
  /\ UNCHANGED <<client, wrote, gone, incoming, current, accepted, open>>

\* A certificate is refused, or the client went away: the error ends accept().
TlsFails ==
  /\ call = "tls"
  /\ client[current] \in {"dialing", "down"}
  /\ client' = [client EXCEPT ![current] = IF @ = "dialing" THEN "failed" ELSE @]
  /\ NoConnection
  /\ UNCHANGED <<wrote, gone, incoming, open>>

\* Mutants: accept_bi() is not waited for; accept_uni() is waited for.
AnyStream(c) == TRUE
NoStream(c) == FALSE

\* The client's stream is announced by its first bytes.
Announced(c) == c \in wrote

AcceptStream ==
  /\ call = "stream"
  /\ Announced(current)
  /\ accepted' = accepted \cup {current}
  /\ call' = "none"
  /\ current' = None
  /\ UNCHANGED <<client, wrote, gone, incoming, open>>

\* Mutant: nothing ends a call whose client has gone.
NeverFails == FALSE /\ UNCHANGED acceptVars

\* The client went away: the error ends accept().
StreamFails ==
  /\ call = "stream"
  /\ client[current] = "down"
  /\ NoConnection
  /\ UNCHANGED <<client, wrote, gone, incoming, open>>

\* Mutant: the connection of a dropped call stays up.
KeptUp(c) == client[c]

\* What becomes of the connection a dropped call held: refused or closed.
Abandoned(c) == IF client[c] = "dialing" THEN "failed" ELSE "down"

\* The caller drops accept(), and what it holds with it.
CancelAccept ==
  /\ call # "none"
  /\ IF call = "waiting"
       THEN UNCHANGED <<client, gone>>
       ELSE /\ client' = [client EXCEPT ![current] = Abandoned(current)]
            /\ gone' = gone \cup {current}
  /\ NoConnection
  /\ UNCHANGED <<wrote, incoming, open>>

\* QuicServer::close: every connection of the endpoint ends, accepted or not,
\* and the call in progress fails.
CloseServer ==
  /\ open
  /\ open' = FALSE
  /\ client' = [c \in Client |->
                  CASE client[c] = "dialing" -> "failed"
                    [] client[c] = "up"      -> "down"
                    [] OTHER                 -> client[c]]
  /\ gone' = gone \cup {c \in Client : client[c] \in {"dialing", "up"}}
  /\ incoming' = <<>>
  /\ NoConnection
  /\ UNCHANGED wrote

AcceptNext ==
  \/ \E c \in Client : \/ Dial(c) \/ DialFails(c) \/ Connected(c)
                       \/ Write(c) \/ Leave(c) \/ IdleTimeout(c)
  \/ Accept \/ TakeIncoming \/ TlsDone \/ TlsFails
  \/ AcceptStream \/ StreamFails \/ CancelAccept \/ CloseServer

AcceptSpec == AcceptInit /\ [][AcceptNext]_acceptVars

\* The server calls accept() again and again and each call is polled before it
\* may be dropped; the runtime and the network make progress, timers fire, and
\* a client that sends first does so once connected.
AcceptFairSpec ==
  /\ AcceptSpec
  /\ WF_acceptVars(Accept) /\ SF_acceptVars(TakeIncoming)
  /\ WF_acceptVars(TlsDone) /\ WF_acceptVars(TlsFails)
  /\ WF_acceptVars(AcceptStream) /\ WF_acceptVars(StreamFails)
  /\ \A c \in Client : /\ WF_acceptVars(Connected(c))
                       /\ WF_acceptVars(Write(c) /\ c \in Talker)
                       /\ WF_acceptVars(IdleTimeout(c))

-----------------------------------------------------------------------------
(* Properties                                                              *)

\* A client that believes it is connected is held by the server: by the accept
\* call in progress, or by the application it was handed to.  Cancelled calls
\* and failed handshakes leave no client connected to nobody.
NoOrphan ==
  \A c \in Client : client[c] = "up" => c \in accepted \/ Holds(c)

\* A connection waits in one place only, and accept hands it out once: it is
\* queued, held by the call, or past it.
OnePlace ==
  /\ \A i, j \in 1..Len(incoming) : i # j => incoming[i] # incoming[j]
  /\ \A i \in 1..Len(incoming) :
       incoming[i] \notin accepted /\ ~Holds(incoming[i])
  /\ \A c \in accepted : c \in wrote /\ ~Holds(c)

\* accept() serves connections one after another, and a client that never
\* sends holds up the others only until its connection times out: nobody
\* waits in connect() for ever.
ConnectReturns ==
  \A c \in Client : client[c] = "dialing" ~> client[c] # "dialing"

\* A client that sends first is accepted, unless somebody gives up.
TalkersAccepted ==
  \A c \in Talker : client[c] = "up" ~> c \in accepted \cup gone

\* What the CONSTRAINT note of accept() says: clients always call open_bi()
\* inside connect(), so the happy path is immediate.  It does not hold for a
\* client that receives first: nothing announces its stream, and accept()
\* waits until the connection times out.
OpenBiIsEnough ==
  \A c \in Client : client[c] = "up" ~> c \in accepted \cup gone
=============================================================================
