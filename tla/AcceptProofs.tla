----------------------------- MODULE AcceptProofs -----------------------------
(***************************************************************************)
(* Proofs about QuicAccept for any set of clients and any talkers: no      *)
(* connected client is held by nobody, and a connection is in one place.   *)
(***************************************************************************)
EXTENDS QuicAccept, TLAPS

-----------------------------------------------------------------------------
(* The invariant                                                           *)

ClientState == {"absent", "dialing", "up", "down", "failed"}

AcceptTypes ==
  /\ client \in [Client -> ClientState]
  /\ wrote \subseteq Client
  /\ incoming \in Seq(Client)
  /\ call \in {"none", "waiting", "tls", "stream"}
  /\ accepted \subseteq Client

\* The call holds a connection exactly when it is past waiting for one.
CallHolds ==
  IF call \in {"tls", "stream"} THEN current \in Client ELSE current = None

\* A connection somewhere at the server was dialled, so that dialling queues a
\* new one.
Dialled ==
  /\ \A i \in 1..Len(incoming) : client[incoming[i]] # "absent"
  /\ \A c \in accepted : client[c] # "absent"
  /\ current # None => client[current] # "absent"

AcceptInv == AcceptTypes /\ CallHolds /\ Dialled /\ NoOrphan /\ OnePlace

\* It holds before anybody dials.
LEMMA InitAccept == AcceptInit => AcceptInv
<1> SUFFICES ASSUME AcceptInit PROVE AcceptInv
  OBVIOUS
<1>1. /\ client = [c \in Client |-> "absent"] /\ incoming = <<>>
      /\ wrote = {} /\ accepted = {} /\ call = "none" /\ current = None
  BY DEF AcceptInit
<1>2. AcceptTypes
  BY <1>1 DEF AcceptTypes, ClientState
<1> QED
  BY <1>1, <1>2
  DEF AcceptInv, CallHolds, Dialled, NoOrphan, OnePlace

\* A step of one client that is not in two places: only its own state moves.
LEMMA ClientMoves ==
  ASSUME AcceptInv, NEW c \in Client, client[c] # "absent",
         NEW s \in ClientState \ {"absent"},
         client' = [client EXCEPT ![c] = s],
         s = "up" => Holds(c),
         UNCHANGED <<wrote, incoming, call, current, accepted>>
  PROVE  AcceptInv'
<1>1. /\ client' \in [Client -> ClientState]
      /\ \A d \in Client : client'[d] = IF d = c THEN s ELSE client[d]
  BY DEF AcceptInv, AcceptTypes
<1>2. AcceptTypes' /\ CallHolds'
  BY <1>1 DEF AcceptInv, AcceptTypes, CallHolds
<1>3. Dialled'
  <2>1. \A i \in 1..Len(incoming) : incoming[i] \in Client
    BY DEF AcceptInv, AcceptTypes
  <2>2. current # None => current \in Client
    BY DEF AcceptInv, CallHolds
  <2> QED
    BY <1>1, <2>1, <2>2 DEF AcceptInv, AcceptTypes, Dialled
<1>4. NoOrphan'
  BY <1>1 DEF AcceptInv, NoOrphan, Holds
<1>5. OnePlace'
  BY DEF AcceptInv, OnePlace, Holds
<1> QED
  BY <1>2, <1>3, <1>4, <1>5 DEF AcceptInv

\* The call ends and gives up what it held, if anything: a client that is not,
\* or no longer, up.
LEMMA CallEnds ==
  ASSUME AcceptInv, NoConnection, UNCHANGED <<wrote, incoming>>,
         client' \in [Client -> ClientState],
         \A c \in Client : /\ client[c] # "absent" => client'[c] # "absent"
                           /\ client'[c] = "up" => client[c] = "up" /\ ~Holds(c)
  PROVE  AcceptInv'
<1>1. /\ call' = "none" /\ current' = None /\ accepted' = accepted
      /\ \A c : ~Holds(c)'
  BY DEF NoConnection, Holds
<1>2. AcceptTypes' /\ CallHolds'
  BY <1>1 DEF AcceptInv, AcceptTypes, CallHolds
<1>3. Dialled'
  BY <1>1 DEF AcceptInv, AcceptTypes, Dialled
<1>4. NoOrphan'
  BY <1>1 DEF AcceptInv, NoOrphan
<1>5. OnePlace'
  BY <1>1 DEF AcceptInv, OnePlace
<1> QED
  BY <1>2, <1>3, <1>4, <1>5 DEF AcceptInv

\* Every step of the clients and of the accept loop keeps it.
LEMMA StepAccept == AcceptInv /\ [AcceptNext]_acceptVars => AcceptInv'
<1> SUFFICES ASSUME AcceptInv, [AcceptNext]_acceptVars PROVE AcceptInv'
  OBVIOUS
<1>t. /\ client \in [Client -> ClientState] /\ incoming \in Seq(Client)
      /\ Len(incoming) \in Nat
  BY DEF AcceptInv, AcceptTypes
<1>1. ASSUME NEW c \in Client, Dial(c) PROVE AcceptInv'
  <2>1. /\ UNCHANGED <<wrote, call, current, accepted>>
        /\ client[c] = "absent"
        /\ client' = [client EXCEPT ![c] = "dialing"]
        /\ incoming' = Append(incoming, c)
    BY <1>1 DEF Dial
  <2>2. /\ client' \in [Client -> ClientState]
        /\ \A d \in Client : client'[d] = IF d = c THEN "dialing" ELSE client[d]
    BY <1>t, <2>1 DEF ClientState
  <2>3. /\ incoming' \in Seq(Client)
        /\ \A i \in 1..Len(incoming') :
             \/ i \in 1..Len(incoming) /\ incoming'[i] = incoming[i]
             \/ i = Len(incoming) + 1 /\ incoming'[i] = c
    BY <1>t, <2>1
  <2>4. \A i \in 1..Len(incoming) : incoming[i] \in Client /\ incoming[i] # c
    BY <1>t, <2>1 DEF AcceptInv, Dialled
  <2>5. c \notin accepted /\ current # c
    <3>1. c # None
      BY AcceptAssumption
    <3> QED
      BY <2>1, <3>1 DEF AcceptInv, Dialled
  <2>6. AcceptTypes' /\ CallHolds'
    BY <2>1, <2>2, <2>3 DEF AcceptInv, AcceptTypes, CallHolds
  <2>7. Dialled'
    <3>1. \A i \in 1..Len(incoming') : client'[incoming'[i]] # "absent"
      BY <2>2, <2>3, <2>4 DEF AcceptInv, Dialled
    <3>2. current # None => current \in Client
      BY DEF AcceptInv, CallHolds
    <3> QED
      BY <2>1, <2>2, <3>1, <3>2 DEF AcceptInv, AcceptTypes, Dialled
  <2>8. NoOrphan'
    BY <2>1, <2>2 DEF AcceptInv, NoOrphan, Holds
  <2>9. OnePlace'
    <3>1. ASSUME NEW i \in 1..Len(incoming'), NEW j \in 1..Len(incoming'), i # j
          PROVE  incoming'[i] # incoming'[j]
      BY <2>3, <2>4, <3>1 DEF AcceptInv, OnePlace
    <3>2. \A i \in 1..Len(incoming') :
            incoming'[i] \notin accepted' /\ ~Holds(incoming[i])'
      BY <2>1, <2>3, <2>5 DEF AcceptInv, OnePlace, Holds
    <3> QED
      BY <2>1, <3>1, <3>2 DEF AcceptInv, OnePlace, Holds
  <2> QED
    BY <2>6, <2>7, <2>8, <2>9 DEF AcceptInv
<1>2. ASSUME NEW c \in Client, DialFails(c) PROVE AcceptInv'
  <2>1. /\ UNCHANGED <<wrote, incoming, call, current, accepted>>
        /\ client[c] = "absent"
        /\ client' = [client EXCEPT ![c] = "failed"]
    BY <1>2 DEF DialFails
  <2>2. /\ client' \in [Client -> ClientState]
        /\ \A d \in Client : client'[d] = IF d = c THEN "failed" ELSE client[d]
    BY <1>t, <2>1 DEF ClientState
  <2>3. AcceptTypes' /\ CallHolds' /\ NoOrphan' /\ OnePlace'
    BY <2>1, <2>2
    DEF AcceptInv, AcceptTypes, CallHolds, NoOrphan, OnePlace, Holds
  <2>4. Dialled'
    <3>1. current # None => current \in Client
      BY DEF AcceptInv, CallHolds
    <3> QED
      BY <1>t, <2>1, <2>2, <3>1 DEF AcceptInv, AcceptTypes, Dialled
  <2> QED
    BY <2>3, <2>4 DEF AcceptInv
<1>3. ASSUME NEW c \in Client, Connected(c) \/ Leave(c) \/ IdleTimeout(c)
      PROVE  AcceptInv'
  BY <1>3, ClientMoves DEF Connected, Leave, IdleTimeout, Holds, ClientState
<1>4. ASSUME NEW c \in Client, Write(c) PROVE AcceptInv'
  BY <1>4
  DEF Write, AcceptInv, AcceptTypes, CallHolds, Dialled, NoOrphan, OnePlace, Holds
<1>5. CASE Accept
  BY <1>5
  DEF Accept, AcceptInv, AcceptTypes, CallHolds, Dialled, NoOrphan, OnePlace, Holds
<1>6. CASE TakeIncoming
  <2>1. /\ UNCHANGED <<client, wrote, accepted>>
        /\ call = "waiting" /\ call' = "tls"
        /\ \A c : ~Holds(c)
    BY <1>6 DEF TakeIncoming, Holds
  <2>2. /\ 1 \in 1..Len(incoming) /\ current' = incoming[1]
        /\ incoming' \in Seq(Client)
        /\ \A i \in 1..Len(incoming') :
             i + 1 \in 1..Len(incoming) /\ incoming'[i] = incoming[i + 1]
    BY <1>t, <1>6 DEF TakeIncoming
  <2>3. current' \in Client /\ current' \notin accepted
    BY <1>t, <2>2 DEF AcceptInv, OnePlace
  <2>4. \A i \in 1..Len(incoming') :
          incoming'[i] # current' /\ incoming'[i] \notin accepted
    BY <2>2 DEF AcceptInv, OnePlace
  <2>5. \A i, j \in 1..Len(incoming') : i # j => incoming'[i] # incoming'[j]
    BY <2>2 DEF AcceptInv, OnePlace
  <2>6. AcceptTypes' /\ CallHolds' /\ Dialled'
    BY <2>1, <2>2, <2>3 DEF AcceptInv, AcceptTypes, CallHolds, Dialled
  <2>7. NoOrphan'
    BY <2>1 DEF AcceptInv, NoOrphan
  <2>8. OnePlace'
    BY <2>1, <2>3, <2>4, <2>5 DEF AcceptInv, OnePlace, Holds
  <2> QED
    BY <2>6, <2>7, <2>8 DEF AcceptInv
<1>7. CASE TlsDone
  BY <1>7
  DEF TlsDone, AcceptInv, AcceptTypes, CallHolds, Dialled, NoOrphan, OnePlace, Holds
<1>8. CASE TlsFails
  <2>1. current \in Client /\ NoConnection /\ UNCHANGED <<wrote, incoming>>
    BY <1>8 DEF TlsFails, AcceptInv, CallHolds
  <2>2. /\ client[current] \in {"dialing", "down"}
        /\ client' = [client EXCEPT ![current] =
                        IF client[current] = "dialing" THEN "failed"
                                                       ELSE client[current]]
    BY <1>8 DEF TlsFails
  <2>3. /\ client' \in [Client -> ClientState]
        /\ \A c \in Client :
             client'[c] = IF c = current
                            THEN IF client[c] = "dialing" THEN "failed" ELSE client[c]
                            ELSE client[c]
    BY <1>t, <2>1, <2>2 DEF ClientState
  <2> QED
    BY <2>1, <2>2, <2>3, CallEnds DEF Holds
<1>9. CASE AcceptStream
  <2>1. /\ UNCHANGED <<client, wrote, incoming>>
        /\ current \in Client /\ current \in wrote /\ Holds(current)
        /\ accepted' = accepted \cup {current} /\ call' = "none" /\ current' = None
        /\ \A c : ~Holds(c)'
    BY <1>9 DEF AcceptStream, Announced, AcceptInv, CallHolds, Holds
  <2>2. AcceptTypes' /\ CallHolds'
    BY <2>1 DEF AcceptInv, AcceptTypes, CallHolds
  <2>3. Dialled'
    <3>1. current # None
      BY <2>1, AcceptAssumption
    <3> QED
      BY <2>1, <3>1 DEF AcceptInv, Dialled
  <2>4. NoOrphan'
    BY <2>1 DEF AcceptInv, NoOrphan, Holds
  <2>5. OnePlace'
    BY <2>1 DEF AcceptInv, OnePlace
  <2> QED
    BY <2>2, <2>3, <2>4, <2>5 DEF AcceptInv
<1>10. CASE StreamFails
  BY <1>t, <1>10, CallEnds DEF StreamFails, Holds
<1>11. CASE CancelAccept
  <2>1. NoConnection /\ UNCHANGED <<wrote, incoming>>
    BY <1>11 DEF CancelAccept
  <2>2. CASE call = "waiting"
    BY <1>t, <1>11, <2>1, <2>2, CallEnds DEF CancelAccept, Holds
  <2>3. CASE call # "waiting"
    <3>1. /\ call \in {"tls", "stream"} /\ current \in Client
          /\ client' = [client EXCEPT ![current] = Abandoned(current)]
      BY <1>11, <2>3 DEF CancelAccept, AcceptInv, AcceptTypes, CallHolds
    <3>2. Abandoned(current) \in {"failed", "down"}
      BY DEF Abandoned
    <3>3. /\ client' \in [Client -> ClientState]
          /\ \A c \in Client :
               client'[c] = IF c = current THEN Abandoned(current) ELSE client[c]
      BY <1>t, <3>1, <3>2 DEF ClientState
    <3> QED
      BY <2>1, <3>1, <3>2, <3>3, CallEnds DEF Holds
  <2> QED
    BY <2>2, <2>3
<1>12. CASE CloseServer
  <2>1. /\ NoConnection /\ UNCHANGED wrote /\ incoming' = <<>>
        /\ \A c : ~Holds(c)'
    BY <1>12 DEF CloseServer, NoConnection, Holds
  <2>2. /\ client' \in [Client -> ClientState]
        /\ \A c \in Client : /\ client'[c] # "up"
                             /\ client[c] # "absent" => client'[c] # "absent"
    BY <1>t, <1>12 DEF CloseServer, ClientState
  <2> QED
    BY <2>1, <2>2
    DEF NoConnection, AcceptInv, AcceptTypes, CallHolds, Dialled, NoOrphan, OnePlace
<1>13. CASE UNCHANGED acceptVars
  BY <1>13
  DEF acceptVars, AcceptInv, AcceptTypes, CallHolds, Dialled, NoOrphan, OnePlace,
      Holds
<1> QED
  BY <1>1, <1>2, <1>3, <1>4, <1>5, <1>6, <1>7, <1>8, <1>9, <1>10, <1>11, <1>12,
     <1>13
  DEF AcceptNext

-----------------------------------------------------------------------------
(* Theorems                                                                *)

\* The inductive invariant, for any clients.
LEMMA AcceptInvariant == AcceptSpec => []AcceptInv
  BY InitAccept, StepAccept, PTL DEF AcceptSpec

\* Cancelled calls, failed handshakes and timeouts leave no client connected
\* to nobody, however many clients dial at once.
THEOREM NobodyOrphaned == AcceptSpec => []NoOrphan
<1>1. AcceptInv => NoOrphan
  BY DEF AcceptInv
<1> QED
  BY AcceptInvariant, <1>1, PTL

\* A connection is queued, held by the call, or past it, and handed out once.
THEOREM ConnectionsInOnePlace == AcceptSpec => []OnePlace
<1>1. AcceptInv => OnePlace
  BY DEF AcceptInv
<1> QED
  BY AcceptInvariant, <1>1, PTL
=============================================================================
