------------------------------ MODULE SkillCalls ------------------------------
(***************************************************************************)
(* Skill calls and a stream upload under flow control: the patterns of     *)
(* crates/laic/src/pattern.rs over a shared-memory channel, with the       *)
(* credits of CreditFlow and messages that are encoded and decoded on the  *)
(* way.  The client may have several calls pending and gives any of them   *)
(* up by dropping its receive; the server answers in any order.  Each      *)
(* request has a payload of its own, its length, and its answer has the    *)
(* same, so that answers can be told apart.                                *)
(***************************************************************************)
EXTENDS CreditFlow

CONSTANTS
  CallId,     \* the msg_ids of the calls, in the order they are made
  MaxChunks   \* bound: stream chunks sent

ASSUME CallAssumption ==
  /\ CallId \in Seq(Nat \ {0})
  /\ \A i, j \in 1..Len(CallId) : i # j => CallId[i] # CallId[j]
  /\ MaxChunks \in Nat

VARIABLES
  asked,    \* calls whose send was tried
  pending,  \* ids of the calls that wait for an answer
  answers,  \* history: id and payload of each call's answer
  todo,     \* requests the server has read and not answered
  chunks,   \* history: stream chunks sent, each with its end-of-stream mark
  heard     \* history: stream chunks the server has read

callVars == <<asked, pending, answers, todo, chunks, heard>>
allVars == <<creditVars, callVars>>

-----------------------------------------------------------------------------
\* The n-th call's request; the credit grant of a sender that has nothing to
\* grant is set to zero.
PayloadOf(n) == (n - 1) % (MaxPayload + 1)
Request(n) == SetCreditGrant(SkillRequest(CallId[n], 1, 0, PayloadOf(n)), 0)
Chunk(n, last) == SetCreditGrant(StreamChunk(n, 0, 0, MaxPayload, last), 0)

Response(request, credits) ==
  SetCreditGrant(SkillResponse(request, 100, 1, 0, request.len), credits)

\* Credits that are not an answer's come with a message of a topic.
Notice(credits) == SetCreditGrant(TopicPublish(200, 2, 1, 0), credits)

\* A message IPC refuses.
TooLong == NewMessage(DATA, 300, 2, 0, MaxPayload + 1)

CallMessage ==
  {Request(n) : n \in 1..Len(CallId)}
    \cup {Chunk(n, last) : n \in 1..MaxChunks, last \in BOOLEAN}
    \cup {Response(SkillRequest(CallId[n], 1, 0, len), c) :
            n \in 1..Len(CallId), len \in 0..MaxPayload, c \in 1..MaxCredit}
    \cup {Notice(c) : c \in 1..MaxCredit}
    \cup {Heartbeat, TooLong}

ASSUME MessageAssumption == CallMessage \subseteq Message

CallInit ==
  /\ CreditInit
  /\ asked = 0 /\ pending = {} /\ answers = {} /\ todo = {}
  /\ chunks = <<>> /\ heard = <<>>

-----------------------------------------------------------------------------
(* The client                                                              *)

Acquires == Acquire /\ UNCHANGED callVars

Ask ==
  /\ asked < Len(CallId)
  /\ SendMetered(Request(asked + 1))
  /\ asked' = asked + 1
  /\ pending' = pending \cup {CallId[asked + 1]}
  /\ UNCHANGED <<answers, todo, chunks, heard>>

\* The send fails: the caller knows that there will be no answer.
AskFails ==
  /\ asked < Len(CallId)
  /\ SendMeteredFails(Request(asked + 1))
  /\ asked' = asked + 1
  /\ UNCHANGED <<pending, answers, todo, chunks, heard>>

Stream(last) ==
  /\ Len(chunks) < MaxChunks
  /\ SendMetered(Chunk(Len(chunks) + 1, last))
  /\ chunks' = Append(chunks, [id |-> Len(chunks) + 1, last |-> last])
  /\ UNCHANGED <<asked, pending, answers, todo, heard>>

SendTooLong ==
  /\ SendMeteredFails(TooLong)
  /\ UNCHANGED callVars

SendsHeartbeat == SendHeartbeat /\ UNCHANGED callVars

\* The caller stops waiting; what it was waiting for may still come.
GiveUp(id) ==
  /\ id \in pending
  /\ pending' = pending \ {id}
  /\ UNCHANGED <<creditVars, asked, answers, todo, chunks, heard>>

\* The client takes the next message.  A response belongs to the pending call
\* whose msg_id is its correlation_id; one that belongs to none came too late.
ClientReads ==
  LET m == Arrival("client") IN
  /\ ClientTakes
  /\ IF IsSkillResponse(m) /\ m.header.correlation_id \in pending
       THEN /\ pending' = pending \ {m.header.correlation_id}
            /\ answers' = answers \cup
                 {[id |-> m.header.correlation_id, len |-> m.len]}
       ELSE UNCHANGED <<pending, answers>>
  /\ UNCHANGED <<asked, todo, chunks, heard>>

-----------------------------------------------------------------------------
(* The server                                                              *)

ServerReads ==
  LET m == Arrival("server") IN
  /\ ServerTakes
  /\ todo' = IF IsSkillRequest(m) THEN todo \cup {m} ELSE todo
  /\ heard' = IF IsStreamData(m)
                THEN Append(heard, [id |-> m.header.msg_id,
                                    last |-> IsEndOfStream(m)])
                ELSE heard
  /\ UNCHANGED <<asked, pending, answers, chunks>>

\* An answer brings back the credit its request spent, and more if the server
\* widens the window.
Answer(request, credits) ==
  /\ request \in todo
  /\ Grant(Response(request, credits), 1)
  /\ todo' = todo \ {request}
  /\ UNCHANGED <<asked, pending, answers, chunks, heard>>

\* Credits for stream chunks, or beyond what is owed; those of a request wait
\* for its answer.
Notify(credits, due) ==
  /\ due <= owed - Cardinality(todo)
  /\ Grant(Notice(credits), due)
  /\ UNCHANGED callVars

CallNext ==
  \/ Acquires \/ Ask \/ AskFails \/ SendTooLong \/ SendsHeartbeat
  \/ \E last \in BOOLEAN : Stream(last)
  \/ \E n \in 1..Len(CallId) : GiveUp(CallId[n])
  \/ ClientReads \/ ServerReads
  \/ \E request \in todo, c \in 1..MaxCredit : Answer(request, c)
  \/ \E c \in 1..MaxCredit, due \in 0..MaxCredit : Notify(c, due)

CallSpec == CallInit /\ [][CallNext]_allVars

\* Both ends go on reading; the server answers what it read and gives back the
\* credits it owes.
CallFairSpec ==
  /\ CallSpec
  /\ WF_allVars(ClientReads)
  /\ WF_allVars(ServerReads)
  /\ WF_allVars(\E request \in todo : Answer(request, 1))
  /\ WF_allVars(\E c \in 1..MaxCredit : Notify(c, c))

-----------------------------------------------------------------------------
(* Properties                                                              *)

\* An answer goes to the call it answers, however many are pending or were
\* given up and whatever order the answers come in.
AnswersMatch ==
  \A a \in answers : \E n \in 1..asked : a.id = CallId[n] /\ a.len = PayloadOf(n)

\* With a window that fits the buffer no call is lost: a pending one has its
\* request on the way, or at the server, or its answer on the way.
PendingAccounted ==
  WindowFits => \A n \in 1..Len(CallId) : CallId[n] \in pending =>
    \/ \E i \in DOMAIN buffer["server"] : buffer["server"][i].msg = Request(n)
    \/ Request(n) \in todo
    \/ \E i \in DOMAIN buffer["client"] :
         /\ IsSkillResponse(buffer["client"][i].msg)
         /\ buffer["client"][i].msg.header.correlation_id = CallId[n]

\* With a window that fits the buffer a stream arrives whole: the chunks the
\* server read are those the client sent, in order, each end where it was set.
StreamsWhole ==
  WindowFits => /\ Len(heard) <= Len(chunks)
                /\ \A i \in 1..Len(heard) : heard[i] = chunks[i]

\* A call is answered or given up.
CallsAnswered ==
  \A n \in 1..Len(CallId) : CallId[n] \in pending ~> CallId[n] \notin pending
=============================================================================
