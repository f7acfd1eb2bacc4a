------------------------------ MODULE CreditFlow ------------------------------
(***************************************************************************)
(* CreditController (crates/laic/src/flow.rs) used as its doc comment      *)
(* says, over a shared-memory channel whose two ends are open: the client  *)
(* acquires a credit for each metered message it sends and adds the        *)
(* credits the server's messages carry; control and heartbeat messages     *)
(* need no credit.  The server grants a credit for each metered message it *)
(* has read.  What is sent is left to the modules that extend this one.    *)
(***************************************************************************)
EXTENDS ShmChannel, Patterns, FiniteSets

CONSTANTS
  InitialCredits,  \* CreditController::new
  MaxCredit,       \* u16::MAX
  MaxHeartbeats,   \* bound: messages sent without a credit
  MaxBonus         \* bound: credits granted beyond one per message read

ASSUME CreditAssumption ==
  /\ MaxCredit \in Nat /\ InitialCredits \in 0..MaxCredit
  /\ MaxHeartbeats \in Nat /\ MaxBonus \in Nat
  /\ \A m \in Message : /\ m.header \in MessageHeader /\ Valid(m.header)
                         /\ m.header.payload_len = m.len

VARIABLES
  available,   \* CreditController::available
  holding,     \* the client has acquired a credit and not yet called send
  owed,        \* metered messages the server read and granted nothing for
  heartbeats,  \* messages sent without a credit so far
  bonus,       \* credits granted beyond one per message read so far
  leaked       \* credits acquired for a send that was refused

flowVars == <<available, holding, owed, heartbeats, bonus, leaked>>
creditVars == <<shmVars, flowVars>>

-----------------------------------------------------------------------------
\* Messages the caller acquires a credit for.
Metered(m) == m.header.msg_type \notin {CONTROL, HEARTBEAT}

Heartbeat == NewMessage(HEARTBEAT, 0, 2, 0, 0)

CreditInit ==
  /\ status = [e \in Ends |-> "open"]
  /\ asleep = [e \in Ends |-> FALSE]
  /\ buffer = [e \in Ends |-> <<>>]
  /\ published = [e \in Ends |-> 0]
  /\ missed = [e \in Ends |-> 0]
  /\ got = [e \in Ends |-> <<>>]
  /\ result = [e \in Ends |-> "none"]
  /\ available = InitialCredits
  /\ holding = FALSE
  /\ owed = 0
  /\ heartbeats = 0
  /\ bonus = 0
  /\ leaked = 0

-----------------------------------------------------------------------------
\* Mutants: a successful acquire does not count down; replenish wraps round.
Unchanged(credits) == credits
Wrapped(credits, granted) == (credits + granted) % (MaxCredit + 1)

\* acquire takes one credit.
Decremented(credits) == credits - 1

\* replenish: saturating_add.
Replenished(credits, granted) ==
  IF credits + granted > MaxCredit THEN MaxCredit ELSE credits + granted

\* acquire() returns Ok.
Acquire ==
  /\ ~holding
  /\ available > 0
  /\ available' = Decremented(available)
  /\ holding' = TRUE
  /\ UNCHANGED <<shmVars, owed, heartbeats, bonus, leaked>>

\* The message goes out; the credit is spent whether or not it arrives.
SendMetered(m) ==
  /\ holding
  /\ Metered(m)
  /\ Send("client", m)
  /\ holding' = FALSE
  /\ UNCHANGED <<available, owed, heartbeats, bonus, leaked>>

\* send returns an error; the controller has no way to give the credit back.
SendMeteredFails(m) ==
  /\ holding
  /\ Metered(m)
  /\ SendRefused("client", m) \/ SendFails("client")
  /\ holding' = FALSE
  /\ leaked' = leaked + 1
  /\ UNCHANGED <<available, owed, heartbeats, bonus>>

\* Control and heartbeat messages are exempt.
SendHeartbeat ==
  /\ heartbeats < MaxHeartbeats
  /\ Send("client", Heartbeat)
  /\ heartbeats' = heartbeats + 1
  /\ UNCHANGED <<available, holding, owed, bonus, leaked>>

\* What becomes of a message: its header is encoded by the sender and decoded
\* by the receiver.
Transmitted ==
  [m \in Message |-> [header |-> Fields(Encoded(m.header)), len |-> m.len]]

\* The message an end's receive returns: the oldest frame of its buffer.
Arrival(e) == Transmitted[Head(buffer[e]).msg]

ServerTakes ==
  /\ Receive("server")
  /\ owed' = owed + IF Metered(Arrival("server")) THEN 1 ELSE 0
  /\ UNCHANGED <<available, holding, heartbeats, bonus, leaked>>

\* The server sends a message with credits: so many it owes, and, to widen the
\* window, more.
Grant(m, due) ==
  LET credits == m.header.credit_grant IN
  /\ credits > 0
  /\ due \in 0..owed
  /\ credits - due \in 0..(MaxBonus - bonus)
  /\ Send("server", m)
  /\ owed' = owed - due
  /\ bonus' = bonus + credits - due
  /\ UNCHANGED <<available, holding, heartbeats, leaked>>

\* The client reads a message and adds the credits it carries.
ClientTakes ==
  /\ Receive("client")
  /\ available' = Replenished(available, Arrival("client").header.credit_grant)
  /\ UNCHANGED <<holding, owed, heartbeats, bonus, leaked>>

-----------------------------------------------------------------------------
(* Properties                                                              *)

\* The sum of a sequence of numbers.
Total(numbers) ==
  LET sum[n \in 0..Len(numbers)] ==
        IF n = 0 THEN 0 ELSE sum[n - 1] + numbers[n]
  IN  sum[Len(numbers)]

\* Credits on their way to the client, and metered messages on their way to
\* the server, frame by frame.
Credits(frames) ==
  [i \in 1..Len(frames) |-> frames[i].msg.header.credit_grant]
Meter(frames) ==
  [i \in 1..Len(frames) |-> IF Metered(frames[i].msg) THEN 1 ELSE 0]

Granted(frames) == Total(Credits(frames))
Unread(frames) == Total(Meter(frames))

Holding == IF holding THEN 1 ELSE 0

\* Backpressure: however sends, reads, grants and losses interleave, there are
\* never more credits about than the window the server gave, so no more metered
\* messages are unread than that.
WindowRespected ==
  available + Holding + Unread(buffer["server"]) + owed
    + Granted(buffer["client"]) + leaked
  <= InitialCredits + bonus

\* The window and the exempt messages fit the subscriber's buffer together.
WindowFits == InitialCredits + MaxBonus + MaxHeartbeats <= BufferSize

\* The upper-layer flow control the delivery semantics of ipc.rs ask for: with
\* a window that fits, nothing is replaced unread in either direction.
NothingReplaced ==
  WindowFits =>
    \A e \in Ends : published[e] = Len(got[e]) + Len(buffer[e])

\* A client that ran out of credits gets some back, unless they leaked.
CreditsComeBack == available = 0 ~> available > 0 \/ leaked > 0
=============================================================================
