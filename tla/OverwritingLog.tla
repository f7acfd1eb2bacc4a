---------------------------- MODULE OverwritingLog ----------------------------
(***************************************************************************)
(* What one direction of a shared-memory channel promises its reader       *)
(* (crates/laic/src/transport/ipc.rs, "Delivery Semantics"): messages are  *)
(* numbered as they are published; the reader's cursor only moves forward, *)
(* past the message it reads, or past the oldest unread one when a new     *)
(* message finds Size of them unread.                                      *)
(***************************************************************************)
EXTENDS Naturals

CONSTANT Size   \* messages kept for the reader

VARIABLES
  last,    \* number of the newest message
  next     \* number of the message the reader gets next

logVars == <<last, next>>

LogInit == last = 0 /\ next = 1

\* The oldest unread message is given up only when Size are unread.
Publish ==
  /\ last' = last + 1
  /\ next' = IF last - next + 1 < Size THEN next ELSE next + 1

Read ==
  /\ next <= last
  /\ next' = next + 1
  /\ UNCHANGED last

\* The reader goes away: what it had not read is gone.
Leave ==
  /\ next' = last + 1
  /\ UNCHANGED last

LogNext == Publish \/ Read \/ Leave

LogSpec == LogInit /\ [][LogNext]_logVars
=============================================================================
