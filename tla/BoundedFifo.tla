---------------------------- MODULE BoundedFifo ----------------------------
(***************************************************************************)
(* What a Jinn channel promises its users: a first-in first-out queue of   *)
(* at most Capacity values that can be closed once, refuses values after   *)
(* it was closed and hands out what it still holds.  Parking, wake-ups,    *)
(* locks and the ring of slots are not visible at this level.              *)
(***************************************************************************)
EXTENDS Naturals, Sequences

CONSTANTS Value,      \* the values that can be sent
          Capacity    \* how many values the queue holds at most

VARIABLES queue,      \* the values accepted and not yet handed out
          delivered,  \* the values handed out so far, in order
          shut        \* the queue was closed

fifoVars == <<queue, delivered, shut>>

FifoInit ==
  /\ queue = <<>>
  /\ delivered = <<>>
  /\ shut = FALSE

\* A value is accepted while there is room and the queue is open.
Accept(v) ==
  /\ ~shut
  /\ Len(queue) < Capacity
  /\ queue' = Append(queue, v)
  /\ UNCHANGED <<delivered, shut>>

\* The oldest value is handed out, before and after the queue was closed.
HandOut ==
  /\ queue # <<>>
  /\ queue' = Tail(queue)
  /\ delivered' = Append(delivered, Head(queue))
  /\ UNCHANGED shut

Shut ==
  /\ ~shut
  /\ shut' = TRUE
  /\ UNCHANGED <<queue, delivered>>

FifoNext == (\E v \in Value : Accept(v)) \/ HandOut \/ Shut

FifoSpec == FifoInit /\ [][FifoNext]_fifoVars
============================================================================
