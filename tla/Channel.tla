------------------------------ MODULE Channel ------------------------------
(***************************************************************************)
(* One channel of runtime/channel.c: a ring of slots addressed by the      *)
(* counters head and tail, a spin lock, a closed flag, one queue of parked *)
(* senders and one of parked receivers, the wake-ups between them, and the *)
(* cancellation of the coroutines of a scope while they use the channel.   *)
(*                                                                         *)
(* A critical section (chan_lock .. chan_unlock) is one step, except the   *)
(* registration of a waiter: there the lock stays held while the coroutine *)
(* checks for cancellation, publishes wait_chan and switches away from its *)
(* stack; only the worker loop then releases it (held_lock).               *)
(***************************************************************************)
EXTENDS Integers, Sequences, FiniteSets

CONSTANTS Senders,     \* those that call jinn_chan_send
          Receivers,   \* those that call jinn_chan_recv and jinn_chan_try_recv
          Threads,     \* of these, callers that are no coroutine (*main): they spin
          Scoped,      \* the coroutines of the scope that may be cancelled
          Capacity,    \* number of slots of the ring
          Value,       \* the values that are sent
          MaxSends,    \* bound: no send begins once so many values were put in
          MainJoins,   \* the scope is joined by *main (else by a coroutine)
          None         \* no coroutine, no value

Coro == Senders \cup Receivers

ASSUME ChannelAssumption ==
  /\ IsFiniteSet(Senders) /\ IsFiniteSet(Receivers)
  /\ Senders \cap Receivers = {}
  /\ Threads \subseteq Coro
  /\ Scoped \subseteq Coro \ Threads
  /\ Capacity \in Nat \ {0}
  /\ MaxSends \in Nat
  /\ MainJoins \in BOOLEAN
  /\ None \notin Coro \cup Value

VARIABLES
  head, tail,        \* values taken out / put in so far
  buffer,            \* the slots
  closed,            \* the closed flag
  lock,              \* holder of the spin lock across a registration
  send_waitq, recv_waitq,  \* the parked coroutines, oldest first
  pc,                \* where each caller is in its operation
  wait_chan,         \* the coroutine has published the channel it waits on
  cancelled,         \* the cancelled flag of the coroutine
  runq,              \* coroutines handed to the scheduler (jinn_sched_enqueue)
  close_pc,          \* progress of jinn_chan_close
  cpc, todo, cur, seen,    \* progress of jinn_scope_cancel / scope_wake_cancelled
  parent,            \* the scope's parent: in the scope's body or in its join
  sent, rcvd         \* history: values put in, values handed out

chanVars   == <<head, tail, buffer, closed, sent, rcvd>>
waitVars   == <<send_waitq, recv_waitq, wait_chan, runq>>
cancelVars == <<cpc, todo, cur, seen, parent>>
vars == <<chanVars, waitVars, cancelVars, lock, pc, cancelled, close_pc>>

Slots == 0..(Capacity - 1)

\* idle: between operations; top: head of the retry loop; try: wants the lock;
\* check, reg, swap: registering as a waiter with the lock held; parked: switched
\* away; done: the operation returned 0 or the caller has finished.
Pcs == {"idle", "top", "try", "check", "reg", "swap", "parked", "done"}

Init ==
  /\ head = 0 /\ tail = 0
  /\ buffer = [i \in Slots |-> None]
  /\ closed = FALSE
  /\ lock = None
  /\ send_waitq = <<>> /\ recv_waitq = <<>>
  /\ pc = [c \in Coro |-> "idle"]
  /\ wait_chan = [c \in Coro |-> FALSE]
  /\ cancelled = [c \in Coro |-> FALSE]
  /\ runq = {}
  /\ close_pc = "open"
  /\ cpc = "idle" /\ todo = {} /\ cur = None /\ seen = FALSE
  /\ parent = "body"
  /\ sent = <<>> /\ rcvd = <<>>

----------------------------------------------------------------------------
(* Wake-ups                                                                *)

\* The waker marks c READY, clears its wait_chan and enqueues it.
Wake(woken) ==
  /\ wait_chan' = [c \in Coro |-> IF c \in woken THEN FALSE ELSE wait_chan[c]]
  /\ runq' = runq \cup woken

Members(q) == {q[i] : i \in DOMAIN q}

\* waitq_pop_wakeable on a queue of plain waiters: the oldest one, if any.
WakeOldestReceiver ==
  \/ /\ recv_waitq = <<>>
     /\ UNCHANGED waitVars
  \/ /\ recv_waitq # <<>>
     /\ recv_waitq' = Tail(recv_waitq)
     /\ Wake({Head(recv_waitq)})
     /\ UNCHANGED send_waitq

\* Mutant: the receive forgets the parked senders.
WakesNobody == UNCHANGED waitVars

\* Mutant: a receive wakes a sender only when it finds the ring full.
WakeSenderIfFull ==
  \/ /\ send_waitq = <<>> \/ tail - head < Capacity
     /\ UNCHANGED waitVars
  \/ /\ send_waitq # <<>> /\ tail - head = Capacity
     /\ send_waitq' = Tail(send_waitq)
     /\ Wake({Head(send_waitq)})
     /\ UNCHANGED recv_waitq

WakeOldestSender ==
  \/ /\ send_waitq = <<>>
     /\ UNCHANGED waitVars
  \/ /\ send_waitq # <<>>
     /\ send_waitq' = Tail(send_waitq)
     /\ Wake({Head(send_waitq)})
     /\ UNCHANGED recv_waitq

\* waitq_remove_coro: the first node of c is unlinked.
Without(q, c) ==
  IF c \in Members(q)
  THEN LET k == CHOOSE i \in DOMAIN q : q[i] = c /\ \A j \in 1..(i - 1) : q[j] # c
       IN  [i \in 1..(Len(q) - 1) |-> IF i < k THEN q[i] ELSE q[i + 1]]
  ELSE q

----------------------------------------------------------------------------
(* The callers' operations                                                 *)

Goto(c, l) == pc' = [pc EXCEPT ![c] = l]

\* A program calls send or receive in a loop.
Begin(c) ==
  /\ pc[c] = "idle"
  /\ IF c \in Senders /\ tail >= MaxSends THEN Goto(c, "done") ELSE Goto(c, "top")
  /\ UNCHANGED <<chanVars, waitVars, cancelVars, lock, cancelled, close_pc>>

\* if (jinn_scope_check_cancelled()) return 0;
CheckAtTop(c) ==
  /\ pc[c] = "top"
  /\ IF cancelled[c] THEN Goto(c, "done") ELSE Goto(c, "try")
  /\ UNCHANGED <<chanVars, waitVars, cancelVars, lock, cancelled, close_pc>>

\* Mutant: one slot too many.
HasRoomOffByOne == tail - head <= Capacity

HasRoom == tail - head < Capacity
\* Mutant: the last value is not seen.
HasValueOffByOne == head + 1 < tail

HasValue == head < tail

\* Mutants: the slot of the wrong counter; head is advanced before the copy.
PutAtHead(v) ==
  /\ buffer' = [buffer EXCEPT ![head % Capacity] = v]
  /\ tail' = tail + 1
  /\ sent' = Append(sent, v)
  /\ UNCHANGED <<head, rcvd, closed>>

TakeNext ==
  /\ rcvd' = Append(rcvd, buffer[(head + 1) % Capacity])
  /\ head' = head + 1
  /\ UNCHANGED <<buffer, tail, sent, closed>>

Put(v) ==
  /\ buffer' = [buffer EXCEPT ![tail % Capacity] = v]
  /\ tail' = tail + 1
  /\ sent' = Append(sent, v)
  /\ UNCHANGED <<head, rcvd, closed>>

Take ==
  /\ rcvd' = Append(rcvd, buffer[head % Capacity])
  /\ head' = head + 1
  /\ UNCHANGED <<buffer, tail, sent, closed>>

\* A caller that finds no room (no value) retries when it is a thread and
\* keeps the lock to register itself when it is a coroutine.
Blocked(c) ==
  /\ IF c \in Threads
     THEN Goto(c, "top") /\ UNCHANGED lock
     ELSE Goto(c, "check") /\ lock' = c
  /\ UNCHANGED <<chanVars, waitVars>>

\* The critical section of jinn_chan_send.
TrySend(c) ==
  /\ c \in Senders /\ pc[c] = "try" /\ lock = None
  /\ \/ /\ closed
        /\ Goto(c, "done")
        /\ UNCHANGED <<chanVars, waitVars, lock>>
     \/ /\ ~closed /\ HasRoom
        /\ \E v \in Value : Put(v)
        /\ WakeOldestReceiver
        /\ Goto(c, "idle")
        /\ UNCHANGED lock
     \/ /\ ~closed /\ ~HasRoom
        /\ Blocked(c)
  /\ UNCHANGED <<cancelVars, cancelled, close_pc>>

\* The critical section of jinn_chan_recv: a closed channel is drained first.
TryRecv(c) ==
  /\ c \in Receivers /\ pc[c] = "try" /\ lock = None
  /\ \/ /\ HasValue
        /\ Take
        /\ WakeOldestSender
        /\ Goto(c, "idle")
        /\ UNCHANGED lock
     \/ /\ ~HasValue /\ closed
        /\ Goto(c, "done")
        /\ UNCHANGED <<chanVars, waitVars, lock>>
     \/ /\ ~HasValue /\ ~closed
        /\ Blocked(c)
  /\ UNCHANGED <<cancelVars, cancelled, close_pc>>

\* jinn_chan_try_recv: a poll that neither parks nor looks at cancellation.
Poll(c) ==
  /\ c \in Receivers /\ pc[c] = "idle" /\ lock = None
  /\ \/ /\ HasValue
        /\ Take
        /\ WakeOldestSender
        /\ UNCHANGED pc
     \/ /\ ~HasValue /\ closed
        /\ Goto(c, "done")
        /\ UNCHANGED <<chanVars, waitVars>>
  /\ UNCHANGED <<cancelVars, lock, cancelled, close_pc>>

\* The second cancellation check, with the lock held.
CheckBeforeParking(c) ==
  /\ pc[c] = "check"
  /\ IF cancelled[c]
     THEN Goto(c, "done") /\ lock' = None
     ELSE Goto(c, "reg") /\ UNCHANGED lock
  /\ UNCHANGED <<chanVars, waitVars, cancelVars, cancelled, close_pc>>

\* state = SUSPENDED, jinn_coro_set_wait_chan, waitq_push, held_lock, PARK.
Register(c) ==
  /\ pc[c] = "reg"
  /\ wait_chan' = [wait_chan EXCEPT ![c] = TRUE]
  /\ IF c \in Senders
     THEN send_waitq' = Append(send_waitq, c) /\ UNCHANGED recv_waitq
     ELSE recv_waitq' = Append(recv_waitq, c) /\ UNCHANGED send_waitq
  /\ Goto(c, "swap")
  /\ UNCHANGED <<chanVars, cancelVars, lock, runq, cancelled, close_pc>>

\* The stack is left; the worker loop then stores 0 to held_lock.
SwapOut(c) ==
  /\ pc[c] = "swap"
  /\ Goto(c, "parked")
  /\ lock' = None
  /\ UNCHANGED <<chanVars, waitVars, cancelVars, cancelled, close_pc>>

\* A worker takes c from a run queue and resumes it at the head of its loop.
Run(c) ==
  /\ c \in runq
  /\ runq' = runq \ {c}
  /\ Goto(c, "top")
  /\ UNCHANGED <<chanVars, send_waitq, recv_waitq, wait_chan, cancelVars, lock,
                 cancelled, close_pc>>

----------------------------------------------------------------------------
(* jinn_chan_close: the flag is stored before the lock is taken.           *)

CloseStore ==
  /\ close_pc = "open"
  /\ closed' = TRUE
  /\ close_pc' = "stored"
  /\ UNCHANGED <<head, tail, buffer, sent, rcvd, waitVars, cancelVars, lock, pc,
                 cancelled>>

\* Mutant: the queues are emptied without the lock.
CloseWakeUnlocked ==
  /\ close_pc = "stored"
  /\ send_waitq' = <<>> /\ recv_waitq' = <<>>
  /\ Wake(Members(send_waitq) \cup Members(recv_waitq))
  /\ close_pc' = "shut"
  /\ UNCHANGED <<chanVars, cancelVars, lock, pc, cancelled>>

CloseWakeAll ==
  /\ close_pc = "stored" /\ lock = None
  /\ send_waitq' = <<>> /\ recv_waitq' = <<>>
  /\ Wake(Members(send_waitq) \cup Members(recv_waitq))
  /\ close_pc' = "shut"
  /\ UNCHANGED <<chanVars, cancelVars, lock, pc, cancelled>>

----------------------------------------------------------------------------
(* jinn_scope_cancel over the coroutines of the scope, and the repetition  *)
(* of its wake-ups by *main in jinn_scope_join_no_free.                    *)

\* A coroutine that joins a scope nobody cancelled parks until the last child is
\* done.  (*main repeats its wake-ups, so where it is makes no difference.)
ParentParks ==
  /\ ~MainJoins /\ parent = "body" /\ cpc = "idle"
  /\ parent' = "join"
  /\ UNCHANGED <<chanVars, waitVars, cpc, todo, cur, seen, lock, pc, cancelled, close_pc>>

ScopeCancel ==
  /\ cpc = "idle" /\ Scoped # {}
  /\ cpc' = "mark"
  /\ todo' = Scoped
  /\ UNCHANGED <<chanVars, waitVars, cur, seen, parent, lock, pc, cancelled, close_pc>>

CancelMark(c) ==
  /\ cpc = "mark" /\ c \in todo
  /\ cancelled' = [cancelled EXCEPT ![c] = TRUE]
  /\ cur' = c
  /\ cpc' = "peek"
  /\ UNCHANGED <<chanVars, waitVars, todo, seen, parent, lock, pc, close_pc>>

\* jinn_chan_wake_cancelled reads wait_chan under the coroutine's wait_lock.
CancelPeek ==
  /\ cpc = "peek"
  /\ seen' = wait_chan[cur]
  /\ cpc' = "wake"
  /\ UNCHANGED <<chanVars, waitVars, todo, cur, parent, lock, pc, cancelled, close_pc>>

\* Mutant: the coroutine is enqueued whether or not a node of it was found.
WakeCoroAnyway(c) ==
  /\ lock = None
  /\ send_waitq' = Without(send_waitq, c)
  /\ recv_waitq' = Without(recv_waitq, c)
  /\ Wake({c})

\* jinn_chan_wake_coro, when a channel was seen, under the channel's lock.
WakeCoro(c) ==
  /\ lock = None
  /\ send_waitq' = Without(send_waitq, c)
  /\ recv_waitq' = Without(recv_waitq, c)
  /\ Wake({c} \cap (Members(send_waitq) \cup Members(recv_waitq)))

CancelWake ==
  /\ cpc = "wake"
  /\ IF seen THEN WakeCoro(cur) ELSE UNCHANGED waitVars
  /\ todo' = todo \ {cur}
  /\ cpc' = CASE todo' = {} -> "join"
              [] todo' # {} /\ (\A c \in Scoped : cancelled[c]) -> "rewake"
              [] OTHER -> "mark"
  /\ UNCHANGED <<chanVars, cur, seen, parent, lock, pc, cancelled, close_pc>>

\* Mutant: *main wakes the children once and then only waits for them.
JoinRewakeOnce ==
  /\ cpc = "join" /\ parent = "body"
  /\ parent' = "join"
  /\ todo' = {c \in Scoped : pc[c] # "done"}
  /\ todo' # {}
  /\ cpc' = "rewake"
  /\ UNCHANGED <<chanVars, waitVars, cur, seen, lock, pc, cancelled, close_pc>>

\* Joining a cancelled scope with children left wakes them again: *main does so
\* until they are gone, a coroutine once, before it parks.
JoinRewake ==
  /\ cpc = "join"
  /\ MainJoins \/ parent = "body"
  /\ parent' = IF MainJoins THEN parent ELSE "join"
  /\ todo' = {c \in Scoped : pc[c] # "done"}
  /\ todo' # {}
  /\ cpc' = "rewake"
  /\ UNCHANGED <<chanVars, waitVars, cur, seen, lock, pc, cancelled, close_pc>>

RewakePeek(c) ==
  /\ cpc = "rewake" /\ c \in todo
  /\ cur' = c
  /\ seen' = wait_chan[c]
  /\ cpc' = "wake"
  /\ UNCHANGED <<chanVars, waitVars, todo, parent, lock, pc, cancelled, close_pc>>

----------------------------------------------------------------------------

CoroStep(c) ==
  \/ Begin(c) \/ CheckAtTop(c)
  \/ TrySend(c) \/ TryRecv(c) \/ Poll(c)
  \/ CheckBeforeParking(c) \/ Register(c) \/ SwapOut(c)
  \/ Run(c)

CancelStep ==
  \/ ParentParks \/ CancelPeek \/ CancelWake \/ JoinRewake
  \/ \E c \in Scoped : CancelMark(c) \/ RewakePeek(c)

Next ==
  \/ \E c \in Coro : CoroStep(c)
  \/ CloseStore \/ CloseWakeAll
  \/ ScopeCancel \/ CancelStep

Spec == Init /\ [][Next]_vars

\* Every runnable coroutine and every thread keeps running, a started close and
\* a started cancellation go on; nothing forces a close or a cancellation.
Fairness ==
  /\ \A c \in Coro : WF_vars(CoroStep(c))
  /\ WF_vars(CloseWakeAll)
  /\ WF_vars(CancelStep)

FairSpec == Spec /\ Fairness

----------------------------------------------------------------------------
(* Properties                                                              *)

\* The types of the state; a received value is one of Value, never an empty slot.
TypeOK ==
  /\ head \in Nat /\ tail \in Nat
  /\ buffer \in [Slots -> Value \cup {None}]
  /\ closed \in BOOLEAN
  /\ lock \in Coro \cup {None}
  /\ send_waitq \in Seq(Senders) /\ recv_waitq \in Seq(Receivers)
  /\ pc \in [Coro -> Pcs]
  /\ wait_chan \in [Coro -> BOOLEAN]
  /\ cancelled \in [Coro -> BOOLEAN]
  /\ runq \subseteq Coro
  /\ close_pc \in {"open", "stored", "shut"}
  /\ cpc \in {"idle", "mark", "peek", "wake", "rewake", "join"}
  /\ todo \subseteq Scoped /\ cur \in Scoped \cup {None} /\ seen \in BOOLEAN
  /\ parent \in {"body", "join"}
  /\ sent \in Seq(Value) /\ rcvd \in Seq(Value)

\* The ring holds exactly the accepted values that were not handed out, each
\* in its slot: no value is overwritten before it was received, lost or
\* handed out twice, whatever the interleaving of send, receive and close.
RingHoldsPending ==
  /\ head = Len(rcvd) /\ tail = Len(sent)
  /\ head <= tail /\ tail - head <= Capacity
  /\ rcvd = SubSeq(sent, 1, head)
  /\ \A i \in head..(tail - 1) : buffer[i % Capacity] = sent[i + 1]

\* A coroutine that has left its stack is in exactly one place, its wait queue
\* or a run queue, and one that has not is in no run queue: no worker resumes a
\* coroutine that another one still runs (the held_lock protocol), nobody
\* enqueues it twice, and none is forgotten.
ParkedInOnePlace ==
  /\ \A c \in Coro : pc[c] = "parked" <=>
       \/ c \in runq
       \/ c \in Members(send_waitq) \cup Members(recv_waitq) /\ pc[c] # "swap"
  /\ runq \cap (Members(send_waitq) \cup Members(recv_waitq)) = {}

\* Who will look at the channel again without being woken.
EnRoute(S) == {c \in S : pc[c] \in {"top", "try"} \/ c \in runq}

NobodyCancelled == \A c \in Coro : ~cancelled[c]

\* No lost wake-up among senders and receivers: while a receiver is parked,
\* every pending value has a receiver on its way; while a sender is parked,
\* every free slot of the open channel has a sender on its way.
NoStranded ==
  NobodyCancelled =>
    /\ recv_waitq # <<>> => tail - head <= Cardinality(EnRoute(Receivers))
    /\ send_waitq # <<>> /\ ~closed =>
         Capacity - (tail - head) <= Cardinality(EnRoute(Senders))

\* Once jinn_chan_close has returned nobody is left parked on the channel.
ClosedFreesAll ==
  close_pc = "shut" => send_waitq = <<>> /\ recv_waitq = <<>>

\* The channel implements the bounded queue its users rely on.
Fifo == INSTANCE BoundedFifo WITH
  queue <- [i \in 1..(tail - head) |-> buffer[(head + i - 1) % Capacity]],
  delivered <- rcvd,
  shut <- closed

\* Every step of send, receive, poll and close is a step of that queue or leaves
\* it as it is; parking, wake-ups and cancellation are invisible.
ImplementsFifo == Fifo!FifoSpec

\* C1 of docs/concurrency.md: a coroutine of a cancelled scope leaves its
\* channel operation, also when it is parked in it.
CancelledReturns == \A c \in Scoped : cancelled[c] ~> pc[c] = "done"

\* Every accepted value is received, and every send returns, as long as the
\* receivers go on receiving: close drains, and no wake-up is missed.
EveryValueDelivered ==
  \A k \in 1..(MaxSends + Cardinality(Senders)) : Len(sent) >= k ~> Len(rcvd) >= k

\* jinn_chan_send comes back: a parked sender is woken by a receive or by close.
EverySendReturns ==
  \A c \in Senders : pc[c] = "top" ~> pc[c] \in {"idle", "done"}
============================================================================
