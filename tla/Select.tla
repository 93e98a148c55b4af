------------------------------- MODULE Select -------------------------------
(***************************************************************************)
(* jinn_select (runtime/select.c) over several channels, together with the *)
(* plain senders and receivers that share the channels' wait queues.       *)
(*                                                                         *)
(* A select takes the locks of its channels one by one in address order,   *)
(* polls its cases in a random order, and parks with one node per case in  *)
(* the wait queues; the nodes live on its stack and share one claim word,  *)
(* so that exactly one waker gets the coroutine.  When it resumes it locks *)
(* everything again, unlinks what is left of its nodes and polls again.    *)
(*                                                                         *)
(* Channel models the ring, the close protocol and the registration of a   *)
(* plain waiter in detail; here a buffer is the number of values in it and *)
(* a plain operation is one critical section.                              *)
(***************************************************************************)
EXTENDS Integers, Sequences, FiniteSets, FiniteSetsExt

CONSTANTS Chan,        \* the channels, numbered in the order of their addresses
          Capacity,    \* slots of each channel
          Selectors,   \* coroutines that call jinn_select
          Cases,       \* their cases: [Selectors -> Seq([chan, is_send])]
          Threads,     \* the selectors that are no coroutine (*main): they spin
          Defaulted,   \* the selectors whose select has a default
          Senders, Receivers,  \* coroutines that send or receive plainly
          Home,        \* the channel each of these uses
          Scoped,      \* the selectors whose scope may be cancelled
          MaxOps,      \* bound: operations each coroutine begins
          MaxClosed,   \* bound: channels that get closed
          None

Coro == Selectors \cup Senders \cup Receivers

ASSUME SelectAssumption ==
  /\ Chan \subseteq Nat /\ IsFiniteSet(Chan)
  /\ Capacity \in Nat \ {0}
  /\ \A c \in Selectors : Cases[c] \in Seq([chan : Chan, is_send : BOOLEAN])
  /\ \A c \in Senders \cup Receivers : Home[c] \in Chan
  /\ Defaulted \subseteq Selectors /\ Threads \subseteq Selectors
  /\ Scoped \subseteq Selectors \ Threads
  /\ Selectors \cap (Senders \cup Receivers) = {}
  /\ None \notin Chan \cup Selectors

VARIABLES
  fill,          \* values in each channel's buffer
  closed,        \* channels that are closed
  lock,          \* holder of each channel's lock
  sendq, recvq,  \* wait queues of nodes [coro, case]; case 0 is a plain waiter
  pc, ops,       \* progress and number of operations begun, per coroutine
  claim,         \* the claim word of each parked select
  wait_chan,     \* the channel a parked select published, or None
  cancelled,     \* the coroutine's cancelled flag
  runq           \* coroutines handed to the scheduler

bufVars == <<fill, closed>>
waitVars == <<sendq, recvq, claim, wait_chan, runq>>
vars == <<bufVars, waitVars, lock, pc, ops, cancelled>>

ChansOf(c) == {Cases[c][i].chan : i \in DOMAIN Cases[c]}

Init ==
  /\ fill = [ch \in Chan |-> 0]
  /\ closed = {}
  /\ lock = [ch \in Chan |-> None]
  /\ sendq = [ch \in Chan |-> <<>>] /\ recvq = [ch \in Chan |-> <<>>]
  /\ pc = [c \in Coro |-> "idle"]
  /\ ops = [c \in Coro |-> 0]
  /\ claim = [c \in Selectors |-> FALSE]
  /\ wait_chan = [c \in Selectors |-> None]
  /\ cancelled = [c \in Coro |-> FALSE]
  /\ runq = {}

Goto(c, l) == pc' = [pc EXCEPT ![c] = l]

----------------------------------------------------------------------------
(* Wait queues                                                             *)

Members(q) == {q[i] : i \in DOMAIN q}

\* The k-th smallest of a set of positions, and what a sequence holds at them.
Nth(S, k) == CHOOSE i \in S : Cardinality({j \in S : j <= i}) = k
PickAt(q, S) == [k \in 1..Cardinality(S) |-> q[Nth(S, k)]]

\* Mutant: the claim word is not looked at.
AlwaysClaimable(n) == TRUE

\* waitq_node_claim succeeds on a plain node and on an unclaimed select.
Claimable(n) == n.case = 0 \/ ~claim[n.coro]

\* waitq_pop_wakeable drops claimed nodes and returns the first other one.
Wakeable(q) == {i \in DOMAIN q : Claimable(q[i])}
PopRest(q) == IF Wakeable(q) = {} THEN <<>> ELSE SubSeq(q, Min(Wakeable(q)) + 1, Len(q))
Popped(q) == IF Wakeable(q) = {} THEN {} ELSE {q[Min(Wakeable(q))].coro}

\* The claimed coroutines lose their wait_chan, become READY and are enqueued.
Wake(woken) ==
  /\ claim' = [c \in Selectors |-> claim[c] \/ c \in woken]
  /\ wait_chan' = [c \in Selectors |-> IF c \in woken THEN None ELSE wait_chan[c]]
  /\ runq' = runq \cup woken

\* A value went in: a receiver is woken.  A value came out: a sender is.
WakeReceiver(ch) ==
  /\ recvq' = [recvq EXCEPT ![ch] = PopRest(@)]
  /\ Wake(Popped(recvq[ch]))
  /\ UNCHANGED sendq

WakeSender(ch) ==
  /\ sendq' = [sendq EXCEPT ![ch] = PopRest(@)]
  /\ Wake(Popped(sendq[ch]))
  /\ UNCHANGED recvq

CanSend(ch) == fill[ch] < Capacity
CanRecv(ch) == fill[ch] > 0

----------------------------------------------------------------------------
(* Plain senders and receivers (jinn_chan_send, jinn_chan_recv)            *)

Begin(c) ==
  /\ pc[c] = "idle" /\ ops[c] < MaxOps
  /\ ops' = [ops EXCEPT ![c] = @ + 1]
  /\ Goto(c, "top")
  /\ UNCHANGED <<bufVars, waitVars, lock, cancelled>>

PlainNode(c) == [coro |-> c, case |-> 0]

PlainSend(c) ==
  LET ch == Home[c] IN
  /\ c \in Senders /\ pc[c] = "top" /\ lock[ch] = None
  /\ \/ /\ ch \in closed
        /\ Goto(c, "done")
        /\ UNCHANGED <<bufVars, waitVars>>
     \/ /\ ch \notin closed /\ CanSend(ch)
        /\ fill' = [fill EXCEPT ![ch] = @ + 1]
        /\ WakeReceiver(ch)
        /\ Goto(c, "idle")
        /\ UNCHANGED closed
     \/ /\ ch \notin closed /\ ~CanSend(ch)
        /\ sendq' = [sendq EXCEPT ![ch] = Append(@, PlainNode(c))]
        /\ Goto(c, "parked")
        /\ UNCHANGED <<bufVars, recvq, claim, wait_chan, runq>>
  /\ UNCHANGED <<lock, ops, cancelled>>

PlainRecv(c) ==
  LET ch == Home[c] IN
  /\ c \in Receivers /\ pc[c] = "top" /\ lock[ch] = None
  /\ \/ /\ CanRecv(ch)
        /\ fill' = [fill EXCEPT ![ch] = @ - 1]
        /\ WakeSender(ch)
        /\ Goto(c, "idle")
        /\ UNCHANGED closed
     \/ /\ ~CanRecv(ch) /\ ch \in closed
        /\ Goto(c, "done")
        /\ UNCHANGED <<bufVars, waitVars>>
     \/ /\ ~CanRecv(ch) /\ ch \notin closed
        /\ recvq' = [recvq EXCEPT ![ch] = Append(@, PlainNode(c))]
        /\ Goto(c, "parked")
        /\ UNCHANGED <<bufVars, sendq, claim, wait_chan, runq>>
  /\ UNCHANGED <<lock, ops, cancelled>>

PlainRun(c) ==
  /\ c \notin Selectors /\ c \in runq
  /\ runq' = runq \ {c}
  /\ Goto(c, "top")
  /\ UNCHANGED <<bufVars, sendq, recvq, claim, wait_chan, lock, ops, cancelled>>

----------------------------------------------------------------------------
(* jinn_select                                                             *)

\* Mutant: a select does not look at the cancelled flag when it retries.
NoCheckAtTop(c) ==
  /\ c \in Selectors /\ pc[c] = "top"
  /\ Goto(c, "lock")
  /\ UNCHANGED <<bufVars, waitVars, lock, ops, cancelled>>

CheckAtTop(c) ==
  /\ c \in Selectors /\ pc[c] = "top"
  /\ IF cancelled[c] THEN Goto(c, "done") ELSE Goto(c, "lock")
  /\ UNCHANGED <<bufVars, waitVars, lock, ops, cancelled>>

\* Mutant: locks in the order of the cases, not of the addresses.
NextInCaseOrder(c) ==
  Cases[c][Min({i \in DOMAIN Cases[c] : lock[Cases[c][i].chan] # c})].chan

\* lock_all: the next lock in address order, spinning while it is taken.
NextToLock(c) == Min({ch \in ChansOf(c) : lock[ch] # c})
HoldsAll(c) == \A ch \in ChansOf(c) : lock[ch] = c

LockNext(c) ==
  /\ c \in Selectors /\ pc[c] \in {"lock", "relock"} /\ ~HoldsAll(c)
  /\ lock[NextToLock(c)] = None
  /\ lock' = [lock EXCEPT ![NextToLock(c)] = c]
  /\ UNCHANGED <<bufVars, waitVars, pc, ops, cancelled>>

UnlockAll(c) == lock' = [ch \in Chan |-> IF lock[ch] = c THEN None ELSE lock[ch]]

CaseReady(k) ==
  IF k.is_send THEN k.chan \in closed \/ CanSend(k.chan)
               ELSE k.chan \in closed \/ CanRecv(k.chan)

Ready(c) == {i \in DOMAIN Cases[c] : CaseReady(Cases[c][i])}

\* fire_case_locked: a send arm on a closed channel and a receive arm on a
\* closed and drained one move no value.
FireCase(k) ==
  \/ /\ k.is_send /\ k.chan \notin closed
     /\ fill' = [fill EXCEPT ![k.chan] = @ + 1]
     /\ WakeReceiver(k.chan)
     /\ UNCHANGED closed
  \/ /\ ~k.is_send /\ CanRecv(k.chan)
     /\ fill' = [fill EXCEPT ![k.chan] = @ - 1]
     /\ WakeSender(k.chan)
     /\ UNCHANGED closed
  \/ /\ k.chan \in closed /\ (k.is_send \/ ~CanRecv(k.chan))
     /\ UNCHANGED <<bufVars, waitVars>>

\* The poll loop fires the first ready case of its shuffled order.
Fire(c) ==
  /\ c \in Selectors /\ pc[c] = "lock" /\ HoldsAll(c)
  /\ \E i \in Ready(c) : FireCase(Cases[c][i])
  /\ UnlockAll(c)
  /\ Goto(c, "idle")
  /\ UNCHANGED <<ops, cancelled>>

\* has_default, or nothing to wait for.
NeverWaits(c) == c \in Defaulted \/ ChansOf(c) = {}

TakeDefault(c) ==
  /\ c \in Selectors /\ NeverWaits(c) /\ pc[c] = "lock" /\ HoldsAll(c) /\ Ready(c) = {}
  /\ UnlockAll(c)
  /\ Goto(c, "idle")
  /\ UNCHANGED <<bufVars, waitVars, ops, cancelled>>

\* A caller that is no coroutine backs off and starts over.
Spin(c) ==
  /\ c \in Threads /\ ~NeverWaits(c) /\ pc[c] = "lock" /\ HoldsAll(c) /\ Ready(c) = {}
  /\ UnlockAll(c)
  /\ Goto(c, "top")
  /\ UNCHANGED <<bufVars, waitVars, ops, cancelled>>

\* The nodes c pushes on the wait queue of ch, in the order of its cases.
NodesFor(c, ch, send) ==
  PickAt([i \in DOMAIN Cases[c] |-> [coro |-> c, case |-> i]],
         {i \in DOMAIN Cases[c] : Cases[c][i].chan = ch /\ Cases[c][i].is_send = send})

Park(c) ==
  /\ c \in Selectors \ Threads /\ ~NeverWaits(c) /\ pc[c] = "lock" /\ HoldsAll(c) /\ Ready(c) = {}
  /\ claim' = [claim EXCEPT ![c] = FALSE]
  /\ sendq' = [ch \in Chan |-> sendq[ch] \o NodesFor(c, ch, TRUE)]
  /\ recvq' = [ch \in Chan |-> recvq[ch] \o NodesFor(c, ch, FALSE)]
  /\ wait_chan' = [wait_chan EXCEPT ![c] = Min(ChansOf(c))]
  /\ Goto(c, "swap")
  /\ UNCHANGED <<bufVars, lock, runq, ops, cancelled>>

\* The stack is left; the worker loop releases held_locks.
SwapOut(c) ==
  /\ pc[c] = "swap"
  /\ UnlockAll(c)
  /\ Goto(c, "parked")
  /\ UNCHANGED <<bufVars, waitVars, ops, cancelled>>

Resume(c) ==
  /\ c \in Selectors /\ c \in runq
  /\ runq' = runq \ {c}
  /\ Goto(c, "relock")
  /\ UNCHANGED <<bufVars, sendq, recvq, claim, wait_chan, lock, ops, cancelled>>

NotOf(q, c) == PickAt(q, {i \in DOMAIN q : q[i].coro # c})

\* Mutant: the nodes in the senders' queues are forgotten.
UnlinkReceives(c) ==
  /\ pc[c] = "relock" /\ HoldsAll(c)
  /\ recvq' = [ch \in Chan |-> NotOf(recvq[ch], c)]
  /\ wait_chan' = [wait_chan EXCEPT ![c] = None]
  /\ UnlockAll(c)
  /\ Goto(c, "top")
  /\ UNCHANGED <<bufVars, sendq, claim, runq, ops, cancelled>>

\* waitq_remove_node for every case, unlock_all, set_wait_chan(NULL).
Unlink(c) ==
  /\ pc[c] = "relock" /\ HoldsAll(c)
  /\ sendq' = [ch \in Chan |-> NotOf(sendq[ch], c)]
  /\ recvq' = [ch \in Chan |-> NotOf(recvq[ch], c)]
  /\ wait_chan' = [wait_chan EXCEPT ![c] = None]
  /\ UnlockAll(c)
  /\ Goto(c, "top")
  /\ UNCHANGED <<bufVars, claim, runq, ops, cancelled>>

----------------------------------------------------------------------------
(* Close and cancellation, both from outside                               *)

Close(ch) ==
  /\ ch \notin closed /\ lock[ch] = None
  /\ Cardinality(closed) < MaxClosed
  /\ closed' = closed \cup {ch}
  /\ Wake({n.coro : n \in {m \in Members(sendq[ch]) \cup Members(recvq[ch]) : Claimable(m)}})
  /\ sendq' = [sendq EXCEPT ![ch] = <<>>]
  /\ recvq' = [recvq EXCEPT ![ch] = <<>>]
  /\ UNCHANGED <<fill, lock, pc, ops, cancelled>>

\* jinn_scope_cancel marks the coroutine ...
CancelMark(c) ==
  /\ c \in Scoped /\ ~cancelled[c]
  /\ cancelled' = [cancelled EXCEPT ![c] = TRUE]
  /\ UNCHANGED <<bufVars, waitVars, lock, pc, ops>>

\* waitq_remove_coro unlinks the first node of c only.
FirstOf(q, c) == {i \in DOMAIN q : q[i].coro = c /\ \A j \in 1..(i - 1) : q[j].coro # c}
DropFirst(q, c) ==
  IF FirstOf(q, c) = {} THEN q
  ELSE LET k == CHOOSE i \in FirstOf(q, c) : TRUE
       IN  SubSeq(q, 1, k - 1) \o SubSeq(q, k + 1, Len(q))

\* ... and jinn_chan_wake_cancelled, repeated by *main in its join, looks for it
\* on the one channel a parked select publishes, senders before receivers.
CancelWake(c) ==
  LET ch == wait_chan[c] IN
  /\ c \in Scoped /\ cancelled[c] /\ ch # None /\ lock[ch] = None
  /\ IF FirstOf(sendq[ch], c) # {}
     THEN sendq' = [sendq EXCEPT ![ch] = DropFirst(@, c)] /\ UNCHANGED recvq
     ELSE recvq' = [recvq EXCEPT ![ch] = DropFirst(@, c)] /\ UNCHANGED sendq
  /\ Wake(IF FirstOf(sendq[ch] \o recvq[ch], c) # {} /\ ~claim[c] THEN {c} ELSE {})
  /\ UNCHANGED <<bufVars, lock, pc, ops, cancelled>>

----------------------------------------------------------------------------

CoroStep(c) ==
  \/ Begin(c) \/ PlainSend(c) \/ PlainRecv(c) \/ PlainRun(c)
  \/ CheckAtTop(c) \/ LockNext(c) \/ Fire(c) \/ TakeDefault(c) \/ Spin(c) \/ Park(c)
  \/ SwapOut(c) \/ Resume(c) \/ Unlink(c)

Next ==
  \/ \E c \in Coro : CoroStep(c)
  \/ \E ch \in Chan : Close(ch)
  \/ \E c \in Scoped : CancelMark(c) \/ CancelWake(c)

Spec == Init /\ [][Next]_vars

\* Runnable coroutines keep running and *main keeps repeating its wake-ups.  Who
\* spins on a lock that becomes free again and again gets it: a thread that polls
\* stays away from the locks for 128 pauses, a waiter tries after every pause.
Fairness ==
  /\ \A c \in Coro : WF_vars(CoroStep(c)) /\ SF_vars(LockNext(c))
  /\ \A c \in Scoped : SF_vars(CancelWake(c))

FairSpec == Spec /\ Fairness

----------------------------------------------------------------------------
(* Properties                                                              *)

\* The types of the state; no send overfills a ring (chan_can_send), no receive
\* takes from an empty one.
TypeOK ==
  /\ fill \in [Chan -> 0..Capacity]
  /\ closed \subseteq Chan
  /\ lock \in [Chan -> Selectors \cup {None}]
  /\ pc \in [Coro -> {"idle", "top", "lock", "swap", "parked", "relock", "done"}]
  /\ claim \in [Selectors -> BOOLEAN]
  /\ wait_chan \in [Selectors -> Chan \cup {None}]
  /\ runq \subseteq Coro

\* The wait queue nodes of a select live on its stack: a node is in a queue only
\* while its coroutine is parked, or woken and not yet past its own unlinking.
NoDanglingNode ==
  \A ch \in Chan : \A n \in Members(sendq[ch]) \cup Members(recvq[ch]) :
    \/ n.coro \in Selectors /\ pc[n.coro] \in {"swap", "parked", "relock"}
    \/ n.coro \notin Selectors /\ pc[n.coro] = "parked" /\ n.coro \notin runq

\* The node of a case is in the queue the case waits in.
NodeQueued(c, i) ==
  LET k == Cases[c][i]
  IN  [coro |-> c, case |-> i] \in Members(IF k.is_send THEN sendq[k.chan] ELSE recvq[k.chan])

\* Each parked coroutine has one waker: it is in the run queue only while it is
\* switched out, and a select is in it exactly when its claim was taken; if it
\* was not, every case still has its node.
OneWaker ==
  /\ \A c \in runq : pc[c] = "parked"
  /\ \A c \in Selectors : pc[c] = "parked" =>
       IF claim[c] THEN c \in runq
       ELSE c \notin runq /\ \A i \in DOMAIN Cases[c] : NodeQueued(c, i)

\* Two selects over overlapping channels never wait for each other's locks: who
\* starts to lock gets to poll (or to unlink its nodes).
LockingEnds ==
  \A c \in Selectors : pc[c] \in {"lock", "relock"} ~> pc[c] \notin {"lock", "relock"}

\* A select in a scope that *main joins returns once the scope is cancelled,
\* although only one of its channels is searched for it.
CancelledSelectReturns ==
  \A c \in Scoped : cancelled[c] /\ pc[c] = "parked" ~> pc[c] \in {"idle", "done"}

\* docs/concurrency.md: receive "parks while the buffer is empty".  A receiver
\* does not stay parked on a channel that holds a value.
ReceiverNotStranded ==
  \A c \in Receivers :
    (pc[c] = "parked" /\ CanRecv(Home[c])) ~> ~(pc[c] = "parked" /\ CanRecv(Home[c]))
============================================================================
