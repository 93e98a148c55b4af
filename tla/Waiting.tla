------------------------------ MODULE Waiting ------------------------------
(***************************************************************************)
(* Two protocols by which tasks wait for each other outside of channels.   *)
(*                                                                         *)
(* The writer gate of runtime/durable.c: one task at a time may mutate     *)
(* stores; it may enter again, and beside the gate it holds the lock of    *)
(* every store it mutates.  The owner is an atomic word, the depth is a    *)
(* plain variable that only the owner may touch.                           *)
(*                                                                         *)
(* The completion latch of runtime/actor.c: tasks join an actor; the latch *)
(* is made by whoever comes first, and the ending actor wakes them.        *)
(***************************************************************************)
EXTENDS Integers, Sequences, FiniteSets

CONSTANTS Clients,    \* tasks that mutate stores
          Paths,      \* the stores
          MaxHeld,    \* bound: nested acquisitions of a task
          Joiners,    \* tasks that join the actor
          Ender,      \* the actor
          NoOne

Txn == "txn"

ASSUME WaitingAssumption ==
  /\ NoOne \notin Clients \cup Joiners \cup {Ender}
  /\ Ender \notin Joiners /\ Txn \notin Paths

VARIABLES
  writer_owner, writer_depth,   \* the gate
  slot_owner, slot_depth,       \* the lock of each store
  gpc, seeks, held,              \* a client: its step, what it acquires, what it holds, latest first
  slot,                         \* the actor's join slot: the latch's maker, or NoOne
  jdone, jlock, waitq,          \* each latch
  jpc, mine,                    \* a joiner or the actor: its step, its latch
  woken                         \* those the signal still has to enqueue

gate_vars  == <<writer_owner, writer_depth, slot_owner, slot_depth, gpc, seeks, held>>
latch_vars == <<slot, jdone, jlock, waitq, jpc, mine, woken>>
waiting_vars == <<gate_vars, latch_vars>>
-----------------------------------------------------------------------------
(* The writer gate                                                         *)
GoTo(c, p) == gpc' = [gpc EXCEPT ![c] = p]
Got(c) == /\ gpc' = [gpc EXCEPT ![c] = "idle"] /\ held' = [held EXCEPT ![c] = <<seeks[c]>> \o @]
\* jinn_store_wlock goes on with the store's lock, jinn_txn_begin is through.
Entered(c) == IF seeks[c] = Txn THEN Got(c) ELSE GoTo(c, "slot") /\ UNCHANGED held

Acquire(c, x) ==
  /\ gpc[c] = "idle" /\ Len(held[c]) < MaxHeld
  /\ seeks' = [seeks EXCEPT ![c] = x] /\ GoTo(c, "enter")
  /\ UNCHANGED <<writer_owner, writer_depth, slot_owner, slot_depth, held>>

\* jinn_store_writer_enter: again by the owner, or by whoever swaps itself in.
Reenter(c) ==
  /\ gpc[c] = "enter" /\ writer_owner = c
  /\ writer_depth' = writer_depth + 1
  /\ Entered(c)
  /\ UNCHANGED <<writer_owner, slot_owner, slot_depth, seeks>>

SwapIn(c) ==
  /\ gpc[c] = "enter" /\ writer_owner = NoOne
  /\ writer_owner' = c /\ GoTo(c, "depth")
  /\ UNCHANGED <<writer_depth, slot_owner, slot_depth, seeks, held>>

FirstDepth(c) ==
  /\ gpc[c] = "depth" /\ writer_depth' = 1
  /\ Entered(c)
  /\ UNCHANGED <<writer_owner, slot_owner, slot_depth, seeks>>

\* The rest of jinn_store_wlock.
LockAgain(c) ==
  /\ gpc[c] = "slot" /\ slot_owner[seeks[c]] = c
  /\ slot_depth' = [slot_depth EXCEPT ![seeks[c]] = @ + 1]
  /\ Got(c)
  /\ UNCHANGED <<writer_owner, writer_depth, slot_owner, seeks>>

LockSlot(c) ==
  /\ gpc[c] = "slot" /\ slot_owner[seeks[c]] = NoOne
  /\ slot_owner' = [slot_owner EXCEPT ![seeks[c]] = c]
  /\ GoTo(c, "slot_depth")
  /\ UNCHANGED <<writer_owner, writer_depth, slot_depth, seeks, held>>

SlotDepth(c) ==
  /\ gpc[c] = "slot_depth"
  /\ slot_depth' = [slot_depth EXCEPT ![seeks[c]] = 1]
  /\ Got(c)
  /\ UNCHANGED <<writer_owner, writer_depth, slot_owner, seeks>>

\* jinn_store_wunlock: nothing at all when the lock is another's.
Unlock(c) ==
  /\ gpc[c] = "idle" /\ held[c] # <<>>
  /\ LET x == Head(held[c])
     IN  /\ seeks' = [seeks EXCEPT ![c] = x]
         /\ IF x = Txn THEN GoTo(c, "leave") /\ UNCHANGED <<slot_depth, held>>
            ELSE IF slot_owner[x] # c
              THEN gpc' = gpc /\ held' = [held EXCEPT ![c] = Tail(@)] /\ UNCHANGED slot_depth
              ELSE /\ slot_depth' = [slot_depth EXCEPT ![x] = @ - 1]
                   /\ GoTo(c, IF slot_depth[x] <= 1 THEN "unslot" ELSE "leave") /\ UNCHANGED held
  /\ UNCHANGED <<writer_owner, writer_depth, slot_owner>>

Unslot(c) ==
  /\ gpc[c] = "unslot"
  /\ slot_owner' = [slot_owner EXCEPT ![seeks[c]] = NoOne]
  /\ GoTo(c, "leave")
  /\ UNCHANGED <<writer_owner, writer_depth, slot_depth, seeks, held>>

\* jinn_store_writer_leave: a task that is not the owner ends the process.
Through(c) == gpc' = [gpc EXCEPT ![c] = "idle"] /\ held' = [held EXCEPT ![c] = Tail(@)]
\* A faulty leave: the gate is opened by the first one.
LeaveAtOnce(c) ==
  /\ gpc[c] = "leave"
  /\ IF writer_owner # c \/ writer_depth <= 0
       THEN GoTo(c, "failed") /\ UNCHANGED <<writer_depth, held>>
       ELSE writer_depth' = writer_depth - 1 /\ GoTo(c, "open") /\ UNCHANGED held
  /\ UNCHANGED <<writer_owner, slot_owner, slot_depth, seeks>>

Leave(c) ==
  /\ gpc[c] = "leave"
  /\ IF writer_owner # c \/ writer_depth <= 0
       THEN GoTo(c, "failed") /\ UNCHANGED <<writer_depth, held>>
       ELSE /\ writer_depth' = writer_depth - 1
            /\ IF writer_depth = 1 THEN GoTo(c, "open") /\ UNCHANGED held ELSE Through(c)
  /\ UNCHANGED <<writer_owner, slot_owner, slot_depth, seeks>>

OpenGate(c) ==
  /\ gpc[c] = "open"
  /\ writer_owner' = NoOne
  /\ Through(c)
  /\ UNCHANGED <<writer_depth, slot_owner, slot_depth, seeks>>

GateNext ==
  /\ \E c \in Clients :
       \/ \E x \in Paths \cup {Txn} : Acquire(c, x)
       \/ Reenter(c) \/ SwapIn(c) \/ FirstDepth(c)
       \/ LockAgain(c) \/ LockSlot(c) \/ SlotDepth(c)
       \/ Unlock(c) \/ Unslot(c) \/ Leave(c) \/ OpenGate(c)
  /\ UNCHANGED latch_vars
-----------------------------------------------------------------------------
(* The completion latch                                                    *)
Parties == Joiners \cup {Ender}
Step(t, p) == jpc' = [jpc EXCEPT ![t] = p]

\* jinn_join_get: the slot is read, and a fresh latch is swapped in unless another
\* has come first.
GetJoin(t) ==
  /\ jpc[t] = "get"
  /\ mine' = [mine EXCEPT ![t] = slot]
  /\ Step(t, IF slot = NoOne THEN "publish" ELSE "top")
  /\ UNCHANGED <<slot, jdone, jlock, waitq, woken>>

PublishJoin(t) ==
  /\ jpc[t] = "publish"
  /\ slot' = IF slot = NoOne THEN t ELSE slot
  /\ mine' = [mine EXCEPT ![t] = slot']
  /\ Step(t, "top")
  /\ UNCHANGED <<jdone, jlock, waitq, woken>>

\* jinn_join_signal: the flag is set and the queue is taken under the lock.
JoinSignal ==
  LET j == mine[Ender]
  IN  /\ jpc[Ender] = "top" /\ ~jlock[j]
      /\ jdone' = [jdone EXCEPT ![j] = TRUE]
      /\ woken' = waitq[j] /\ waitq' = [waitq EXCEPT ![j] = {}]
      /\ Step(Ender, "wake")
      /\ UNCHANGED <<slot, jlock, mine>>

JoinWake ==
  /\ jpc[Ender] = "wake"
  /\ IF woken = {} THEN Step(Ender, "gone") /\ UNCHANGED woken
     ELSE \E t \in woken : Step(t, "top") /\ woken' = woken \ {t}
  /\ UNCHANGED <<slot, jdone, jlock, waitq, mine>>

\* jinn_actor_join: the flag is looked at without the lock, and again with it
\* before the task parks; the worker releases the lock.
JoinLook(t) ==
  /\ jpc[t] = "top"
  /\ Step(t, IF jdone[mine[t]] THEN "gone" ELSE "lock")
  /\ UNCHANGED <<slot, jdone, jlock, waitq, mine, woken>>

\* A faulty join: without the second look at the flag.
JoinEnqueueBlind(t) ==
  LET j == mine[t]
  IN  /\ jpc[t] = "lock" /\ ~jlock[j]
      /\ waitq' = [waitq EXCEPT ![j] = @ \cup {t}]
      /\ jlock' = [jlock EXCEPT ![j] = TRUE]
      /\ Step(t, "swap")
      /\ UNCHANGED <<slot, jdone, mine, woken>>

JoinEnqueue(t) ==
  LET j == mine[t]
  IN  /\ jpc[t] = "lock" /\ ~jlock[j]
      /\ IF jdone[j] THEN Step(t, "gone") /\ UNCHANGED <<waitq, jlock>>
         ELSE /\ waitq' = [waitq EXCEPT ![j] = @ \cup {t}]
              /\ jlock' = [jlock EXCEPT ![j] = TRUE]
              /\ Step(t, "swap")
      /\ UNCHANGED <<slot, jdone, mine, woken>>

JoinLeave(t) ==
  /\ jpc[t] = "swap"
  /\ jlock' = [jlock EXCEPT ![mine[t]] = FALSE]
  /\ Step(t, "parked")
  /\ UNCHANGED <<slot, jdone, waitq, mine, woken>>

LatchNext ==
  /\ \/ \E t \in Parties : GetJoin(t) \/ PublishJoin(t)
     \/ JoinSignal \/ JoinWake
     \/ \E t \in Joiners : JoinLook(t) \/ JoinEnqueue(t) \/ JoinLeave(t)
  /\ UNCHANGED gate_vars
-----------------------------------------------------------------------------
\* The part that takes place: "gate", "latch", or "none" of them.
WaitingStart(part) ==
  /\ writer_owner = NoOne /\ writer_depth = 0
  /\ slot_owner = [p \in Paths |-> NoOne] /\ slot_depth = [p \in Paths |-> 0]
  /\ gpc = [c \in Clients |-> IF part = "gate" THEN "idle" ELSE "off"]
  /\ seeks = [c \in Clients |-> Txn] /\ held = [c \in Clients |-> <<>>]
  /\ slot = NoOne /\ mine = [t \in Parties |-> NoOne]
  /\ jdone = [t \in Parties |-> FALSE] /\ jlock = [t \in Parties |-> FALSE]
  /\ waitq = [t \in Parties |-> {}] /\ woken = {}
  /\ jpc = [t \in Parties |-> IF part = "latch" THEN "get" ELSE "off"]

WaitingNext == GateNext \/ LatchNext

WaitingSpec == (WaitingStart("gate") \/ WaitingStart("latch")) /\ [][WaitingNext]_waiting_vars
-----------------------------------------------------------------------------
(* Properties                                                              *)
\* Whoever holds anything owns the gate, alone, and the depths are what the owner
\* has acquired, so that no release is refused and none opens the gate too early.
GateHeld ==
  \A c \in Clients :
    /\ gpc[c] # "failed"
    /\ held[c] # <<>> => writer_owner = c
    /\ gpc[c] = "idle" /\ writer_owner = c => writer_depth = Len(held[c])
    /\ gpc[c] = "idle" => \A p \in Paths :
         slot_owner[p] = c <=> \E i \in DOMAIN held[c] : held[c][i] = p

\* Once the actor has signalled, no joiner is left parked; and whoever is enqueued
\* has left its stack.
JoinersReturn ==
  /\ jpc[Ender] = "gone" => \A t \in Joiners : jpc[t] # "parked"
  /\ \A t \in woken : jpc[t] = "parked"

\* Both: waiting for the gate and for an actor ends when it should and not before.
WaitersServed == GateHeld /\ JoinersReturn
=============================================================================
