------------------------------- MODULE Actor -------------------------------
(***************************************************************************)
(* One actor from its spawn to the end of the program: the code generated  *)
(* for spawn, send and the actor's loop (src/codegen/actors.rs,            *)
(* mir_codegen/magic.rs) over the mailbox operations of runtime/actor.c.   *)
(* What is followed is who owns a payload: its sender, the ring, the       *)
(* handler that was called with it, the actor's state, or nobody once it   *)
(* was dropped.  A message is a tag and a packed payload that the send, the *)
(* dispatch and the drop function address by offsets of their own.  How a  *)
(* coroutine parks on its mailbox is the business of Channel, how a scope  *)
(* and a supervisor keep actors that of Scope and Supervisor.              *)
(***************************************************************************)
EXTENDS Integers, Sequences, FiniteSets, SequencesExt, FiniteSetsExt

CONSTANTS Posters,       \* the senders; the ones in Inside belong to the actor's scope
          Inside,
          Handlers,      \* the parameter types of each handler, by tag: "int" or "own"
          MAILBOX_CAP,
          MaxSends       \* bound: messages sent

ASSUME ActorAssumption == Handlers \in Seq(Seq({"int", "own"})) /\ MaxSends \in Nat

VARIABLES
  akind, ascoped,        \* "message" or "loop"; spawned inside a scope
  mring, mclosed,        \* the mailbox channel
  mlisted, mretired,     \* on the list of live mailboxes, on that of retired ones
  apc, amsg,             \* the actor's coroutine and its message buffer
  astate,                \* the value its state field owns
  acancelled, latch,     \* the coroutine's flag, the join slot
  epc,                   \* *main
  sends,                 \* messages sent
  posted, handled,       \* history: the arguments accepted and the ones handled
  frees                  \* history: how often each value was dropped

actor_vars == <<akind, ascoped, mring, mclosed, mlisted, mretired, apc, amsg, astate,
                acancelled, latch, epc, sends, posted, handled, frees>>

\* Where parameter k lies in the payload: type_store_size gives a value that owns
\* memory two words, another one.
Offset(ps, k) == (k - 1) + Cardinality({i \in 1..(k - 1) : ps[i] = "own"})

\* declare_actor: the payload has room for the largest parameter list.
PayloadSize == Max({2} \cup {Offset(Handlers[t], Len(Handlers[t]) + 1) : t \in DOMAIN Handlers})

\* Owning argument k of message n is <<n, k>>; the state's values are <<0, 1>> and <<0, 2>>.
NoValue == <<>>
Owning(t) == {k \in DOMAIN Handlers[t] : Handlers[t][k] = "own"}
Args(t, n) == {<<n, k>> : k \in Owning(t)}

\* The send stores the arguments one after the other: the first word of a value names it.
Pack(t, n) ==
  [c \in 1..PayloadSize |->
     LET here == {k \in Owning(t) : c = Offset(Handlers[t], k) + 1}
     IN  IF here = {} THEN NoValue ELSE <<n, Max(here)>>]

\* The values that the parameters of handler t own in a payload.
OwnedIn(t, payload) == {payload[Offset(Handlers[t], k) + 1] : k \in Owning(t)}

Made(f, vs) == [v \in DOMAIN f \cup vs |-> IF v \in DOMAIN f THEN f[v] ELSE 0]
Freed(f, vs) == [v \in DOMAIN f |-> IF v \in vs THEN f[v] + 1 ELSE f[v]]

\* Mutant: the offset only moves past the parameters that are dropped.
DropUnaligned(f, msg) ==
  LET ps == SelectSeq(Handlers[msg.tag], LAMBDA ty : ty = "own")
  IN  Freed(f, {msg.payload[Offset(ps, k) + 1] : k \in DOMAIN ps})

\* The generated function __message_drop: what the handler would have owned.
actor_message_drop_fn(f, msg) == Freed(f, OwnedIn(msg.tag, msg.payload))

\* It is called with every message in the ring.
DropPending(f, msgs) ==
  [v \in DOMAIN f |-> f[v] + Cardinality({i \in DOMAIN msgs : actor_message_drop_fn(f, msgs[i])[v] # f[v]})]

\* Whoever sends, closes or cancels makes the parked actor runnable.
Woken == IF apc = "parked" THEN "ready" ELSE apc

-----------------------------------------------------------------------------
(* Spawn and send                                                          *)

\* The state field has its default until the spawn's own initial value replaces it.
\* In a scope that is cancelled the new coroutine is marked.
ensure_actor_factory ==
  /\ mring = <<>> /\ mclosed = FALSE
  /\ astate = <<0, 1>> /\ frees = [v \in {astate} |-> 0]

compile_spawn_with_init_vals(given, kind, scope) ==
  /\ epc = "spawn"
  /\ akind' = kind /\ ascoped' = (scope # "none") /\ acancelled' = (scope = "cancelled")
  /\ mlisted' = TRUE
  /\ IF given THEN astate' = <<0, 2>> /\ frees' = Freed(Made(frees, {<<0, 2>>}), {astate})
              ELSE UNCHANGED <<astate, frees>>
  /\ apc' = "ready" /\ epc' = "run"
  /\ UNCHANGED <<mring, mclosed, mretired, amsg, latch, sends, posted, handled>>

\* jinn_chan_send refuses on a closed mailbox or in a cancelled sender, which then
\* drops the message; it waits while the mailbox is full.
emit_actor_send(p, t) ==
  LET n == sends + 1
      msg == [tag |-> t, payload |-> Pack(t, n)]
      known == Made(frees, Args(t, n))
      refused == mclosed \/ (p \in Inside /\ acancelled)
  IN  /\ epc \notin {"spawn", "ended"} /\ sends < MaxSends
      /\ refused \/ Len(mring) < MAILBOX_CAP
      /\ sends' = n
      /\ IF refused THEN frees' = actor_message_drop_fn(known, msg) /\ UNCHANGED <<mring, apc, posted>>
                    ELSE /\ mring' = Append(mring, msg) /\ apc' = Woken
                         /\ posted' = Append(posted, Args(t, n)) /\ frees' = known
      /\ UNCHANGED <<akind, ascoped, mclosed, mlisted, mretired, amsg, astate, acancelled, latch, epc, handled>>

-----------------------------------------------------------------------------
(* The generated loop of the actor                                         *)

\* A worker takes the coroutine from a run queue.
Resumed ==
  /\ apc \in {"ready", "yielded"} /\ epc # "ended"
  /\ apc' = (IF apc = "ready" /\ akind = "loop" THEN "loop" ELSE "receive")
  /\ UNCHANGED <<akind, ascoped, mring, mclosed, mlisted, mretired, amsg, astate, acancelled, latch, epc, sends, posted, handled, frees>>

\* The body of *loop, then a sleep or a yield.
LoopHandler ==
  /\ apc = "loop" /\ apc' = "yielded"
  /\ UNCHANGED <<akind, ascoped, mring, mclosed, mlisted, mretired, amsg, astate, acancelled, latch, epc, sends, posted, handled, frees>>

\* jinn_chan_recv or jinn_chan_try_recv: only the first looks at the cancellation.
Received ==
  /\ apc = "receive"
  /\ \/ /\ ~(akind = "message" /\ acancelled) /\ mring # <<>>
        /\ amsg' = Head(mring) /\ mring' = Tail(mring) /\ apc' = "dispatch"
     \/ /\ mring = <<>> \/ (akind = "message" /\ acancelled)
        /\ apc' = (IF mclosed \/ (akind = "message" /\ acancelled) THEN "exit"
                   ELSE IF akind = "loop" THEN "loop" ELSE "parked")
        /\ UNCHANGED <<amsg, mring>>
  /\ UNCHANGED <<akind, ascoped, mclosed, mlisted, mretired, astate, acancelled, latch, epc, sends, posted, handled, frees>>

\* The switch on the tag calls the handler with the parameters in the payload.  It
\* drops them at its end, or keeps one in the state in place of the old value.
DispatchMessage ==
  LET vs == OwnedIn(amsg.tag, amsg.payload)
  IN  /\ apc = "dispatch"
      /\ \/ frees' = Freed(frees, vs) /\ UNCHANGED astate
         \/ \E v \in vs : astate' = v /\ frees' = Freed(frees, (vs \ {v}) \cup {astate})
      /\ handled' = Append(handled, vs)
      /\ apc' = (IF akind = "loop" THEN "loop" ELSE "receive")
      /\ UNCHANGED <<akind, ascoped, mring, mclosed, mlisted, mretired, amsg, acancelled, latch, epc, sends, posted>>

\* The end of the loop releases the state, then signals the latch, then destroys.
ReleaseState ==
  /\ apc = "exit" /\ apc' = "signal"
  /\ frees' = Freed(frees, {astate}) /\ astate' = NoValue
  /\ UNCHANGED <<akind, ascoped, mring, mclosed, mlisted, mretired, amsg, acancelled, latch, epc, sends, posted, handled>>

SignalLatch ==
  /\ apc = "signal" /\ apc' = "destroy" /\ latch' = TRUE
  /\ UNCHANGED <<akind, ascoped, mring, mclosed, mlisted, mretired, amsg, astate, acancelled, epc, sends, posted, handled, frees>>

jinn_actor_unregister_live ==
  /\ apc = "destroy" /\ apc' = "retire" /\ mlisted' = FALSE
  /\ UNCHANGED <<akind, ascoped, mring, mclosed, mretired, amsg, astate, acancelled, latch, epc, sends, posted, handled, frees>>

jinn_actor_retire_mailbox ==
  /\ apc = "retire" /\ apc' = "done" /\ mclosed' = TRUE /\ mretired' = TRUE
  /\ UNCHANGED <<akind, ascoped, mring, mlisted, amsg, astate, acancelled, latch, epc, sends, posted, handled, frees>>
-----------------------------------------------------------------------------
(* *main: stop, join, cancel, and the end of the program                   *)

jinn_actor_stop ==
  /\ epc = "run" /\ ~mclosed
  /\ mclosed' = TRUE /\ apc' = Woken
  /\ UNCHANGED <<akind, ascoped, mring, mlisted, mretired, amsg, astate, acancelled, latch, epc, sends, posted, handled, frees>>

\* jinn_scope_cancel marks and wakes the coroutine before it closes the mailbox.
CancelActor ==
  /\ epc = "run" /\ ascoped /\ ~acancelled
  /\ acancelled' = TRUE /\ apc' = Woken /\ epc' = "cancel"
  /\ UNCHANGED <<akind, ascoped, mring, mclosed, mlisted, mretired, amsg, astate, latch, sends, posted, handled, frees>>

CancelCloses ==
  /\ epc = "cancel" /\ mclosed' = TRUE /\ apc' = Woken /\ epc' = "run"
  /\ UNCHANGED <<akind, ascoped, mring, mlisted, mretired, amsg, astate, acancelled, latch, sends, posted, handled, frees>>

\* The scope ends when the actor is done.  The epilogue of *main takes the list of
\* live mailboxes, closes them and waits a bounded time for their messages.
jinn_actor_stop_all ==
  /\ epc = "run" /\ (ascoped => apc = "done")
  /\ mlisted' = FALSE /\ mclosed' = (mclosed \/ mlisted)
  /\ apc' = (IF mlisted THEN Woken ELSE apc) /\ epc' = "drain"
  /\ UNCHANGED <<akind, ascoped, mring, mretired, amsg, astate, acancelled, latch, sends, posted, handled, frees>>

\* The workers end with the coroutines that run; the ones in a queue stay there.
\* jinn_actor_retire_flush then drops what is left in the retired mailboxes.
jinn_actor_retire_flush ==
  /\ epc = "drain" /\ apc \in {"ready", "yielded", "parked", "done"}
  /\ epc' = "ended"
  /\ IF mretired THEN frees' = DropPending(frees, mring) /\ mring' = <<>> ELSE UNCHANGED <<frees, mring>>
  /\ UNCHANGED <<akind, ascoped, mclosed, mlisted, mretired, apc, amsg, astate, acancelled, latch, sends, posted, handled>>
-----------------------------------------------------------------------------
ActorState(e) ==
  /\ akind = "message" /\ ascoped = FALSE
  /\ mlisted = FALSE /\ mretired = FALSE /\ ensure_actor_factory
  /\ apc = "new" /\ amsg = <<>>
  /\ acancelled = FALSE /\ latch = FALSE /\ epc = e
  /\ sends = 0 /\ posted = <<>> /\ handled = <<>>
ActorInit == ActorState("spawn")
ActorIdle == ActorState("off")

ActorNext ==
  /\ epc # "off"
  /\ \/ \E given \in BOOLEAN, kind \in {"message", "loop"}, scope \in {"none", "open", "cancelled"} :
          compile_spawn_with_init_vals(given, kind, scope)
     \/ \E p \in Posters, t \in DOMAIN Handlers : emit_actor_send(p, t)
     \/ Resumed \/ LoopHandler \/ Received \/ DispatchMessage
     \/ ReleaseState \/ SignalLatch \/ jinn_actor_unregister_live \/ jinn_actor_retire_mailbox
     \/ jinn_actor_stop \/ CancelActor \/ CancelCloses \/ jinn_actor_stop_all \/ jinn_actor_retire_flush

ActorSpec == ActorInit /\ [][ActorNext]_actor_vars
-----------------------------------------------------------------------------
(* Properties                                                              *)

Held ==
  (IF astate = NoValue THEN {} ELSE {astate})
    \cup (UNION {OwnedIn(mring[i].tag, mring[i].payload) : i \in DOMAIN mring})
    \cup (IF apc = "dispatch" THEN OwnedIn(amsg.tag, amsg.payload) ELSE {})

\* Every value is owned by one place or was dropped once: none leaks through a
\* refused send, a stop, a cancellation or a message left in a retired mailbox,
\* and none is dropped twice.
DroppedOnce == \A v \in DOMAIN frees : frees[v] = IF v \in Held THEN 0 ELSE 1

\* Messages are handled in the order they were accepted, and an actor that was
\* stopped, rather than cancelled between two receives, handles all of them.
StopDrains ==
  /\ IsPrefix(handled, posted)
  /\ (apc \in {"exit", "signal", "destroy", "retire", "done"} => handled = posted \/ (akind = "message" /\ acancelled))

\* When the latch is set the state is gone, and nothing is handled any more.
LatchIsLast == latch => astate = NoValue /\ apc \in {"destroy", "retire", "done"}

\* All of it: what an actor is sent, it handles once or drops once.
PayloadsSettled == DroppedOnce /\ StopDrains /\ LatchIsLast
=============================================================================
