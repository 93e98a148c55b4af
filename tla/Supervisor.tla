----------------------------- MODULE Supervisor -----------------------------
(***************************************************************************)
(* A supervisor (runtime/sup.c) with the life of its children's mailboxes  *)
(* (runtime/actor.c) and the end of the program (the epilogue of *main,    *)
(* jinn_actor_stop_all, jinn_sched_shutdown).  Mailbox and coroutine number *)
(* n are those of the n-th spawn.  Messages are left out: an actor waits   *)
(* until its mailbox is closed and then leaves its loop.  The mailboxes of *)
(* supervised children are never on the list of live ones: only a spawn by *)
(* the program registers there (codegen/actors.rs:505), neither the        *)
(* factory of a child (569-667) nor jinn_sup_spawn_one does.               *)
(***************************************************************************)
EXTENDS Integers, Sequences, FiniteSets

CONSTANTS Children,      \* the registered children, 1..n
          Workers,       \* the threads of the scheduler
          MAX_RESTARTS,  \* JINN_SUP_MAX_RESTARTS
          MaxStops       \* bound: children stopped by the program

ASSUME SupervisorAssumption ==
  /\ IsFiniteSet(Children) /\ Children = 1..Cardinality(Children)
  /\ MAX_RESTARTS \in Nat /\ MaxStops \in Nat
  /\ {"main", "free"} \cap Workers = {}

VARIABLES
  strategy,
  mb_ptr, alive,         \* the slot of each child; mailbox 0 is NULL
  restart_count,
  sup_lock,              \* a worker, "main", or "free"
  box,                   \* mailboxes: [closed, retired], retired counts
  coro,                  \* coroutines: [child, at, mb]
  runq,                  \* those that are runnable
  wpc, current,          \* each worker and its coroutine
  mpc, marg,             \* *main: its step; a child or a pointer
  stops, shutdown

sup_vars == <<strategy, mb_ptr, alive, restart_count, sup_lock, box, coro, runq,
              wpc, current, mpc, marg, stops, shutdown>>

\* jinn_chan_close of a set of mailboxes: the actors parked on them are runnable.
Closing(ms) == [n \in DOMAIN box |-> [box[n] EXCEPT !.closed = @ \/ n \in ms]]
Readied(ms) == {n \in DOMAIN coro : coro[n].at = "parked" /\ coro[n].mb \in ms}

\* jinn_actor_destroy: closed, and on the list of retired mailboxes.
Destroyed(m) ==
  IF m = 0 THEN box ELSE [box EXCEPT ![m] = [closed |-> TRUE, retired |-> @.retired + 1]]

\* jinn_sup_spawn_one, in a slot whose mailbox is gone.
SpawnOne(c, c_alive) ==
  LET n == Len(box) + 1
  IN  /\ box' = Append(box, [closed |-> FALSE, retired |-> 0])
      /\ mb_ptr' = [mb_ptr EXCEPT ![c] = n]
      /\ alive' = [c_alive EXCEPT ![c] = TRUE]
      /\ coro' = Append(coro, [child |-> c, at |-> "new", mb |-> 0])
      /\ runq' = runq \cup {n}

CoroAt(n, p) == [coro EXCEPT ![n].at = p]
-----------------------------------------------------------------------------
(* The worker loop                                                         *)
Check(w) ==
  /\ wpc[w] = "check"
  /\ wpc' = [wpc EXCEPT ![w] = IF shutdown THEN "ended" ELSE "find"]
  /\ UNCHANGED <<strategy, mb_ptr, alive, restart_count, sup_lock, box, coro, runq, current, mpc, marg, stops, shutdown>>

Find(w) ==
  /\ wpc[w] = "find"
  /\ \/ runq = {} /\ wpc' = [wpc EXCEPT ![w] = "check"] /\ UNCHANGED <<runq, current, coro>>
     \/ \E n \in runq :
          /\ runq' = runq \ {n} /\ current' = [current EXCEPT ![w] = n]
          /\ coro' = CoroAt(n, IF coro[n].at = "new" THEN "entry" ELSE "loop")
          /\ wpc' = [wpc EXCEPT ![w] = "run"]
  /\ UNCHANGED <<strategy, mb_ptr, alive, restart_count, sup_lock, box, mpc, marg, stops, shutdown>>

Running(w, p) == wpc[w] = "run" /\ coro[current[w]].at = p

\* sup_child_entry reads the slot without the lock.
Entry(w) ==
  /\ Running(w, "entry")
  /\ LET n == current[w]
     IN  coro' = [coro EXCEPT ![n].at = "loop", ![n].mb = mb_ptr[coro[n].child]]
  /\ UNCHANGED <<strategy, mb_ptr, alive, restart_count, sup_lock, box, runq, wpc, current, mpc, marg, stops, shutdown>>

\* The actor's receive: it parks on an open mailbox and leaves a closed one.
Loop(w) ==
  /\ Running(w, "loop")
  /\ LET n == current[w]
     IN  IF box[coro[n].mb].closed
           THEN coro' = CoroAt(n, "destroy") /\ UNCHANGED wpc
           ELSE coro' = CoroAt(n, "parked") /\ wpc' = [wpc EXCEPT ![w] = "check"]
  /\ UNCHANGED <<strategy, mb_ptr, alive, restart_count, sup_lock, box, runq, current, mpc, marg, stops, shutdown>>

\* The end of the generated loop: jinn_actor_destroy.
LoopEnd(w) ==
  /\ Running(w, "destroy")
  /\ box' = Destroyed(coro[current[w]].mb)
  /\ coro' = CoroAt(current[w], "exit")
  /\ UNCHANGED <<strategy, mb_ptr, alive, restart_count, sup_lock, runq, wpc, current, mpc, marg, stops, shutdown>>

Done(w) == coro' = CoroAt(current[w], "done") /\ wpc' = [wpc EXCEPT ![w] = "check"]

\* sup_on_child_exit, run by the coroutine's exit under the supervisor's lock.
OnExit(w) ==
  LET c == coro[current[w]].child
  IN  /\ Running(w, "exit") /\ sup_lock = "free"
      /\ alive' = [alive EXCEPT ![c] = FALSE]
      /\ box' = Destroyed(mb_ptr[c])
      /\ mb_ptr' = [mb_ptr EXCEPT ![c] = 0]
      /\ IF restart_count >= MAX_RESTARTS
           THEN Done(w) /\ UNCHANGED <<restart_count, sup_lock>>
           ELSE /\ restart_count' = restart_count + 1 /\ sup_lock' = w
                /\ coro' = CoroAt(current[w], "spawn") /\ UNCHANGED wpc
      /\ UNCHANGED <<strategy, runq, current, mpc, marg, stops, shutdown>>

Restart(w) ==
  LET n == current[w]
  IN  /\ Running(w, "spawn")
      /\ SpawnOne(coro[n].child, alive)
      /\ wpc' = [wpc EXCEPT ![w] = "siblings"]
      /\ UNCHANGED <<strategy, restart_count, sup_lock, current, mpc, marg, stops, shutdown>>

\* Whom the strategy stops beside the child that was restarted.
SiblingsAndSelf(c) ==
  CASE strategy = "one_for_one" -> {}
    [] strategy = "one_for_all" -> Children \ {c}
    [] strategy = "rest_for_one" -> {i \in Children : i >= c}
Siblings(c) ==
  CASE strategy = "one_for_one" -> {}
    [] strategy = "one_for_all" -> Children \ {c}
    [] strategy = "rest_for_one" -> {i \in Children : i > c}

StopSiblings(w) ==
  LET c == coro[current[w]].child
      ms == {mb_ptr[i] : i \in {j \in Siblings(c) : alive[j] /\ mb_ptr[j] # 0}}
      ready == Readied(ms)
  IN  /\ wpc[w] = "siblings"
      /\ box' = Closing(ms)
      /\ runq' = runq \cup ready
      /\ sup_lock' = "free"
      /\ Done(w)
      /\ UNCHANGED <<strategy, mb_ptr, alive, restart_count, current, mpc, marg, stops, shutdown>>
-----------------------------------------------------------------------------
(* *main                                                                   *)

\* jinn_sup_start spawns the children under the lock.
Start ==
  /\ mpc = "start"
  /\ LET left == {c \in Children : c > marg}
     IN  IF left = {}
           THEN sup_lock' = "free" /\ mpc' = "run" /\ marg' = 0 /\ UNCHANGED <<box, mb_ptr, alive, coro, runq>>
           ELSE SpawnOne(marg + 1, alive) /\ sup_lock' = "main" /\ marg' = marg + 1 /\ UNCHANGED mpc
  /\ UNCHANGED <<strategy, restart_count, wpc, current, stops, shutdown>>

\* jinn_sup_child_mailbox reads the slot without the lock; jinn_actor_stop uses it.
Peek(c) ==
  /\ mpc = "run" /\ stops < MaxStops /\ mb_ptr[c] # 0
  /\ marg' = mb_ptr[c] /\ mpc' = "stop" /\ stops' = stops + 1
  /\ UNCHANGED <<strategy, mb_ptr, alive, restart_count, sup_lock, box, coro, runq, wpc, current, shutdown>>

StopChild ==
  /\ mpc = "stop"
  /\ box' = Closing({marg}) /\ runq' = runq \cup Readied({marg})
  /\ mpc' = "run" /\ marg' = 0
  /\ UNCHANGED <<strategy, mb_ptr, alive, restart_count, sup_lock, coro, wpc, current, stops, shutdown>>

\* jinn_actor_stop_all closes and drains what is on the list of live mailboxes: no
\* supervised child is, so nothing of a supervisor changes.
StopAll ==
  /\ mpc = "run" /\ mpc' = "shutdown"
  /\ UNCHANGED <<strategy, mb_ptr, alive, restart_count, sup_lock, box, coro, runq, wpc, current, marg, stops, shutdown>>

\* jinn_sched_run does not wait for daemons; jinn_sched_shutdown joins the workers
\* and flushes the retired mailboxes.
Shutdown ==
  /\ mpc = "shutdown" /\ shutdown' = TRUE /\ mpc' = "joining"
  /\ UNCHANGED <<strategy, mb_ptr, alive, restart_count, sup_lock, box, coro, runq, wpc, current, marg, stops>>

Flush ==
  /\ mpc = "joining" /\ \A w \in Workers : wpc[w] = "ended"
  /\ mpc' = "ended"
  /\ UNCHANGED <<strategy, mb_ptr, alive, restart_count, sup_lock, box, coro, runq, wpc, current, marg, stops, shutdown>>
-----------------------------------------------------------------------------
SupState(m) ==
  /\ mb_ptr = [c \in Children |-> 0] /\ alive = [c \in Children |-> FALSE]
  /\ restart_count = 0 /\ sup_lock = "free"
  /\ box = <<>> /\ coro = <<>> /\ runq = {}
  /\ wpc = [w \in Workers |-> "check"] /\ current = [w \in Workers |-> 0]
  /\ mpc = m /\ marg = 0 /\ stops = 0 /\ shutdown = FALSE
SupIdle == SupState("off") /\ strategy = "one_for_one"
SupInit == SupState("start") /\ strategy \in {"one_for_one", "one_for_all", "rest_for_one"}

SupNext ==
  /\ mpc # "off"
  /\ \/ \E w \in Workers :
          \/ Check(w) \/ Find(w) \/ Entry(w) \/ Loop(w) \/ LoopEnd(w)
          \/ OnExit(w) \/ Restart(w) \/ StopSiblings(w)
     \/ Start \/ (\E c \in Children : Peek(c)) \/ StopChild
     \/ StopAll \/ Shutdown \/ Flush

SupSpec == SupInit /\ [][SupNext]_sup_vars
-----------------------------------------------------------------------------
(* Properties                                                              *)

\* Every child has one coroutine in its loop at most, and it serves the mailbox that
\* the slot names, although it read the slot without the lock.
OneServer ==
  \A n \in DOMAIN coro : coro[n].at \in {"new", "entry", "loop", "parked"} =>
    /\ mb_ptr[coro[n].child] = n
    /\ coro[n].at \in {"loop", "parked"} => coro[n].mb = n

\* While the program runs, a stopped child costs one restart, or as many as the
\* children after it make: the later ones are stopped once by each before them.
RestartsPaid ==
  mpc \in {"run", "stop"} =>
    /\ strategy = "one_for_one" => restart_count <= stops
    /\ strategy = "rest_for_one" => restart_count <= stops * 2 ^ (Cardinality(Children) - 1)

\* When the supervisor has come to rest before the end of the program, every child
\* serves an open mailbox, or the restarts are used up.
AllServed ==
  mpc = "run" /\ runq = {} /\ (\A w \in Workers : wpc[w] \in {"check", "find"}) =>
    \/ restart_count = MAX_RESTARTS
    \/ \A c \in Children : alive[c] /\ ~box[mb_ptr[c]].closed

\* All of it: a supervisor brings its children back, each once.
SupervisorSettles == OneServer /\ RestartsPaid /\ AllServed
=============================================================================
