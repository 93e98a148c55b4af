------------------------------- MODULE Scope -------------------------------
(***************************************************************************)
(* The `together` scopes of runtime/scope.c: a scope owns the tasks and    *)
(* actors started in it, is cancelled from inside or outside, and is freed *)
(* by the task that opened it once they are gone.  A scope's lock is held  *)
(* across steps only where the code does something else meanwhile: while a *)
(* nested scope is cancelled, between the decrement and the release in     *)
(* child_done, and while a parking parent leaves its stack.                *)
(*                                                                         *)
(* What a task waits for is abstract: it is released when it is cancelled  *)
(* (the wake-up itself is the subject of Channel) or, an actor, when its   *)
(* mailbox is closed.                                                      *)
(***************************************************************************)
EXTENDS Integers, Sequences, FiniteSets

CONSTANTS Scopes,     \* the scopes, numbered; scope n is opened inside scope n - 1
          Tasks,      \* the coroutines (or *main)
          Opener,     \* the one that opens scope 1
          Actors,     \* the tasks that are actors
          Nobody

ASSUME ScopeAssumption ==
  /\ Scopes \subseteq Nat \ {0} /\ IsFiniteSet(Scopes)
  /\ Opener \in Tasks /\ Actors \subseteq Tasks \ {Opener} /\ Nobody \notin Tasks

VARIABLES
  state,              \* of a scope: "none", "open" or "freed"
  scancelled, slock, live_children, parent, kids, child_scopes, actors,
  has_error, error_val,
  tpc,                \* where a task is
  scope,              \* its coroutine's scope, 0 for none
  opened,             \* the scopes a task has opened and not yet joined
  flag,               \* its coroutine's cancelled flag
  shut,               \* an actor's mailbox is closed
  arg,                \* the task it registers or is about to wake
  frames,             \* the scopes it is cancelling, innermost first
  thread              \* the opener is *main and not a coroutine

scope_state == <<state, scancelled, slock, live_children, parent, kids, child_scopes, actors>>
errors == <<has_error, error_val>>
task_state == <<tpc, scope, opened, flag, shut, arg, frames>>
scope_vars == <<scope_state, errors, task_state, thread>>

Unlocked(s) == slock[s] = Nobody
Goto(t, p) == tpc' = [tpc EXCEPT ![t] = p]
With(f, x, v) == [f EXCEPT ![x] = v]

\* A task in its body, before it does the next thing.
InBody(t) == tpc[t] = "body"
-----------------------------------------------------------------------------
\* jinn_scope_create: the new scope is linked under the parent's lock; the flag it
\* inherits was read there and is stored afterwards.
Link(t) ==
  /\ InBody(t) /\ t \notin Actors
  /\ \E s \in Scopes :
       /\ state[s] = "none" /\ scope[t] = s - 1
       /\ scope[t] # 0 => Unlocked(scope[t])
       /\ state' = With(state, s, "open")
       /\ child_scopes' = IF scope[t] = 0 THEN child_scopes
                          ELSE With(child_scopes, scope[t], child_scopes[scope[t]] \cup {s})
       /\ opened' = With(opened, t, opened[t] \cup {s})
       /\ Goto(t, IF scope[t] # 0 /\ scancelled[scope[t]] THEN "inherit" ELSE "enter")
  /\ UNCHANGED <<scancelled, slock, live_children, parent, kids, actors, errors, scope, flag, shut, arg, frames, thread>>

Enter(t) ==
  /\ tpc[t] \in {"inherit", "enter"}
  /\ LET s == scope[t] + 1
     IN  /\ scancelled' = IF tpc[t] = "inherit" THEN With(scancelled, s, TRUE) ELSE scancelled
         /\ scope' = With(scope, t, s)
  /\ Goto(t, "body")
  /\ UNCHANGED <<state, slock, live_children, parent, kids, child_scopes, actors, errors, opened, flag, shut, arg, frames, thread>>

\* jinn_scope_register_child_in: the count first, then the list under the lock.
Dispatch(t, u) ==
  /\ InBody(t) /\ scope[t] # 0 /\ tpc[u] = "unborn"
  /\ live_children' = With(live_children, scope[t], live_children[scope[t]] + 1)
  /\ scope' = With(scope, u, scope[t])
  /\ arg' = With(arg, t, u)
  /\ tpc' = [tpc EXCEPT ![t] = "register", ![u] = "made"]
  /\ UNCHANGED <<state, scancelled, slock, parent, kids, child_scopes, actors, errors, opened, flag, shut, frames, thread>>

\* A faulty registration: a cancellation that came first is not noticed.
InheritsNothing(s, u) == flag

Inherits(s, u) == IF scancelled[s] THEN With(flag, u, TRUE) ELSE flag

Register(t) ==
  LET u == arg[t]
      s == scope[u]
  IN  /\ tpc[t] = "register" /\ Unlocked(s)
      /\ kids' = With(kids, s, kids[s] \cup {u})
      /\ flag' = Inherits(s, u)
      /\ IF u \in Actors
           THEN Goto(t, "add") /\ UNCHANGED arg
           ELSE tpc' = [tpc EXCEPT ![t] = "body", ![u] = "body"] /\ arg' = With(arg, t, Nobody)
      /\ UNCHANGED <<state, scancelled, slock, live_children, parent, child_scopes, actors, errors, scope, opened, shut, frames, thread>>

\* jinn_actor_spawn_scoped ends with jinn_scope_add_actor, which does not look at
\* the flag; then the actor is scheduled and waits for messages.
AddActor(t) ==
  LET u == arg[t]
      s == scope[u]
  IN  /\ tpc[t] = "add" /\ Unlocked(s)
      /\ actors' = With(actors, s, actors[s] \cup {u})
      /\ tpc' = [tpc EXCEPT ![t] = "body", ![u] = "wait"]
      /\ arg' = With(arg, t, Nobody)
      /\ UNCHANGED <<state, scancelled, slock, live_children, parent, kids, child_scopes, errors, scope, opened, flag, shut, frames, thread>>
-----------------------------------------------------------------------------
\* The rest of a body: a task waits; it ends; its body fails; it stops a scope.
Wait(t) ==
  /\ InBody(t) /\ t # Opener /\ Goto(t, "wait")
  /\ UNCHANGED <<scope_state, errors, scope, opened, flag, shut, arg, frames, thread>>

Released(t) ==
  /\ tpc[t] = "wait" /\ (flag[t] \/ shut[t])
  /\ Goto(t, IF t \in Actors THEN "destroy" ELSE "body")
  /\ UNCHANGED <<scope_state, errors, scope, opened, flag, shut, arg, frames, thread>>

\* The end of a body: of a scope, or of the task.
EndBody(t) ==
  /\ InBody(t)
  /\ Goto(t, IF opened[t] # {} THEN "stop_actors" ELSE IF scope[t] = 0 THEN "gone" ELSE "exit")
  /\ t = Opener => \A s \in Scopes : s = 1 => state[s] # "none"
  /\ UNCHANGED <<scope_state, errors, scope, opened, flag, shut, arg, frames, thread>>

\* The jinn_scope_cancel that a step begins, and where the task goes on afterwards.
Begin(t, s, next) ==
  /\ frames' = With(frames, t, <<[s |-> s, at |-> "flag", left |-> {}, next |-> next]>>)
  /\ Goto(t, "cancel")

\* `stop name` of the current scope or one around it.
Stop(t) ==
  /\ InBody(t)
  /\ \E s \in 1..scope[t] : Begin(t, s, "body")
  /\ UNCHANGED <<scope_state, errors, scope, opened, flag, shut, arg, thread>>

\* jinn_scope_record_error: the first error is kept.
RecordClaim(t) ==
  /\ InBody(t) /\ opened[t] = {} /\ scope[t] # 0
  /\ LET s == scope[t]
     IN  /\ has_error' = With(has_error, s, TRUE)
         /\ IF has_error[s] THEN Begin(t, s, "exit") ELSE Goto(t, "store") /\ UNCHANGED frames
  /\ UNCHANGED <<scope_state, error_val, scope, opened, flag, shut, arg, thread>>

RecordStore(t) ==
  /\ tpc[t] = "store"
  /\ error_val' = With(error_val, scope[t], t)
  /\ Begin(t, scope[t], "exit")
  /\ UNCHANGED <<scope_state, has_error, scope, opened, flag, shut, arg, thread>>

\* A cancellation point: the task leaves its scopes, cancelling and joining them,
\* and returns.
Unwind(t) ==
  /\ InBody(t) /\ flag[t]
  /\ IF opened[t] # {} THEN Begin(t, scope[t], "join") ELSE Goto(t, "exit") /\ UNCHANGED frames
  /\ UNCHANGED <<scope_state, errors, scope, opened, flag, shut, arg, thread>>
-----------------------------------------------------------------------------
(* jinn_scope_cancel                                                       *)
Top(t) == frames[t][1]
Cancelling(t, at) == tpc[t] = "cancel" /\ frames[t] # <<>> /\ Top(t).at = at
Replace(t, f) == frames' = [frames EXCEPT ![t] = <<f>> \o Tail(@)]

\* A finished (or superfluous) call returns to its caller.
Return(t) ==
  /\ frames' = [frames EXCEPT ![t] = Tail(@)]
  /\ IF Len(frames[t]) = 1 THEN Goto(t, Top(t).next) ELSE UNCHANGED tpc

CancelFlag(t) ==
  /\ Cancelling(t, "flag")
  /\ LET s == Top(t).s
     IN  /\ scancelled' = With(scancelled, s, TRUE)
         /\ IF scancelled[s] THEN Return(t)
            ELSE Replace(t, [Top(t) EXCEPT !.at = "lock"]) /\ UNCHANGED tpc
  /\ UNCHANGED <<state, slock, live_children, parent, kids, child_scopes, actors, errors, scope, opened, flag, shut, arg, thread>>

CancelMark(t) ==
  /\ Cancelling(t, "lock")
  /\ LET s == Top(t).s
     IN  /\ Unlocked(s) /\ slock' = With(slock, s, t)
         /\ flag' = [u \in Tasks |-> flag[u] \/ u \in kids[s]]
         /\ shut' = [u \in Tasks |-> shut[u] \/ u \in actors[s]]
         /\ Replace(t, [Top(t) EXCEPT !.at = "nested", !.left = child_scopes[s]])
  /\ UNCHANGED <<state, scancelled, live_children, parent, kids, child_scopes, actors, errors, tpc, scope, opened, arg, thread>>

\* The nested scopes are cancelled under the lock of the outer one, which is then
\* released.
CancelNested(t) ==
  /\ Cancelling(t, "nested")
  /\ LET f == Top(t)
     IN  IF f.left = {}
           THEN Return(t) /\ slock' = With(slock, f.s, Nobody)
           ELSE /\ \E c \in f.left :
                     frames' = [frames EXCEPT ![t] =
                       <<[s |-> c, at |-> "flag", left |-> {}, next |-> f.next],
                         [f EXCEPT !.left = @ \ {c}]>> \o Tail(@)]
                /\ UNCHANGED <<tpc, slock>>
  /\ UNCHANGED <<state, scancelled, live_children, parent, kids, child_scopes, actors, errors, scope, opened, flag, shut, arg, thread>>
-----------------------------------------------------------------------------
(* The end of a task: jinn_actor_destroy, and the DESTROY action of the worker *)
(* loop with jinn_scope_unregister_child and jinn_scope_child_done.            *)
DestroyActor(t) ==
  /\ tpc[t] = "destroy" /\ Unlocked(scope[t])
  /\ actors' = With(actors, scope[t], actors[scope[t]] \ {t})
  /\ shut' = With(shut, t, TRUE)
  /\ Goto(t, "exit")
  /\ UNCHANGED <<state, scancelled, slock, live_children, parent, kids, child_scopes, errors, scope, opened, flag, arg, frames, thread>>

Unregister(t) ==
  /\ tpc[t] = "exit" /\ Unlocked(scope[t])
  /\ kids' = With(kids, scope[t], kids[scope[t]] \ {t})
  /\ Goto(t, "done")
  /\ UNCHANGED <<state, scancelled, slock, live_children, parent, child_scopes, actors, errors, scope, opened, flag, shut, arg, frames, thread>>

ChildDone(t) ==
  LET s == scope[t]
  IN  /\ tpc[t] = "done" /\ Unlocked(s)
      /\ slock' = With(slock, s, t)
      /\ live_children' = With(live_children, s, live_children[s] - 1)
      /\ Goto(t, "release")
      /\ UNCHANGED <<state, scancelled, parent, kids, child_scopes, actors, errors, scope, opened, flag, shut, arg, frames, thread>>

Release(t) ==
  LET s == scope[t]
      p == IF live_children[s] = 0 THEN parent[s] ELSE Nobody
  IN  /\ tpc[t] = "release"
      /\ slock' = With(slock, s, Nobody)
      /\ parent' = IF live_children[s] = 0 THEN With(parent, s, Nobody) ELSE parent
      /\ arg' = With(arg, t, p)
      /\ Goto(t, IF p = Nobody THEN "gone" ELSE "wake")
      /\ UNCHANGED <<state, scancelled, live_children, kids, child_scopes, actors, errors, scope, opened, flag, shut, frames, thread>>

WakeParent(t) ==
  /\ tpc[t] = "wake"
  /\ tpc' = [tpc EXCEPT ![t] = "gone", ![arg[t]] = "join"]
  /\ arg' = With(arg, t, Nobody)
  /\ UNCHANGED <<scope_state, errors, scope, opened, flag, shut, frames, thread>>
-----------------------------------------------------------------------------
(* jinn_scope_stop_actors and jinn_scope_join by the task that opened the scope *)
StopActors(t) ==
  /\ tpc[t] = "stop_actors" /\ Unlocked(scope[t])
  /\ shut' = [u \in Tasks |-> shut[u] \/ u \in actors[scope[t]]]
  /\ Goto(t, "join")
  /\ UNCHANGED <<scope_state, errors, scope, opened, flag, arg, frames, thread>>

\* The count is read without the lock.  *main sleeps and comes back.
JoinScope(t) ==
  /\ tpc[t] = "join"
  /\ IF live_children[scope[t]] = 0 THEN Goto(t, "sync")
     ELSE ~(thread /\ t = Opener) /\ Goto(t, "park")
  /\ UNCHANGED <<scope_state, errors, scope, opened, flag, shut, arg, frames, thread>>

\* A faulty join: without the empty critical section.
JoinSyncSkipped(t) ==
  /\ tpc[t] = "sync"
  /\ Goto(t, "unlink")
  /\ UNCHANGED <<scope_state, errors, scope, opened, flag, shut, arg, frames, thread>>

\* The empty critical section: the last child may still hold the lock.
JoinSync(t) ==
  /\ tpc[t] = "sync" /\ Unlocked(scope[t])
  /\ Goto(t, "unlink")
  /\ UNCHANGED <<scope_state, errors, scope, opened, flag, shut, arg, frames, thread>>

JoinPark(t) ==
  LET s == scope[t]
  IN  /\ tpc[t] = "park" /\ Unlocked(s)
      /\ IF live_children[s] = 0
           THEN Goto(t, "unlink") /\ UNCHANGED <<slock, parent>>
           ELSE /\ slock' = With(slock, s, t) /\ parent' = With(parent, s, t)
                /\ Goto(t, "swap")
      /\ UNCHANGED <<state, scancelled, live_children, kids, child_scopes, actors, errors, scope, opened, flag, shut, arg, frames, thread>>

\* The worker releases the lock once the stack is left.
JoinSwap(t) ==
  /\ tpc[t] = "swap"
  /\ slock' = With(slock, scope[t], Nobody)
  /\ Goto(t, "parked")
  /\ UNCHANGED <<state, scancelled, live_children, parent, kids, child_scopes, actors, errors, scope, opened, flag, shut, arg, frames, thread>>

\* scope_unregister_from_parent
Unlink(t) ==
  LET s == scope[t]
  IN  /\ tpc[t] = "unlink" /\ (s > 1 => Unlocked(s - 1))
      /\ child_scopes' = IF s > 1 THEN With(child_scopes, s - 1, child_scopes[s - 1] \ {s}) ELSE child_scopes
      /\ Goto(t, "free")
      /\ UNCHANGED <<state, scancelled, slock, live_children, parent, kids, actors, errors, scope, opened, flag, shut, arg, frames, thread>>

\* Back in the scope around it; the opener of the first is through.
FreeScope(t) ==
  LET s == scope[t]
  IN  /\ tpc[t] = "free"
      /\ state' = With(state, s, "freed")
      /\ scope' = With(scope, t, s - 1)
      /\ opened' = With(opened, t, opened[t] \ {s})
      /\ Goto(t, IF s = 1 THEN "gone" ELSE "body")
      /\ UNCHANGED <<scancelled, slock, live_children, parent, kids, child_scopes, actors, errors, flag, shut, arg, frames, thread>>
-----------------------------------------------------------------------------
ScopeStart(at) ==
  /\ state = [s \in Scopes |-> "none"] /\ scancelled = [s \in Scopes |-> FALSE]
  /\ slock = [s \in Scopes |-> Nobody] /\ live_children = [s \in Scopes |-> 0]
  /\ parent = [s \in Scopes |-> Nobody]
  /\ kids = [s \in Scopes |-> {}] /\ child_scopes = [s \in Scopes |-> {}] /\ actors = [s \in Scopes |-> {}]
  /\ has_error = [s \in Scopes |-> FALSE] /\ error_val = [s \in Scopes |-> Nobody]
  /\ tpc = [t \in Tasks |-> IF t = Opener THEN at ELSE "unborn"]
  /\ scope = [t \in Tasks |-> 0] /\ opened = [t \in Tasks |-> {}]
  /\ flag = [t \in Tasks |-> FALSE] /\ shut = [t \in Tasks |-> FALSE]
  /\ arg = [t \in Tasks |-> Nobody] /\ frames = [t \in Tasks |-> <<>>]
ScopeIdle == ScopeStart("off") /\ thread = FALSE
ScopeInit == ScopeStart("body") /\ thread \in BOOLEAN

ScopeNext ==
  \E t \in Tasks :
    \/ Link(t) \/ Enter(t) \/ (\E u \in Tasks : Dispatch(t, u)) \/ Register(t) \/ AddActor(t)
    \/ Wait(t) \/ Released(t) \/ EndBody(t) \/ Stop(t) \/ RecordClaim(t) \/ RecordStore(t) \/ Unwind(t)
    \/ CancelFlag(t) \/ CancelMark(t) \/ CancelNested(t)
    \/ DestroyActor(t) \/ Unregister(t) \/ ChildDone(t) \/ Release(t) \/ WakeParent(t)
    \/ StopActors(t) \/ JoinScope(t) \/ JoinSync(t) \/ JoinPark(t) \/ JoinSwap(t) \/ Unlink(t) \/ FreeScope(t)

ScopeSpec == ScopeInit /\ [][ScopeNext]_scope_vars
-----------------------------------------------------------------------------
(* Properties                                                              *)

\* Nobody is left in a freed scope: while a task lives, while a scope is being
\* cancelled, and until the last child has let go of the lock, the scope is there;
\* and the error that the join hands on has been stored.
ScopesOutlive ==
  /\ \A t \in Tasks :
       /\ tpc[t] \notin {"unborn", "gone", "wake"} /\ scope[t] # 0 => state[scope[t]] = "open"
       /\ \A i \in DOMAIN frames[t] : state[frames[t][i].s] = "open"
       /\ tpc[t] = "free" /\ has_error[scope[t]] => error_val[scope[t]] # Nobody
  /\ \A s \in Scopes : state[s] = "freed" => Unlocked(s) /\ kids[s] = {} /\ child_scopes[s] = {}

\* A cancellation that nobody is still carrying out has reached everybody: the
\* tasks that were registered before, during and after it, and the scopes inside.
CancelReaches ==
  \A s \in Scopes :
    scancelled[s] /\ state[s] = "open"
      /\ (\A t \in Tasks : \A i \in DOMAIN frames[t] : frames[t][i].s > s) =>
      /\ \A u \in kids[s] : flag[u]
      /\ \A c \in child_scopes[s] : scancelled[c] \/ \E t \in Tasks : tpc[t] = "inherit"

\* No task moves by itself: each is gone, waits for something, or has parked in the
\* join of its scope.
Quiet ==
  \A t \in Tasks :
    \/ tpc[t] \in {"unborn", "gone", "parked"}
    \/ tpc[t] = "wait" /\ ~flag[t] /\ ~shut[t]
    \/ tpc[t] = "join" /\ thread /\ t = Opener /\ live_children[scope[t]] # 0

\* A join that does not return waits for a task: when nobody moves, a parked parent
\* has a child in its scope, and the innermost such child really waits, not
\* cancelled.
JoinsReturn ==
  Quiet => \A t \in Tasks : tpc[t] \in {"parked", "join"} =>
    \E u \in Tasks : scope[u] >= scope[t] /\ tpc[u] = "wait"

\* A join returns when the children are gone, not before and not never.
JoinExact == ScopesOutlive /\ JoinsReturn

\* docs/concurrency.md, L4: at the end of its body a scope stops its actors and then
\* joins; so when nobody moves, no actor waits for messages in a scope that is being
\* joined.
ActorsStopped ==
  Quiet => \A t \in Tasks, u \in Actors :
    tpc[t] \in {"parked", "join"} /\ scope[t] = scope[u] => tpc[u] # "wait"
=============================================================================
