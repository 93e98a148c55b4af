---------------------------- MODULE ScopeProofs ----------------------------
(***************************************************************************)
(* Proofs that the join of a `together` scope returns when its children    *)
(* are gone and not before (JoinExact), and that a cancellation reaches    *)
(* every child and every scope inside (CancelReaches), for any number of   *)
(* tasks, actors and nested scopes.                                        *)
(***************************************************************************)
EXTENDS Scope, FiniteSetTheorems, WellFoundedInduction, TLAPS

(* Who counts where *)

\* The innermost scope a task has linked.  Between Link and Enter its coroutine
\* still points to the scope around it.
Depth(t) == IF tpc[t] \in {"inherit", "enter"} THEN scope[t] + 1 ELSE scope[t]

\* The scope a task was started in: the one around those it has opened itself.
Base(t) == CHOOSE b \in 0..Depth(t) : opened[t] = (b + 1)..Depth(t)

\* A task that its scope still counts, and the tasks that a scope counts.
Dead == {"unborn", "release", "wake", "gone"}
Alive(t) == tpc[t] \notin Dead
Counted(s) == {u \in Tasks : u # Opener /\ Alive(u) /\ Base(u) = s}

Ending == {"destroy", "exit", "done", "release", "wake", "gone", "store", "made"}
Joining == {"stop_actors", "join", "sync", "park", "swap", "parked", "unlink", "free"}
Places == Ending \cup Joining \cup {"unborn", "body", "inherit", "enter", "register", "add", "wait", "cancel"}
CallFrame == [s : Scopes, at : {"flag", "lock", "nested"}, left : SUBSET Scopes, next : {"body", "exit", "join"}]

-----------------------------------------------------------------------------
(* The inductive invariant *)

ScopeTypes ==
  /\ state \in [Scopes -> {"none", "open", "freed"}] /\ scancelled \in [Scopes -> BOOLEAN]
  /\ slock \in [Scopes -> Tasks \cup {Nobody}] /\ live_children \in [Scopes -> Int]
  /\ parent \in [Scopes -> Tasks \cup {Nobody}]
  /\ kids \in [Scopes -> SUBSET Tasks] /\ child_scopes \in [Scopes -> SUBSET Scopes]
  /\ actors \in [Scopes -> SUBSET Tasks]
  /\ has_error \in [Scopes -> BOOLEAN] /\ error_val \in [Scopes -> Tasks \cup {Nobody}]
  /\ tpc \in [Tasks -> Places] /\ scope \in [Tasks -> Nat] /\ opened \in [Tasks -> SUBSET Scopes]
  /\ flag \in [Tasks -> BOOLEAN] /\ shut \in [Tasks -> BOOLEAN]
  /\ arg \in [Tasks -> Tasks \cup {Nobody}] /\ frames \in [Tasks -> Seq(CallFrame)]
  /\ thread \in BOOLEAN

\* The scopes of a task are a chain that begins in the scope it was started in.
Chains ==
  \A t \in Tasks :
    /\ Base(t) \in Nat /\ Base(t) <= Depth(t) /\ opened[t] = (Base(t) + 1)..Depth(t)
    /\ t = Opener => Base(t) = 0
    /\ t # Opener /\ tpc[t] # "unborn" => Base(t) # 0

\* What the place of a task says of it.
PlacesOK ==
  \A t \in Tasks :
    /\ tpc[t] = "unborn" => t # Opener /\ scope[t] = 0 /\ opened[t] = {}
    /\ tpc[t] \in Ending => opened[t] = {}
    /\ tpc[t] \in Ending \ {"gone"} => scope[t] # 0
    /\ tpc[t] \in Joining \cup {"inherit", "enter"} => opened[t] # {}
    /\ tpc[t] \in {"register", "add"} => scope[t] # 0
    /\ t \in Actors => tpc[t] \in {"unborn", "made", "wait", "destroy", "exit", "done", "release", "wake", "gone"}
    /\ t \in Actors => opened[t] = {}
    /\ tpc[t] = "wait" => scope[t] # 0
    /\ t = Opener => ~flag[t]

\* A task is made by one other, which registers it.
Making ==
  \A t \in Tasks : tpc[t] \in {"register", "add"} =>
    /\ arg[t] \in Tasks /\ tpc[arg[t]] = "made"
    /\ \A u \in Tasks : tpc[u] \in {"register", "add"} /\ arg[u] = arg[t] => u = t

\* A scope is open as long as it has an owner or somebody is counted in it, and
\* the scopes around an open one are open.
Owners ==
  /\ \A s \in Scopes : state[s] = "open" <=> \E t \in Tasks : s \in opened[t]
  /\ \A t, u \in Tasks : \A s \in Scopes : s \in opened[t] /\ s \in opened[u] => t = u
  /\ \A s \in Scopes : state[s] = "open" => \A r \in 1..s : r \in Scopes /\ state[r] = "open"
  /\ \A t \in Tasks : tpc[t] \notin {"unborn", "wake", "gone"} /\ Base(t) # 0 =>
       Base(t) \in Scopes /\ state[Base(t)] = "open"

\* The count is right, nobody is counted in a scope that is new or through, and
\* nobody is about to release its lock when the join has passed it.
Counts ==
  /\ \A s \in Scopes : IsFiniteSet(Counted(s)) /\ live_children[s] = Cardinality(Counted(s))
  /\ \A t \in Tasks :
       /\ tpc[t] \in {"inherit", "enter", "sync", "unlink", "free"} => Counted(Depth(t)) = {}
       /\ tpc[t] \in {"unlink", "free"} => \A u \in Tasks : tpc[u] = "release" => scope[u] # scope[t]

\* Who holds a scope's lock across steps.
Holds(t, s) ==
  \/ tpc[t] \in {"release", "swap"} /\ scope[t] = s
  \/ \E i \in DOMAIN frames[t] : frames[t][i].s = s /\ frames[t][i].at = "nested"
Locks ==
  \A t \in Tasks, s \in Scopes : slock[s] = t <=> Holds(t, s)

\* What hangs on a scope.
Lists ==
  /\ \A s \in Scopes : \A c \in child_scopes[s] : c = s + 1 /\ state[c] = "open"
  /\ \A t \in Tasks : tpc[t] = "free" => \A s \in Scopes : scope[t] \notin child_scopes[s]
  /\ \A s \in Scopes : \A u \in kids[s] :
       u \in Counted(s) /\ tpc[u] # "done" /\ \A t \in Tasks : tpc[t] = "register" => arg[t] # u

\* The calls of jinn_scope_cancel that a task is in: the outermost of a scope
\* around the task, each inner one of a scope linked in the next.
Call(t, i) ==
  /\ frames[t][i].s + i = frames[t][1].s + 1
  /\ i # Len(frames[t]) => /\ frames[t][i].s - 1 \in Scopes
                           /\ frames[t][i].s \in child_scopes[frames[t][i].s - 1]
  /\ i = Len(frames[t]) => frames[t][i].s <= scope[t]
  /\ i # 1 => frames[t][i].at = "nested" /\ frames[t][i].left = {}
  /\ frames[t][i].at # "nested" => frames[t][i].left = {}
  /\ frames[t][i].left \subseteq child_scopes[frames[t][i].s]
  /\ frames[t][i].next = "join" => opened[t] # {}
  /\ frames[t][i].next = "exit" => opened[t] = {} /\ scope[t] # 0
Calls ==
  \A t \in Tasks :
    /\ tpc[t] = "cancel" <=> frames[t] # <<>>
    /\ \A i \in DOMAIN frames[t] : Call(t, i)

\* The parent that parks in the join is woken once, by the last child.
Waited(s) == parent[s] # Nobody =>
  /\ tpc[parent[s]] \in {"swap", "parked"} /\ scope[parent[s]] = s
  /\ \A w \in Tasks : tpc[w] = "wake" => arg[w] # parent[s]
  /\ Counted(s) = {} => \E u \in Tasks : tpc[u] = "release" /\ scope[u] = s
Woken(t) ==
  /\ tpc[t] = "swap" => parent[scope[t]] = t
  /\ tpc[t] = "parked" => parent[scope[t]] = t \/ \E w \in Tasks : tpc[w] = "wake" /\ arg[w] = t
  /\ tpc[t] = "wake" => /\ arg[t] \in Tasks /\ tpc[arg[t]] = "parked"
                        /\ \A w \in Tasks : tpc[w] = "wake" /\ arg[w] = arg[t] => w = t
Parents == (\A s \in Scopes : Waited(s)) /\ (\A t \in Tasks : Woken(t))

\* An error that was claimed is being stored, by a task that is counted.
Errors ==
  \A s \in Scopes : has_error[s] /\ error_val[s] = Nobody =>
    \E u \in Tasks : tpc[u] = "store" /\ scope[u] = s

\* What a cancellation has not reached yet, somebody is still going to.
Pending(s) == \E t \in Tasks : \E i \in DOMAIN frames[t] : frames[t][i].s = s /\ frames[t][i].at = "lock"
Descending(c) == \E t \in Tasks : \E i \in DOMAIN frames[t] :
  \/ frames[t][i].s = c - 1 /\ c \in frames[t][i].left
  \/ frames[t][i].s = c /\ i # Len(frames[t])
Flagged ==
  \A t \in Tasks : \A i \in DOMAIN frames[t] : frames[t][i].at # "flag" => scancelled[frames[t][i].s]
Reached ==
  \A s \in Scopes : scancelled[s] /\ ~Pending(s) =>
    /\ \A u \in kids[s] : flag[u]
    /\ \A c \in child_scopes[s] :
         scancelled[c] \/ Descending(c) \/ \E t \in Tasks : tpc[t] = "inherit" /\ scope[t] = s

JInv == ScopeTypes /\ Chains /\ PlacesOK /\ Making /\ Owners /\ Counts /\ Locks /\ Lists /\ Calls /\ Parents /\ Errors
CInv == JInv /\ Flagged /\ Reached
-----------------------------------------------------------------------------
(* Facts about chains and counts *)

\* The base of a chain is determined by the chain.
LEMMA BaseOfChain ==
  ASSUME NEW d \in Nat, NEW b \in Nat, b <= d, NEW o, o = (b + 1)..d
  PROVE  (CHOOSE x \in 0..d : o = (x + 1)..d) = b
<1>1. b \in 0..d /\ o = (b + 1)..d
  OBVIOUS
<1>2. ASSUME NEW x \in 0..d, o = (x + 1)..d PROVE x = b
  <2>1. \A i \in Int : (x < i /\ i <= d) <=> (b < i /\ i <= d)
    <3>1. \A i \in Int : i \in (x + 1)..d <=> i \in (b + 1)..d
      BY <1>2
    <3> QED
      BY <3>1
  <2>2. x \in Int /\ x <= d
    OBVIOUS
  <2>3. x < x + 1 /\ b < b + 1
    BY <2>2
  <2> QED
    BY <2>1, <2>2
<1> QED
  BY <1>1, <1>2

\* A step that leaves the chains alone leaves the bases alone; if it leaves the
\* living alone too, it leaves the counts alone.
LEMMA SameBases ==
  ASSUME opened' = opened, \A u \in Tasks : Depth(u)' = Depth(u)
  PROVE  \A u \in Tasks : Base(u)' = Base(u)
BY DEF Base

LEMMA Moved ==
  ASSUME opened' = opened, scope' = scope,
         \A u \in Tasks : tpc'[u] \in {"inherit", "enter"} <=> tpc[u] \in {"inherit", "enter"},
         \A u \in Tasks \ {Opener} : tpc'[u] \in Dead <=> tpc[u] \in Dead
  PROVE  /\ \A u \in Tasks : Depth(u)' = Depth(u) /\ Base(u)' = Base(u)
         /\ \A s : Counted(s)' = Counted(s)
<1>1. \A u \in Tasks : Depth(u)' = Depth(u)
  BY DEF Depth
<1>2. \A u \in Tasks : Base(u)' = Base(u)
  BY <1>1, SameBases
<1> QED
  BY <1>1, <1>2 DEF Counted, Alive

\* The owner of a scope in which nobody is counted is alone there: no scope
\* inside is open and nobody else is as deep.
LEMMA Alone ==
  ASSUME JInv, NEW t \in Tasks, Depth(t) \in opened[t], Counted(Depth(t)) = {}
  PROVE  /\ Depth(t) \in Scopes /\ state[Depth(t)] = "open"
         /\ \A r \in Scopes : r > Depth(t) => state[r] # "open"
         /\ \A u \in Tasks : u # t /\ Alive(u) => Depth(u) < Depth(t)
<1> DEFINE d == Depth(t)
<1>0. ScopeTypes /\ Chains /\ PlacesOK /\ Owners
  BY DEF JInv
<1>1. d \in Scopes /\ state[d] = "open" /\ d \in Nat /\ d # 0
  BY <1>0, ScopeAssumption DEF ScopeTypes, Owners
<1>2. \A u \in Tasks : Base(u) \in Nat /\ Depth(u) \in Nat /\ Base(u) <= Depth(u)
  BY <1>0 DEF Chains, ScopeTypes, Depth
<1>3. \A u \in Tasks, r \in Scopes : r \in opened[u] <=> Base(u) < r /\ r <= Depth(u)
  <2>1. \A u \in Tasks : opened[u] = (Base(u) + 1)..Depth(u)
    BY <1>0 DEF Chains
  <2>2. \A r \in Scopes : r \in Nat
    BY ScopeAssumption
  <2> QED
    BY <1>2, <2>1, <2>2
<1>4. \A u \in Tasks : opened[u] # {} => Alive(u)
  BY <1>0 DEF PlacesOK, Alive, Dead, Ending
<1>5. \A u \in Tasks : u # t => d \notin opened[u]
  BY <1>0, <1>1 DEF Owners
<1>6. \A u \in Tasks : Alive(u) => Base(u) # d
  BY <1>0, <1>1 DEF Counted, Chains
<1>7. ASSUME NEW r \in Scopes, r > d, state[r] = "open" PROVE FALSE
  <2>1. d + 1 \in Scopes /\ state[d + 1] = "open"
    <3>1. r \in Nat
      BY ScopeAssumption
    <3>2. d + 1 \in 1..r
      BY <1>1, <1>7, <3>1
    <3> QED
      BY <1>0, <1>7, <3>2 DEF Owners
  <2>2. PICK v \in Tasks : d + 1 \in opened[v]
    BY <1>0, <2>1 DEF Owners
  <2>3. Base(v) < d + 1 /\ d + 1 <= Depth(v) /\ Alive(v)
    BY <1>3, <1>4, <2>1, <2>2
  <2>4. v # t
    BY <1>1, <2>3
  <2>5. ~(Base(v) < d)
    BY <1>1, <1>2, <1>3, <1>5, <2>3, <2>4
  <2> QED
    BY <1>1, <1>2, <1>6, <2>3, <2>5
<1>8. ASSUME NEW u \in Tasks, u # t, Alive(u), ~(Depth(u) < d) PROVE FALSE
  <2>1. ~(Base(u) < d)
    BY <1>1, <1>2, <1>3, <1>5, <1>8
  <2>2. Base(u) > d
    BY <1>1, <1>2, <1>6, <1>8, <2>1
  <2>3. Base(u) \in Scopes /\ state[Base(u)] = "open"
    BY <1>0, <1>1, <1>2, <1>8, <2>2 DEF Owners, Alive, Dead
  <2> QED
    BY <1>7, <2>2, <2>3
<1> QED
  BY <1>1, <1>7, <1>8

\* The scope a task is in is there.
LEMMA InScope ==
  ASSUME JInv, NEW t \in Tasks, tpc[t] \notin {"unborn", "wake", "gone"}, scope[t] # 0
  PROVE  scope[t] \in Scopes /\ state[scope[t]] = "open"
<1>0. ScopeTypes /\ Chains /\ PlacesOK /\ Owners
  BY DEF JInv
<1>1. Base(t) \in Nat /\ scope[t] \in Nat /\ Depth(t) \in Nat /\ Base(t) <= Depth(t)
  BY <1>0 DEF Chains, ScopeTypes, Depth
<1>2. opened[t] = (Base(t) + 1)..Depth(t) /\ opened[t] \subseteq Scopes
  BY <1>0 DEF Chains, ScopeTypes
<1>3. scope[t] <= Depth(t) /\ Depth(t) <= scope[t] + 1
  BY <1>1 DEF Depth
<1>4. CASE Base(t) < scope[t]
  <2>1. scope[t] \in opened[t]
    BY <1>1, <1>2, <1>3, <1>4
  <2> QED
    BY <1>0, <1>2, <2>1 DEF Owners
<1>5. CASE Base(t) = scope[t]
  BY <1>0, <1>5 DEF Owners
<1>6. CASE Base(t) > scope[t]
  <2>1. Base(t) = Depth(t) /\ Depth(t) = scope[t] + 1
    BY <1>1, <1>3, <1>6
  <2>2. Base(t) \in Scopes /\ state[Base(t)] = "open"
    BY <1>0, <1>1, <1>6 DEF Owners
  <2>3. scope[t] \in 1..Base(t)
    BY <1>1, <2>1
  <2> QED
    BY <1>0, <2>2, <2>3 DEF Owners
<1> QED
  BY <1>1, <1>4, <1>5, <1>6

\* A task that joins owns the scope it is in.
LEMMA Owns ==
  ASSUME JInv, NEW t \in Tasks, opened[t] # {}
  PROVE  Depth(t) \in opened[t] /\ Depth(t) \in Scopes /\ state[Depth(t)] = "open"
<1>0. ScopeTypes /\ Chains /\ Owners
  BY DEF JInv
<1>1. Base(t) \in Nat /\ Depth(t) \in Nat /\ Base(t) <= Depth(t)
  BY <1>0 DEF Chains, ScopeTypes, Depth
<1>2. opened[t] = (Base(t) + 1)..Depth(t) /\ opened[t] \subseteq Scopes
  BY <1>0 DEF Chains, ScopeTypes
<1>3. Base(t) < Depth(t)
  BY <1>1, <1>2
<1>4. Depth(t) \in opened[t]
  BY <1>1, <1>2, <1>3
<1> QED
  BY <1>0, <1>2, <1>4 DEF Owners

\* Only its owner joins a scope.
LEMMA OneJoins ==
  ASSUME JInv, NEW t \in Tasks, NEW u \in Tasks, tpc[t] \in Joining, tpc[u] \in Joining, scope[u] = scope[t]
  PROVE  u = t
<1>1. Depth(t) = scope[t] /\ Depth(u) = scope[u]
  BY DEF Depth, Joining
<1>2. scope[t] \in opened[t] /\ scope[t] \in opened[u] /\ scope[t] \in Scopes
  BY <1>1, Owns DEF JInv, PlacesOK
<1> QED
  BY <1>2 DEF JInv, Owners

\* A task that has opened nothing is in the scope it was started in.
LEMMA Leaf ==
  ASSUME JInv, NEW t \in Tasks, opened[t] = {}
  PROVE  Base(t) = Depth(t)
<1>0. Depth(t) \in Nat
  BY DEF JInv, ScopeTypes, Depth
<1>1. /\ Base(t) \in Nat /\ Depth(t) \in Nat /\ Base(t) <= Depth(t)
      /\ opened[t] = (Base(t) + 1)..Depth(t)
  BY <1>0 DEF JInv, Chains
<1>2. CASE Base(t) < Depth(t)
  <2>1. Depth(t) \in opened[t]
    BY <1>1, <1>2
  <2> QED
    BY <2>1
<1> QED
  BY <1>1, <1>2

\* Who is about to release a lock holds it; who holds it across a step is known.
LEMMA NoHolder ==
  ASSUME JInv, NEW s \in Scopes, Unlocked(s)
  PROVE  \A u \in Tasks : ~Holds(u, s)
BY ScopeAssumption DEF JInv, Locks, Unlocked

\* Nobody is in a call of jinn_scope_cancel under an unlocked scope.
LEMMA NoCaller ==
  ASSUME JInv, NEW s \in Scopes, Unlocked(s), NEW u \in Tasks, NEW i \in DOMAIN frames[u]
  PROVE  /\ frames[u][i].s = s => frames[u][i].left = {} /\ frames[u][i].at # "nested" /\ i = 1
         /\ frames[u][i].s = s + 1 => i = Len(frames[u])
<1>0. ScopeTypes /\ Calls
  BY DEF JInv
<1>1. ~Holds(u, s)
  BY NoHolder
<1>2. frames[u] \in Seq(CallFrame)
  BY <1>0 DEF ScopeTypes
<1>3. frames[u][i].s = s => frames[u][i].at # "nested"
  BY <1>1 DEF Holds
<1>4. ASSUME frames[u][i].s = s + 1, i # Len(frames[u]) PROVE FALSE
  <2>1. i + 1 \in DOMAIN frames[u] /\ 1 \in DOMAIN frames[u] /\ i \in Nat
    BY <1>2, <1>4
  <2>2. frames[u][i].s + i = frames[u][1].s + 1 /\ frames[u][i + 1].s + (i + 1) = frames[u][1].s + 1
    BY <1>0, <2>1 DEF Calls, Call
  <2>3. frames[u][i + 1].s \in Nat /\ frames[u][i].s \in Nat /\ frames[u][1].s \in Nat /\ s \in Nat
    <3>1. frames[u][i + 1] \in CallFrame /\ frames[u][i] \in CallFrame /\ frames[u][1] \in CallFrame
      BY <1>2, <2>1
    <3> QED
      BY <3>1, ScopeAssumption DEF CallFrame
  <2>4. frames[u][i + 1].s = s
    BY <1>4, <2>1, <2>2, <2>3
  <2>5. i + 1 # 1
    BY <1>2, <2>1
  <2>6. frames[u][i + 1].at = "nested"
    BY <1>0, <2>1, <2>5 DEF Calls, Call
  <2> QED
    BY <1>1, <2>1, <2>4, <2>6 DEF Holds
<1> QED
  BY <1>0, <1>3, <1>4 DEF Calls, Call

-----------------------------------------------------------------------------
(* Every step keeps the invariant of the join *)

LEMMA WaitStep ==
  ASSUME JInv, NEW t \in Tasks, Wait(t)
  PROVE  JInv'
<1>0. ScopeTypes /\ Chains /\ PlacesOK /\ Making /\ Owners /\ Counts /\ Locks /\ Lists /\ Calls /\ Parents /\ Errors
  BY DEF JInv
<1>1. tpc' = [tpc EXCEPT ![t] = "wait"] /\ tpc[t] = "body" /\ opened' = opened /\ scope' = scope
  BY <1>0 DEF Wait, With, Goto, InBody, Unlocked, scope_state, errors, ScopeTypes
<1>2. /\ \A u \in Tasks : Depth(u)' = Depth(u) /\ Base(u)' = Base(u)
      /\ \A s : Counted(s)' = Counted(s)
  BY <1>0, <1>1, Moved DEF ScopeTypes, Dead
<1>21. ScopeTypes'
  BY <1>0, <1>1, <1>2 DEF Wait, With, Goto, InBody, Unlocked, scope_state, errors, ScopeTypes, Places, Ending, Joining, CallFrame
<1>22. Chains'
  BY <1>0, <1>1, <1>2 DEF Wait, With, Goto, InBody, Unlocked, scope_state, errors, Chains
<1>23. PlacesOK'
  <2>1. scope[t] # 0
    <3>1. Base(t) # 0 /\ Base(t) \in Nat /\ Base(t) <= Depth(t)
      BY <1>0, <1>1 DEF Wait, Chains
    <3>2. Depth(t) = scope[t] /\ scope[t] \in Nat
      BY <1>0, <1>1 DEF Depth, ScopeTypes
    <3> QED
      BY <3>1, <3>2
  <2> QED
    BY <1>0, <1>1, <2>1 DEF Wait, PlacesOK, Ending, Joining
<1>24. Making'
  BY <1>0, <1>1, <1>2 DEF Wait, With, Goto, InBody, Unlocked, scope_state, errors, Making
<1>25. Owners'
  BY <1>0, <1>1, <1>2 DEF Wait, With, Goto, InBody, Unlocked, scope_state, errors, Owners
<1>26. Counts'
  BY <1>0, <1>1, <1>2 DEF Wait, With, Goto, InBody, Unlocked, scope_state, errors, Counts
<1>27. Locks'
  BY <1>0, <1>1, <1>2 DEF Wait, With, Goto, InBody, Unlocked, scope_state, errors, Locks, Holds
<1>28. Lists'
  BY <1>0, <1>1, <1>2 DEF Wait, With, Goto, InBody, Unlocked, scope_state, errors, Lists
<1>29. Calls'
  BY <1>0, <1>1, <1>2 DEF Wait, With, Goto, InBody, Unlocked, scope_state, errors, Calls, Call
<1>30. Parents'
  BY <1>0, <1>1, <1>2 DEF Wait, With, Goto, InBody, Unlocked, scope_state, errors, Parents, Waited, Woken
<1>31. Errors'
  BY <1>0, <1>1, <1>2 DEF Wait, With, Goto, InBody, Unlocked, scope_state, errors, Errors
<1> QED
  BY <1>21, <1>22, <1>23, <1>24, <1>25, <1>26, <1>27, <1>28, <1>29, <1>30, <1>31 DEF JInv

LEMMA StopActorsStep ==
  ASSUME JInv, NEW t \in Tasks, StopActors(t)
  PROVE  JInv'
<1>0. ScopeTypes /\ Chains /\ PlacesOK /\ Making /\ Owners /\ Counts /\ Locks /\ Lists /\ Calls /\ Parents /\ Errors
  BY DEF JInv
<1>1. tpc' = [tpc EXCEPT ![t] = "join"] /\ tpc[t] = "stop_actors" /\ opened' = opened /\ scope' = scope
  BY <1>0 DEF StopActors, With, Goto, InBody, Unlocked, scope_state, errors, ScopeTypes
<1>2. /\ \A u \in Tasks : Depth(u)' = Depth(u) /\ Base(u)' = Base(u)
      /\ \A s : Counted(s)' = Counted(s)
  BY <1>0, <1>1, Moved DEF ScopeTypes, Dead
<1>21. ScopeTypes'
  BY <1>0, <1>1, <1>2 DEF StopActors, With, Goto, InBody, Unlocked, scope_state, errors, ScopeTypes, Places, Ending, Joining, CallFrame
<1>22. Chains'
  BY <1>0, <1>1, <1>2 DEF StopActors, With, Goto, InBody, Unlocked, scope_state, errors, Chains
<1>23. PlacesOK'
  BY <1>0, <1>1, <1>2 DEF StopActors, With, Goto, InBody, Unlocked, scope_state, errors, PlacesOK, Ending, Joining
<1>24. Making'
  BY <1>0, <1>1, <1>2 DEF StopActors, With, Goto, InBody, Unlocked, scope_state, errors, Making
<1>25. Owners'
  BY <1>0, <1>1, <1>2 DEF StopActors, With, Goto, InBody, Unlocked, scope_state, errors, Owners
<1>26. Counts'
  BY <1>0, <1>1, <1>2 DEF StopActors, With, Goto, InBody, Unlocked, scope_state, errors, Counts
<1>27. Locks'
  BY <1>0, <1>1, <1>2 DEF StopActors, With, Goto, InBody, Unlocked, scope_state, errors, Locks, Holds
<1>28. Lists'
  BY <1>0, <1>1, <1>2 DEF StopActors, With, Goto, InBody, Unlocked, scope_state, errors, Lists
<1>29. Calls'
  BY <1>0, <1>1, <1>2 DEF StopActors, With, Goto, InBody, Unlocked, scope_state, errors, Calls, Call
<1>30. Parents'
  BY <1>0, <1>1, <1>2 DEF StopActors, With, Goto, InBody, Unlocked, scope_state, errors, Parents, Waited, Woken
<1>31. Errors'
  BY <1>0, <1>1, <1>2 DEF StopActors, With, Goto, InBody, Unlocked, scope_state, errors, Errors
<1> QED
  BY <1>21, <1>22, <1>23, <1>24, <1>25, <1>26, <1>27, <1>28, <1>29, <1>30, <1>31 DEF JInv

LEMMA JoinScopeStep ==
  ASSUME JInv, NEW t \in Tasks, JoinScope(t)
  PROVE  JInv'
<1>0. ScopeTypes /\ Chains /\ PlacesOK /\ Making /\ Owners /\ Counts /\ Locks /\ Lists /\ Calls /\ Parents /\ Errors
  BY DEF JInv
<1>1. PICK p \in {"sync", "park"} : tpc' = [tpc EXCEPT ![t] = p] /\ tpc[t] = "join" /\ opened' = opened /\ scope' = scope /\ (p = "sync" => live_children[scope[t]] = 0)
  BY <1>0 DEF JoinScope, With, Goto, InBody, Unlocked, scope_state, errors, ScopeTypes
<1>2. /\ \A u \in Tasks : Depth(u)' = Depth(u) /\ Base(u)' = Base(u)
      /\ \A s : Counted(s)' = Counted(s)
  BY <1>0, <1>1, Moved DEF ScopeTypes, Dead
<1>3. Depth(t) = scope[t] /\ scope[t] \in Scopes
  BY <1>0, <1>1, Owns DEF Depth, PlacesOK, Joining
<1>4. live_children[scope[t]] = 0 => Counted(scope[t]) = {}
  BY <1>0, <1>3, FS_EmptySet DEF Counts
<1>21. ScopeTypes'
  BY <1>0, <1>1, <1>2 DEF JoinScope, With, Goto, InBody, Unlocked, scope_state, errors, ScopeTypes, Places, Ending, Joining, CallFrame
<1>22. Chains'
  BY <1>0, <1>1, <1>2 DEF JoinScope, With, Goto, InBody, Unlocked, scope_state, errors, Chains
<1>23. PlacesOK'
  BY <1>0, <1>1, <1>2 DEF JoinScope, With, Goto, InBody, Unlocked, scope_state, errors, PlacesOK, Ending, Joining
<1>24. Making'
  BY <1>0, <1>1, <1>2 DEF JoinScope, With, Goto, InBody, Unlocked, scope_state, errors, Making
<1>25. Owners'
  BY <1>0, <1>1, <1>2 DEF JoinScope, With, Goto, InBody, Unlocked, scope_state, errors, Owners
<1>26. Counts'
  BY <1>0, <1>1, <1>2, <1>3, <1>4 DEF JoinScope, With, Goto, InBody, Unlocked, scope_state, errors, Counts
<1>27. Locks'
  BY <1>0, <1>1, <1>2 DEF JoinScope, With, Goto, InBody, Unlocked, scope_state, errors, Locks, Holds
<1>28. Lists'
  BY <1>0, <1>1, <1>2 DEF JoinScope, With, Goto, InBody, Unlocked, scope_state, errors, Lists
<1>29. Calls'
  BY <1>0, <1>1, <1>2 DEF JoinScope, With, Goto, InBody, Unlocked, scope_state, errors, Calls, Call
<1>30. Parents'
  BY <1>0, <1>1, <1>2 DEF JoinScope, With, Goto, InBody, Unlocked, scope_state, errors, Parents, Waited, Woken
<1>31. Errors'
  BY <1>0, <1>1, <1>2 DEF JoinScope, With, Goto, InBody, Unlocked, scope_state, errors, Errors
<1> QED
  BY <1>21, <1>22, <1>23, <1>24, <1>25, <1>26, <1>27, <1>28, <1>29, <1>30, <1>31 DEF JInv

LEMMA JoinSyncStep ==
  ASSUME JInv, NEW t \in Tasks, JoinSync(t)
  PROVE  JInv'
<1>0. ScopeTypes /\ Chains /\ PlacesOK /\ Making /\ Owners /\ Counts /\ Locks /\ Lists /\ Calls /\ Parents /\ Errors
  BY DEF JInv
<1>1. tpc' = [tpc EXCEPT ![t] = "unlink"] /\ tpc[t] = "sync" /\ opened' = opened /\ scope' = scope
  BY <1>0 DEF JoinSync, With, Goto, InBody, Unlocked, scope_state, errors, ScopeTypes
<1>2. /\ \A u \in Tasks : Depth(u)' = Depth(u) /\ Base(u)' = Base(u)
      /\ \A s : Counted(s)' = Counted(s)
  BY <1>0, <1>1, Moved DEF ScopeTypes, Dead
<1>3. Depth(t) = scope[t] /\ scope[t] \in Scopes
  BY <1>0, <1>1, Owns DEF Depth, PlacesOK, Joining
<1>4. \A u \in Tasks : tpc[u] = "release" => scope[u] # scope[t]
  BY <1>3, NoHolder DEF JoinSync, Holds
<1>21. ScopeTypes'
  BY <1>0, <1>1, <1>2 DEF JoinSync, With, Goto, InBody, Unlocked, scope_state, errors, ScopeTypes, Places, Ending, Joining, CallFrame
<1>22. Chains'
  BY <1>0, <1>1, <1>2 DEF JoinSync, With, Goto, InBody, Unlocked, scope_state, errors, Chains
<1>23. PlacesOK'
  BY <1>0, <1>1, <1>2 DEF JoinSync, With, Goto, InBody, Unlocked, scope_state, errors, PlacesOK, Ending, Joining
<1>24. Making'
  BY <1>0, <1>1, <1>2 DEF JoinSync, With, Goto, InBody, Unlocked, scope_state, errors, Making
<1>25. Owners'
  BY <1>0, <1>1, <1>2 DEF JoinSync, With, Goto, InBody, Unlocked, scope_state, errors, Owners
<1>26. Counts'
  BY <1>0, <1>1, <1>2, <1>3, <1>4 DEF JoinSync, With, Goto, InBody, Unlocked, scope_state, errors, Counts
<1>27. Locks'
  BY <1>0, <1>1, <1>2 DEF JoinSync, With, Goto, InBody, Unlocked, scope_state, errors, Locks, Holds
<1>28. Lists'
  BY <1>0, <1>1, <1>2 DEF JoinSync, With, Goto, InBody, Unlocked, scope_state, errors, Lists
<1>29. Calls'
  BY <1>0, <1>1, <1>2 DEF JoinSync, With, Goto, InBody, Unlocked, scope_state, errors, Calls, Call
<1>30. Parents'
  BY <1>0, <1>1, <1>2 DEF JoinSync, With, Goto, InBody, Unlocked, scope_state, errors, Parents, Waited, Woken
<1>31. Errors'
  BY <1>0, <1>1, <1>2 DEF JoinSync, With, Goto, InBody, Unlocked, scope_state, errors, Errors
<1> QED
  BY <1>21, <1>22, <1>23, <1>24, <1>25, <1>26, <1>27, <1>28, <1>29, <1>30, <1>31 DEF JInv

LEMMA ReleasedStep ==
  ASSUME JInv, NEW t \in Tasks, Released(t)
  PROVE  JInv'
<1>0. ScopeTypes /\ Chains /\ PlacesOK /\ Making /\ Owners /\ Counts /\ Locks /\ Lists /\ Calls /\ Parents /\ Errors
  BY DEF JInv
<1>1. PICK p \in {"destroy", "body"} : tpc' = [tpc EXCEPT ![t] = p] /\ tpc[t] = "wait" /\ opened' = opened /\ scope' = scope /\ (p = "destroy" <=> t \in Actors)
  BY <1>0 DEF Released, With, Goto, InBody, Unlocked, scope_state, errors, ScopeTypes
<1>2. /\ \A u \in Tasks : Depth(u)' = Depth(u) /\ Base(u)' = Base(u)
      /\ \A s : Counted(s)' = Counted(s)
  BY <1>0, <1>1, Moved DEF ScopeTypes, Dead
<1>21. ScopeTypes'
  <2>1. p \in Places
    BY <1>1 DEF Places, Ending
  <2>2. tpc' \in [Tasks -> Places]
    BY <1>0, <1>1, <2>1 DEF ScopeTypes
  <2> QED
    BY <1>0, <1>1, <2>2 DEF Released, With, Goto, InBody, Unlocked, scope_state, errors, ScopeTypes
<1>22. Chains'
  BY <1>0, <1>1, <1>2 DEF Released, With, Goto, InBody, Unlocked, scope_state, errors, Chains
<1>23. PlacesOK'
  BY <1>0, <1>1, <1>2 DEF Released, With, Goto, InBody, Unlocked, scope_state, errors, PlacesOK, Ending, Joining
<1>24. Making'
  BY <1>0, <1>1, <1>2 DEF Released, With, Goto, InBody, Unlocked, scope_state, errors, Making
<1>25. Owners'
  BY <1>0, <1>1, <1>2 DEF Released, With, Goto, InBody, Unlocked, scope_state, errors, Owners
<1>26. Counts'
  BY <1>0, <1>1, <1>2 DEF Released, With, Goto, InBody, Unlocked, scope_state, errors, Counts
<1>27. Locks'
  BY <1>0, <1>1, <1>2 DEF Released, With, Goto, InBody, Unlocked, scope_state, errors, Locks, Holds
<1>28. Lists'
  BY <1>0, <1>1, <1>2 DEF Released, With, Goto, InBody, Unlocked, scope_state, errors, Lists
<1>29. Calls'
  BY <1>0, <1>1, <1>2 DEF Released, With, Goto, InBody, Unlocked, scope_state, errors, Calls, Call
<1>30. Parents'
  BY <1>0, <1>1, <1>2 DEF Released, With, Goto, InBody, Unlocked, scope_state, errors, Parents, Waited, Woken
<1>31. Errors'
  BY <1>0, <1>1, <1>2 DEF Released, With, Goto, InBody, Unlocked, scope_state, errors, Errors
<1> QED
  BY <1>21, <1>22, <1>23, <1>24, <1>25, <1>26, <1>27, <1>28, <1>29, <1>30, <1>31 DEF JInv

LEMMA DestroyActorStep ==
  ASSUME JInv, NEW t \in Tasks, DestroyActor(t)
  PROVE  JInv'
<1>0. ScopeTypes /\ Chains /\ PlacesOK /\ Making /\ Owners /\ Counts /\ Locks /\ Lists /\ Calls /\ Parents /\ Errors
  BY DEF JInv
<1>1. tpc' = [tpc EXCEPT ![t] = "exit"] /\ tpc[t] = "destroy" /\ opened' = opened /\ scope' = scope
  BY <1>0 DEF DestroyActor, With, Goto, InBody, Unlocked, scope_state, errors, ScopeTypes
<1>2. /\ \A u \in Tasks : Depth(u)' = Depth(u) /\ Base(u)' = Base(u)
      /\ \A s : Counted(s)' = Counted(s)
  BY <1>0, <1>1, Moved DEF ScopeTypes, Dead
<1>21. ScopeTypes'
  BY <1>0, <1>1, <1>2 DEF DestroyActor, With, Goto, InBody, Unlocked, scope_state, errors, ScopeTypes, Places, Ending, Joining, CallFrame
<1>22. Chains'
  BY <1>0, <1>1, <1>2 DEF DestroyActor, With, Goto, InBody, Unlocked, scope_state, errors, Chains
<1>23. PlacesOK'
  BY <1>0, <1>1, <1>2 DEF DestroyActor, With, Goto, InBody, Unlocked, scope_state, errors, PlacesOK, Ending, Joining
<1>24. Making'
  BY <1>0, <1>1, <1>2 DEF DestroyActor, With, Goto, InBody, Unlocked, scope_state, errors, Making
<1>25. Owners'
  BY <1>0, <1>1, <1>2 DEF DestroyActor, With, Goto, InBody, Unlocked, scope_state, errors, Owners
<1>26. Counts'
  BY <1>0, <1>1, <1>2 DEF DestroyActor, With, Goto, InBody, Unlocked, scope_state, errors, Counts
<1>27. Locks'
  BY <1>0, <1>1, <1>2 DEF DestroyActor, With, Goto, InBody, Unlocked, scope_state, errors, Locks, Holds
<1>28. Lists'
  BY <1>0, <1>1, <1>2 DEF DestroyActor, With, Goto, InBody, Unlocked, scope_state, errors, Lists
<1>29. Calls'
  BY <1>0, <1>1, <1>2 DEF DestroyActor, With, Goto, InBody, Unlocked, scope_state, errors, Calls, Call
<1>30. Parents'
  BY <1>0, <1>1, <1>2 DEF DestroyActor, With, Goto, InBody, Unlocked, scope_state, errors, Parents, Waited, Woken
<1>31. Errors'
  BY <1>0, <1>1, <1>2 DEF DestroyActor, With, Goto, InBody, Unlocked, scope_state, errors, Errors
<1> QED
  BY <1>21, <1>22, <1>23, <1>24, <1>25, <1>26, <1>27, <1>28, <1>29, <1>30, <1>31 DEF JInv

LEMMA UnregisterStep ==
  ASSUME JInv, NEW t \in Tasks, Unregister(t)
  PROVE  JInv'
<1>0. ScopeTypes /\ Chains /\ PlacesOK /\ Making /\ Owners /\ Counts /\ Locks /\ Lists /\ Calls /\ Parents /\ Errors
  BY DEF JInv
<1>1. tpc' = [tpc EXCEPT ![t] = "done"] /\ tpc[t] = "exit" /\ opened' = opened /\ scope' = scope
  BY <1>0 DEF Unregister, With, Goto, InBody, Unlocked, scope_state, errors, ScopeTypes
<1>2. /\ \A u \in Tasks : Depth(u)' = Depth(u) /\ Base(u)' = Base(u)
      /\ \A s : Counted(s)' = Counted(s)
  BY <1>0, <1>1, Moved DEF ScopeTypes, Dead
<1>3. Base(t) = scope[t]
  BY <1>0, <1>1, Leaf DEF Depth, PlacesOK, Ending
<1>4. \A s \in Scopes : kids'[s] \subseteq kids[s] /\ t \notin kids'[s]
  BY <1>0, <1>3 DEF Unregister, With, Lists, Counted, ScopeTypes
<1>21. ScopeTypes'
  BY <1>0, <1>1, <1>2 DEF Unregister, With, Goto, InBody, Unlocked, scope_state, errors, ScopeTypes, Places, Ending, Joining, CallFrame
<1>22. Chains'
  BY <1>0, <1>1, <1>2 DEF Unregister, With, Goto, InBody, Unlocked, scope_state, errors, Chains
<1>23. PlacesOK'
  BY <1>0, <1>1, <1>2 DEF Unregister, With, Goto, InBody, Unlocked, scope_state, errors, PlacesOK, Ending, Joining
<1>24. Making'
  BY <1>0, <1>1, <1>2 DEF Unregister, With, Goto, InBody, Unlocked, scope_state, errors, Making
<1>25. Owners'
  BY <1>0, <1>1, <1>2 DEF Unregister, With, Goto, InBody, Unlocked, scope_state, errors, Owners
<1>26. Counts'
  BY <1>0, <1>1, <1>2 DEF Unregister, With, Goto, InBody, Unlocked, scope_state, errors, Counts
<1>27. Locks'
  BY <1>0, <1>1, <1>2 DEF Unregister, With, Goto, InBody, Unlocked, scope_state, errors, Locks, Holds
<1>28. Lists'
  BY <1>0, <1>1, <1>2, <1>4 DEF Unregister, With, Goto, InBody, Unlocked, scope_state, errors, Lists
<1>29. Calls'
  BY <1>0, <1>1, <1>2 DEF Unregister, With, Goto, InBody, Unlocked, scope_state, errors, Calls, Call
<1>30. Parents'
  BY <1>0, <1>1, <1>2 DEF Unregister, With, Goto, InBody, Unlocked, scope_state, errors, Parents, Waited, Woken
<1>31. Errors'
  BY <1>0, <1>1, <1>2 DEF Unregister, With, Goto, InBody, Unlocked, scope_state, errors, Errors
<1> QED
  BY <1>21, <1>22, <1>23, <1>24, <1>25, <1>26, <1>27, <1>28, <1>29, <1>30, <1>31 DEF JInv

LEMMA UnlinkStep ==
  ASSUME JInv, NEW t \in Tasks, Unlink(t)
  PROVE  JInv'
<1>0. ScopeTypes /\ Chains /\ PlacesOK /\ Making /\ Owners /\ Counts /\ Locks /\ Lists /\ Calls /\ Parents /\ Errors
  BY DEF JInv
<1>1. tpc' = [tpc EXCEPT ![t] = "free"] /\ tpc[t] = "unlink" /\ opened' = opened /\ scope' = scope
  BY <1>0 DEF Unlink, With, Goto, InBody, Unlocked, scope_state, errors, ScopeTypes
<1>2. /\ \A u \in Tasks : Depth(u)' = Depth(u) /\ Base(u)' = Base(u)
      /\ \A s : Counted(s)' = Counted(s)
  BY <1>0, <1>1, Moved DEF ScopeTypes, Dead
<1>3. Depth(t) = scope[t] /\ scope[t] \in Scopes /\ scope[t] \in Nat /\ scope[t] # 0
  BY <1>0, <1>1, Owns, ScopeAssumption DEF Depth, PlacesOK, Joining
<1>4. \A s \in Scopes : child_scopes'[s] = child_scopes[s] \ {scope[t]} /\ s \in Nat
  BY <1>0, <1>3, ScopeAssumption DEF Unlink, With, Lists, ScopeTypes
<1>5. ASSUME scope[t] > 1 PROVE scope[t] - 1 \in Scopes /\ Unlocked(scope[t] - 1)
  BY <1>0, <1>1, <1>3, <1>5, Owns DEF Unlink, Owners, PlacesOK, Joining
<1>21. ScopeTypes'
  BY <1>0, <1>1, <1>2 DEF Unlink, With, Goto, InBody, Unlocked, scope_state, errors, ScopeTypes, Places, Ending, Joining, CallFrame
<1>22. Chains'
  BY <1>0, <1>1, <1>2 DEF Unlink, With, Goto, InBody, Unlocked, scope_state, errors, Chains
<1>23. PlacesOK'
  BY <1>0, <1>1, <1>2 DEF Unlink, With, Goto, InBody, Unlocked, scope_state, errors, PlacesOK, Ending, Joining
<1>24. Making'
  BY <1>0, <1>1, <1>2 DEF Unlink, With, Goto, InBody, Unlocked, scope_state, errors, Making
<1>25. Owners'
  BY <1>0, <1>1, <1>2 DEF Unlink, With, Goto, InBody, Unlocked, scope_state, errors, Owners
<1>26. Counts'
  BY <1>0, <1>1, <1>2 DEF Unlink, With, Goto, InBody, Unlocked, scope_state, errors, Counts
<1>27. Locks'
  BY <1>0, <1>1, <1>2 DEF Unlink, With, Goto, InBody, Unlocked, scope_state, errors, Locks, Holds
<1>28. Lists'
  BY <1>0, <1>1, <1>2, <1>4 DEF Unlink, With, Goto, InBody, Unlocked, scope_state, errors, Lists
<1>29. Calls'
  <2>1. ASSUME NEW u \in Tasks, NEW i \in DOMAIN frames[u]
        PROVE  /\ i # Len(frames[u]) => frames[u][i].s - 1 \in Scopes /\ frames[u][i].s \in child_scopes[frames[u][i].s - 1] \ {scope[t]}
               /\ frames[u][i].left \subseteq child_scopes[frames[u][i].s] \ {scope[t]}
    <3>1. frames[u][i] \in CallFrame
      BY <1>0 DEF ScopeTypes
    <3>2. frames[u][i].s \in Scopes /\ frames[u][i].s \in Nat
      BY <3>1, ScopeAssumption DEF CallFrame
    <3>3. CASE scope[t] = 1
      <4>1. \A s \in Scopes : scope[t] \notin child_scopes[s]
        BY <1>0, <1>4, <3>3, ScopeAssumption DEF Lists
      <4> QED
        BY <1>0, <3>2, <4>1 DEF Calls, Call, ScopeTypes
    <3>4. CASE scope[t] > 1
      <4>1. /\ frames[u][i].s = scope[t] - 1 => frames[u][i].left = {}
            /\ frames[u][i].s = scope[t] => i = Len(frames[u])
        BY <1>3, <1>5, <3>4, NoCaller
      <4>2. frames[u][i].left \subseteq child_scopes[frames[u][i].s]
        BY <1>0 DEF Calls, Call
      <4>3. \A c \in child_scopes[frames[u][i].s] : c = frames[u][i].s + 1
        BY <1>0, <3>2 DEF Lists
      <4>4. scope[t] \notin frames[u][i].left
        BY <1>3, <3>2, <4>1, <4>2, <4>3
      <4> QED
        BY <1>0, <4>1, <4>2, <4>4 DEF Calls, Call
    <3> QED
      BY <1>3, <3>3, <3>4
  <2> QED
    <3>1. ASSUME NEW u \in Tasks, NEW i \in DOMAIN frames[u] PROVE Call(u, i)'
      <4>1. frames[u][i] \in CallFrame
        BY <1>0 DEF ScopeTypes
      <4>2. frames[u][i].s \in Scopes
        BY <4>1 DEF CallFrame
      <4>3. child_scopes'[frames[u][i].s] = child_scopes[frames[u][i].s] \ {scope[t]}
        BY <1>4, <4>2
      <4>4. Call(u, i)
        BY <1>0 DEF Calls
      <4> QED
        BY <1>1, <1>4, <2>1, <4>3, <4>4 DEF Call, Unlink
    <3> QED
      BY <1>0, <1>1, <3>1 DEF Calls, Unlink
<1>30. Parents'
  BY <1>0, <1>1, <1>2 DEF Unlink, With, Goto, InBody, Unlocked, scope_state, errors, Parents, Waited, Woken
<1>31. Errors'
  BY <1>0, <1>1, <1>2 DEF Unlink, With, Goto, InBody, Unlocked, scope_state, errors, Errors
<1> QED
  BY <1>21, <1>22, <1>23, <1>24, <1>25, <1>26, <1>27, <1>28, <1>29, <1>30, <1>31 DEF JInv

LEMMA EndBodyStep ==
  ASSUME JInv, NEW t \in Tasks, EndBody(t)
  PROVE  JInv'
<1>0. ScopeTypes /\ Chains /\ PlacesOK /\ Making /\ Owners /\ Counts /\ Locks /\ Lists /\ Calls /\ Parents /\ Errors
  BY DEF JInv
<1>1. PICK p \in {"stop_actors", "gone", "exit"} :
        /\ tpc' = [tpc EXCEPT ![t] = p] /\ tpc[t] = "body" /\ opened' = opened /\ scope' = scope
        /\ p = "stop_actors" <=> opened[t] # {}
        /\ p = "gone" => scope[t] = 0
        /\ p = "exit" => scope[t] # 0
  BY <1>0 DEF EndBody, With, Goto, InBody, Unlocked, scope_state, errors, ScopeTypes
<1>a. p \in Places
  BY DEF Places, Ending, Joining
<1>b. p = "gone" => t = Opener
  <2>1. Depth(t) = scope[t] /\ scope[t] \in Nat
    BY <1>0, <1>1 DEF Depth, ScopeTypes
  <2> QED
    BY <1>0, <1>1, <2>1 DEF Chains
<1>2. /\ \A u \in Tasks : Depth(u)' = Depth(u) /\ Base(u)' = Base(u)
      /\ \A s : Counted(s)' = Counted(s)
  BY <1>0, <1>1, <1>b, Moved DEF ScopeTypes, Dead
<1>21. ScopeTypes'
  BY <1>0, <1>1, <1>a, <1>b, <1>2 DEF EndBody, With, Goto, InBody, Unlocked, scope_state, errors, ScopeTypes, Places, Ending, Joining, CallFrame
<1>22. Chains'
  BY <1>0, <1>1, <1>a, <1>b, <1>2 DEF EndBody, With, Goto, InBody, Unlocked, scope_state, errors, Chains
<1>23. PlacesOK'
  BY <1>0, <1>1, <1>a, <1>b, <1>2 DEF EndBody, With, Goto, InBody, Unlocked, scope_state, errors, PlacesOK, Ending, Joining
<1>24. Making'
  BY <1>0, <1>1, <1>a, <1>b, <1>2 DEF EndBody, With, Goto, InBody, Unlocked, scope_state, errors, Making
<1>25. Owners'
  BY <1>0, <1>1, <1>a, <1>b, <1>2 DEF EndBody, With, Goto, InBody, Unlocked, scope_state, errors, Owners
<1>26. Counts'
  BY <1>0, <1>1, <1>a, <1>b, <1>2 DEF EndBody, With, Goto, InBody, Unlocked, scope_state, errors, Counts
<1>27. Locks'
  BY <1>0, <1>1, <1>a, <1>b, <1>2 DEF EndBody, With, Goto, InBody, Unlocked, scope_state, errors, Locks, Holds
<1>28. Lists'
  BY <1>0, <1>1, <1>a, <1>b, <1>2 DEF EndBody, With, Goto, InBody, Unlocked, scope_state, errors, Lists
<1>29. Calls'
  BY <1>0, <1>1, <1>a, <1>b, <1>2 DEF EndBody, With, Goto, InBody, Unlocked, scope_state, errors, Calls, Call
<1>30. Parents'
  BY <1>0, <1>1, <1>a, <1>b, <1>2 DEF EndBody, With, Goto, InBody, Unlocked, scope_state, errors, Parents, Waited, Woken
<1>31. Errors'
  BY <1>0, <1>1, <1>a, <1>b, <1>2 DEF EndBody, With, Goto, InBody, Unlocked, scope_state, errors, Errors
<1> QED
  BY <1>21, <1>22, <1>23, <1>24, <1>25, <1>26, <1>27, <1>28, <1>29, <1>30, <1>31 DEF JInv

LEMMA JoinParkStep ==
  ASSUME JInv, NEW t \in Tasks, JoinPark(t)
  PROVE  JInv'
<1>0. ScopeTypes /\ Chains /\ PlacesOK /\ Making /\ Owners /\ Counts /\ Locks /\ Lists /\ Calls /\ Parents /\ Errors
  BY DEF JInv
<1>1. tpc[t] = "park"
  BY DEF JoinPark
<1>3. Depth(t) = scope[t] /\ scope[t] \in Scopes
  BY <1>0, <1>1, Owns DEF Depth, PlacesOK, Joining
<1>4. live_children[scope[t]] = 0 <=> Counted(scope[t]) = {}
  BY <1>0, <1>3, FS_EmptySet DEF Counts
<1>u. state' = state /\ scancelled' = scancelled /\ live_children' = live_children /\ kids' = kids /\ child_scopes' = child_scopes /\ actors' = actors /\ has_error' = has_error /\ error_val' = error_val /\ scope' = scope /\ opened' = opened /\ flag' = flag /\ shut' = shut /\ arg' = arg /\ frames' = frames /\ thread' = thread
  BY DEF JoinPark, With, Goto, InBody, Unlocked, scope_state, errors, Begin
<1>p. /\ \A u \in Tasks : tpc'[u] = IF u = t THEN (IF live_children[scope[t]] = 0 THEN "unlink" ELSE "swap") ELSE tpc[u]
      /\ \A s \in Scopes : slock'[s] = IF s = scope[t] /\ live_children[s] # 0 THEN t ELSE slock[s]
      /\ \A s \in Scopes : parent'[s] = IF s = scope[t] /\ live_children[s] # 0 THEN t ELSE parent[s]
  BY <1>0, <1>1, <1>3 DEF JoinPark, With, Goto, InBody, Unlocked, scope_state, errors, Begin, ScopeTypes
<1>k. \A s \in Scopes : kids[s] \subseteq Tasks /\ (parent[s] # Nobody => parent[s] \in Tasks)
  BY <1>0 DEF ScopeTypes
<1>2. /\ \A u \in Tasks : Depth(u)' = Depth(u) /\ Base(u)' = Base(u)
      /\ \A s : Counted(s)' = Counted(s)
  BY <1>u, <1>p, <1>1, Moved DEF Dead
<1>5. \A u \in Tasks : ~Holds(u, scope[t])
  BY <1>3, NoHolder DEF JoinPark
<1>6. \A u \in Tasks : tpc[u] \in Joining /\ scope[u] = scope[t] => u = t
  BY <1>1, OneJoins DEF Joining
<1>21. ScopeTypes'
  <2>1. slock' \in [Scopes -> Tasks \cup {Nobody}]
    <3>1. slock' = slock \/ slock' = [slock EXCEPT ![scope[t]] = t]
      BY DEF JoinPark, With
    <3> QED
      BY <1>0, <3>1 DEF ScopeTypes
  <2>2. parent' \in [Scopes -> Tasks \cup {Nobody}]
    BY <1>0, <1>u, <1>1, <1>2, <1>3 DEF JoinPark, With, Goto, InBody, Unlocked, scope_state, errors, Begin, ScopeTypes
  <2>3. tpc' \in [Tasks -> Places]
    BY <1>0, <1>u, <1>1, <1>2, <1>3 DEF JoinPark, With, Goto, InBody, Unlocked, scope_state, errors, Begin, ScopeTypes, Places, Ending, Joining
  <2> QED
    BY <1>0, <1>u, <2>1, <2>2, <2>3 DEF ScopeTypes
<1>22. Chains'
  BY <1>0, <1>u, <1>p, <1>1, <1>2, <1>3 DEF Chains
<1>23. PlacesOK'
  BY <1>0, <1>u, <1>p, <1>1, <1>2, <1>3 DEF PlacesOK, Ending, Joining
<1>24. Making'
  BY <1>0, <1>u, <1>p, <1>1, <1>2, <1>3 DEF Making
<1>25. Owners'
  BY <1>0, <1>u, <1>p, <1>1, <1>2, <1>3 DEF Owners
<1>26. Counts'
  BY <1>0, <1>u, <1>p, <1>1, <1>2, <1>3, <1>4, <1>5 DEF Counts, Holds
<1>27. Locks'
  <2>1. \A u \in Tasks, s \in Scopes : u # t \/ s # scope[t] => (Holds(u, s)' <=> Holds(u, s))
    BY <1>1, <1>3, <1>u, <1>p DEF Holds
  <2>2. Holds(t, scope[t])' <=> live_children[scope[t]] # 0
    BY <1>0, <1>u, <1>p, <1>1, <1>3 DEF Holds, Calls
  <2>3. ASSUME NEW u \in Tasks, NEW s \in Scopes PROVE slock'[s] = u <=> Holds(u, s)'
    <3>1. (slock[s] = u <=> Holds(u, s)) /\ (slock[scope[t]] = t <=> Holds(t, scope[t]))
      BY <1>0, <1>3 DEF Locks
    <3>2. CASE s # scope[t]
      <4>1. slock'[s] = slock[s] /\ (Holds(u, s)' <=> Holds(u, s))
        BY <1>p, <2>1, <3>2
      <4> QED
        BY <3>1, <4>1
    <3>3. CASE s = scope[t] /\ u # t
      <4>1. (Holds(u, s)' <=> Holds(u, s)) /\ slock'[s] # u
        BY <1>p, <1>3, <1>5, <2>1, <3>1, <3>3, ScopeAssumption
      <4> QED
        BY <1>5, <3>1, <3>3, <4>1
    <3>4. CASE s = scope[t] /\ u = t
      BY <1>u, <1>p, <1>3, <1>5, <2>2, <3>1, <3>4, ScopeAssumption
    <3> QED
      BY <3>2, <3>3, <3>4
  <2> QED
    BY <2>3 DEF Locks
<1>28. Lists'
  BY <1>0, <1>u, <1>p, <1>1, <1>2, <1>3, <1>k DEF Lists
<1>29. Calls'
  BY <1>0, <1>u, <1>p, <1>1, <1>2, <1>3 DEF Calls, Call
<1>30. Parents'
  <2>1. \A u \in Tasks : (tpc'[u] = "wake" <=> tpc[u] = "wake") /\ (tpc'[u] = "release" <=> tpc[u] = "release") /\ (tpc'[u] = "parked" <=> tpc[u] = "parked")
    BY <1>1, <1>p
  <2>2. CASE live_children[scope[t]] = 0
    <3>1. parent' = parent /\ \A u \in Tasks : tpc'[u] = "swap" <=> tpc[u] = "swap"
      BY <1>0, <1>1, <1>3, <1>p, <2>2 DEF JoinPark, ScopeTypes
    <3>2. \A s \in Scopes : parent[s] # t
      BY <1>0, <1>1, ScopeAssumption DEF Parents, Waited, Woken
    <3> QED
      BY <1>0, <1>u, <1>k, <1>2, <2>1, <3>1, <3>2 DEF Parents, Waited, Woken
  <2>3. CASE live_children[scope[t]] # 0
    <3>1. \A w \in Tasks : tpc[w] = "wake" => arg[w] # t
      BY <1>0, <1>1 DEF Parents, Waited, Woken
    <3>2. \A u \in Tasks : tpc[u] \in {"swap", "parked"} => scope[u] # scope[t]
      BY <1>1, <1>6 DEF Joining
    <3>3. \A s \in Scopes : parent[s] # t
      BY <1>0, <1>1, ScopeAssumption DEF Parents, Waited, Woken
    <3> QED
      <4>1. ASSUME NEW s \in Scopes, parent'[s] # Nobody
            PROVE  /\ tpc'[parent'[s]] \in {"swap", "parked"} /\ scope[parent'[s]] = s
                   /\ \A w \in Tasks : tpc'[w] = "wake" => arg'[w] # parent'[s]
                   /\ Counted(s) = {} => \E u \in Tasks : tpc'[u] = "release" /\ scope[u] = s
        <5>1. CASE s = scope[t]
          BY <1>u, <1>p, <1>3, <1>4, <2>1, <2>3, <3>1, <5>1
        <5>2. CASE s # scope[t]
          <6>1. parent'[s] = parent[s] /\ parent[s] \in Tasks /\ parent[s] # t
            BY <1>p, <1>k, <3>3, <4>1, <5>2
          <6>2. tpc'[parent[s]] = tpc[parent[s]]
            BY <1>p, <6>1
          <6> QED
            BY <1>u, <1>0, <2>1, <4>1, <6>1, <6>2 DEF Parents, Waited, Woken
        <5> QED
          BY <5>1, <5>2
      <4>2. ASSUME NEW u \in Tasks
            PROVE  /\ tpc'[u] = "swap" => parent'[scope[u]] = u
                   /\ tpc'[u] = "parked" => parent'[scope[u]] = u \/ \E w \in Tasks : tpc'[w] = "wake" /\ arg'[w] = u
        <5>1. tpc[u] \in {"swap", "parked"} => scope[u] \in Scopes
          BY <1>0, Owns DEF PlacesOK, Joining, Depth
        <5> QED
          BY <1>0, <1>u, <1>p, <1>1, <1>3, <2>1, <2>3, <3>2, <5>1 DEF Parents, Waited, Woken
      <4>3. \A u \in Tasks : tpc'[u] = "wake" =>
              /\ arg'[u] \in Tasks /\ tpc'[arg'[u]] = "parked"
              /\ \A w \in Tasks : tpc'[w] = "wake" /\ arg'[w] = arg'[u] => w = u
        BY <1>0, <1>u, <2>1 DEF Parents, Waited, Woken
      <4>4. \A s \in Scopes : Waited(s)'
        BY <1>u, <1>2, <4>1 DEF Waited
      <4>5. \A u \in Tasks : Woken(u)'
        BY <1>u, <4>2, <4>3 DEF Woken
      <4> QED
        BY <4>4, <4>5 DEF Parents
  <2> QED
    BY <2>2, <2>3
<1>31. Errors'
  BY <1>0, <1>u, <1>p, <1>1, <1>2, <1>3 DEF Errors
<1> QED
  BY <1>21, <1>22, <1>23, <1>24, <1>25, <1>26, <1>27, <1>28, <1>29, <1>30, <1>31 DEF JInv

LEMMA JoinSwapStep ==
  ASSUME JInv, NEW t \in Tasks, JoinSwap(t)
  PROVE  JInv'
<1>0. ScopeTypes /\ Chains /\ PlacesOK /\ Making /\ Owners /\ Counts /\ Locks /\ Lists /\ Calls /\ Parents /\ Errors
  BY DEF JInv
<1>1. tpc[t] = "swap"
  BY DEF JoinSwap
<1>3. Depth(t) = scope[t] /\ scope[t] \in Scopes
  BY <1>0, <1>1, Owns DEF Depth, PlacesOK, Joining
<1>4. live_children[scope[t]] = 0 <=> Counted(scope[t]) = {}
  BY <1>0, <1>3, FS_EmptySet DEF Counts
<1>u. state' = state /\ scancelled' = scancelled /\ live_children' = live_children /\ parent' = parent /\ kids' = kids /\ child_scopes' = child_scopes /\ actors' = actors /\ has_error' = has_error /\ error_val' = error_val /\ scope' = scope /\ opened' = opened /\ flag' = flag /\ shut' = shut /\ arg' = arg /\ frames' = frames /\ thread' = thread
  BY DEF JoinSwap, With, Goto, InBody, Unlocked, scope_state, errors, Begin
<1>p. /\ \A u \in Tasks : tpc'[u] = IF u = t THEN "parked" ELSE tpc[u]
      /\ \A s \in Scopes : slock'[s] = IF s = scope[t] THEN Nobody ELSE slock[s]
  BY <1>0, <1>1, <1>3 DEF JoinSwap, With, Goto, InBody, Unlocked, scope_state, errors, Begin, ScopeTypes
<1>k. \A s \in Scopes : kids[s] \subseteq Tasks /\ (parent[s] # Nobody => parent[s] \in Tasks)
  BY <1>0 DEF ScopeTypes
<1>2. /\ \A u \in Tasks : Depth(u)' = Depth(u) /\ Base(u)' = Base(u)
      /\ \A s : Counted(s)' = Counted(s)
  BY <1>u, <1>p, <1>1, Moved DEF Dead
<1>21. ScopeTypes'
  BY <1>0, <1>u, <1>1, <1>2, <1>3 DEF JoinSwap, With, Goto, InBody, Unlocked, scope_state, errors, Begin, ScopeTypes, Places, Ending, Joining, CallFrame
<1>22. Chains'
  BY <1>0, <1>u, <1>p, <1>1, <1>2, <1>3 DEF Chains
<1>23. PlacesOK'
  BY <1>0, <1>u, <1>p, <1>1, <1>2, <1>3 DEF PlacesOK, Ending, Joining
<1>24. Making'
  BY <1>0, <1>u, <1>p, <1>1, <1>2, <1>3 DEF Making
<1>25. Owners'
  BY <1>0, <1>u, <1>p, <1>1, <1>2, <1>3 DEF Owners
<1>26. Counts'
  BY <1>0, <1>u, <1>p, <1>1, <1>2, <1>3 DEF Counts
<1>27. Locks'
  <2>1. \A u \in Tasks, s \in Scopes : u # t \/ s # scope[t] => (Holds(u, s)' <=> Holds(u, s))
    BY <1>1, <1>3, <1>u, <1>p DEF Holds
  <2>2. Holds(t, scope[t]) /\ ~Holds(t, scope[t])'
    BY <1>0, <1>u, <1>p, <1>1, <1>3 DEF Holds, Calls
  <2>3. ASSUME NEW u \in Tasks, NEW s \in Scopes PROVE slock'[s] = u <=> Holds(u, s)'
    <3>1. (slock[s] = u <=> Holds(u, s)) /\ (slock[scope[t]] = t <=> Holds(t, scope[t]))
      BY <1>0, <1>3 DEF Locks
    <3>2. CASE s # scope[t]
      <4>1. slock'[s] = slock[s] /\ (Holds(u, s)' <=> Holds(u, s))
        BY <1>p, <2>1, <3>2
      <4> QED
        BY <3>1, <4>1
    <3>3. CASE s = scope[t] /\ u # t
      <4>1. (Holds(u, s)' <=> Holds(u, s)) /\ slock'[s] # u
        BY <1>p, <1>3, <2>1, <2>2, <3>1, <3>3, ScopeAssumption
      <4> QED
        BY <1>3, <2>2, <3>1, <3>3, <4>1
    <3>4. CASE s = scope[t] /\ u = t
      BY <1>u, <1>p, <1>3, <2>2, <3>4, ScopeAssumption
    <3> QED
      BY <3>2, <3>3, <3>4
  <2> QED
    BY <2>3 DEF Locks
<1>28. Lists'
  BY <1>0, <1>u, <1>p, <1>1, <1>2, <1>3, <1>k DEF Lists
<1>29. Calls'
  BY <1>0, <1>u, <1>p, <1>1, <1>2, <1>3 DEF Calls, Call
<1>30. Parents'
  BY <1>0, <1>u, <1>p, <1>1, <1>2, <1>3, <1>k DEF Parents, Waited, Woken
<1>31. Errors'
  BY <1>0, <1>u, <1>p, <1>1, <1>2, <1>3 DEF Errors
<1> QED
  BY <1>21, <1>22, <1>23, <1>24, <1>25, <1>26, <1>27, <1>28, <1>29, <1>30, <1>31 DEF JInv

LEMMA AddActorStep ==
  ASSUME JInv, NEW t \in Tasks, AddActor(t)
  PROVE  JInv'
<1>0. ScopeTypes /\ Chains /\ PlacesOK /\ Making /\ Owners /\ Counts /\ Locks /\ Lists /\ Calls /\ Parents /\ Errors
  BY DEF JInv
<1>1. tpc[t] = "add"
  BY DEF AddActor
<1>3. arg[t] \in Tasks /\ tpc[arg[t]] = "made" /\ arg[t] # t
  BY <1>0, <1>1 DEF Making
<1>u. state' = state /\ scancelled' = scancelled /\ slock' = slock /\ live_children' = live_children /\ parent' = parent /\ kids' = kids /\ child_scopes' = child_scopes /\ has_error' = has_error /\ error_val' = error_val /\ scope' = scope /\ opened' = opened /\ flag' = flag /\ shut' = shut /\ frames' = frames /\ thread' = thread
  BY DEF AddActor, With, Goto, InBody, Unlocked, scope_state, errors, Begin
<1>p. /\ \A u \in Tasks : tpc'[u] = IF u = t THEN "body" ELSE IF u = arg[t] THEN "wait" ELSE tpc[u]
      /\ \A u \in Tasks : arg'[u] = IF u = t THEN Nobody ELSE arg[u]
  BY <1>0, <1>1, <1>3 DEF AddActor, With, Goto, InBody, Unlocked, scope_state, errors, Begin, ScopeTypes
<1>k. \A s \in Scopes : kids[s] \subseteq Tasks /\ (parent[s] # Nobody => parent[s] \in Tasks)
  BY <1>0 DEF ScopeTypes
<1>2. /\ \A u \in Tasks : Depth(u)' = Depth(u) /\ Base(u)' = Base(u)
      /\ \A s : Counted(s)' = Counted(s)
  BY <1>u, <1>p, <1>1, <1>3, Moved DEF Dead
<1>21. ScopeTypes'
  BY <1>0, <1>u, <1>1, <1>2, <1>3 DEF AddActor, With, Goto, InBody, Unlocked, scope_state, errors, Begin, ScopeTypes, Places, Ending, Joining, CallFrame
<1>22. Chains'
  BY <1>0, <1>u, <1>p, <1>1, <1>2, <1>3 DEF Chains
<1>23. PlacesOK'
  BY <1>0, <1>u, <1>p, <1>1, <1>2, <1>3 DEF PlacesOK, Ending, Joining
<1>24. Making'
  BY <1>0, <1>u, <1>p, <1>1, <1>2, <1>3 DEF Making
<1>25. Owners'
  BY <1>0, <1>u, <1>p, <1>1, <1>2, <1>3 DEF Owners
<1>26. Counts'
  BY <1>0, <1>u, <1>p, <1>1, <1>2, <1>3 DEF Counts
<1>27. Locks'
  BY <1>0, <1>u, <1>p, <1>1, <1>2, <1>3 DEF Locks, Holds
<1>28. Lists'
  BY <1>0, <1>u, <1>p, <1>1, <1>2, <1>3, <1>k DEF Lists
<1>29. Calls'
  BY <1>0, <1>u, <1>p, <1>1, <1>2, <1>3 DEF Calls, Call
<1>30. Parents'
  BY <1>0, <1>u, <1>p, <1>1, <1>2, <1>3, <1>k DEF Parents, Waited, Woken
<1>31. Errors'
  BY <1>0, <1>u, <1>p, <1>1, <1>2, <1>3 DEF Errors
<1> QED
  BY <1>21, <1>22, <1>23, <1>24, <1>25, <1>26, <1>27, <1>28, <1>29, <1>30, <1>31 DEF JInv

LEMMA WakeParentStep ==
  ASSUME JInv, NEW t \in Tasks, WakeParent(t)
  PROVE  JInv'
<1>0. ScopeTypes /\ Chains /\ PlacesOK /\ Making /\ Owners /\ Counts /\ Locks /\ Lists /\ Calls /\ Parents /\ Errors
  BY DEF JInv
<1>1. tpc[t] = "wake"
  BY DEF WakeParent
<1>3. arg[t] \in Tasks /\ tpc[arg[t]] = "parked" /\ arg[t] # t
  BY <1>0, <1>1 DEF Parents, Waited, Woken
<1>u. state' = state /\ scancelled' = scancelled /\ slock' = slock /\ live_children' = live_children /\ parent' = parent /\ kids' = kids /\ child_scopes' = child_scopes /\ actors' = actors /\ has_error' = has_error /\ error_val' = error_val /\ scope' = scope /\ opened' = opened /\ flag' = flag /\ shut' = shut /\ frames' = frames /\ thread' = thread
  BY DEF WakeParent, With, Goto, InBody, Unlocked, scope_state, errors, Begin
<1>p. /\ \A u \in Tasks : tpc'[u] = IF u = t THEN "gone" ELSE IF u = arg[t] THEN "join" ELSE tpc[u]
      /\ \A u \in Tasks : arg'[u] = IF u = t THEN Nobody ELSE arg[u]
  BY <1>0, <1>1, <1>3 DEF WakeParent, With, Goto, InBody, Unlocked, scope_state, errors, Begin, ScopeTypes
<1>k. \A s \in Scopes : kids[s] \subseteq Tasks /\ (parent[s] # Nobody => parent[s] \in Tasks)
  BY <1>0 DEF ScopeTypes
<1>2. /\ \A u \in Tasks : Depth(u)' = Depth(u) /\ Base(u)' = Base(u)
      /\ \A s : Counted(s)' = Counted(s)
  BY <1>u, <1>p, <1>1, <1>3, Moved DEF Dead
<1>21. ScopeTypes'
  BY <1>0, <1>u, <1>1, <1>2, <1>3 DEF WakeParent, With, Goto, InBody, Unlocked, scope_state, errors, Begin, ScopeTypes, Places, Ending, Joining, CallFrame
<1>22. Chains'
  BY <1>0, <1>u, <1>p, <1>1, <1>2, <1>3 DEF Chains
<1>23. PlacesOK'
  BY <1>0, <1>u, <1>p, <1>1, <1>2, <1>3 DEF PlacesOK, Ending, Joining
<1>24. Making'
  BY <1>0, <1>u, <1>p, <1>1, <1>2, <1>3 DEF Making
<1>25. Owners'
  BY <1>0, <1>u, <1>p, <1>1, <1>2, <1>3 DEF Owners
<1>26. Counts'
  BY <1>0, <1>u, <1>p, <1>1, <1>2, <1>3 DEF Counts
<1>27. Locks'
  BY <1>0, <1>u, <1>p, <1>1, <1>2, <1>3 DEF Locks, Holds
<1>28. Lists'
  BY <1>0, <1>u, <1>p, <1>1, <1>2, <1>3, <1>k DEF Lists
<1>29. Calls'
  BY <1>0, <1>u, <1>p, <1>1, <1>2, <1>3 DEF Calls, Call
<1>30. Parents'
  <2>1. \A u \in Tasks : u # t /\ u # arg[t] => tpc'[u] = tpc[u] /\ arg'[u] = arg[u]
    BY <1>p
  <2>2. tpc'[t] = "gone" /\ tpc'[arg[t]] = "join" /\ \A w \in Tasks : tpc[w] = "wake" /\ arg[w] = arg[t] => w = t
    BY <1>0, <1>1, <1>3, <1>p DEF Parents, Woken
  <2>3. \A s \in Scopes : parent[s] # t /\ parent[s] # arg[t]
    BY <1>0, <1>1, <1>3, <1>k, ScopeAssumption DEF Parents, Waited
  <2>4. ASSUME NEW s \in Scopes PROVE Waited(s)'
    BY <1>0, <1>1, <1>3, <1>u, <1>k, <1>2, <2>1, <2>2, <2>3 DEF Parents, Waited
  <2>5. ASSUME NEW u \in Tasks PROVE Woken(u)'
    BY <1>0, <1>1, <1>3, <1>u, <2>1, <2>2 DEF Parents, Woken
  <2> QED
    BY <2>4, <2>5 DEF Parents
<1>31. Errors'
  BY <1>0, <1>u, <1>p, <1>1, <1>2, <1>3 DEF Errors
<1> QED
  BY <1>21, <1>22, <1>23, <1>24, <1>25, <1>26, <1>27, <1>28, <1>29, <1>30, <1>31 DEF JInv

LEMMA ReleaseStep ==
  ASSUME JInv, NEW t \in Tasks, Release(t)
  PROVE  JInv'
<1>0. ScopeTypes /\ Chains /\ PlacesOK /\ Making /\ Owners /\ Counts /\ Locks /\ Lists /\ Calls /\ Parents /\ Errors
  BY DEF JInv
<1> DEFINE p == IF live_children[scope[t]] = 0 THEN parent[scope[t]] ELSE Nobody
<1>1. tpc[t] = "release"
  BY DEF Release
<1>3. scope[t] \in Scopes
  BY <1>0, <1>1, InScope DEF PlacesOK, Ending
<1>4. live_children[scope[t]] = 0 <=> Counted(scope[t]) = {}
  BY <1>0, <1>3, FS_EmptySet DEF Counts
<1>5. slock[scope[t]] = t
  BY <1>0, <1>1, <1>3 DEF Locks, Holds
<1>6. \A u \in Tasks : tpc[u] = "swap" => scope[u] # scope[t]
  BY <1>0, <1>1, <1>3, <1>5 DEF Locks, Holds
<1>7. p \in Tasks \cup {Nobody}
  BY <1>0, <1>3 DEF ScopeTypes
<1>u. state' = state /\ scancelled' = scancelled /\ live_children' = live_children /\ kids' = kids /\ child_scopes' = child_scopes /\ actors' = actors /\ has_error' = has_error /\ error_val' = error_val /\ scope' = scope /\ opened' = opened /\ flag' = flag /\ shut' = shut /\ frames' = frames /\ thread' = thread
  BY DEF Release, With, Goto, InBody, Unlocked, scope_state, errors, Begin
<1>p. /\ \A u \in Tasks : tpc'[u] = IF u = t THEN (IF p = Nobody THEN "gone" ELSE "wake") ELSE tpc[u]
      /\ \A u \in Tasks : arg'[u] = IF u = t THEN p ELSE arg[u]
      /\ \A s \in Scopes : slock'[s] = IF s = scope[t] THEN Nobody ELSE slock[s]
      /\ \A s \in Scopes : parent'[s] = IF s = scope[t] /\ live_children[s] = 0 THEN Nobody ELSE parent[s]
  BY <1>0, <1>1, <1>3 DEF Release, With, Goto, InBody, Unlocked, scope_state, errors, Begin, ScopeTypes
<1>k. \A s \in Scopes : kids[s] \subseteq Tasks /\ (parent[s] # Nobody => parent[s] \in Tasks)
  BY <1>0 DEF ScopeTypes
<1>2. /\ \A u \in Tasks : Depth(u)' = Depth(u) /\ Base(u)' = Base(u)
      /\ \A s : Counted(s)' = Counted(s)
  BY <1>u, <1>p, <1>1, Moved DEF Dead
<1>21. ScopeTypes'
  BY <1>0, <1>u, <1>1, <1>2, <1>3, <1>7 DEF Release, With, Goto, InBody, Unlocked, scope_state, errors, Begin, ScopeTypes, Places, Ending, Joining, CallFrame
<1>22. Chains'
  BY <1>0, <1>u, <1>p, <1>1, <1>2, <1>3, <1>7 DEF Chains
<1>23. PlacesOK'
  BY <1>0, <1>u, <1>p, <1>1, <1>2, <1>3, <1>7 DEF PlacesOK, Ending, Joining
<1>24. Making'
  BY <1>0, <1>u, <1>p, <1>1, <1>2, <1>3, <1>7 DEF Making
<1>25. Owners'
  BY <1>0, <1>u, <1>p, <1>1, <1>2, <1>3, <1>7 DEF Owners
<1>26. Counts'
  BY <1>0, <1>u, <1>p, <1>1, <1>2, <1>3, <1>7 DEF Counts
<1>27. Locks'
  <2>1. \A u \in Tasks, s \in Scopes : u # t \/ s # scope[t] => (Holds(u, s)' <=> Holds(u, s))
    BY <1>1, <1>3, <1>u, <1>p DEF Holds
  <2>2. Holds(t, scope[t]) /\ ~Holds(t, scope[t])'
    BY <1>0, <1>u, <1>p, <1>1, <1>3 DEF Holds, Calls
  <2>3. ASSUME NEW u \in Tasks, NEW s \in Scopes PROVE slock'[s] = u <=> Holds(u, s)'
    <3>1. (slock[s] = u <=> Holds(u, s)) /\ (slock[scope[t]] = t <=> Holds(t, scope[t]))
      BY <1>0, <1>3 DEF Locks
    <3>2. CASE s # scope[t]
      <4>1. slock'[s] = slock[s] /\ (Holds(u, s)' <=> Holds(u, s))
        BY <1>p, <2>1, <3>2
      <4> QED
        BY <3>1, <4>1
    <3>3. CASE s = scope[t] /\ u # t
      <4>1. (Holds(u, s)' <=> Holds(u, s)) /\ slock'[s] # u
        BY <1>p, <1>3, <2>1, <2>2, <3>1, <3>3, ScopeAssumption
      <4> QED
        BY <1>3, <2>2, <3>1, <3>3, <4>1
    <3>4. CASE s = scope[t] /\ u = t
      BY <1>u, <1>p, <1>3, <2>2, <3>4, ScopeAssumption
    <3> QED
      BY <3>2, <3>3, <3>4
  <2> QED
    BY <2>3 DEF Locks
<1>28. Lists'
  BY <1>0, <1>u, <1>p, <1>1, <1>2, <1>3, <1>7, <1>k DEF Lists
<1>29. Calls'
  BY <1>0, <1>u, <1>p, <1>1, <1>2, <1>3, <1>7 DEF Calls, Call
<1>30. Parents'
  <2>0. \A u \in Tasks : u # t => tpc'[u] = tpc[u] /\ arg'[u] = arg[u]
    BY <1>p
  <2>1. p # Nobody => p \in Tasks /\ tpc[p] = "parked" /\ scope[p] = scope[t] /\ p = parent[scope[t]]
    BY <1>0, <1>3, <1>6, <1>7 DEF Parents, Waited, Woken
  <2>2. p # Nobody => \A w \in Tasks : tpc[w] = "wake" => arg[w] # p
    BY <1>0, <1>3 DEF Parents, Waited, Woken
  <2>3. ASSUME NEW s \in Scopes, parent'[s] # Nobody
        PROVE  /\ tpc'[parent'[s]] \in {"swap", "parked"} /\ scope[parent'[s]] = s
               /\ \A w \in Tasks : tpc'[w] = "wake" => arg'[w] # parent'[s]
               /\ Counted(s) = {} => \E u \in Tasks : tpc'[u] = "release" /\ scope[u] = s
    <3>1. parent'[s] = parent[s] /\ (s = scope[t] => live_children[s] # 0)
      BY <1>p, <1>3, <2>3
    <3>2. /\ tpc[parent[s]] \in {"swap", "parked"} /\ scope[parent[s]] = s /\ parent[s] \in Tasks
          /\ \A w \in Tasks : tpc[w] = "wake" => arg[w] # parent[s]
          /\ Counted(s) = {} => \E u \in Tasks : tpc[u] = "release" /\ scope[u] = s
      BY <1>0, <1>k, <2>3, <3>1 DEF Parents, Waited, Woken
    <3>3. parent[s] # t /\ parent[s] # p
      BY <1>1, <2>1, <2>3, <3>1, <3>2
    <3> QED
      BY <1>1, <1>4, <1>p, <2>0, <3>1, <3>2, <3>3
  <2>4. ASSUME NEW u \in Tasks, tpc'[u] = "parked"
        PROVE  parent'[scope[u]] = u \/ \E w \in Tasks : tpc'[w] = "wake" /\ arg'[w] = u
    <3>1. u # t /\ tpc[u] = "parked"
      BY <1>p, <2>4
    <3>2. CASE p # Nobody /\ u = p
      BY <1>p, <3>2
    <3>3. CASE p = Nobody \/ u # p
      <4>1. CASE parent[scope[u]] = u
        <5>1. scope[u] \in Scopes
          BY <1>0, <3>1, InScope, Owns DEF PlacesOK, Joining, Depth
        <5> QED
          BY <1>p, <3>3, <4>1, <5>1, ScopeAssumption
      <4>2. CASE parent[scope[u]] # u
        BY <1>0, <1>1, <2>0, <3>1, <4>2 DEF Parents, Waited, Woken
      <4> QED
        BY <4>1, <4>2
    <3> QED
      BY <3>2, <3>3
  <2>5. ASSUME NEW u \in Tasks, tpc'[u] = "swap" PROVE parent'[scope[u]] = u
    <3>1. u # t /\ tpc[u] = "swap" /\ scope[u] # scope[t]
      BY <1>p, <1>6, <2>5
    <3>2. scope[u] \in Scopes
      BY <1>0, <3>1, Owns DEF PlacesOK, Joining, Depth
    <3> QED
      BY <1>0, <1>p, <3>1, <3>2 DEF Parents, Waited, Woken
  <2>6. ASSUME NEW u \in Tasks, tpc'[u] = "wake"
        PROVE  /\ arg'[u] \in Tasks /\ tpc'[arg'[u]] = "parked"
               /\ \A w \in Tasks : tpc'[w] = "wake" /\ arg'[w] = arg'[u] => w = u
    BY <1>0, <1>1, <1>p, <2>0, <2>1, <2>2, <2>6 DEF Parents, Waited, Woken
  <2> QED
    BY <1>u, <1>2, <2>3, <2>4, <2>5, <2>6 DEF Parents, Waited, Woken
<1>31. Errors'
  BY <1>0, <1>u, <1>p, <1>1, <1>2, <1>3, <1>7 DEF Errors
<1> QED
  BY <1>21, <1>22, <1>23, <1>24, <1>25, <1>26, <1>27, <1>28, <1>29, <1>30, <1>31 DEF JInv

LEMMA ChildDoneStep ==
  ASSUME JInv, NEW t \in Tasks, ChildDone(t)
  PROVE  JInv'
<1>0. ScopeTypes /\ Chains /\ PlacesOK /\ Making /\ Owners /\ Counts /\ Locks /\ Lists /\ Calls /\ Parents /\ Errors
  BY DEF JInv
<1>1. tpc[t] = "done"
  BY DEF ChildDone
<1>3. scope[t] \in Scopes /\ Base(t) = scope[t] /\ t # Opener
  BY <1>0, <1>1, Leaf, InScope DEF Depth, PlacesOK, Ending, Chains
<1>6. \A u \in Tasks : ~Holds(u, scope[t])
  BY <1>3, NoHolder DEF ChildDone
<1>u. state' = state /\ scancelled' = scancelled /\ parent' = parent /\ kids' = kids /\ child_scopes' = child_scopes /\ actors' = actors /\ has_error' = has_error /\ error_val' = error_val /\ scope' = scope /\ opened' = opened /\ flag' = flag /\ shut' = shut /\ arg' = arg /\ frames' = frames /\ thread' = thread
  BY DEF ChildDone, With, Goto, InBody, Unlocked, scope_state, errors, Begin
<1>p. /\ \A u \in Tasks : tpc'[u] = IF u = t THEN "release" ELSE tpc[u]
      /\ \A s \in Scopes : slock'[s] = IF s = scope[t] THEN t ELSE slock[s]
      /\ \A s \in Scopes : live_children'[s] = IF s = scope[t] THEN live_children[s] - 1 ELSE live_children[s]
  BY <1>0, <1>1, <1>3 DEF ChildDone, With, Goto, InBody, Unlocked, scope_state, errors, Begin, ScopeTypes
<1>k. \A s \in Scopes : kids[s] \subseteq Tasks /\ (parent[s] # Nobody => parent[s] \in Tasks)
  BY <1>0 DEF ScopeTypes
<1>a. \A u \in Tasks : Depth(u)' = Depth(u)
  BY <1>u, <1>p, <1>1 DEF Depth
<1>2. \A u \in Tasks : Depth(u)' = Depth(u) /\ Base(u)' = Base(u)
  BY <1>u, <1>a, SameBases
<1>4. t \in Counted(scope[t]) /\ \A s : Counted(s)' = Counted(s) \ {t}
  BY <1>p, <1>1, <1>2, <1>3 DEF Counted, Alive, Dead
<1>5. \A s \in Scopes : s # scope[t] => Counted(s)' = Counted(s)
  BY <1>3, <1>4 DEF Counted
<1>7. \A s : Counted(s) = {} => Counted(s)' = {}
  BY <1>4
<1>8. \A u \in Tasks : tpc[u] \in {"unlink", "free"} => scope[u] # scope[t]
  BY <1>0, <1>4 DEF Counts, Depth
<1>21. ScopeTypes'
  <2>1. slock' \in [Scopes -> Tasks \cup {Nobody}]
    BY <1>0, <1>u, <1>1, <1>2, <1>3 DEF ChildDone, With, Goto, InBody, Unlocked, scope_state, errors, Begin, ScopeTypes
  <2>2. live_children' \in [Scopes -> Int]
    BY <1>0, <1>u, <1>1, <1>2, <1>3 DEF ChildDone, With, Goto, InBody, Unlocked, scope_state, errors, Begin, ScopeTypes
  <2>3. tpc' \in [Tasks -> Places]
    BY <1>0, <1>u, <1>1, <1>2, <1>3 DEF ChildDone, With, Goto, InBody, Unlocked, scope_state, errors, Begin, ScopeTypes, Places, Ending, Joining
  <2> QED
    BY <1>0, <1>u, <2>1, <2>2, <2>3 DEF ScopeTypes
<1>22. Chains'
  BY <1>0, <1>u, <1>p, <1>1, <1>2, <1>3 DEF Chains
<1>23. PlacesOK'
  BY <1>0, <1>u, <1>p, <1>1, <1>2, <1>3 DEF PlacesOK, Ending, Joining
<1>24. Making'
  BY <1>0, <1>u, <1>p, <1>1, <1>2, <1>3 DEF Making
<1>25. Owners'
  BY <1>0, <1>u, <1>p, <1>1, <1>2, <1>3 DEF Owners
<1>26. Counts'
  <2>1. ASSUME NEW s \in Scopes PROVE IsFiniteSet(Counted(s))' /\ live_children'[s] = Cardinality(Counted(s))'
    <3>1. CASE s = scope[t]
      BY <1>0, <1>p, <1>3, <1>4, <3>1, FS_RemoveElement DEF Counts
    <3>2. CASE s # scope[t]
      BY <1>0, <1>p, <1>3, <1>5, <3>2 DEF Counts
    <3> QED
      BY <3>1, <3>2
  <2> QED
    BY <1>0, <1>u, <1>p, <1>2, <1>7, <1>8, <2>1 DEF Counts
<1>27. Locks'
  <2>1. \A u \in Tasks, s \in Scopes : u # t \/ s # scope[t] => (Holds(u, s)' <=> Holds(u, s))
    BY <1>1, <1>3, <1>u, <1>p DEF Holds
  <2>2. Holds(t, scope[t])'
    BY <1>0, <1>u, <1>p, <1>1, <1>3 DEF Holds, Calls
  <2>3. ASSUME NEW u \in Tasks, NEW s \in Scopes PROVE slock'[s] = u <=> Holds(u, s)'
    <3>1. (slock[s] = u <=> Holds(u, s)) /\ (slock[scope[t]] = t <=> Holds(t, scope[t]))
      BY <1>0, <1>3 DEF Locks
    <3>2. CASE s # scope[t]
      <4>1. slock'[s] = slock[s] /\ (Holds(u, s)' <=> Holds(u, s))
        BY <1>p, <2>1, <3>2
      <4> QED
        BY <3>1, <4>1
    <3>3. CASE s = scope[t] /\ u # t
      <4>1. (Holds(u, s)' <=> Holds(u, s)) /\ slock'[s] # u
        BY <1>p, <1>3, <2>1, <2>2, <3>1, <3>3, ScopeAssumption
      <4> QED
        BY <1>6, <3>1, <3>3, <4>1
    <3>4. CASE s = scope[t] /\ u = t
      BY <1>u, <1>p, <1>3, <2>2, <3>4, ScopeAssumption
    <3> QED
      BY <3>2, <3>3, <3>4
  <2> QED
    BY <2>3 DEF Locks
<1>28. Lists'
  BY <1>0, <1>u, <1>p, <1>1, <1>2, <1>3, <1>k, <1>4 DEF Lists
<1>29. Calls'
  BY <1>0, <1>u, <1>p, <1>1, <1>2, <1>3 DEF Calls, Call
<1>30. Parents'
  <2>1. \A u \in Tasks : u # t => tpc'[u] = tpc[u]
    BY <1>p
  <2>2. \A s \in Scopes : parent[s] # t
    BY <1>0, <1>1, ScopeAssumption DEF Parents, Waited, Woken
  <2>3. tpc'[t] = "release"
    BY <1>p
  <2>4. \A w \in Tasks : tpc'[w] = "wake" <=> tpc[w] = "wake"
    BY <1>1, <2>1, <2>3
  <2>5. ASSUME NEW s \in Scopes, Counted(s)' = {}, parent[s] # Nobody PROVE \E u \in Tasks : tpc'[u] = "release" /\ scope[u] = s
    <3>1. CASE s = scope[t]
      BY <2>3, <3>1
    <3>2. CASE s # scope[t]
      BY <1>0, <1>1, <1>5, <2>1, <2>5, <3>2 DEF Parents, Waited, Woken
    <3> QED
      BY <3>1, <3>2
  <2>6. \A s \in Scopes : parent[s] # Nobody => parent[s] \in Tasks
    BY <1>0 DEF ScopeTypes
  <2> QED
    BY <1>0, <1>u, <1>1, <2>1, <2>2, <2>3, <2>4, <2>5, <2>6 DEF Parents, Waited, Woken
<1>31. Errors'
  BY <1>0, <1>u, <1>p, <1>1, <1>2, <1>3 DEF Errors
<1> QED
  BY <1>21, <1>22, <1>23, <1>24, <1>25, <1>26, <1>27, <1>28, <1>29, <1>30, <1>31 DEF JInv

LEMMA RegisterStep ==
  ASSUME JInv, NEW t \in Tasks, Register(t)
  PROVE  JInv'
<1>0. ScopeTypes /\ Chains /\ PlacesOK /\ Making /\ Owners /\ Counts /\ Locks /\ Lists /\ Calls /\ Parents /\ Errors
  BY DEF JInv
<1>1. tpc[t] = "register"
  BY DEF Register
<1>3. arg[t] \in Tasks /\ tpc[arg[t]] = "made" /\ arg[t] # t
  BY <1>0, <1>1 DEF Making
<1>5. scope[arg[t]] \in Scopes /\ arg[t] \in Counted(scope[arg[t]]) /\ arg[t] # Opener
  <2>1. scope[arg[t]] \in Scopes /\ Base(arg[t]) = scope[arg[t]] /\ scope[arg[t]] # 0
    BY <1>0, <1>3, Leaf, InScope DEF Depth, PlacesOK, Ending
  <2>2. arg[t] # Opener
    BY <1>0, <1>3, <2>1 DEF Chains
  <2> QED
    BY <1>3, <2>1, <2>2 DEF Counted, Alive, Dead
<1>u. state' = state /\ scancelled' = scancelled /\ slock' = slock /\ live_children' = live_children /\ parent' = parent /\ child_scopes' = child_scopes /\ actors' = actors /\ has_error' = has_error /\ error_val' = error_val /\ scope' = scope /\ opened' = opened /\ shut' = shut /\ frames' = frames /\ thread' = thread
  BY DEF Register, With, Goto, InBody, Unlocked, scope_state, errors, Begin, Inherits
<1>p. /\ \A u \in Tasks : tpc'[u] = IF arg[t] \in Actors THEN (IF u = t THEN "add" ELSE tpc[u]) ELSE IF u \in {t, arg[t]} THEN "body" ELSE tpc[u]
      /\ \A u \in Tasks : arg'[u] = IF u = t /\ arg[t] \notin Actors THEN Nobody ELSE arg[u]
      /\ \A s \in Scopes : kids'[s] = IF s = scope[arg[t]] THEN kids[s] \cup {arg[t]} ELSE kids[s]
  BY <1>0, <1>1, <1>3, <1>5 DEF Register, With, Goto, InBody, Unlocked, scope_state, errors, Begin, ScopeTypes, Inherits
<1>k. \A s \in Scopes : kids[s] \subseteq Tasks /\ (parent[s] # Nobody => parent[s] \in Tasks)
  BY <1>0 DEF ScopeTypes
<1>2. /\ \A u \in Tasks : Depth(u)' = Depth(u) /\ Base(u)' = Base(u)
      /\ \A s : Counted(s)' = Counted(s)
  BY <1>u, <1>p, <1>1, <1>3, Moved DEF Dead
<1>f. \A u \in Tasks : u # arg[t] => flag'[u] = flag[u]
  BY <1>0, <1>3 DEF Register, Inherits, With, ScopeTypes
<1>21. ScopeTypes'
  BY <1>0, <1>u, <1>1, <1>2, <1>3, <1>5 DEF Register, With, Goto, InBody, Unlocked, scope_state, errors, Begin, ScopeTypes, Places, Ending, Joining, CallFrame, Inherits
<1>22. Chains'
  BY <1>0, <1>u, <1>p, <1>1, <1>2, <1>3, <1>5 DEF Chains
<1>23. PlacesOK'
  BY <1>0, <1>u, <1>p, <1>1, <1>2, <1>3, <1>5, <1>f DEF PlacesOK, Ending, Joining
<1>24. Making'
  BY <1>0, <1>u, <1>p, <1>1, <1>2, <1>3, <1>5 DEF Making
<1>25. Owners'
  BY <1>0, <1>u, <1>p, <1>1, <1>2, <1>3, <1>5 DEF Owners
<1>26. Counts'
  BY <1>0, <1>u, <1>p, <1>1, <1>2, <1>3, <1>5 DEF Counts
<1>27. Locks'
  BY <1>0, <1>u, <1>p, <1>1, <1>2, <1>3, <1>5 DEF Locks, Holds
<1>28. Lists'
  <2>1. \A u \in Tasks : tpc'[u] = "register" => arg'[u] # arg[t]
    BY <1>0, <1>1, <1>3, <1>p DEF Making
  <2>2. \A u \in Tasks : tpc'[u] = "register" => tpc[u] = "register" /\ arg'[u] = arg[u]
    BY <1>1, <1>3, <1>p
  <2>3. \A u \in Tasks : (tpc'[u] = "done" <=> tpc[u] = "done") /\ (tpc'[u] = "free" <=> tpc[u] = "free")
    BY <1>1, <1>3, <1>p
  <2>4. ASSUME NEW s \in Scopes, NEW u \in kids'[s] PROVE u \in Counted(s) /\ tpc'[u] # "done" /\ \A w \in Tasks : tpc'[w] = "register" => arg'[w] # u
    <3>1. u \in kids[s] \/ (u = arg[t] /\ s = scope[arg[t]])
      BY <1>p, <2>4
    <3>2. CASE u \in kids[s]
      BY <1>0, <2>2, <2>3, <3>2 DEF Lists, ScopeTypes
    <3>3. CASE u = arg[t] /\ s = scope[arg[t]]
      BY <1>3, <1>5, <2>1, <2>3, <3>3
    <3> QED
      BY <3>1, <3>2, <3>3
  <2> QED
    BY <1>0, <1>u, <1>2, <2>3, <2>4 DEF Lists
<1>29. Calls'
  BY <1>0, <1>u, <1>p, <1>1, <1>2, <1>3, <1>5 DEF Calls, Call
<1>30. Parents'
  BY <1>0, <1>u, <1>p, <1>1, <1>2, <1>3, <1>5, <1>k DEF Parents, Waited, Woken
<1>31. Errors'
  BY <1>0, <1>u, <1>p, <1>1, <1>2, <1>3, <1>5 DEF Errors
<1> QED
  BY <1>21, <1>22, <1>23, <1>24, <1>25, <1>26, <1>27, <1>28, <1>29, <1>30, <1>31 DEF JInv

-----------------------------------------------------------------------------
(* The stack of calls *)

LEMMA Shifted ==
  \A i, a, b, c \in Nat : a + (i + 1) = c + 1 /\ b + 2 = c + 1 => a + i = b + 1
OBVIOUS

LEMMA EmptyStack ==
  ASSUME NEW S, NEW f \in Seq(S)
  PROVE  f = <<>> <=> Len(f) = 0
OBVIOUS

LEMMA TailFacts ==
  ASSUME NEW S, NEW f \in Seq(S), f # <<>>
  PROVE  /\ Tail(f) \in Seq(S) /\ Len(Tail(f)) = Len(f) - 1 /\ DOMAIN Tail(f) = 1..(Len(f) - 1)
         /\ \A i \in 1..(Len(f) - 1) : Tail(f)[i] = f[i + 1]
         /\ Len(f) \in Nat \ {0} /\ DOMAIN f = 1..Len(f)
OBVIOUS

LEMMA ReplaceFacts ==
  ASSUME NEW S, NEW f \in Seq(S), f # <<>>, NEW x \in S
  PROVE  /\ <<x>> \o Tail(f) \in Seq(S) /\ Len(<<x>> \o Tail(f)) = Len(f)
         /\ DOMAIN (<<x>> \o Tail(f)) = 1..Len(f) /\ DOMAIN f = 1..Len(f) /\ Len(f) \in Nat \ {0}
         /\ (<<x>> \o Tail(f))[1] = x
         /\ \A i \in 2..Len(f) : (<<x>> \o Tail(f))[i] = f[i]
<1>1. Tail(f) \in Seq(S) /\ Len(Tail(f)) = Len(f) - 1 /\ Len(f) \in Nat \ {0}
  OBVIOUS
<1>2. \A i \in 1..(Len(f) - 1) : Tail(f)[i] = f[i + 1]
  OBVIOUS
<1>3. <<x>> \in Seq(S) /\ Len(<<x>>) = 1 /\ <<x>>[1] = x
  OBVIOUS
<1>4. /\ <<x>> \o Tail(f) \in Seq(S) /\ Len(<<x>> \o Tail(f)) = Len(f)
      /\ \A i \in 1..Len(f) : (<<x>> \o Tail(f))[i] = IF i <= 1 THEN <<x>>[i] ELSE Tail(f)[i - 1]
  BY <1>1, <1>3
<1>5. \A i \in 2..Len(f) : (<<x>> \o Tail(f))[i] = f[i]
  BY <1>1, <1>2, <1>4
<1> QED
  BY <1>1, <1>3, <1>4, <1>5

LEMMA PushFacts ==
  ASSUME NEW S, NEW f \in Seq(S), f # <<>>, NEW x \in S, NEW y \in S
  PROVE  /\ <<x, y>> \o Tail(f) \in Seq(S) /\ Len(<<x, y>> \o Tail(f)) = Len(f) + 1
         /\ DOMAIN (<<x, y>> \o Tail(f)) = 1..(Len(f) + 1) /\ DOMAIN f = 1..Len(f) /\ Len(f) \in Nat \ {0}
         /\ (<<x, y>> \o Tail(f))[1] = x /\ (<<x, y>> \o Tail(f))[2] = y
         /\ \A i \in 3..(Len(f) + 1) : (<<x, y>> \o Tail(f))[i] = f[i - 1]
<1>1. Tail(f) \in Seq(S) /\ Len(Tail(f)) = Len(f) - 1 /\ Len(f) \in Nat \ {0}
  OBVIOUS
<1>2. \A i \in 1..(Len(f) - 1) : Tail(f)[i] = f[i + 1]
  OBVIOUS
<1>3. <<x, y>> \in Seq(S) /\ Len(<<x, y>>) = 2 /\ <<x, y>>[1] = x /\ <<x, y>>[2] = y
  OBVIOUS
<1>4. /\ <<x, y>> \o Tail(f) \in Seq(S) /\ Len(<<x, y>> \o Tail(f)) = Len(f) + 1
      /\ \A i \in 1..(Len(f) + 1) : (<<x, y>> \o Tail(f))[i] = IF i <= 2 THEN <<x, y>>[i] ELSE Tail(f)[i - 2]
  BY <1>1, <1>3
<1>5. \A i \in 3..(Len(f) + 1) : (<<x, y>> \o Tail(f))[i] = f[i - 1]
  BY <1>1, <1>2, <1>4
<1> QED
  BY <1>1, <1>3, <1>4, <1>5

\* The frames of a task, and the innermost one.
LEMMA TopFrame ==
  ASSUME JInv, NEW t \in Tasks, frames[t] # <<>>
  PROVE  /\ frames[t] \in Seq(CallFrame) /\ Len(frames[t]) \in Nat \ {0} /\ DOMAIN frames[t] = 1..Len(frames[t])
         /\ tpc[t] = "cancel" /\ frames[t][1] \in CallFrame /\ frames[t][1].s \in Scopes
         /\ \A i \in 1..Len(frames[t]) : frames[t][i] \in CallFrame /\ frames[t][i].s \in Scopes /\ frames[t][i].s \in Nat /\ Call(t, i)
<1>1. frames[t] \in Seq(CallFrame) /\ tpc[t] = "cancel"
  BY DEF JInv, ScopeTypes, Calls
<1>2. Len(frames[t]) \in Nat \ {0} /\ DOMAIN frames[t] = 1..Len(frames[t])
  BY <1>1
<1>3. \A i \in 1..Len(frames[t]) : frames[t][i] \in CallFrame
  BY <1>1
<1>4. \A i \in 1..Len(frames[t]) : frames[t][i].s \in Scopes
  BY <1>3 DEF CallFrame
<1>5. \A i \in 1..Len(frames[t]) : Call(t, i)
  BY <1>2 DEF JInv, Calls
<1>6. 1 \in 1..Len(frames[t])
  BY <1>2
<1> QED
  BY <1>1, <1>2, <1>3, <1>4, <1>5, <1>6, ScopeAssumption

\* A task begins a cancellation of a scope around it.
LEMMA BeginStep ==
  ASSUME JInv, NEW t \in Tasks, NEW s \in 1..scope[t], NEW n \in {"body", "exit", "join"},
         n = "join" => opened[t] # {}, n = "exit" => opened[t] = {} /\ scope[t] # 0,
         tpc[t] \in {"body", "store"}, tpc' = [tpc EXCEPT ![t] = "cancel"],
         frames' = [frames EXCEPT ![t] = <<[s |-> s, at |-> "flag", left |-> {}, next |-> n]>>],
         UNCHANGED <<scope_state, scope, opened, flag, shut, arg, thread>>,
         has_error' \in [Scopes -> BOOLEAN], error_val' \in [Scopes -> Tasks \cup {Nobody}], Errors'
  PROVE  JInv'
<1>0. ScopeTypes /\ Chains /\ PlacesOK /\ Making /\ Owners /\ Counts /\ Locks /\ Lists /\ Calls /\ Parents /\ Errors
  BY DEF JInv
<1> DEFINE f == [s |-> s, at |-> "flag", left |-> {}, next |-> n]
<1>1. tpc[t] \in {"body", "store"}
  OBVIOUS
<1>3. s \in Scopes /\ scope[t] \in Scopes /\ scope[t] # 0 /\ s \in Nat /\ s <= scope[t] /\ scope[t] \in Nat
  <2>1. scope[t] \in Nat /\ s \in Nat /\ s # 0 /\ s <= scope[t]
    BY <1>0 DEF ScopeTypes
  <2>2. scope[t] \in Scopes /\ state[scope[t]] = "open"
    BY <1>1, <2>1, InScope
  <2> QED
    BY <1>0, <2>1, <2>2 DEF Owners
<1>4. f \in CallFrame
  BY <1>3 DEF CallFrame
<1>u. state' = state /\ scancelled' = scancelled /\ slock' = slock /\ live_children' = live_children /\ parent' = parent /\ kids' = kids /\ child_scopes' = child_scopes /\ actors' = actors /\ scope' = scope /\ opened' = opened /\ flag' = flag /\ shut' = shut /\ arg' = arg /\ thread' = thread
  BY DEF scope_state
<1>p. /\ \A u \in Tasks : tpc'[u] = IF u = t THEN "cancel" ELSE tpc[u]
      /\ \A u \in Tasks : u # t => frames'[u] = frames[u]
      /\ frames'[t] = <<f>>
  BY <1>0 DEF ScopeTypes
<1>k. \A r \in Scopes : kids[r] \subseteq Tasks /\ (parent[r] # Nobody => parent[r] \in Tasks)
  BY <1>0 DEF ScopeTypes
<1>2. /\ \A u \in Tasks : Depth(u)' = Depth(u) /\ Base(u)' = Base(u)
      /\ \A r : Counted(r)' = Counted(r)
  BY <1>u, <1>p, <1>1, Moved DEF Dead
<1>f. Len(frames'[t]) = 1 /\ DOMAIN frames'[t] = {1} /\ frames'[t][1] = f
  <2> HIDE DEF f
  <2> QED
    BY <1>p
<1>21. ScopeTypes'
  <2>1. frames' \in [Tasks -> Seq(CallFrame)]
    <3>1. <<f>> \in Seq(CallFrame)
      BY <1>4
    <3> QED
      BY <1>0, <3>1 DEF ScopeTypes
  <2>2. tpc' \in [Tasks -> Places]
    BY <1>0 DEF ScopeTypes, Places
  <2> QED
    BY <1>0, <1>u, <2>1, <2>2 DEF ScopeTypes
<1>22. Chains'
  BY <1>0, <1>u, <1>p, <1>1, <1>2, <1>3 DEF Chains
<1>23. PlacesOK'
  BY <1>0, <1>u, <1>p, <1>1, <1>2, <1>3 DEF PlacesOK, Ending, Joining
<1>24. Making'
  BY <1>0, <1>u, <1>p, <1>1, <1>2, <1>3 DEF Making
<1>25. Owners'
  <2>1. \A u \in Tasks : tpc'[u] \in {"unborn", "wake", "gone"} <=> tpc[u] \in {"unborn", "wake", "gone"}
    BY <1>1, <1>p
  <2> QED
    BY <1>0, <1>u, <1>2, <2>1 DEF Owners
<1>26. Counts'
  BY <1>0, <1>u, <1>p, <1>1, <1>2, <1>3 DEF Counts
<1>27. Locks'
  <2>1. ASSUME NEW u \in Tasks, NEW r \in Scopes PROVE Holds(u, r)' <=> Holds(u, r)
    <3>1. CASE u # t
      BY <1>u, <1>p, <3>1 DEF Holds
    <3>2. CASE u = t
      <4>1. frames[t] = <<>> /\ DOMAIN frames[t] = {}
        BY <1>0, <1>1 DEF Calls
      <4>2. f.at # "nested"
        OBVIOUS
      <4> HIDE DEF f
      <4> QED
        BY <1>1, <1>p, <1>f, <3>2, <4>1, <4>2 DEF Holds
    <3> QED
      BY <3>1, <3>2
  <2> QED
    BY <1>0, <1>u, <2>1 DEF Locks
<1>28. Lists'
  BY <1>0, <1>u, <1>p, <1>1, <1>2, <1>3, <1>k DEF Lists
<1>29. Calls'
  <2>1. Call(t, 1)'
    BY <1>u, <1>f, <1>3 DEF Call
  <2>2. ASSUME NEW u \in Tasks, u # t PROVE (tpc[u] = "cancel" <=> frames[u] # <<>>)' /\ \A i \in DOMAIN frames'[u] : Call(u, i)'
    BY <1>0, <1>u, <1>p, <2>2 DEF Calls, Call
  <2>3. tpc'[t] = "cancel" /\ frames'[t] # <<>>
    BY <1>p, <1>f
  <2> QED
    BY <1>f, <2>1, <2>2, <2>3 DEF Calls
<1>30. Parents'
  BY <1>0, <1>u, <1>p, <1>1, <1>2, <1>3, <1>k DEF Parents, Waited, Woken
<1>31. Errors'
  OBVIOUS
<1> QED
  BY <1>21, <1>22, <1>23, <1>24, <1>25, <1>26, <1>27, <1>28, <1>29, <1>30, <1>31 DEF JInv

LEMMA StopStep ==
  ASSUME JInv, NEW t \in Tasks, Stop(t)
  PROVE  JInv'
<1>0. ScopeTypes /\ Errors
  BY DEF JInv
<1>1. PICK s \in 1..scope[t] : Begin(t, s, "body")
  BY DEF Stop
<1>2. /\ tpc[t] = "body" /\ tpc' = [tpc EXCEPT ![t] = "cancel"]
      /\ frames' = [frames EXCEPT ![t] = <<[s |-> s, at |-> "flag", left |-> {}, next |-> "body"]>>]
      /\ UNCHANGED <<scope_state, scope, opened, flag, shut, arg, thread>> /\ has_error' = has_error /\ error_val' = error_val
  BY <1>1 DEF Stop, Begin, With, Goto, InBody, errors
<1>3. Errors'
  BY <1>0, <1>2 DEF Errors, ScopeTypes
<1> QED
  BY <1>0, <1>2, <1>3, BeginStep DEF ScopeTypes

LEMMA RecordStoreStep ==
  ASSUME JInv, NEW t \in Tasks, RecordStore(t)
  PROVE  JInv'
<1>0. ScopeTypes /\ Errors /\ PlacesOK
  BY DEF JInv
<1>1. /\ tpc[t] = "store" /\ tpc' = [tpc EXCEPT ![t] = "cancel"]
      /\ frames' = [frames EXCEPT ![t] = <<[s |-> scope[t], at |-> "flag", left |-> {}, next |-> "exit"]>>]
      /\ UNCHANGED <<scope_state, scope, opened, flag, shut, arg, thread>> /\ has_error' = has_error
      /\ error_val' = [error_val EXCEPT ![scope[t]] = t]
  BY DEF RecordStore, Begin, With, Goto
<1>2. opened[t] = {} /\ scope[t] # 0 /\ scope[t] \in Nat /\ scope[t] \in Scopes
  BY <1>0, <1>1, InScope DEF PlacesOK, Ending, ScopeTypes
<1>3. Errors'
  BY <1>0, <1>1, <1>2, ScopeAssumption DEF Errors, ScopeTypes
<1>4. error_val' \in [Scopes -> Tasks \cup {Nobody}] /\ scope[t] \in 1..scope[t]
  BY <1>0, <1>1, <1>2 DEF ScopeTypes
<1> QED
  BY <1>0, <1>1, <1>2, <1>3, <1>4, BeginStep DEF ScopeTypes

LEMMA RecordClaimStep ==
  ASSUME JInv, NEW t \in Tasks, RecordClaim(t)
  PROVE  JInv'
<1>0. ScopeTypes /\ Chains /\ PlacesOK /\ Making /\ Owners /\ Counts /\ Locks /\ Lists /\ Calls /\ Parents /\ Errors
  BY DEF JInv
<1>1. /\ tpc[t] = "body" /\ opened[t] = {} /\ scope[t] # 0 /\ error_val' = error_val
      /\ has_error' = [has_error EXCEPT ![scope[t]] = TRUE]
      /\ UNCHANGED <<scope_state, scope, opened, flag, shut, arg, thread>>
  BY DEF RecordClaim, With, InBody
<1>2. scope[t] \in Nat /\ scope[t] \in Scopes
  BY <1>0, <1>1, InScope DEF ScopeTypes
<1>3. has_error' \in [Scopes -> BOOLEAN]
  BY <1>0, <1>1 DEF ScopeTypes
<1>4. CASE has_error[scope[t]]
  <2>1. /\ tpc' = [tpc EXCEPT ![t] = "cancel"]
        /\ frames' = [frames EXCEPT ![t] = <<[s |-> scope[t], at |-> "flag", left |-> {}, next |-> "exit"]>>]
    BY <1>4 DEF RecordClaim, Begin, With, Goto
  <2>2. Errors'
    BY <1>0, <1>1, <1>2, <1>4, <2>1 DEF Errors, ScopeTypes
  <2>3. scope[t] \in 1..scope[t]
    BY <1>1, <1>2
  <2> QED
    BY <1>0, <1>1, <1>3, <2>1, <2>2, <2>3, BeginStep DEF ScopeTypes
<1>5. CASE ~has_error[scope[t]]
  <2>1. tpc' = [tpc EXCEPT ![t] = "store"] /\ frames' = frames
    BY <1>5 DEF RecordClaim, Goto
  <2>2. /\ \A u \in Tasks : Depth(u)' = Depth(u) /\ Base(u)' = Base(u)
      /\ \A s : Counted(s)' = Counted(s)
    BY <1>0, <1>1, <2>1, Moved DEF ScopeTypes, Dead
  <2>3. ScopeTypes'
    BY <1>0, <1>1, <1>2, <1>3, <2>1, <2>2 DEF scope_state, ScopeTypes, Places, Ending, Joining, CallFrame
  <2>4. Chains'
    BY <1>0, <1>1, <1>2, <1>3, <2>1, <2>2 DEF scope_state, Chains
  <2>5. PlacesOK'
    BY <1>0, <1>1, <1>2, <1>3, <2>1, <2>2 DEF scope_state, PlacesOK, Ending, Joining
  <2>6. Making'
    BY <1>0, <1>1, <1>2, <1>3, <2>1, <2>2 DEF scope_state, Making
  <2>7. Owners'
    BY <1>0, <1>1, <1>2, <1>3, <2>1, <2>2 DEF scope_state, Owners
  <2>8. Counts'
    BY <1>0, <1>1, <1>2, <1>3, <2>1, <2>2 DEF scope_state, Counts
  <2>9. Locks'
    BY <1>0, <1>1, <1>2, <1>3, <2>1, <2>2 DEF scope_state, Locks, Holds
  <2>10. Lists'
    BY <1>0, <1>1, <1>2, <1>3, <2>1, <2>2 DEF scope_state, Lists
  <2>11. Calls'
    BY <1>0, <1>1, <1>2, <1>3, <2>1, <2>2 DEF scope_state, Calls, Call
  <2>12. Parents'
    BY <1>0, <1>1, <1>2, <1>3, <2>1, <2>2 DEF scope_state, Parents, Waited, Woken
  <2>13. Errors'
    BY <1>0, <1>1, <1>2, <1>3, <2>1, <2>2 DEF scope_state, Errors, ScopeTypes
  <2> QED
    BY <2>3, <2>4, <2>5, <2>6, <2>7, <2>8, <2>9, <2>10, <2>11, <2>12, <2>13 DEF JInv
<1> QED
  BY <1>4, <1>5

LEMMA UnwindStep ==
  ASSUME JInv, NEW t \in Tasks, Unwind(t)
  PROVE  JInv'
<1>0. ScopeTypes /\ Chains /\ PlacesOK /\ Making /\ Owners /\ Counts /\ Locks /\ Lists /\ Calls /\ Parents /\ Errors
  BY DEF JInv
<1>1. /\ tpc[t] = "body" /\ error_val' = error_val /\ has_error' = has_error
      /\ UNCHANGED <<scope_state, scope, opened, flag, shut, arg, thread>>
  BY DEF Unwind, errors, InBody
<1>2. scope[t] \in Nat /\ Depth(t) = scope[t]
  BY <1>0, <1>1 DEF ScopeTypes, Depth
<1>4. CASE opened[t] # {}
  <2>1. /\ tpc' = [tpc EXCEPT ![t] = "cancel"]
        /\ frames' = [frames EXCEPT ![t] = <<[s |-> scope[t], at |-> "flag", left |-> {}, next |-> "join"]>>]
    BY <1>4 DEF Unwind, Begin, With, Goto
  <2>2. Errors'
    BY <1>0, <1>1, <1>2, <1>4, <2>1 DEF Errors, ScopeTypes
  <2>3. scope[t] \in 1..scope[t]
    BY <1>2, <1>4, Owns, ScopeAssumption
  <2> QED
    BY <1>0, <1>1, <1>4, <2>1, <2>2, <2>3, BeginStep DEF ScopeTypes
<1>5. CASE opened[t] = {}
  <2>1. tpc' = [tpc EXCEPT ![t] = "exit"] /\ frames' = frames /\ scope[t] # 0
    <3>1. flag[t]
      BY DEF Unwind
    <3>2. Base(t) = scope[t] /\ Base(t) # 0
      BY <1>0, <1>1, <1>2, <1>5, <3>1, Leaf DEF PlacesOK, Chains
    <3> QED
      BY <1>5, <3>2 DEF Unwind, Goto
  <2>2. /\ \A u \in Tasks : Depth(u)' = Depth(u) /\ Base(u)' = Base(u)
      /\ \A s : Counted(s)' = Counted(s)
    BY <1>0, <1>1, <2>1, Moved DEF ScopeTypes, Dead
  <2>3. ScopeTypes'
    BY <1>0, <1>1, <1>2, <1>5, <2>1, <2>2 DEF scope_state, ScopeTypes, Places, Ending, Joining, CallFrame
  <2>4. Chains'
    BY <1>0, <1>1, <1>2, <1>5, <2>1, <2>2 DEF scope_state, Chains
  <2>5. PlacesOK'
    BY <1>0, <1>1, <1>2, <1>5, <2>1, <2>2 DEF scope_state, PlacesOK, Ending, Joining
  <2>6. Making'
    BY <1>0, <1>1, <1>2, <1>5, <2>1, <2>2 DEF scope_state, Making
  <2>7. Owners'
    BY <1>0, <1>1, <1>2, <1>5, <2>1, <2>2 DEF scope_state, Owners
  <2>8. Counts'
    BY <1>0, <1>1, <1>2, <1>5, <2>1, <2>2 DEF scope_state, Counts
  <2>9. Locks'
    BY <1>0, <1>1, <1>2, <1>5, <2>1, <2>2 DEF scope_state, Locks, Holds
  <2>10. Lists'
    BY <1>0, <1>1, <1>2, <1>5, <2>1, <2>2 DEF scope_state, Lists
  <2>11. Calls'
    BY <1>0, <1>1, <1>2, <1>5, <2>1, <2>2 DEF scope_state, Calls, Call
  <2>12. Parents'
    BY <1>0, <1>1, <1>2, <1>5, <2>1, <2>2 DEF scope_state, Parents, Waited, Woken
  <2>13. Errors'
    BY <1>0, <1>1, <1>2, <1>5, <2>1, <2>2 DEF scope_state, Errors, ScopeTypes
  <2> QED
    BY <2>3, <2>4, <2>5, <2>6, <2>7, <2>8, <2>9, <2>10, <2>11, <2>12, <2>13 DEF JInv
<1> QED
  BY <1>4, <1>5

-----------------------------------------------------------------------------
(* The steps of jinn_scope_cancel *)

\* A task that is in a call of jinn_scope_cancel changes its frames, its own hold of
\* locks and cancelled flags.
LEMMA CallStep ==
  ASSUME JInv, NEW t \in Tasks, frames[t] # <<>>,
         NEW p \in {"cancel", "body", "exit", "join"}, tpc' = [tpc EXCEPT ![t] = p],
         p = "join" => opened[t] # {}, p = "exit" => opened[t] = {} /\ scope[t] # 0,
         p = "cancel" <=> frames'[t] # <<>>,
         \A u \in Tasks : u # t => frames'[u] = frames[u], \A i \in DOMAIN frames'[t] : Call(t, i)',
         \A r \in Scopes : slock'[r] = t <=> Holds(t, r)',
         \A r \in Scopes : slock'[r] = slock[r] \/ {slock'[r], slock[r]} \subseteq {t, Nobody},
         ~flag'[Opener], frames' \in [Tasks -> Seq(CallFrame)], scancelled' \in [Scopes -> BOOLEAN],
         slock' \in [Scopes -> Tasks \cup {Nobody}], flag' \in [Tasks -> BOOLEAN], shut' \in [Tasks -> BOOLEAN],
         UNCHANGED <<state, live_children, parent, kids, child_scopes, actors, errors, scope, opened, arg, thread>>
  PROVE  JInv'
<1>0. ScopeTypes /\ Chains /\ PlacesOK /\ Making /\ Owners /\ Counts /\ Locks /\ Lists /\ Calls /\ Parents /\ Errors
  BY DEF JInv
<1>u. /\ state' = state /\ live_children' = live_children /\ parent' = parent /\ kids' = kids /\ child_scopes' = child_scopes
      /\ actors' = actors /\ has_error' = has_error /\ error_val' = error_val /\ scope' = scope /\ opened' = opened
      /\ arg' = arg /\ thread' = thread
  BY DEF errors
<1>1. tpc[t] = "cancel"
  BY <1>0 DEF Calls
<1>p. \A u \in Tasks : tpc'[u] = IF u = t THEN p ELSE tpc[u]
  BY <1>0 DEF ScopeTypes
<1>k. \A s \in Scopes : kids[s] \subseteq Tasks /\ (parent[s] # Nobody => parent[s] \in Tasks)
  BY <1>0 DEF ScopeTypes
<1>2. /\ \A u \in Tasks : Depth(u)' = Depth(u) /\ Base(u)' = Base(u)
      /\ \A s : Counted(s)' = Counted(s)
  BY <1>u, <1>p, <1>1, Moved DEF Dead
<1>21. ScopeTypes'
  <2>1. tpc' \in [Tasks -> Places]
    BY <1>0 DEF ScopeTypes, Places, Ending, Joining
  <2> QED
    BY <1>0, <1>u, <2>1 DEF ScopeTypes
<1>22. Chains'
  BY <1>0, <1>u, <1>p, <1>1, <1>2 DEF Chains
<1>23. PlacesOK'
  <2>1. ASSUME NEW u \in Tasks, u = Opener PROVE ~flag'[u]
    BY <2>1
  <2> QED
    BY <1>0, <1>u, <1>p, <1>1, <2>1 DEF PlacesOK, Ending, Joining
<1>24. Making'
  BY <1>0, <1>u, <1>p, <1>1 DEF Making
<1>25. Owners'
  <2>1. \A u \in Tasks : tpc'[u] \in {"unborn", "wake", "gone"} <=> tpc[u] \in {"unborn", "wake", "gone"}
    BY <1>1, <1>p
  <2> QED
    BY <1>0, <1>u, <1>2, <2>1 DEF Owners
<1>26. Counts'
  BY <1>0, <1>u, <1>p, <1>1, <1>2 DEF Counts
<1>27. Locks'
  <2>1. ASSUME NEW u \in Tasks, NEW r \in Scopes, u # t PROVE slock'[r] = u <=> Holds(u, r)'
    <3>1. Holds(u, r)' <=> Holds(u, r)
      BY <1>u, <1>p, <2>1 DEF Holds
    <3>2. slock[r] = u <=> Holds(u, r)
      BY <1>0 DEF Locks
    <3>3. slock'[r] = u <=> slock[r] = u
      BY <2>1, ScopeAssumption
    <3> QED
      BY <3>1, <3>2, <3>3
  <2> QED
    BY <2>1 DEF Locks
<1>28. Lists'
  BY <1>0, <1>u, <1>p, <1>k, <1>1, <1>2 DEF Lists
<1>29. Calls'
  <2>1. ASSUME NEW u \in Tasks, u # t PROVE (tpc[u] = "cancel" <=> frames[u] # <<>>)' /\ \A i \in DOMAIN frames'[u] : Call(u, i)'
    BY <1>0, <1>u, <1>p, <2>1 DEF Calls, Call
  <2>2. (tpc[t] = "cancel" <=> frames[t] # <<>>)'
    BY <1>p
  <2> QED
    BY <2>1, <2>2 DEF Calls
<1>30. Parents'
  <2>1. \A u \in Tasks : \A q \in {"swap", "parked", "wake", "release"} : tpc'[u] = q <=> tpc[u] = q
    BY <1>1, <1>p
  <2>2. ASSUME NEW s \in Scopes PROVE Waited(s)'
    <3>1. Waited(s) /\ (parent[s] # Nobody => parent[s] \in Tasks)
      BY <1>0, <1>k DEF Parents
    <3> QED
      BY <1>u, <1>2, <2>1, <3>1 DEF Waited
  <2>3. ASSUME NEW u \in Tasks PROVE Woken(u)'
    <3>1. Woken(u)
      BY <1>0 DEF Parents
    <3> QED
      BY <1>u, <2>1, <3>1 DEF Woken
  <2> QED
    BY <2>2, <2>3 DEF Parents
<1>31. Errors'
  BY <1>0, <1>u, <1>p, <1>1 DEF Errors
<1> QED
  BY <1>21, <1>22, <1>23, <1>24, <1>25, <1>26, <1>27, <1>28, <1>29, <1>30, <1>31 DEF JInv

\* A call returns; one that holds the lock of its scope releases it.
LEMMA ReturnStep ==
  ASSUME JInv, NEW t \in Tasks, frames[t] # <<>>, Return(t),
         slock' = IF Top(t).at = "nested" THEN With(slock, Top(t).s, Nobody) ELSE slock,
         scancelled' \in [Scopes -> BOOLEAN],
         UNCHANGED <<state, live_children, parent, kids, child_scopes, actors, errors, scope, opened, flag, shut, arg, thread>>
  PROVE  JInv'
<1> DEFINE n == Len(frames[t])
<1>0. ScopeTypes /\ Locks /\ Calls /\ PlacesOK
  BY DEF JInv
<1>1. /\ frames[t] \in Seq(CallFrame) /\ n \in Nat \ {0} /\ DOMAIN frames[t] = 1..n /\ tpc[t] = "cancel"
      /\ \A i \in 1..n : frames[t][i] \in CallFrame /\ frames[t][i].s \in Scopes /\ frames[t][i].s \in Nat /\ Call(t, i)
  BY TopFrame
<1>2. frames'[t] = Tail(frames[t]) /\ \A u \in Tasks : u # t => frames'[u] = frames[u]
  BY <1>0 DEF Return, ScopeTypes
<1>3. /\ frames'[t] \in Seq(CallFrame) /\ Len(frames'[t]) = n - 1 /\ DOMAIN frames'[t] = 1..(n - 1)
      /\ \A i \in 1..(n - 1) : frames'[t][i] = frames[t][i + 1]
  BY <1>1, <1>2, TailFacts
<1> DEFINE p == IF n = 1 THEN Top(t).next ELSE "cancel"
<1>4. tpc' = [tpc EXCEPT ![t] = p]
  BY <1>0, <1>1 DEF Return, Goto, ScopeTypes
<1>5. 1 \in 1..n /\ Call(t, 1) /\ frames[t][1] \in CallFrame
  BY <1>1
<1>6. p \in {"cancel", "body", "exit", "join"}
  BY <1>5 DEF Top, CallFrame
<1>7. (p = "join" => opened[t] # {}) /\ (p = "exit" => opened[t] = {} /\ scope[t] # 0)
  BY <1>5 DEF Top, Call
<1>8. p = "cancel" <=> frames'[t] # <<>>
  <2>1. n = 1 => p # "cancel"
    BY <1>5 DEF Top, CallFrame
  <2>2. frames'[t] # <<>> <=> n # 1
    <3>1. frames'[t] = <<>> <=> Len(frames'[t]) = 0
      BY <1>3, EmptyStack
    <3> QED
      BY <1>1, <1>3, <3>1
  <2> QED
    BY <2>1, <2>2
<1>9. ASSUME NEW i \in DOMAIN frames'[t] PROVE Call(t, i)'
  <2>1. i \in 1..(n - 1) /\ i \in Nat /\ i + 1 \in 1..n /\ 2 \in 1..n /\ 1 \in 1..(n - 1) /\ i + 1 # 1
    BY <1>1, <1>3
  <2>2. frames'[t][i] = frames[t][i + 1] /\ frames'[t][1] = frames[t][2]
    BY <1>3, <2>1
  <2>3. Call(t, i + 1) /\ Call(t, 2) /\ frames[t][i + 1].s \in Nat /\ frames[t][2].s \in Nat /\ frames[t][1].s \in Nat
    BY <1>1, <1>5, <2>1
  <2>4. frames'[t][i].s + i = frames'[t][1].s + 1
    <3>1. frames[t][i + 1].s + (i + 1) = frames[t][1].s + 1 /\ frames[t][2].s + 2 = frames[t][1].s + 1
      BY <2>3 DEF Call
    <3>2. i \in Nat
      BY <2>1
    <3>3. \A a, b, c \in Nat : a + (i + 1) = c + 1 /\ b + 2 = c + 1 => a + i = b + 1
      BY <3>2, Shifted, Zenon
    <3>4. frames[t][i + 1].s + i = frames[t][2].s + 1
      BY <2>3, <3>1, <3>3
    <3> QED
      BY <2>2, <3>4
  <2>5. i # Len(frames'[t]) <=> i + 1 # n
    BY <1>1, <1>3, <2>1
  <2> QED
    BY <2>1, <2>2, <2>3, <2>4, <2>5 DEF Call
<1>10. \A r \in Scopes : slock'[r] = IF Top(t).at = "nested" /\ r = Top(t).s THEN Nobody ELSE slock[r]
  BY <1>0 DEF With, ScopeTypes
<1>11. \A r \in Scopes : slock[r] = t <=> \E i \in 1..n : frames[t][i].s = r /\ frames[t][i].at = "nested"
  BY <1>0, <1>1 DEF Locks, Holds
<1>12. ASSUME NEW r \in Scopes PROVE slock'[r] = t <=> Holds(t, r)'
  <2>1. Holds(t, r)' <=> \E i \in 1..(n - 1) : frames[t][i + 1].s = r /\ frames[t][i + 1].at = "nested"
    <3>1. tpc'[t] \notin {"release", "swap"}
      BY <1>0, <1>4, <1>6 DEF ScopeTypes
    <3> QED
      BY <1>3, <3>1 DEF Holds
  <2>2. ASSUME NEW i \in 1..n PROVE frames[t][i].s = Top(t).s <=> i = 1
    <3>1. frames[t][i].s + i = frames[t][1].s + 1 /\ frames[t][i].s \in Nat /\ frames[t][1].s \in Nat
      BY <1>1, <1>5 DEF Call
    <3> QED
      BY <3>1 DEF Top
  <2>3. CASE r = Top(t).s
    <3>1. ~Holds(t, r)'
      <4>1. \A i \in 1..(n - 1) : i + 1 \in 1..n /\ i + 1 # 1
        BY <1>1
      <4> QED
        BY <2>1, <2>2, <2>3, <4>1
    <3>2. slock[r] = t => Top(t).at = "nested"
      BY <1>11, <2>2, <2>3 DEF Top
    <3> QED
      BY <1>10, <2>3, <3>1, <3>2, ScopeAssumption
  <2>4. CASE r # Top(t).s
    <3>1. slock'[r] = slock[r]
      BY <1>10, <2>4
    <3>2. ASSUME NEW i \in 1..n, frames[t][i].s = r PROVE \E j \in 1..(n - 1) : j + 1 = i
      <4>1. i # 1
        BY <2>2, <2>4, <3>2
      <4>2. i - 1 \in 1..(n - 1) /\ (i - 1) + 1 = i
        BY <1>1, <4>1
      <4> QED
        BY <4>2
    <3>3. \A j \in 1..(n - 1) : j + 1 \in 1..n
      BY <1>1
    <3>4. ASSUME NEW i \in 1..n, frames[t][i].s = r, frames[t][i].at = "nested" PROVE Holds(t, r)'
      BY <2>1, <3>2, <3>4
    <3>5. ASSUME NEW j \in 1..(n - 1), frames[t][j + 1].s = r, frames[t][j + 1].at = "nested" PROVE slock[r] = t
      BY <1>11, <3>3, <3>5
    <3> QED
      BY <1>11, <2>1, <3>1, <3>4, <3>5
  <2> QED
    BY <2>3, <2>4
<1>13. \A r \in Scopes : slock'[r] = slock[r] \/ {slock'[r], slock[r]} \subseteq {t, Nobody}
  <2>1. Top(t).at = "nested" => slock[Top(t).s] = t
    BY <1>1, <1>5, <1>11 DEF Top
  <2> QED
    BY <1>10, <2>1
<1>14. /\ frames' \in [Tasks -> Seq(CallFrame)] /\ slock' \in [Scopes -> Tasks \cup {Nobody}]
       /\ flag' \in [Tasks -> BOOLEAN] /\ shut' \in [Tasks -> BOOLEAN] /\ ~flag'[Opener]
  <2>1. frames' \in [Tasks -> Seq(CallFrame)]
    BY <1>0, <1>2, <1>3 DEF Return, ScopeTypes
  <2>2. slock' \in [Scopes -> Tasks \cup {Nobody}]
    BY <1>0 DEF With, ScopeTypes
  <2> QED
    BY <1>0, <2>1, <2>2, ScopeAssumption DEF ScopeTypes, PlacesOK
<1> HIDE DEF p, n
<1> QED
  BY <1>2, <1>4, <1>6, <1>7, <1>8, <1>9, <1>12, <1>13, <1>14, CallStep

\* The innermost call goes on in its scope; it may take the lock.
LEMMA ReplaceStep ==
  ASSUME JInv, NEW t \in Tasks, frames[t] # <<>>, Top(t).at # "nested", NEW x \in CallFrame, Replace(t, x),
         x.s = Top(t).s, x.next = Top(t).next, x.at # "nested" => x.left = {}, x.left \subseteq child_scopes[x.s],
         x.at = "nested" => Unlocked(x.s), slock' = IF x.at = "nested" THEN With(slock, x.s, t) ELSE slock,
         scancelled' \in [Scopes -> BOOLEAN], ~flag'[Opener], flag' \in [Tasks -> BOOLEAN], shut' \in [Tasks -> BOOLEAN],
         UNCHANGED <<state, live_children, parent, kids, child_scopes, actors, errors, tpc, scope, opened, arg, thread>>
  PROVE  JInv'
<1> DEFINE n == Len(frames[t])
<1>0. ScopeTypes /\ Locks /\ Calls /\ PlacesOK
  BY DEF JInv
<1>1. /\ frames[t] \in Seq(CallFrame) /\ n \in Nat \ {0} /\ DOMAIN frames[t] = 1..n /\ tpc[t] = "cancel"
      /\ \A i \in 1..n : frames[t][i] \in CallFrame /\ frames[t][i].s \in Scopes /\ frames[t][i].s \in Nat /\ Call(t, i)
  BY TopFrame
<1>2. frames'[t] = <<x>> \o Tail(frames[t]) /\ \A u \in Tasks : u # t => frames'[u] = frames[u]
  BY <1>0 DEF Replace, ScopeTypes
<1>3. /\ frames'[t] \in Seq(CallFrame) /\ Len(frames'[t]) = n /\ DOMAIN frames'[t] = 1..n
      /\ frames'[t][1] = x /\ \A i \in 2..n : frames'[t][i] = frames[t][i]
  BY <1>1, <1>2, ReplaceFacts
<1>4. 1 \in 1..n /\ Call(t, 1) /\ Top(t) = frames[t][1] /\ x.s \in Scopes
  BY <1>1 DEF Top
<1>5. \A i \in 1..n : frames'[t][i].s = frames[t][i].s /\ frames'[t][i].next = frames[t][i].next /\ (i # 1 => frames'[t][i] = frames[t][i])
  <2>1. \A i \in 1..n : i # 1 => i \in 2..n
    BY <1>1
  <2> QED
    BY <1>3, <1>4, <2>1
<1>6. ASSUME NEW i \in DOMAIN frames'[t] PROVE Call(t, i)'
  <2>1. i \in 1..n /\ Call(t, i)
    BY <1>1, <1>3
  <2>2. CASE i = 1
    BY <1>3, <1>4, <1>5, <2>1, <2>2 DEF Call
  <2>3. CASE i # 1
    BY <1>3, <1>4, <1>5, <2>1, <2>3 DEF Call
  <2> QED
    BY <2>2, <2>3
<1>7. \A r \in Scopes : slock'[r] = IF x.at = "nested" /\ r = x.s THEN t ELSE slock[r]
  BY <1>0 DEF With, ScopeTypes
<1>8. \A r \in Scopes : slock[r] = t <=> \E i \in 1..n : frames[t][i].s = r /\ frames[t][i].at = "nested"
  BY <1>0, <1>1 DEF Locks, Holds
<1>9. ASSUME NEW r \in Scopes PROVE slock'[r] = t <=> Holds(t, r)'
  <2>1. Holds(t, r)' <=> \E i \in 1..n : frames'[t][i].s = r /\ frames'[t][i].at = "nested"
    BY <1>1, <1>3 DEF Holds
  <2>2. CASE x.at = "nested" /\ r = x.s
    BY <1>3, <1>4, <1>7, <2>1, <2>2
  <2>3. CASE ~(x.at = "nested" /\ r = x.s)
    <3>1. ASSUME NEW i \in 1..n
          PROVE  frames'[t][i].s = r /\ frames'[t][i].at = "nested" <=> frames[t][i].s = r /\ frames[t][i].at = "nested"
      <4>1. CASE i = 1
        BY <1>3, <1>4, <2>3, <4>1
      <4>2. CASE i # 1
        BY <1>5, <4>2
      <4> QED
        BY <4>1, <4>2
    <3> QED
      BY <1>7, <1>8, <2>1, <2>3, <3>1
  <2> QED
    BY <2>2, <2>3
<1>10. \A r \in Scopes : slock'[r] = slock[r] \/ {slock'[r], slock[r]} \subseteq {t, Nobody}
  BY <1>7 DEF Unlocked
<1>11. frames' \in [Tasks -> Seq(CallFrame)] /\ slock' \in [Scopes -> Tasks \cup {Nobody}]
  <2>1. frames' \in [Tasks -> Seq(CallFrame)]
    BY <1>0, <1>2, <1>3 DEF Replace, ScopeTypes
  <2> QED
    BY <1>0, <2>1 DEF With, ScopeTypes
<1>12. tpc' = [tpc EXCEPT ![t] = "cancel"] /\ frames'[t] # <<>>
  BY <1>0, <1>1, <1>3 DEF ScopeTypes
<1> HIDE DEF n
<1> QED
  BY <1>2, <1>6, <1>9, <1>10, <1>11, <1>12, CallStep

\* The scope inside is cancelled under the lock.
LEMMA PushStep ==
  ASSUME JInv, NEW t \in Tasks, frames[t] # <<>>, Top(t).at = "nested", NEW c \in Top(t).left,
         frames' = [frames EXCEPT ![t] = <<[s |-> c, at |-> "flag", left |-> {}, next |-> Top(t).next],
                                           [Top(t) EXCEPT !.left = @ \ {c}]>> \o Tail(@)],
         UNCHANGED <<state, scancelled, slock, live_children, parent, kids, child_scopes, actors, errors, tpc, scope, opened, flag, shut, arg, thread>>
  PROVE  JInv'
<1> DEFINE n == Len(frames[t])
           x == [s |-> c, at |-> "flag", left |-> {}, next |-> Top(t).next]
           y == [Top(t) EXCEPT !.left = @ \ {c}]
<1>0. ScopeTypes /\ Locks /\ Calls /\ PlacesOK /\ Lists
  BY DEF JInv
<1>1. /\ frames[t] \in Seq(CallFrame) /\ n \in Nat \ {0} /\ DOMAIN frames[t] = 1..n /\ tpc[t] = "cancel"
      /\ \A i \in 1..n : frames[t][i] \in CallFrame /\ frames[t][i].s \in Scopes /\ frames[t][i].s \in Nat /\ Call(t, i)
  BY TopFrame
<1>2. 1 \in 1..n /\ Call(t, 1) /\ Top(t) = frames[t][1] /\ Top(t) \in CallFrame /\ Top(t).s \in Scopes /\ Top(t).s \in Nat
  BY <1>1 DEF Top
<1>3. /\ c \in Scopes /\ c \in Nat /\ c = Top(t).s + 1 /\ c \in child_scopes[Top(t).s] /\ Top(t).left \ {c} = {}
  <2>1. Top(t).left \subseteq child_scopes[Top(t).s]
    BY <1>2 DEF Call
  <2>2. \A d \in child_scopes[Top(t).s] : d = Top(t).s + 1
    BY <1>0, <1>2 DEF Lists
  <2>3. c \in Scopes
    BY <1>0, <1>2, <2>1 DEF ScopeTypes
  <2> QED
    BY <2>1, <2>2, <2>3, ScopeAssumption
<1>4. /\ x \in CallFrame /\ x.s = c /\ x.at = "flag" /\ x.left = {} /\ x.next = Top(t).next
      /\ y \in CallFrame /\ y.s = Top(t).s /\ y.at = "nested" /\ y.left = {} /\ y.next = Top(t).next
  <2>1. Top(t).next \in {"body", "exit", "join"} /\ Top(t).left \subseteq Scopes
    BY <1>2 DEF CallFrame
  <2>2. x \in CallFrame
    BY <1>3, <2>1 DEF CallFrame
  <2>3. y \in CallFrame /\ y.s = Top(t).s /\ y.at = Top(t).at /\ y.left = Top(t).left \ {c} /\ y.next = Top(t).next
    BY <1>2, <2>1 DEF CallFrame
  <2> QED
    BY <1>3, <2>2, <2>3
<1>5. frames'[t] = <<x, y>> \o Tail(frames[t]) /\ \A u \in Tasks : u # t => frames'[u] = frames[u]
  BY <1>0 DEF ScopeTypes
<1> HIDE DEF x, y, n
<1>6. /\ frames'[t] \in Seq(CallFrame) /\ Len(frames'[t]) = n + 1 /\ DOMAIN frames'[t] = 1..(n + 1)
      /\ frames'[t][1] = x /\ frames'[t][2] = y /\ \A i \in 3..(n + 1) : frames'[t][i] = frames[t][i - 1]
  <2> DEFINE g == <<x, y>> \o Tail(frames[t])
  <2>1. x \in CallFrame /\ y \in CallFrame /\ frames[t] \in Seq(CallFrame) /\ frames[t] # <<>>
    BY <1>1, <1>4
  <2>2. /\ g \in Seq(CallFrame) /\ Len(g) = Len(frames[t]) + 1 /\ DOMAIN g = 1..(Len(frames[t]) + 1)
        /\ g[1] = x /\ g[2] = y /\ \A i \in 3..(Len(frames[t]) + 1) : g[i] = frames[t][i - 1]
    BY <2>1, PushFacts
  <2>3. frames'[t] = g
    BY <1>5
  <2> HIDE DEF g
  <2> QED
    BY <2>2, <2>3 DEF n
<1>7. ASSUME NEW i \in 1..n
      PROVE  /\ frames'[t][i + 1].s = frames[t][i].s /\ frames'[t][i + 1].at = frames[t][i].at
             /\ frames'[t][i + 1].next = frames[t][i].next
             /\ i # 1 => frames'[t][i + 1].left = frames[t][i].left
             /\ i = 1 => frames'[t][i + 1].left = {}
  <2>1. CASE i = 1
    <3>1. frames'[t][i + 1] = y /\ frames[t][i] = Top(t)
      BY <1>2, <1>6, <2>1
    <3> QED
      BY <1>4, <2>1, <3>1
  <2>2. CASE i # 1
    <3>1. i + 1 \in 3..(n + 1) /\ (i + 1) - 1 = i
      BY <1>1, <2>2
    <3>2. frames'[t][i + 1] = frames[t][i]
      BY <1>6, <3>1
    <3> QED
      BY <2>2, <3>2
  <2> QED
    BY <2>1, <2>2
<1>8. Call(t, 1)'
  BY <1>1, <1>2, <1>3, <1>4, <1>6 DEF Call
<1>9. ASSUME NEW i \in 1..n PROVE Call(t, i + 1)'
  <2>1. Call(t, i) /\ frames[t][i].s \in Nat /\ i \in Nat
    BY <1>1
  <2>2. frames'[t][i + 1].s + (i + 1) = frames'[t][1].s + 1
    <3>1. frames[t][i].s + i = Top(t).s + 1
      BY <1>2, <2>1 DEF Call
    <3>2. \A a, b \in Nat : a + i = b + 1 => a + (i + 1) = (b + 1) + 1
      BY <2>1
    <3>3. frames[t][i].s + (i + 1) = (Top(t).s + 1) + 1
      BY <1>2, <2>1, <3>1, <3>2
    <3> QED
      BY <1>3, <1>4, <1>6, <1>7, <3>3
  <2>3. (i + 1 # Len(frames'[t]) <=> i # n) /\ i + 1 # 1
    BY <1>1, <1>6, <2>1
  <2>4. frames'[t][i + 1].at = "nested" /\ frames'[t][i + 1].left = {}
    <3>1. CASE i = 1
      BY <1>2, <1>7, <3>1
    <3>2. CASE i # 1
      BY <1>7, <2>1, <3>2 DEF Call
    <3> QED
      BY <3>1, <3>2
  <2> QED
    BY <1>7, <2>1, <2>2, <2>3, <2>4 DEF Call, n
<1>10. ASSUME NEW i \in DOMAIN frames'[t] PROVE Call(t, i)'
  <2>1. i = 1 \/ \E j \in 1..n : i = j + 1
    <3>1. i \in 1..(n + 1)
      BY <1>6
    <3>2. i # 1 => i - 1 \in 1..n /\ i = (i - 1) + 1
      BY <1>1, <3>1
    <3> QED
      BY <3>2
  <2> QED
    BY <1>8, <1>9, <2>1
<1>11. ASSUME NEW r \in Scopes PROVE slock'[r] = t <=> Holds(t, r)'
  <2>1. slock[r] = t <=> \E i \in 1..n : frames[t][i].s = r /\ frames[t][i].at = "nested"
    BY <1>0, <1>1 DEF Locks, Holds
  <2>2. Holds(t, r)' <=> \E i \in 1..(n + 1) : frames'[t][i].s = r /\ frames'[t][i].at = "nested"
    BY <1>1, <1>6 DEF Holds
  <2>3. ASSUME NEW i \in 1..n, frames[t][i].s = r, frames[t][i].at = "nested" PROVE Holds(t, r)'
    <3>1. i + 1 \in 1..(n + 1)
      BY <1>1
    <3> QED
      BY <1>7, <2>2, <2>3, <3>1
  <2>4. ASSUME NEW i \in 1..(n + 1), frames'[t][i].s = r, frames'[t][i].at = "nested" PROVE slock[r] = t
    <3>1. i # 1
      BY <1>4, <1>6, <2>4
    <3>2. i - 1 \in 1..n /\ (i - 1) + 1 = i
      BY <1>1, <3>1
    <3>3. frames'[t][(i - 1) + 1].s = frames[t][i - 1].s /\ frames'[t][(i - 1) + 1].at = frames[t][i - 1].at
      BY <1>7, <3>2
    <3> QED
      BY <2>1, <2>4, <3>2, <3>3
  <2> QED
    BY <2>1, <2>2, <2>3, <2>4
<1>12. /\ frames' \in [Tasks -> Seq(CallFrame)] /\ tpc' = [tpc EXCEPT ![t] = "cancel"] /\ frames'[t] # <<>>
  <2>1. frames' \in [Tasks -> Seq(CallFrame)]
    <3>1. frames' = [frames EXCEPT ![t] = frames'[t]]
      BY <1>0, <1>5 DEF ScopeTypes, x, y
    <3> QED
      BY <1>0, <1>6, <3>1 DEF ScopeTypes
  <2>2. frames'[t] # <<>>
    BY <1>1, <1>6, EmptyStack
  <2> QED
    BY <1>0, <1>1, <2>1, <2>2 DEF ScopeTypes
<1>13. /\ scancelled' \in [Scopes -> BOOLEAN] /\ slock' \in [Scopes -> Tasks \cup {Nobody}] /\ slock' = slock
       /\ flag' \in [Tasks -> BOOLEAN] /\ shut' \in [Tasks -> BOOLEAN] /\ ~flag'[Opener]
  BY <1>0, ScopeAssumption DEF ScopeTypes, PlacesOK
<1> QED
  BY <1>5, <1>10, <1>11, <1>12, <1>13, CallStep

LEMMA CancelFlagStep ==
  ASSUME JInv, NEW t \in Tasks, CancelFlag(t)
  PROVE  JInv'
<1>0. ScopeTypes /\ Calls /\ PlacesOK
  BY DEF JInv
<1>1. frames[t] # <<>> /\ Top(t).at = "flag"
  BY DEF CancelFlag, Cancelling
<1>2. Top(t) \in CallFrame /\ Top(t).s \in Scopes /\ Call(t, 1)
  BY <1>1, TopFrame DEF Top
<1>3. scancelled' \in [Scopes -> BOOLEAN]
  BY <1>0 DEF CancelFlag, With, ScopeTypes
<1>4. ~flag[Opener] /\ flag \in [Tasks -> BOOLEAN] /\ shut \in [Tasks -> BOOLEAN]
  BY <1>0, ScopeAssumption DEF PlacesOK, ScopeTypes
<1>5. CASE scancelled[Top(t).s]
  <2>1. Return(t)
    BY <1>5 DEF CancelFlag
  <2>2. slock' = IF Top(t).at = "nested" THEN With(slock, Top(t).s, Nobody) ELSE slock
    BY <1>1 DEF CancelFlag
  <2> QED
    BY <1>1, <1>3, <2>1, <2>2, ReturnStep DEF CancelFlag
<1>6. CASE ~scancelled[Top(t).s]
  <2> DEFINE x == [Top(t) EXCEPT !.at = "lock"]
  <2>1. Replace(t, x) /\ tpc' = tpc
    BY <1>6 DEF CancelFlag
  <2>2. Top(t).left = {}
    BY <1>1, <1>2 DEF Call, Top
  <2>3. x \in CallFrame /\ x.s = Top(t).s /\ x.next = Top(t).next /\ x.at = "lock" /\ x.left = {}
    BY <1>2, <2>2 DEF CallFrame
  <2> HIDE DEF x
  <2>4. slock' = IF x.at = "nested" THEN With(slock, x.s, t) ELSE slock
    BY <2>3 DEF CancelFlag
  <2> QED
    BY <1>1, <1>3, <1>4, <2>1, <2>3, <2>4, ReplaceStep DEF CancelFlag
<1> QED
  BY <1>5, <1>6

LEMMA CancelMarkStep ==
  ASSUME JInv, NEW t \in Tasks, CancelMark(t)
  PROVE  JInv'
<1>0. ScopeTypes /\ Calls /\ PlacesOK /\ Lists
  BY DEF JInv
<1>1. frames[t] # <<>> /\ Top(t).at = "lock"
  BY DEF CancelMark, Cancelling
<1>2. Top(t) \in CallFrame /\ Top(t).s \in Scopes
  BY <1>1, TopFrame DEF Top
<1> DEFINE x == [Top(t) EXCEPT !.at = "nested", !.left = child_scopes[Top(t).s]]
<1>3. x \in CallFrame /\ x.s = Top(t).s /\ x.next = Top(t).next /\ x.at = "nested" /\ x.left = child_scopes[x.s]
  BY <1>0, <1>2 DEF CallFrame, ScopeTypes
<1>4. Replace(t, x) /\ Unlocked(Top(t).s) /\ slock' = With(slock, Top(t).s, t)
  BY DEF CancelMark
<1>5. flag' \in [Tasks -> BOOLEAN] /\ shut' \in [Tasks -> BOOLEAN] /\ scancelled' \in [Scopes -> BOOLEAN]
  BY <1>0 DEF CancelMark, ScopeTypes
<1>6. ~flag'[Opener]
  <2>1. Opener \notin kids[Top(t).s]
    BY <1>0, <1>2 DEF Lists, Counted
  <2>2. flag'[Opener] = (flag[Opener] \/ Opener \in kids[Top(t).s])
    BY ScopeAssumption DEF CancelMark
  <2> QED
    BY <1>0, <2>1, <2>2, ScopeAssumption DEF PlacesOK
<1> HIDE DEF x
<1>7. slock' = IF x.at = "nested" THEN With(slock, x.s, t) ELSE slock
  BY <1>3, <1>4
<1> QED
  BY <1>1, <1>3, <1>4, <1>5, <1>6, <1>7, ReplaceStep DEF CancelMark

LEMMA CancelNestedStep ==
  ASSUME JInv, NEW t \in Tasks, CancelNested(t)
  PROVE  JInv'
<1>1. frames[t] # <<>> /\ Top(t).at = "nested"
  BY DEF CancelNested, Cancelling
<1>2. scancelled' \in [Scopes -> BOOLEAN]
  BY DEF JInv, ScopeTypes, CancelNested
<1>3. CASE Top(t).left = {}
  <2>1. Return(t) /\ slock' = With(slock, Top(t).s, Nobody)
    BY <1>3 DEF CancelNested
  <2>2. slock' = IF Top(t).at = "nested" THEN With(slock, Top(t).s, Nobody) ELSE slock
    BY <1>1, <2>1
  <2> QED
    BY <1>1, <1>2, <2>1, <2>2, ReturnStep DEF CancelNested
<1>4. CASE Top(t).left # {}
  <2>1. PICK c \in Top(t).left :
          frames' = [frames EXCEPT ![t] = <<[s |-> c, at |-> "flag", left |-> {}, next |-> Top(t).next],
                                            [Top(t) EXCEPT !.left = @ \ {c}]>> \o Tail(@)]
    BY <1>4 DEF CancelNested
  <2>2. UNCHANGED <<tpc, slock>>
    BY <1>4 DEF CancelNested
  <2> QED
    BY <1>1, <2>1, <2>2, PushStep DEF CancelNested
<1> QED
  BY <1>3, <1>4

-----------------------------------------------------------------------------
(* A task opens a scope, starts another task, leaves its scope *)

LEMMA EnterStep ==
  ASSUME JInv, NEW t \in Tasks, Enter(t)
  PROVE  JInv'
<1>0. ScopeTypes /\ Chains /\ PlacesOK /\ Making /\ Owners /\ Counts /\ Locks /\ Lists /\ Calls /\ Parents /\ Errors
  BY DEF JInv
<1>1. tpc[t] \in {"inherit", "enter"}
  BY DEF Enter
<1>n. frames[t] = <<>> /\ DOMAIN frames[t] = {}
  BY <1>0, <1>1 DEF Calls
<1>u. state' = state /\ slock' = slock /\ live_children' = live_children /\ parent' = parent /\ kids' = kids /\ child_scopes' = child_scopes /\ actors' = actors /\ has_error' = has_error /\ error_val' = error_val /\ opened' = opened /\ flag' = flag /\ shut' = shut /\ arg' = arg /\ frames' = frames /\ thread' = thread
  BY DEF Enter, With, Goto, InBody, Unlocked, scope_state, errors, Begin
<1>p. /\ \A u \in Tasks : tpc'[u] = IF u = t THEN "body" ELSE tpc[u]
      /\ \A u \in Tasks : scope'[u] = IF u = t THEN scope[t] + 1 ELSE scope[u]
  BY <1>0, <1>1 DEF Enter, With, Goto, InBody, Unlocked, scope_state, errors, Begin, ScopeTypes
<1>k. \A s \in Scopes : kids[s] \subseteq Tasks /\ (parent[s] # Nobody => parent[s] \in Tasks)
  BY <1>0 DEF ScopeTypes
<1>a. \A u \in Tasks : Depth(u)' = Depth(u)
  BY <1>p, <1>1 DEF Depth
<1>b. \A u \in Tasks : Base(u)' = Base(u)
  BY <1>u, <1>a, SameBases
<1>c. \A s : Counted(s)' = Counted(s)
  BY <1>p, <1>1, <1>b DEF Counted, Alive, Dead
<1>2. /\ \A u \in Tasks : Depth(u)' = Depth(u) /\ Base(u)' = Base(u)
      /\ \A s : Counted(s)' = Counted(s)
  BY <1>a, <1>b, <1>c
<1>21. ScopeTypes'
  <2>1. scancelled' \in [Scopes -> BOOLEAN]
    BY <1>0, <1>u, <1>1, <1>2 DEF Enter, With, Goto, InBody, Unlocked, scope_state, errors, Begin, ScopeTypes
  <2>2. tpc' \in [Tasks -> Places]
    BY <1>0, <1>u, <1>1, <1>2 DEF Enter, With, Goto, InBody, Unlocked, scope_state, errors, Begin, ScopeTypes, Places, Ending, Joining
  <2>3. scope' \in [Tasks -> Nat]
    BY <1>0, <1>u, <1>1, <1>2 DEF Enter, With, Goto, InBody, Unlocked, scope_state, errors, Begin, ScopeTypes
  <2> QED
    BY <1>0, <1>u, <2>1, <2>2, <2>3 DEF ScopeTypes
<1>22. Chains'
  BY <1>0, <1>u, <1>p, <1>1, <1>2 DEF Chains
<1>23. PlacesOK'
  BY <1>0, <1>u, <1>p, <1>1, <1>2 DEF PlacesOK, Ending, Joining
<1>24. Making'
  BY <1>0, <1>u, <1>p, <1>1, <1>2 DEF Making
<1>25. Owners'
  BY <1>0, <1>u, <1>p, <1>1, <1>2 DEF Owners
<1>26. Counts'
  BY <1>0, <1>u, <1>p, <1>1, <1>2 DEF Counts
<1>27. Locks'
  <2>1. ASSUME NEW w \in Tasks, NEW r \in Scopes PROVE Holds(w, r)' <=> Holds(w, r)
    BY <1>u, <1>p, <1>1, <1>n DEF Holds
  <2> QED
    BY <1>0, <1>u, <2>1 DEF Locks
<1>28. Lists'
  BY <1>0, <1>u, <1>p, <1>1, <1>2, <1>k DEF Lists
<1>29. Calls'
  <2>1. ASSUME NEW w \in Tasks, NEW i \in DOMAIN frames[w] PROVE Call(w, i)'
    <3>1. w # t
      BY <1>n, <2>1
    <3>2. Call(w, i)
      BY <1>0 DEF Calls
    <3> QED
      BY <1>u, <1>p, <3>1, <3>2 DEF Call
  <2> QED
    BY <1>0, <1>u, <1>p, <1>1, <1>n, <2>1 DEF Calls
<1>30. Parents'
  <2>1. \A w \in Tasks : \A q \in {"swap", "parked", "wake", "release"} : (tpc'[w] = q <=> tpc[w] = q) /\ (tpc[w] = q => scope'[w] = scope[w])
    BY <1>1, <1>p
  <2>2. ASSUME NEW r \in Scopes PROVE Waited(r)'
    <3>1. Waited(r) /\ (parent[r] # Nobody => parent[r] \in Tasks) /\ (Counted(r)' = {} => Counted(r) = {})
      BY <1>0, <1>k, <1>2 DEF Parents
    <3> QED
      BY <1>u, <2>1, <3>1 DEF Waited
  <2>3. ASSUME NEW w \in Tasks PROVE Woken(w)'
    <3>1. Woken(w)
      BY <1>0 DEF Parents
    <3> QED
      BY <1>u, <2>1, <3>1 DEF Woken
  <2> QED
    BY <2>2, <2>3 DEF Parents
<1>31. Errors'
  BY <1>0, <1>u, <1>p, <1>1, <1>2 DEF Errors
<1> QED
  BY <1>21, <1>22, <1>23, <1>24, <1>25, <1>26, <1>27, <1>28, <1>29, <1>30, <1>31 DEF JInv

LEMMA DispatchStep ==
  ASSUME JInv, NEW t \in Tasks, NEW u \in Tasks, Dispatch(t, u)
  PROVE  JInv'
<1>0. ScopeTypes /\ Chains /\ PlacesOK /\ Making /\ Owners /\ Counts /\ Locks /\ Lists /\ Calls /\ Parents /\ Errors
  BY DEF JInv
<1>1. tpc[t] = "body" /\ tpc[u] = "unborn" /\ u # t /\ scope[t] # 0
  BY DEF Dispatch, InBody
<1>3. opened[u] = {} /\ u # Opener /\ scope[t] \in Nat
  BY <1>0, <1>1 DEF PlacesOK, ScopeTypes
<1>4. scope[t] \in Scopes /\ state[scope[t]] = "open"
  BY <1>1, InScope
<1>n. frames[t] = <<>> /\ DOMAIN frames[t] = {} /\ frames[u] = <<>> /\ DOMAIN frames[u] = {}
  BY <1>0, <1>1 DEF Calls
<1>u. state' = state /\ scancelled' = scancelled /\ slock' = slock /\ parent' = parent /\ kids' = kids /\ child_scopes' = child_scopes /\ actors' = actors /\ has_error' = has_error /\ error_val' = error_val /\ opened' = opened /\ flag' = flag /\ shut' = shut /\ frames' = frames /\ thread' = thread
  BY DEF Dispatch, With, Goto, InBody, Unlocked, scope_state, errors, Begin
<1>p. /\ \A w \in Tasks : tpc'[w] = IF w = t THEN "register" ELSE IF w = u THEN "made" ELSE tpc[w]
      /\ \A w \in Tasks : scope'[w] = IF w = u THEN scope[t] ELSE scope[w]
      /\ \A w \in Tasks : arg'[w] = IF w = t THEN u ELSE arg[w]
      /\ \A r \in Scopes : live_children'[r] = IF r = scope[t] THEN live_children[r] + 1 ELSE live_children[r]
  BY <1>0, <1>1 DEF Dispatch, With, Goto, InBody, Unlocked, scope_state, errors, Begin, ScopeTypes
<1>k. \A s \in Scopes : kids[s] \subseteq Tasks /\ (parent[s] # Nobody => parent[s] \in Tasks)
  BY <1>0 DEF ScopeTypes
<1>a. \A w \in Tasks : Depth(w)' = IF w = u THEN scope[t] ELSE Depth(w)
  BY <1>p, <1>1 DEF Depth
<1>b. Base(u)' = scope[t]
  <2>1. opened'[u] = (scope[t] + 1)..scope[t]
    BY <1>u, <1>3
  <2>2. Depth(u)' = scope[t]
    BY <1>a
  <2>3. (CHOOSE x \in 0..scope[t] : opened'[u] = (x + 1)..scope[t]) = scope[t]
    BY <1>3, <2>1, BaseOfChain
  <2> QED
    BY <2>2, <2>3 DEF Base
<1>c. \A w \in Tasks : w # u => Base(w)' = Base(w)
  BY <1>u, <1>a DEF Base
<1>d. \A r : Counted(r)' = IF r = scope[t] THEN Counted(r) \cup {u} ELSE Counted(r)
  BY <1>p, <1>1, <1>3, <1>b, <1>c DEF Counted, Alive, Dead
<1>2. \A r : Counted(r)' = {} => Counted(r) = {}
  BY <1>d
<1>e. \A r : u \notin Counted(r)
  BY <1>1 DEF Counted, Alive, Dead
<1>f. ASSUME NEW w \in Tasks, tpc[w] \in {"inherit", "enter", "sync", "unlink", "free"} PROVE Depth(w) # scope[t]
  <2>1. Counted(Depth(w)) = {} /\ opened[w] # {} /\ w # t
    BY <1>0, <1>1, <1>f DEF Counts, PlacesOK, Joining
  <2>2. Depth(w) \in opened[w] /\ Depth(w) \in Nat
    BY <2>1, Owns, ScopeAssumption
  <2>3. Alive(t) /\ Depth(t) = scope[t]
    BY <1>1 DEF Alive, Dead, Depth
  <2>4. Depth(t) < Depth(w)
    BY <2>1, <2>2, <2>3, Alone
  <2> QED
    BY <1>3, <2>2, <2>3, <2>4
<1>21. ScopeTypes'
  <2>1. live_children' \in [Scopes -> Int]
    BY <1>0, <1>u, <1>1, <1>3, <1>4 DEF Dispatch, With, Goto, InBody, Unlocked, scope_state, errors, Begin, ScopeTypes
  <2>2. tpc' \in [Tasks -> Places]
    BY <1>0, <1>u, <1>1, <1>3, <1>4 DEF Dispatch, With, Goto, InBody, Unlocked, scope_state, errors, Begin, ScopeTypes, Places, Ending, Joining
  <2>3. scope' \in [Tasks -> Nat]
    BY <1>0, <1>u, <1>1, <1>3, <1>4 DEF Dispatch, With, Goto, InBody, Unlocked, scope_state, errors, Begin, ScopeTypes
  <2>4. arg' \in [Tasks -> Tasks \cup {Nobody}]
    BY <1>0, <1>u, <1>1, <1>3, <1>4 DEF Dispatch, With, Goto, InBody, Unlocked, scope_state, errors, Begin, ScopeTypes
  <2> QED
    BY <1>0, <1>u, <2>1, <2>2, <2>3, <2>4 DEF ScopeTypes
<1>22. Chains'
  <2>1. ASSUME NEW w \in Tasks, w # u
        PROVE  /\ Base(w)' \in Nat /\ Base(w)' <= Depth(w)' /\ opened'[w] = (Base(w)' + 1)..Depth(w)'
               /\ w = Opener => Base(w)' = 0
               /\ w # Opener /\ tpc'[w] # "unborn" => Base(w)' # 0
    <3>1. Base(w)' = Base(w) /\ Depth(w)' = Depth(w) /\ opened'[w] = opened[w] /\ (tpc'[w] # "unborn" => tpc[w] # "unborn")
      BY <1>u, <1>p, <1>1, <1>a, <1>c, <2>1
    <3> QED
      BY <1>0, <3>1 DEF Chains
  <2>2. Base(u)' = scope[t] /\ Depth(u)' = scope[t] /\ opened'[u] = (scope[t] + 1)..scope[t] /\ scope[t] <= scope[t]
    BY <1>u, <1>3, <1>a, <1>b
  <2> QED
    BY <1>1, <1>3, <2>1, <2>2 DEF Chains
<1>23. PlacesOK'
  BY <1>0, <1>u, <1>p, <1>1, <1>3, <1>4 DEF PlacesOK, Ending, Joining
<1>24. Making'
  BY <1>0, <1>u, <1>p, <1>1, <1>3, <1>4 DEF Making
<1>25. Owners'
  <2>1. ASSUME NEW w \in Tasks, tpc'[w] \notin {"unborn", "wake", "gone"}, Base(w)' # 0 PROVE Base(w)' \in Scopes /\ state[Base(w)'] = "open"
    <3>1. CASE w = u
      BY <1>4, <1>b, <3>1
    <3>2. CASE w # u
      <4>1. Base(w)' = Base(w) /\ tpc[w] \notin {"unborn", "wake", "gone"}
        BY <1>1, <1>p, <1>c, <2>1, <3>2
      <4> QED
        BY <1>0, <2>1, <4>1 DEF Owners
    <3> QED
      BY <3>1, <3>2
  <2>2. \A w \in Tasks : (tpc[w] \notin {"unborn", "wake", "gone"} /\ Base(w) # 0 => Base(w) \in Scopes /\ state[Base(w)] = "open")'
    BY <1>u, <2>1
  <2> QED
    BY <1>0, <1>u, <2>2 DEF Owners
<1>26. Counts'
  <2>1. ASSUME NEW r \in Scopes PROVE IsFiniteSet(Counted(r))' /\ live_children'[r] = Cardinality(Counted(r))'
    <3>1. IsFiniteSet(Counted(r)) /\ live_children[r] = Cardinality(Counted(r))
      BY <1>0 DEF Counts
    <3>2. CASE r = scope[t]
      BY <1>p, <1>d, <1>e, <3>1, <3>2, FS_AddElement
    <3>3. CASE r # scope[t]
      BY <1>p, <1>d, <3>1, <3>3
    <3> QED
      BY <3>2, <3>3
  <2>2. ASSUME NEW w \in Tasks, tpc'[w] \in {"inherit", "enter", "sync", "unlink", "free"} PROVE Counted(Depth(w))' = {}
    <3>1. tpc[w] = tpc'[w] /\ w # u /\ Depth(w)' = Depth(w)
      BY <1>p, <1>a, <2>2
    <3>2. Counted(Depth(w)) = {} /\ Depth(w) # scope[t]
      BY <1>0, <1>f, <2>2, <3>1 DEF Counts
    <3> QED
      BY <1>d, <3>1, <3>2
  <2>3. ASSUME NEW w \in Tasks, tpc'[w] \in {"unlink", "free"}, NEW v \in Tasks, tpc'[v] = "release" PROVE scope'[v] # scope'[w]
    BY <1>0, <1>1, <1>p, <2>3 DEF Counts
  <2> QED
    BY <2>1, <2>2, <2>3 DEF Counts
<1>27. Locks'
  <2>1. ASSUME NEW w \in Tasks, NEW r \in Scopes PROVE Holds(w, r)' <=> Holds(w, r)
    BY <1>u, <1>p, <1>1, <1>n DEF Holds
  <2> QED
    BY <1>0, <1>u, <2>1 DEF Locks
<1>28. Lists'
  <2>1. \A r \in Scopes : \A v \in kids[r] : v \in Counted(r) /\ v # u /\ v \in Tasks
    BY <1>0, <1>k, <1>e DEF Lists
  <2>2. \A r \in Scopes : \A v \in kids[r] : v \in Counted(r)' /\ tpc'[v] # "done" /\ \A w \in Tasks : tpc'[w] = "register" => arg'[w] # v
    BY <1>0, <1>p, <1>d, <2>1 DEF Lists
  <2>3. \A w \in Tasks : tpc'[w] = "free" => \A r \in Scopes : scope'[w] \notin child_scopes[r]
    BY <1>0, <1>p DEF Lists
  <2> QED
    BY <1>0, <1>u, <2>2, <2>3 DEF Lists
<1>29. Calls'
  <2>1. ASSUME NEW w \in Tasks, NEW i \in DOMAIN frames[w] PROVE Call(w, i)'
    <3>1. w # t /\ w # u
      BY <1>n, <2>1
    <3>2. Call(w, i)
      BY <1>0 DEF Calls
    <3> QED
      BY <1>u, <1>p, <3>1, <3>2 DEF Call
  <2> QED
    BY <1>0, <1>u, <1>p, <1>1, <1>n, <2>1 DEF Calls
<1>30. Parents'
  <2>1. \A w \in Tasks : \A q \in {"swap", "parked", "wake", "release"} : (tpc'[w] = q <=> tpc[w] = q) /\ (tpc[w] = q => scope'[w] = scope[w] /\ arg'[w] = arg[w])
    BY <1>1, <1>p
  <2>2. ASSUME NEW r \in Scopes PROVE Waited(r)'
    <3>1. Waited(r) /\ (parent[r] # Nobody => parent[r] \in Tasks) /\ (Counted(r)' = {} => Counted(r) = {})
      BY <1>0, <1>k, <1>2 DEF Parents
    <3> QED
      BY <1>u, <2>1, <3>1 DEF Waited
  <2>3. ASSUME NEW w \in Tasks PROVE Woken(w)'
    <3>1. Woken(w)
      BY <1>0 DEF Parents
    <3> QED
      BY <1>u, <2>1, <3>1 DEF Woken
  <2> QED
    BY <2>2, <2>3 DEF Parents
<1>31. Errors'
  BY <1>0, <1>u, <1>p, <1>1, <1>3, <1>4 DEF Errors
<1> QED
  BY <1>21, <1>22, <1>23, <1>24, <1>25, <1>26, <1>27, <1>28, <1>29, <1>30, <1>31 DEF JInv

LEMMA LinkStep ==
  ASSUME JInv, NEW t \in Tasks, Link(t)
  PROVE  JInv'
<1>0. ScopeTypes /\ Chains /\ PlacesOK /\ Making /\ Owners /\ Counts /\ Locks /\ Lists /\ Calls /\ Parents /\ Errors
  BY DEF JInv
<1> DEFINE p == IF scope[t] # 0 /\ scancelled[scope[t]] THEN "inherit" ELSE "enter"
<1>1. tpc[t] = "body" /\ t \notin Actors
  BY DEF Link, InBody
<1>3. PICK s \in Scopes :
       /\ state[s] = "none" /\ scope[t] = s - 1
       /\ state' = With(state, s, "open")
       /\ child_scopes' = IF scope[t] = 0 THEN child_scopes
                          ELSE With(child_scopes, scope[t], child_scopes[scope[t]] \cup {s})
       /\ opened' = With(opened, t, opened[t] \cup {s})
       /\ Goto(t, p)
  BY DEF Link
<1>4. s \in Nat /\ s # 0 /\ scope[t] \in Nat /\ s = scope[t] + 1 /\ 0 \notin Scopes
  BY <1>0, <1>3, ScopeAssumption DEF ScopeTypes
<1>5. p \in {"inherit", "enter"}
  OBVIOUS
<1> HIDE DEF p
<1>n. frames[t] = <<>> /\ DOMAIN frames[t] = {}
  BY <1>0, <1>1 DEF Calls
<1>u. scancelled' = scancelled /\ slock' = slock /\ live_children' = live_children /\ parent' = parent /\ kids' = kids /\ actors' = actors /\ has_error' = has_error /\ error_val' = error_val /\ scope' = scope /\ flag' = flag /\ shut' = shut /\ arg' = arg /\ frames' = frames /\ thread' = thread
  BY DEF Link, With, Goto, InBody, Unlocked, scope_state, errors, Begin
<1>q. child_scopes' = IF scope[t] = 0 THEN child_scopes ELSE [child_scopes EXCEPT ![scope[t]] = child_scopes[scope[t]] \cup {s}]
  BY <1>3 DEF With
<1>r. child_scopes \in [Scopes -> SUBSET Scopes]
  BY <1>0 DEF ScopeTypes
<1>p. /\ \A u \in Tasks : tpc'[u] = IF u = t THEN p ELSE tpc[u]
      /\ \A r \in Scopes : state'[r] = IF r = s THEN "open" ELSE state[r]
      /\ \A u \in Tasks : opened'[u] = IF u = t THEN opened[t] \cup {s} ELSE opened[u]
      /\ \A r \in Scopes : child_scopes'[r] = IF r = scope[t] THEN child_scopes[r] \cup {s} ELSE child_scopes[r]
  <2>1. \A u \in Tasks : tpc'[u] = IF u = t THEN p ELSE tpc[u]
    BY <1>0, <1>1, <1>3, <1>4 DEF With, Goto, ScopeTypes
  <2>2. \A r \in Scopes : state'[r] = IF r = s THEN "open" ELSE state[r]
    BY <1>0, <1>1, <1>3, <1>4 DEF With, Goto, ScopeTypes
  <2>3. \A u \in Tasks : opened'[u] = IF u = t THEN opened[t] \cup {s} ELSE opened[u]
    BY <1>0, <1>1, <1>3, <1>4 DEF With, Goto, ScopeTypes
  <2>4. \A r \in Scopes : child_scopes'[r] = IF r = scope[t] THEN child_scopes[r] \cup {s} ELSE child_scopes[r]
    BY <1>4, <1>q, <1>r
  <2> QED
    BY <2>1, <2>2, <2>3, <2>4
<1>k. \A r \in Scopes : kids[r] \subseteq Tasks /\ (parent[r] # Nobody => parent[r] \in Tasks)
  BY <1>0 DEF ScopeTypes
<1>a. \A w \in Tasks : Depth(w)' = IF w = t THEN s ELSE Depth(w)
  BY <1>u, <1>p, <1>1, <1>4, <1>5 DEF Depth
<1>b. /\ Base(t)' = Base(t) /\ opened'[t] = (Base(t) + 1)..s /\ Base(t) \in Nat /\ Base(t) <= s /\ Depth(t)' = s
  <2>1. Depth(t) = scope[t]
    BY <1>1 DEF Depth
  <2>2. Base(t) \in Nat /\ Base(t) <= scope[t] /\ opened[t] = (Base(t) + 1)..scope[t]
    BY <1>0, <2>1 DEF Chains
  <2>3. opened'[t] = (Base(t) + 1)..s
    <3>1. opened'[t] = opened[t] \cup {s}
      BY <1>p
    <3> QED
      BY <1>4, <2>2, <3>1
  <2>4. Depth(t)' = s
    BY <1>a
  <2>5. Base(t) <= s
    BY <1>4, <2>2
  <2>6. (CHOOSE x \in 0..s : opened'[t] = (x + 1)..s) = Base(t)
    BY <1>4, <2>2, <2>3, <2>5, BaseOfChain
  <2> QED
    BY <2>2, <2>3, <2>4, <2>5, <2>6 DEF Base
<1>c. \A w \in Tasks : Base(w)' = Base(w)
  <2>1. ASSUME NEW w \in Tasks, w # t PROVE Base(w)' = Base(w)
    BY <1>p, <1>a, <2>1 DEF Base
  <2> QED
    BY <1>b, <2>1
<1>2. /\ \A u \in Tasks : Base(u)' = Base(u)
      /\ \A r : Counted(r)' = Counted(r)
  BY <1>p, <1>1, <1>5, <1>c DEF Counted, Alive, Dead
<1>d. \A u \in Tasks : s \notin opened[u]
  BY <1>0, <1>3 DEF Owners
<1>21. ScopeTypes'
  <2>1. state' \in [Scopes -> {"none", "open", "freed"}]
    BY <1>0, <1>u, <1>1, <1>2, <1>3, <1>4, <1>5 DEF Link, With, Goto, InBody, Unlocked, scope_state, errors, Begin, ScopeTypes
  <2>2. child_scopes' \in [Scopes -> SUBSET Scopes]
    BY <1>4, <1>q, <1>r
  <2>3. tpc' \in [Tasks -> Places]
    BY <1>0, <1>u, <1>1, <1>2, <1>3, <1>4, <1>5 DEF Link, With, Goto, InBody, Unlocked, scope_state, errors, Begin, ScopeTypes, Places, Ending, Joining
  <2>4. opened' \in [Tasks -> SUBSET Scopes]
    BY <1>0, <1>u, <1>1, <1>2, <1>3, <1>4, <1>5 DEF Link, With, Goto, InBody, Unlocked, scope_state, errors, Begin, ScopeTypes
  <2> QED
    BY <1>0, <1>u, <2>1, <2>2, <2>3, <2>4 DEF ScopeTypes
<1>22. Chains'
  <2>1. ASSUME NEW w \in Tasks, w # t
        PROVE  /\ Base(w)' \in Nat /\ Base(w)' <= Depth(w)' /\ opened'[w] = (Base(w)' + 1)..Depth(w)'
               /\ w = Opener => Base(w)' = 0
               /\ w # Opener /\ tpc'[w] # "unborn" => Base(w)' # 0
    <3>1. Base(w)' = Base(w) /\ Depth(w)' = Depth(w) /\ opened'[w] = opened[w] /\ tpc'[w] = tpc[w]
      BY <1>p, <1>a, <1>2, <2>1
    <3> QED
      BY <1>0, <3>1 DEF Chains
  <2>2. (t = Opener => Base(t) = 0) /\ (t # Opener => Base(t) # 0)
    BY <1>0, <1>1 DEF Chains
  <2> QED
    BY <1>2, <1>b, <2>1, <2>2 DEF Chains
<1>23. PlacesOK'
  <2>1. opened'[t] # {} /\ \A w \in Tasks : w # t => opened'[w] = opened[w] /\ tpc'[w] = tpc[w]
    BY <1>p
  <2>2. tpc'[t] \in {"inherit", "enter"}
    BY <1>p, <1>5
  <2> QED
    BY <1>0, <1>u, <1>1, <2>1, <2>2 DEF PlacesOK, Ending, Joining
<1>24. Making'
  BY <1>0, <1>u, <1>p, <1>1, <1>2, <1>3, <1>4, <1>5 DEF Making
<1>25. Owners'
  <2>1. ASSUME NEW r \in Scopes PROVE state'[r] = "open" <=> \E w \in Tasks : r \in opened'[w]
    BY <1>0, <1>p DEF Owners
  <2>2. ASSUME NEW v \in Tasks, NEW w \in Tasks, NEW r \in Scopes, r \in opened'[v], r \in opened'[w] PROVE v = w
    BY <1>0, <1>p, <1>d, <2>2 DEF Owners
  <2>3. ASSUME NEW q \in Scopes, state'[q] = "open", NEW r \in 1..q PROVE r \in Scopes /\ state'[r] = "open"
    <3>1. CASE q # s
      <4>1. r \in Scopes /\ state[r] = "open"
        BY <1>0, <1>p, <2>3, <3>1 DEF Owners
      <4> QED
        BY <1>p, <4>1
    <3>2. CASE q = s /\ r = s
      BY <1>p, <3>2
    <3>3. CASE q = s /\ r # s
      <4>1. r \in 1..scope[t] /\ scope[t] # 0
        BY <1>4, <3>3
      <4>2. scope[t] \in Scopes /\ state[scope[t]] = "open"
        BY <1>1, <4>1, InScope
      <4>3. r \in Scopes /\ state[r] = "open"
        BY <1>0, <4>1, <4>2 DEF Owners
      <4> QED
        BY <1>p, <4>3
    <3> QED
      BY <3>1, <3>2, <3>3
  <2>4. ASSUME NEW w \in Tasks, tpc'[w] \notin {"unborn", "wake", "gone"}, Base(w) # 0 PROVE Base(w) \in Scopes /\ state'[Base(w)] = "open"
    <3>1. tpc[w] \notin {"unborn", "wake", "gone"}
      BY <1>1, <1>p, <2>4
    <3> QED
      BY <1>0, <1>p, <2>4, <3>1 DEF Owners
  <2> QED
    BY <1>2, <2>1, <2>2, <2>3, <2>4 DEF Owners
<1>26. Counts'
  <2>1. Counted(s) = {}
    <3>1. ASSUME NEW w \in Counted(s) PROVE FALSE
      <4>1. w \in Tasks /\ Base(w) = s /\ tpc[w] \notin {"unborn", "wake", "gone"}
        BY <3>1 DEF Counted, Alive, Dead
      <4> QED
        BY <1>0, <1>3, <1>4, <4>1 DEF Owners
    <3> QED
      BY <3>1
  <2>2. ASSUME NEW w \in Tasks, tpc'[w] \in {"inherit", "enter", "sync", "unlink", "free"} PROVE Counted(Depth(w))' = {}
    <3>1. CASE w = t
      BY <1>2, <1>b, <2>1, <3>1
    <3>2. CASE w # t
      <4>1. tpc[w] = tpc'[w] /\ Depth(w)' = Depth(w)
        BY <1>p, <1>a, <3>2
      <4>2. Counted(Depth(w)) = {}
        BY <1>0, <2>2, <4>1 DEF Counts
      <4> QED
        BY <1>2, <4>1, <4>2
    <3> QED
      BY <3>1, <3>2
  <2>3. ASSUME NEW w \in Tasks, tpc'[w] \in {"unlink", "free"}, NEW v \in Tasks, tpc'[v] = "release" PROVE scope'[v] # scope'[w]
    BY <1>0, <1>u, <1>1, <1>p, <1>5, <2>3 DEF Counts
  <2>4. \A r \in Scopes : IsFiniteSet(Counted(r))' /\ live_children'[r] = Cardinality(Counted(r))'
    BY <1>0, <1>u, <1>2 DEF Counts
  <2> QED
    BY <2>2, <2>3, <2>4 DEF Counts
<1>27. Locks'
  <2>1. ASSUME NEW w \in Tasks, NEW r \in Scopes PROVE Holds(w, r)' <=> Holds(w, r)
    BY <1>u, <1>p, <1>1, <1>5, <1>n DEF Holds
  <2> QED
    BY <1>0, <1>u, <2>1 DEF Locks
<1>28. Lists'
  <2>1. ASSUME NEW r \in Scopes, NEW c \in child_scopes'[r] PROVE c = r + 1 /\ state'[c] = "open"
    <3>1. CASE c \in child_scopes[r]
      <4>1. c = r + 1 /\ state[c] = "open" /\ c \in Scopes
        BY <1>0, <3>1 DEF Lists, ScopeTypes
      <4> QED
        BY <1>p, <4>1
    <3>2. CASE c = s /\ r = scope[t]
      BY <1>4, <1>p, <3>2
    <3> QED
      BY <1>p, <2>1, <3>1, <3>2
  <2>2. ASSUME NEW w \in Tasks, tpc'[w] = "free", NEW r \in Scopes PROVE scope[w] \notin child_scopes'[r]
    <3>1. tpc[w] = "free"
      BY <1>p, <1>5, <2>2
    <3>2. scope[w] \in opened[w]
      BY <1>0, <3>1, Owns DEF PlacesOK, Joining, Depth
    <3>3. scope[w] # s
      BY <1>d, <3>2
    <3>4. scope[w] \notin child_scopes[r] /\ child_scopes'[r] \subseteq child_scopes[r] \cup {s}
      BY <1>0, <1>p, <3>1 DEF Lists
    <3> QED
      BY <3>3, <3>4
  <2>3. \A r \in Scopes : \A v \in kids[r] : tpc'[v] # "done" /\ \A w \in Tasks : tpc'[w] = "register" => arg[w] # v
    BY <1>0, <1>k, <1>p, <1>1, <1>5 DEF Lists
  <2> QED
    BY <1>0, <1>u, <1>2, <2>1, <2>2, <2>3 DEF Lists
<1>29. Calls'
  <2>1. ASSUME NEW w \in Tasks, NEW i \in DOMAIN frames[w] PROVE Call(w, i)'
    <3>1. w # t
      BY <1>n, <2>1
    <3>2. Call(w, i) /\ frames[w][i] \in CallFrame
      BY <1>0 DEF Calls, ScopeTypes
    <3>3. frames[w][i].s \in Scopes
      BY <3>2 DEF CallFrame
    <3>4. \A r \in Scopes : child_scopes[r] \subseteq child_scopes'[r]
      BY <1>p
    <3>5. child_scopes[frames[w][i].s] \subseteq child_scopes'[frames[w][i].s] /\ opened'[w] = opened[w]
      BY <1>p, <3>1, <3>3, <3>4
    <3> QED
      BY <1>u, <3>2, <3>4, <3>5 DEF Call
  <2> QED
    BY <1>0, <1>u, <1>p, <1>1, <1>5, <1>n, <2>1 DEF Calls
<1>30. Parents'
  <2>1. \A w \in Tasks : \A q \in {"swap", "parked", "wake", "release"} : (tpc'[w] = q <=> tpc[w] = q) /\ (tpc[w] = q => scope'[w] = scope[w])
    BY <1>u, <1>1, <1>5, <1>p
  <2>2. ASSUME NEW r \in Scopes PROVE Waited(r)'
    <3>1. Waited(r) /\ (parent[r] # Nobody => parent[r] \in Tasks) /\ (Counted(r)' = {} => Counted(r) = {})
      BY <1>0, <1>k, <1>2 DEF Parents
    <3> QED
      BY <1>u, <2>1, <3>1 DEF Waited
  <2>3. ASSUME NEW w \in Tasks PROVE Woken(w)'
    <3>1. Woken(w)
      BY <1>0 DEF Parents
    <3> QED
      BY <1>u, <2>1, <3>1 DEF Woken
  <2> QED
    BY <2>2, <2>3 DEF Parents
<1>31. Errors'
  BY <1>0, <1>u, <1>p, <1>1, <1>2, <1>3, <1>4, <1>5 DEF Errors
<1> QED
  BY <1>21, <1>22, <1>23, <1>24, <1>25, <1>26, <1>27, <1>28, <1>29, <1>30, <1>31 DEF JInv

LEMMA FreeScopeStep ==
  ASSUME JInv, NEW t \in Tasks, FreeScope(t)
  PROVE  JInv'
<1>0. ScopeTypes /\ Chains /\ PlacesOK /\ Making /\ Owners /\ Counts /\ Locks /\ Lists /\ Calls /\ Parents /\ Errors
  BY DEF JInv
<1> DEFINE s == scope[t]
<1>1. tpc[t] = "free"
  BY DEF FreeScope
<1>3. Depth(t) = s /\ s \in Scopes /\ s \in opened[t] /\ s \in Nat /\ s # 0
  BY <1>0, <1>1, Owns, ScopeAssumption DEF Depth, PlacesOK, Joining
<1>4. Counted(s) = {} /\ \A u \in Tasks : tpc[u] = "release" => scope[u] # s
  BY <1>0, <1>1, <1>3 DEF Counts
<1>5. \A r \in Scopes : r > s => state[r] # "open"
  BY <1>3, <1>4, Alone
<1>n. frames[t] = <<>> /\ DOMAIN frames[t] = {}
  BY <1>0, <1>1 DEF Calls
<1>u. scancelled' = scancelled /\ slock' = slock /\ live_children' = live_children /\ parent' = parent /\ kids' = kids /\ child_scopes' = child_scopes /\ actors' = actors /\ has_error' = has_error /\ error_val' = error_val /\ flag' = flag /\ shut' = shut /\ arg' = arg /\ frames' = frames /\ thread' = thread
  BY DEF FreeScope, With, Goto, InBody, Unlocked, scope_state, errors, Begin
<1>p. /\ \A u \in Tasks : tpc'[u] = IF u = t THEN (IF s = 1 THEN "gone" ELSE "body") ELSE tpc[u]
      /\ \A r \in Scopes : state'[r] = IF r = s THEN "freed" ELSE state[r]
      /\ \A u \in Tasks : opened'[u] = IF u = t THEN opened[t] \ {s} ELSE opened[u]
      /\ \A u \in Tasks : scope'[u] = IF u = t THEN s - 1 ELSE scope[u]
  BY <1>0, <1>1, <1>3 DEF FreeScope, With, Goto, InBody, Unlocked, scope_state, errors, Begin, ScopeTypes
<1>k. \A r \in Scopes : kids[r] \subseteq Tasks /\ (parent[r] # Nobody => parent[r] \in Tasks)
  BY <1>0 DEF ScopeTypes
<1>a. \A w \in Tasks : Depth(w)' = IF w = t THEN s - 1 ELSE Depth(w)
  BY <1>u, <1>p, <1>1 DEF Depth
<1>b. /\ Base(t)' = Base(t) /\ opened'[t] = (Base(t) + 1)..(s - 1) /\ Base(t) \in Nat /\ Base(t) <= s - 1 /\ Depth(t)' = s - 1
  <2>2. Base(t) \in Nat /\ Base(t) < s /\ opened[t] = (Base(t) + 1)..s
    <3>1. Base(t) \in Nat /\ opened[t] = (Base(t) + 1)..s
      BY <1>0, <1>3 DEF Chains
    <3> QED
      BY <1>3, <3>1
  <2>3. opened'[t] = (Base(t) + 1)..(s - 1)
    <3>1. opened'[t] = opened[t] \ {s}
      BY <1>p
    <3> QED
      BY <1>3, <2>2, <3>1
  <2>4. Depth(t)' = s - 1
    BY <1>a
  <2>5. Base(t) <= s - 1 /\ s - 1 \in Nat
    BY <1>3, <2>2
  <2>6. (CHOOSE x \in 0..(s - 1) : opened'[t] = (x + 1)..(s - 1)) = Base(t)
    BY <2>2, <2>3, <2>5, BaseOfChain
  <2> QED
    BY <2>2, <2>3, <2>4, <2>5, <2>6 DEF Base
<1>c. \A w \in Tasks : Base(w)' = Base(w)
  <2>1. ASSUME NEW w \in Tasks, w # t PROVE Base(w)' = Base(w)
    BY <1>p, <1>a, <2>1 DEF Base
  <2> QED
    BY <1>b, <2>1
<1>o. s = 1 => t = Opener
  <2>1. s = 1 => Base(t) = 0
    BY <1>3, <1>b
  <2> QED
    BY <1>0, <1>1, <2>1 DEF Chains
<1>2. /\ \A u \in Tasks : Base(u)' = Base(u)
      /\ \A r : Counted(r)' = Counted(r)
  BY <1>p, <1>1, <1>o, <1>c DEF Counted, Alive, Dead
<1>d. \A u \in Tasks : s \in opened[u] => u = t
  BY <1>0, <1>3 DEF Owners
<1>e. s = 1 => opened'[t] = {}
  BY <1>b, <1>3
<1>21. ScopeTypes'
  <2>1. state' \in [Scopes -> {"none", "open", "freed"}]
    BY <1>0, <1>u, <1>1, <1>2, <1>3 DEF FreeScope, With, Goto, InBody, Unlocked, scope_state, errors, Begin, ScopeTypes
  <2>2. tpc' \in [Tasks -> Places]
    BY <1>0, <1>u, <1>1, <1>2, <1>3, <1>p DEF FreeScope, With, Goto, InBody, Unlocked, scope_state, errors, Begin, ScopeTypes, Places, Ending, Joining
  <2>3. scope' \in [Tasks -> Nat]
    BY <1>0, <1>3 DEF FreeScope, With, ScopeTypes
  <2>4. opened' \in [Tasks -> SUBSET Scopes]
    BY <1>0, <1>u, <1>1, <1>2, <1>3 DEF FreeScope, With, Goto, InBody, Unlocked, scope_state, errors, Begin, ScopeTypes
  <2> QED
    BY <1>0, <1>u, <2>1, <2>2, <2>3, <2>4 DEF ScopeTypes
<1>22. Chains'
  <2>1. ASSUME NEW w \in Tasks, w # t
        PROVE  /\ Base(w)' \in Nat /\ Base(w)' <= Depth(w)' /\ opened'[w] = (Base(w)' + 1)..Depth(w)'
               /\ w = Opener => Base(w)' = 0
               /\ w # Opener /\ tpc'[w] # "unborn" => Base(w)' # 0
    <3>1. Base(w)' = Base(w) /\ Depth(w)' = Depth(w) /\ opened'[w] = opened[w] /\ tpc'[w] = tpc[w]
      BY <1>p, <1>a, <1>2, <2>1
    <3> QED
      BY <1>0, <3>1 DEF Chains
  <2>2. (t = Opener => Base(t) = 0) /\ (t # Opener => Base(t) # 0)
    BY <1>0, <1>1 DEF Chains
  <2> QED
    BY <1>2, <1>b, <2>1, <2>2 DEF Chains
<1>23. PlacesOK'
  BY <1>0, <1>u, <1>p, <1>1, <1>2, <1>3, <1>e, <1>o DEF PlacesOK, Ending, Joining
<1>24. Making'
  BY <1>0, <1>u, <1>p, <1>1, <1>2, <1>3 DEF Making
<1>25. Owners'
  <2>1. ASSUME NEW r \in Scopes PROVE state'[r] = "open" <=> \E w \in Tasks : r \in opened'[w]
    BY <1>0, <1>p, <1>d DEF Owners
  <2>2. ASSUME NEW v \in Tasks, NEW w \in Tasks, NEW r \in Scopes, r \in opened'[v], r \in opened'[w] PROVE v = w
    BY <1>0, <1>p, <1>d, <2>2 DEF Owners
  <2>3. ASSUME NEW q \in Scopes, state'[q] = "open", NEW r \in 1..q PROVE r \in Scopes /\ state'[r] = "open"
    <3>1. q # s /\ state[q] = "open" /\ q \in Nat
      BY <1>p, <2>3, ScopeAssumption
    <3>2. ~(q > s)
      BY <1>5, <3>1
    <3>3. r \in Scopes /\ state[r] = "open" /\ r # s
      BY <1>0, <1>3, <3>1, <3>2 DEF Owners
    <3> QED
      BY <1>p, <3>3
  <2>4. ASSUME NEW w \in Tasks, tpc'[w] \notin {"unborn", "wake", "gone"}, Base(w) # 0 PROVE Base(w) \in Scopes /\ state'[Base(w)] = "open"
    <3>1. tpc[w] \notin {"unborn", "wake", "gone"}
      BY <1>1, <1>p, <2>4
    <3>2. Base(w) \in Scopes /\ state[Base(w)] = "open"
      BY <1>0, <2>4, <3>1 DEF Owners
    <3>3. Base(w) # s
      <4>1. CASE tpc[w] = "release"
        BY <1>0, <1>4, <4>1, Leaf DEF PlacesOK, Ending, Depth
      <4>2. CASE tpc[w] # "release"
        BY <1>0, <1>4, <2>4, <3>1, <4>2 DEF Counted, Alive, Dead, Chains
      <4> QED
        BY <4>1, <4>2
    <3> QED
      BY <1>p, <3>2, <3>3
  <2> QED
    BY <1>2, <2>1, <2>2, <2>3, <2>4 DEF Owners
<1>26. Counts'
  <2>2. ASSUME NEW w \in Tasks, tpc'[w] \in {"inherit", "enter", "sync", "unlink", "free"} PROVE Counted(Depth(w))' = {}
    <3>1. w # t /\ tpc[w] = tpc'[w] /\ Depth(w)' = Depth(w)
      BY <1>p, <1>a, <2>2
    <3>2. Counted(Depth(w)) = {}
      BY <1>0, <2>2, <3>1 DEF Counts
    <3> QED
      BY <1>2, <3>1, <3>2
  <2>3. ASSUME NEW w \in Tasks, tpc'[w] \in {"unlink", "free"}, NEW v \in Tasks, tpc'[v] = "release" PROVE scope'[v] # scope'[w]
    BY <1>0, <1>1, <1>p, <2>3 DEF Counts
  <2>4. \A r \in Scopes : IsFiniteSet(Counted(r))' /\ live_children'[r] = Cardinality(Counted(r))'
    BY <1>0, <1>u, <1>2 DEF Counts
  <2> QED
    BY <2>2, <2>3, <2>4 DEF Counts
<1>27. Locks'
  <2>1. ASSUME NEW w \in Tasks, NEW r \in Scopes PROVE Holds(w, r)' <=> Holds(w, r)
    BY <1>u, <1>p, <1>1, <1>n DEF Holds
  <2> QED
    BY <1>0, <1>u, <2>1 DEF Locks
<1>28. Lists'
  <2>1. ASSUME NEW r \in Scopes, NEW c \in child_scopes[r] PROVE c = r + 1 /\ state'[c] = "open"
    <3>1. c = r + 1 /\ state[c] = "open" /\ c \in Scopes /\ c # s
      BY <1>0, <1>1 DEF Lists, ScopeTypes
    <3> QED
      BY <1>p, <3>1
  <2>2. ASSUME NEW w \in Tasks, tpc'[w] = "free", NEW r \in Scopes PROVE scope'[w] \notin child_scopes[r]
    BY <1>0, <1>p, <2>2 DEF Lists
  <2>3. \A r \in Scopes : \A v \in kids[r] : tpc'[v] # "done" /\ \A w \in Tasks : tpc'[w] = "register" => arg[w] # v
    BY <1>0, <1>k, <1>p, <1>1 DEF Lists
  <2> QED
    BY <1>0, <1>u, <1>2, <2>1, <2>2, <2>3 DEF Lists
<1>29. Calls'
  <2>1. ASSUME NEW w \in Tasks, NEW i \in DOMAIN frames[w] PROVE Call(w, i)'
    <3>1. w # t
      BY <1>n, <2>1
    <3>2. Call(w, i)
      BY <1>0 DEF Calls
    <3> QED
      BY <1>u, <1>p, <3>1, <3>2 DEF Call
  <2> QED
    BY <1>0, <1>u, <1>p, <1>1, <1>n, <2>1 DEF Calls
<1>30. Parents'
  <2>1. \A w \in Tasks : \A q \in {"swap", "parked", "wake", "release"} : (tpc'[w] = q <=> tpc[w] = q) /\ (tpc[w] = q => scope'[w] = scope[w])
    BY <1>1, <1>p
  <2>2. ASSUME NEW r \in Scopes PROVE Waited(r)'
    <3>1. Waited(r) /\ (parent[r] # Nobody => parent[r] \in Tasks) /\ (Counted(r)' = {} => Counted(r) = {})
      BY <1>0, <1>k, <1>2 DEF Parents
    <3> QED
      BY <1>u, <2>1, <3>1 DEF Waited
  <2>3. ASSUME NEW w \in Tasks PROVE Woken(w)'
    <3>1. Woken(w)
      BY <1>0 DEF Parents
    <3> QED
      BY <1>u, <2>1, <3>1 DEF Woken
  <2> QED
    BY <2>2, <2>3 DEF Parents
<1>31. Errors'
  BY <1>0, <1>u, <1>p, <1>1, <1>2, <1>3 DEF Errors
<1> QED
  BY <1>21, <1>22, <1>23, <1>24, <1>25, <1>26, <1>27, <1>28, <1>29, <1>30, <1>31 DEF JInv

-----------------------------------------------------------------------------
(* The join: the invariant holds, and it implies JoinExact *)

LEMMA JoinInit ==
  ASSUME ScopeInit
  PROVE  JInv
<1>0. ScopeStart("body") /\ thread \in BOOLEAN
  BY DEF ScopeInit
<1>1. ScopeTypes
  <2>1. <<>> \in Seq(CallFrame)
    OBVIOUS
  <2>2. tpc \in [Tasks -> Places] /\ scope \in [Tasks -> Nat] /\ frames \in [Tasks -> Seq(CallFrame)]
    BY <1>0, <2>1 DEF ScopeStart, Places
  <2> QED
    BY <1>0, <2>2 DEF ScopeStart, ScopeTypes
<1>2. \A t \in Tasks : /\ opened[t] = {} /\ Depth(t) = 0 /\ scope[t] = 0 /\ frames[t] = <<>> /\ DOMAIN frames[t] = {} /\ ~flag[t]
                       /\ tpc[t] = IF t = Opener THEN "body" ELSE "unborn"
  <2>1. \A t \in Tasks : /\ opened[t] = {} /\ scope[t] = 0 /\ frames[t] = <<>> /\ ~flag[t]
                         /\ tpc[t] = IF t = Opener THEN "body" ELSE "unborn"
    BY <1>0 DEF ScopeStart
  <2> QED
    BY <2>1 DEF Depth
<1>3. \A t \in Tasks : Base(t) = 0
  <2>1. ASSUME NEW t \in Tasks PROVE Base(t) = 0
    <3>1. opened[t] = (0 + 1)..0
      BY <1>2
    <3>2. (CHOOSE x \in 0..0 : opened[t] = (x + 1)..0) = 0
      BY <3>1, BaseOfChain
    <3> QED
      BY <1>2, <3>2 DEF Base
  <2> QED
    BY <2>1
<1>4. \A s : Counted(s) = {}
  BY <1>2 DEF Counted, Alive, Dead
<1>5. Chains
  <2>1. ASSUME NEW t \in Tasks PROVE opened[t] = (Base(t) + 1)..Depth(t) /\ Base(t) \in Nat /\ Base(t) <= Depth(t)
    <3>1. opened[t] = {} /\ Base(t) = 0 /\ Depth(t) = 0
      BY <1>2, <1>3
    <3>2. (0 + 1)..0 = {} /\ 0 <= 0
      OBVIOUS
    <3> QED
      BY <3>1, <3>2
  <2>2. ASSUME NEW t \in Tasks, t # Opener PROVE tpc[t] = "unborn"
    BY <1>2, <2>2
  <2> QED
    BY <1>3, <2>1, <2>2 DEF Chains
<1>6. PlacesOK
  BY <1>2, ScopeAssumption DEF PlacesOK, Ending, Joining
<1>7. Making
  BY <1>2 DEF Making
<1>8. Owners
  BY <1>0, <1>2, <1>3 DEF Owners, ScopeStart
<1>9. Counts
  BY <1>0, <1>2, <1>4, FS_EmptySet DEF Counts, ScopeStart
<1>10. Locks
  BY <1>0, <1>2, ScopeAssumption DEF Locks, Holds, ScopeStart
<1>11. Lists
  BY <1>0, <1>2 DEF Lists, ScopeStart
<1>12. Calls
  BY <1>2 DEF Calls
<1>13. Parents
  BY <1>0, <1>2 DEF Parents, Waited, Woken, ScopeStart
<1>14. Errors
  BY <1>0 DEF Errors, ScopeStart
<1> QED
  BY <1>1, <1>5, <1>6, <1>7, <1>8, <1>9, <1>10, <1>11, <1>12, <1>13, <1>14 DEF JInv

LEMMA JoinStep ==
  ASSUME JInv, [ScopeNext]_scope_vars
  PROVE  JInv'
<1>1. ASSUME NEW t \in Tasks, NEW u \in Tasks, Dispatch(t, u) PROVE JInv'
  BY <1>1, DispatchStep
<1>2. ASSUME NEW t \in Tasks, Link(t) \/ Enter(t) \/ Register(t) \/ AddActor(t) \/ Wait(t) \/ Released(t) \/ EndBody(t) PROVE JInv'
  BY <1>2, LinkStep, EnterStep, RegisterStep, AddActorStep, WaitStep, ReleasedStep, EndBodyStep
<1>3. ASSUME NEW t \in Tasks, Stop(t) \/ RecordClaim(t) \/ RecordStore(t) \/ Unwind(t) PROVE JInv'
  BY <1>3, StopStep, RecordClaimStep, RecordStoreStep, UnwindStep
<1>4. ASSUME NEW t \in Tasks, CancelFlag(t) \/ CancelMark(t) \/ CancelNested(t) PROVE JInv'
  BY <1>4, CancelFlagStep, CancelMarkStep, CancelNestedStep
<1>5. ASSUME NEW t \in Tasks, DestroyActor(t) \/ Unregister(t) \/ ChildDone(t) \/ Release(t) \/ WakeParent(t) PROVE JInv'
  BY <1>5, DestroyActorStep, UnregisterStep, ChildDoneStep, ReleaseStep, WakeParentStep
<1>6. ASSUME NEW t \in Tasks,
             StopActors(t) \/ JoinScope(t) \/ JoinSync(t) \/ JoinPark(t) \/ JoinSwap(t) \/ Unlink(t) \/ FreeScope(t)
      PROVE  JInv'
  BY <1>6, StopActorsStep, JoinScopeStep, JoinSyncStep, JoinParkStep, JoinSwapStep, UnlinkStep, FreeScopeStep
<1>7. ASSUME UNCHANGED scope_vars PROVE JInv'
  <2>1. /\ state' = state /\ scancelled' = scancelled /\ slock' = slock /\ live_children' = live_children /\ parent' = parent
        /\ kids' = kids /\ child_scopes' = child_scopes /\ actors' = actors /\ has_error' = has_error /\ error_val' = error_val
        /\ tpc' = tpc /\ scope' = scope /\ opened' = opened /\ flag' = flag /\ shut' = shut /\ arg' = arg /\ frames' = frames
        /\ thread' = thread
    BY <1>7 DEF scope_vars, scope_state, errors, task_state
  <2>2. /\ \A u \in Tasks : Depth(u)' = Depth(u) /\ Base(u)' = Base(u)
        /\ \A s : Counted(s)' = Counted(s)
    BY <2>1, Moved
  <2>3. ScopeTypes' /\ Chains' /\ PlacesOK' /\ Making'
    BY <2>1, <2>2 DEF JInv, ScopeTypes, Chains, PlacesOK, Making
  <2>4. Owners' /\ Counts' /\ Lists'
    BY <2>1, <2>2 DEF JInv, Owners, Counts, Lists, ScopeTypes
  <2>5. Locks' /\ Calls' /\ Errors'
    BY <2>1 DEF JInv, Locks, Holds, Calls, Call, Errors
  <2>6. Parents'
    BY <2>1, <2>2 DEF JInv, Parents, Waited, Woken
  <2> QED
    BY <2>3, <2>4, <2>5, <2>6 DEF JInv
<1> QED
  BY <1>1, <1>2, <1>3, <1>4, <1>5, <1>6, <1>7 DEF ScopeNext

\* A scope that is being cancelled is there.
LEMMA CalledOpen ==
  ASSUME JInv, NEW t \in Tasks, NEW i \in DOMAIN frames[t]
  PROVE  frames[t][i].s \in Scopes /\ state[frames[t][i].s] = "open"
<1>0. ScopeTypes /\ Owners /\ Lists /\ Calls
  BY DEF JInv
<1>1. frames[t] # <<>> /\ frames[t] \in Seq(CallFrame)
  BY <1>0 DEF ScopeTypes
<1>2. i \in 1..Len(frames[t]) /\ tpc[t] = "cancel"
  BY <1>1, TopFrame
<1>3. frames[t][i].s \in Scopes /\ frames[t][i].s \in Nat /\ Call(t, i)
  BY <1>1, <1>2, TopFrame
<1>4. CASE i # Len(frames[t])
  BY <1>0, <1>3, <1>4 DEF Call, Lists
<1>5. CASE i = Len(frames[t])
  <2>1. frames[t][i].s <= scope[t] /\ scope[t] \in Nat /\ frames[t][i].s # 0
    BY <1>0, <1>3, <1>5, ScopeAssumption DEF Call, ScopeTypes
  <2>2. scope[t] \in Scopes /\ state[scope[t]] = "open"
    BY <1>2, <1>3, <2>1, InScope
  <2>3. frames[t][i].s \in 1..scope[t]
    BY <1>3, <2>1
  <2> QED
    BY <1>0, <2>2, <2>3 DEF Owners
<1> QED
  BY <1>3, <1>4, <1>5

LEMMA InvOutlive ==
  ASSUME JInv
  PROVE  ScopesOutlive
<1>0. ScopeTypes /\ Chains /\ PlacesOK /\ Owners /\ Counts /\ Locks /\ Lists /\ Errors
  BY DEF JInv
<1>1. ASSUME NEW t \in Tasks, tpc[t] = "free", has_error[scope[t]], error_val[scope[t]] = Nobody PROVE FALSE
  <2>1. Depth(t) = scope[t] /\ scope[t] \in Scopes /\ Counted(scope[t]) = {}
    BY <1>0, <1>1, Owns DEF Depth, PlacesOK, Joining, Counts
  <2>2. PICK u \in Tasks : tpc[u] = "store" /\ scope[u] = scope[t]
    BY <1>0, <1>1, <2>1 DEF Errors
  <2>3. Base(u) = scope[t] /\ Base(u) # 0
    BY <1>0, <2>2, Leaf DEF PlacesOK, Ending, Depth
  <2>4. u \in Counted(scope[t])
    BY <1>0, <2>2, <2>3 DEF Chains, Counted, Alive, Dead
  <2> QED
    BY <2>1, <2>4
<1>2. ASSUME NEW s \in Scopes, state[s] = "freed" PROVE Unlocked(s) /\ kids[s] = {} /\ child_scopes[s] = {}
  <2>1. ASSUME NEW t \in Tasks, slock[s] = t PROVE FALSE
    <3>1. Holds(t, s) /\ s # 0
      BY <1>0, <2>1, ScopeAssumption DEF Locks
    <3>2. CASE tpc[t] \in {"release", "swap"} /\ scope[t] = s
      BY <1>2, <3>1, <3>2, InScope
    <3>3. CASE \E i \in DOMAIN frames[t] : frames[t][i].s = s /\ frames[t][i].at = "nested"
      BY <1>2, <3>3, CalledOpen
    <3> QED
      BY <3>1, <3>2, <3>3 DEF Holds
  <2>2. ASSUME NEW u \in kids[s] PROVE FALSE
    <3>1. u \in Tasks /\ Base(u) = s /\ tpc[u] \notin {"unborn", "wake", "gone"}
      BY <1>0, <2>2 DEF Lists, Counted, Alive, Dead
    <3> QED
      BY <1>0, <1>2, <3>1, ScopeAssumption DEF Owners
  <2>3. ASSUME NEW c \in child_scopes[s] PROVE FALSE
    <3>1. c = s + 1 /\ state[c] = "open" /\ c \in Scopes /\ s \in Nat /\ s # 0
      BY <1>0, <2>3, ScopeAssumption DEF Lists, ScopeTypes
    <3>2. s \in 1..c
      BY <3>1
    <3> QED
      BY <1>0, <1>2, <3>1, <3>2 DEF Owners
  <2>4. slock[s] \in Tasks \cup {Nobody}
    BY <1>0 DEF ScopeTypes
  <2> QED
    BY <2>1, <2>2, <2>3, <2>4 DEF Unlocked
<1> QED
  BY <1>1, <1>2, InScope, CalledOpen DEF ScopesOutlive

\* A set of numbers from a finite set has a greatest element.
LEMMA Greatest ==
  ASSUME NEW S, S \subseteq Nat, IsFiniteSet(S), NEW T, T \subseteq S, T # {}
  PROVE  \E x \in T : \A y \in T : y <= x
<1> DEFINE Above(x) == {r \in S : r > x}
           C == {Cardinality(Above(x)) : x \in T}
<1>1. \A x \in T : IsFiniteSet(Above(x)) /\ Cardinality(Above(x)) \in Nat
  BY FS_Subset, FS_CardinalityType
<1>2. C \subseteq Nat /\ C # {}
  BY <1>1
<1>3. PICK n \in C : \A k \in C : ~(<<k, n>> \in OpToRel(<, Nat))
  <2> HIDE DEF C
  <2> QED
    BY <1>2, NatLessThanWellFounded, WFMin, Zenon
<1>4. \A k \in C : ~(k < n)
  <2>1. \A k, m \in Nat : k < m => <<k, m>> \in OpToRel(<, Nat)
    BY DEF OpToRel
  <2> QED
    BY <1>2, <1>3, <2>1
<1>5. PICK x \in T : n = Cardinality(Above(x))
  OBVIOUS
<1>6. ASSUME NEW y \in T, y > x PROVE FALSE
  <2>1. x \in Nat /\ y \in Nat /\ y \in S
    OBVIOUS
  <2>2. Above(y) \subseteq Above(x) /\ y \in Above(x) /\ y \notin Above(y)
    <3>1. \A r \in S : r \in Nat
      OBVIOUS
    <3>2. \A r \in S : r > y => r > x
      BY <1>6, <2>1, <3>1
    <3>3. Above(y) \subseteq Above(x)
      BY <3>2
    <3>4. y \in Above(x)
      BY <1>6, <2>1
    <3>5. ~(y > y)
      BY <2>1
    <3> QED
      BY <3>3, <3>4, <3>5
  <2>3. Cardinality(Above(y)) <= Cardinality(Above(x)) /\ (Cardinality(Above(x)) = Cardinality(Above(y)) => Above(x) = Above(y))
    <3> HIDE DEF Above
    <3> QED
      BY <1>1, <2>2, FS_Subset
  <2>4. Cardinality(Above(y)) < n /\ Cardinality(Above(y)) \in C
    <3>1. Cardinality(Above(y)) # Cardinality(Above(x))
      BY <2>2, <2>3
    <3> HIDE DEF Above
    <3> QED
      BY <1>1, <1>5, <2>3, <3>1
  <2> QED
    BY <1>4, <2>4
<1>7. \A y \in T : y <= x
  <2>1. ASSUME NEW y \in T PROVE y <= x
    <3>1. y \in Nat /\ x \in Nat /\ ~(y > x)
      BY <1>6
    <3> QED
      BY <3>1
  <2> QED
    BY <2>1
<1> QED
  BY <1>7

\* The innermost join that waits has a child, and that child waits for something
\* else than a join.
LEMMA InvReturn ==
  ASSUME JInv
  PROVE  JoinsReturn
<1>0. ScopeTypes /\ Chains /\ PlacesOK /\ Counts /\ Parents
  BY DEF JInv
<1>1. SUFFICES ASSUME Quiet, NEW t \in Tasks, tpc[t] \in {"parked", "join"}
               PROVE  \E u \in Tasks : scope[u] >= scope[t] /\ tpc[u] = "wait"
  BY DEF JoinsReturn
<1> DEFINE T == {r \in Scopes : r >= scope[t] /\ \E w \in Tasks : tpc[w] \in {"parked", "join"} /\ scope[w] = r}
<1>2. ASSUME NEW w \in Tasks, tpc[w] \in {"parked", "join"}
      PROVE  scope[w] \in Scopes /\ scope[w] \in Nat /\ Depth(w) = scope[w] /\ opened[w] # {}
  BY <1>0, <1>2, Owns, ScopeAssumption DEF PlacesOK, Joining, Depth
<1>3. scope[t] \in T
  <2>1. scope[t] >= scope[t] /\ scope[t] \in Scopes
    BY <1>1, <1>2
  <2> QED
    BY <1>1, <2>1
<1>4. PICK r \in T : \A q \in T : q <= r
  <2>1. Scopes \subseteq Nat /\ T \subseteq Scopes /\ T # {}
    BY <1>3, ScopeAssumption
  <2> HIDE DEF T
  <2> QED
    BY <2>1, Greatest, ScopeAssumption
<1>5. PICK w \in Tasks : tpc[w] \in {"parked", "join"} /\ scope[w] = r
  OBVIOUS
<1>6. r \in Scopes /\ r \in Nat /\ r >= scope[t] /\ scope[t] \in Nat
  BY <1>1, <1>2, <1>5
<1>7. Counted(r) # {}
  <2>1. live_children[r] = Cardinality(Counted(r))
    BY <1>0, <1>6 DEF Counts
  <2>2. CASE tpc[w] = "join"
    <3>1. live_children[r] # 0
      BY <1>1, <1>5, <2>2 DEF Quiet
    <3> QED
      BY <2>1, <3>1, FS_EmptySet
  <2>3. CASE tpc[w] = "parked"
    <3>1. parent[r] = w
      BY <1>0, <1>1, <1>5, <2>3 DEF Parents, Woken, Quiet
    <3>2. \A u \in Tasks : tpc[u] # "release"
      BY <1>1 DEF Quiet
    <3> QED
      BY <1>0, <1>6, <3>1, <3>2, ScopeAssumption DEF Parents, Waited
  <2> QED
    BY <1>5, <2>2, <2>3
<1>8. PICK u \in Tasks : u # Opener /\ Alive(u) /\ Base(u) = r
  BY <1>7 DEF Counted
<1>9. Base(u) <= Depth(u) /\ Depth(u) \in Nat /\ Base(u) \in Nat
  <2>1. Depth(u) \in Nat
    BY <1>0 DEF Depth, ScopeTypes
  <2> QED
    BY <1>0, <2>1 DEF Chains
<1>10. tpc[u] \in {"parked", "wait"}
  BY <1>1, <1>8 DEF Quiet, Alive, Dead
<1>11. CASE tpc[u] = "parked"
  <2>1. scope[u] \in Scopes /\ scope[u] \in Nat /\ Depth(u) = scope[u] /\ opened[u] # {}
    BY <1>2, <1>11
  <2>2. opened[u] = (Base(u) + 1)..Depth(u)
    BY <1>0 DEF Chains
  <2>3. Base(u) < Depth(u)
    BY <1>9, <2>1, <2>2
  <2>4. scope[u] > r /\ scope[u] >= scope[t]
    BY <1>6, <1>8, <1>9, <2>1, <2>3
  <2>5. scope[u] \in T
    BY <1>11, <2>1, <2>4
  <2> QED
    BY <1>4, <1>6, <2>1, <2>4, <2>5
<1>12. CASE tpc[u] = "wait"
  <2>1. Depth(u) = scope[u]
    BY <1>12 DEF Depth
  <2>2. scope[u] >= scope[t]
    BY <1>6, <1>8, <1>9, <2>1
  <2> QED
    BY <1>12, <2>2
<1> QED
  BY <1>10, <1>11, <1>12

\* For any number of tasks, actors and nested scopes, a scope is freed only when
\* nobody is in it, is cancelling it or still touches its lock (jinn_scope_join and
\* jinn_scope_child_done), its error has been stored, and a join that does not
\* return waits for a child that waits for something else.
THEOREM ScopeJoinExact == ScopeSpec => []JoinExact
<1>1. ScopeInit => JInv
  BY JoinInit
<1>2. JInv /\ [ScopeNext]_scope_vars => JInv'
  BY JoinStep
<1>3. JInv => JoinExact
  BY InvOutlive, InvReturn DEF JoinExact
<1> QED
  BY <1>1, <1>2, <1>3, PTL DEF ScopeSpec

\* The types of scopes and tasks, of their locks, counts and calls.
THEOREM ScopeTypeOK == ScopeSpec => []ScopeTypes
<1>1. ScopeInit => JInv
  BY JoinInit
<1>2. JInv /\ [ScopeNext]_scope_vars => JInv'
  BY JoinStep
<1>3. JInv => ScopeTypes
  BY DEF JInv
<1> QED
  BY <1>1, <1>2, <1>3, PTL DEF ScopeSpec

-----------------------------------------------------------------------------
(* The cancellation *)

\* A step that neither cancels a scope nor adds a child, and that leaves the calls of
\* jinn_scope_cancel alone or begins one.
LEMMA Still ==
  ASSUME JInv, Flagged, Reached, scancelled' = scancelled,
         \A s \in Scopes : kids'[s] \subseteq kids[s] /\ child_scopes'[s] \subseteq child_scopes[s],
         \A u \in Tasks : flag[u] => flag'[u],
         \A u \in Tasks : \/ frames'[u] = frames[u]
                          \/ frames[u] = <<>> /\ \A i \in DOMAIN frames'[u] : frames'[u][i].at = "flag",
         \A u \in Tasks : tpc[u] = "inherit" => tpc'[u] = "inherit" /\ scope'[u] = scope[u]
  PROVE  Flagged' /\ Reached'
<1>1. \A u \in Tasks : frames[u] = <<>> => DOMAIN frames[u] = {}
  OBVIOUS
<1>2. Flagged'
  BY DEF Flagged
<1>3. \A u \in Tasks : \A i \in DOMAIN frames[u] : frames'[u] = frames[u]
  BY <1>1
<1>4. \A s \in Scopes : Pending(s) => Pending(s)'
  BY <1>3 DEF Pending
<1>5. \A c \in Scopes : Descending(c) => Descending(c)'
  BY <1>3 DEF Descending
<1>6. \A s \in Scopes : kids[s] \subseteq Tasks /\ child_scopes[s] \subseteq Scopes
  BY DEF JInv, ScopeTypes
<1>7. ASSUME NEW s \in Scopes, scancelled'[s], ~Pending(s)', NEW u \in kids'[s] PROVE flag'[u]
  BY <1>4, <1>6, <1>7 DEF Reached
<1>8. ASSUME NEW s \in Scopes, scancelled'[s], ~Pending(s)', NEW c \in child_scopes'[s]
      PROVE  scancelled'[c] \/ Descending(c)' \/ \E t \in Tasks : tpc'[t] = "inherit" /\ scope'[t] = s
  BY <1>4, <1>5, <1>6, <1>8 DEF Reached
<1> QED
  BY <1>2, <1>7, <1>8 DEF Reached

\* What a task that goes on with a cancellation leaves of it.
LEMMA CallReach ==
  ASSUME JInv, Flagged, Reached, NEW t \in Tasks,
         \A u \in Tasks : u # t => frames'[u] = frames[u],
         \A s \in Scopes : scancelled[s] => scancelled'[s],
         \A u \in Tasks : flag[u] => flag'[u],
         UNCHANGED <<kids, child_scopes, scope>>, \A u \in Tasks : tpc[u] = "inherit" => tpc'[u] = "inherit",
         \A i \in DOMAIN frames'[t] : frames'[t][i].at # "flag" => scancelled'[frames'[t][i].s],
         NEW S, S \subseteq Scopes,
         \A s \in Scopes \ S : /\ scancelled'[s] => scancelled[s]
                               /\ \A i \in DOMAIN frames[t] : frames[t][i].s = s /\ frames[t][i].at = "lock" => Pending(s)',
         \A s \in S : scancelled'[s] /\ ~Pending(s)' =>
           (\A u \in kids[s] : flag'[u]) /\ (\A c \in child_scopes[s] : scancelled'[c] \/ Descending(c)'),
         \A c \in Scopes : \A i \in DOMAIN frames[t] :
           \/ frames[t][i].s = c - 1 /\ c \in frames[t][i].left
           \/ frames[t][i].s = c /\ i # Len(frames[t])
           => scancelled'[c] \/ Descending(c)'
  PROVE  Flagged' /\ Reached'
<1>1. Flagged'
  <2>1. ASSUME NEW u \in Tasks, u # t, NEW i \in DOMAIN frames[u], frames[u][i].at # "flag" PROVE scancelled'[frames[u][i].s]
    BY <2>1, CalledOpen DEF Flagged
  <2> QED
    BY <2>1 DEF Flagged
<1>2. ASSUME NEW c \in Scopes, Descending(c) PROVE scancelled'[c] \/ Descending(c)'
  <2>0. PICK u \in Tasks : \E i \in DOMAIN frames[u] :
          \/ frames[u][i].s = c - 1 /\ c \in frames[u][i].left
          \/ frames[u][i].s = c /\ i # Len(frames[u])
    BY <1>2 DEF Descending
  <2>1. PICK i \in DOMAIN frames[u] :
          \/ frames[u][i].s = c - 1 /\ c \in frames[u][i].left
          \/ frames[u][i].s = c /\ i # Len(frames[u])
    BY <2>0
  <2>2. CASE u = t
    BY <2>1, <2>2
  <2>3. CASE u # t
    BY <2>1, <2>3 DEF Descending
  <2> QED
    BY <2>2, <2>3
<1>3. ASSUME NEW s \in Scopes \ S, Pending(s) PROVE Pending(s)'
  <2>0. PICK u \in Tasks : \E i \in DOMAIN frames[u] : frames[u][i].s = s /\ frames[u][i].at = "lock"
    BY <1>3 DEF Pending
  <2>1. PICK i \in DOMAIN frames[u] : frames[u][i].s = s /\ frames[u][i].at = "lock"
    BY <2>0
  <2>2. CASE u = t
    BY <2>1, <2>2
  <2>3. CASE u # t
    BY <2>1, <2>3 DEF Pending
  <2> QED
    BY <2>2, <2>3
<1>4. \A s \in Scopes : kids[s] \subseteq Tasks /\ child_scopes[s] \subseteq Scopes
  BY DEF JInv, ScopeTypes
<1>5. ASSUME NEW s \in Scopes, scancelled'[s], ~Pending(s)'
      PROVE  /\ \A u \in kids[s] : flag'[u]
             /\ \A c \in child_scopes[s] :
                  scancelled'[c] \/ Descending(c)' \/ \E u \in Tasks : tpc'[u] = "inherit" /\ scope[u] = s
  <2>1. CASE s \in S
    BY <1>5, <2>1
  <2>2. CASE s \notin S
    <3>1. scancelled[s] /\ ~Pending(s)
      BY <1>3, <1>5, <2>2
    <3>2. /\ \A u \in kids[s] : flag[u]
          /\ \A c \in child_scopes[s] : scancelled[c] \/ Descending(c) \/ \E u \in Tasks : tpc[u] = "inherit" /\ scope[u] = s
      BY <3>1 DEF Reached
    <3>3. \A u \in kids[s] : flag'[u]
      BY <1>4, <3>2
    <3>4. ASSUME NEW c \in child_scopes[s] PROVE scancelled'[c] \/ Descending(c)' \/ \E u \in Tasks : tpc'[u] = "inherit" /\ scope[u] = s
      BY <1>2, <1>4, <3>2
    <3> QED
      BY <3>3, <3>4
  <2> QED
    BY <2>1, <2>2
<1>6. scope' = scope /\ kids' = kids /\ child_scopes' = child_scopes
  OBVIOUS
<1> QED
  BY <1>1, <1>5, <1>6 DEF Reached


LEMMA ReachRegister ==
  ASSUME CInv, NEW t \in Tasks, Register(t)
  PROVE  Flagged' /\ Reached'
<1>0. JInv /\ ScopeTypes /\ Flagged /\ Reached /\ Making
  BY DEF CInv, JInv
<1>1. arg[t] \in Tasks /\ tpc[t] = "register" /\ tpc[arg[t]] = "made" /\ arg[t] # t
  BY <1>0 DEF Register, Making
<1>2. scancelled' = scancelled /\ child_scopes' = child_scopes /\ frames' = frames /\ scope' = scope
  BY DEF Register
<1>3. \A s \in Scopes : kids'[s] \subseteq kids[s] \cup {arg[t]} /\ (s # scope[arg[t]] => kids'[s] = kids[s])
  BY <1>0 DEF Register, With, ScopeTypes
<1>4. \A u \in Tasks : (flag[u] => flag'[u]) /\ (u = arg[t] /\ scancelled[scope[u]] => flag'[u])
  BY <1>0 DEF Register, With, Inherits, ScopeTypes
<1>5. \A u \in Tasks : tpc[u] = "inherit" => tpc'[u] = "inherit"
  BY <1>0, <1>1 DEF Register, Goto, ScopeTypes
<1>6. (\A s \in Scopes : Pending(s)' <=> Pending(s)) /\ (\A c \in Scopes : Descending(c)' <=> Descending(c))
  BY <1>2 DEF Pending, Descending
<1>7. \A s \in Scopes : kids[s] \subseteq Tasks /\ child_scopes[s] \subseteq Scopes
  BY <1>0 DEF ScopeTypes
<1>8. ASSUME NEW s \in Scopes, scancelled'[s], ~Pending(s)', NEW u \in kids'[s] PROVE flag'[u]
  <2>1. CASE u \in kids[s]
    BY <1>0, <1>2, <1>4, <1>6, <1>7, <1>8, <2>1 DEF Reached
  <2>2. CASE u \notin kids[s]
    BY <1>1, <1>2, <1>3, <1>4, <1>8, <2>2
  <2> QED
    BY <2>1, <2>2
<1>9. ASSUME NEW s \in Scopes, scancelled'[s], ~Pending(s)', NEW c \in child_scopes'[s]
      PROVE  scancelled'[c] \/ Descending(c)' \/ \E u \in Tasks : tpc'[u] = "inherit" /\ scope'[u] = s
  BY <1>0, <1>2, <1>5, <1>6, <1>7, <1>9 DEF Reached
<1>10. Flagged'
  BY <1>0, <1>2 DEF Flagged
<1> QED
  BY <1>8, <1>9, <1>10 DEF Reached

LEMMA ReachLink ==
  ASSUME CInv, NEW t \in Tasks, Link(t)
  PROVE  Flagged' /\ Reached'
<1>0. JInv /\ ScopeTypes /\ Flagged /\ Reached
  BY DEF CInv, JInv
<1>1. tpc[t] = "body"
  BY DEF Link, InBody
<1>2. scancelled' = scancelled /\ kids' = kids /\ frames' = frames /\ scope' = scope /\ flag' = flag
  BY DEF Link
<1>3. PICK s \in Scopes :
        /\ scope[t] = s - 1
        /\ child_scopes' = IF scope[t] = 0 THEN child_scopes
                           ELSE With(child_scopes, scope[t], child_scopes[scope[t]] \cup {s})
        /\ Goto(t, IF scope[t] # 0 /\ scancelled[scope[t]] THEN "inherit" ELSE "enter")
  BY DEF Link
<1>4. \A r \in Scopes : r # scope[t] => child_scopes'[r] = child_scopes[r]
  BY <1>0, <1>3 DEF With, ScopeTypes
<1>5. tpc'[t] = (IF scope[t] # 0 /\ scancelled[scope[t]] THEN "inherit" ELSE "enter") /\ \A u \in Tasks : u # t => tpc'[u] = tpc[u]
  BY <1>0, <1>3 DEF Goto, ScopeTypes
<1>6. (\A r \in Scopes : Pending(r)' <=> Pending(r)) /\ (\A c \in Scopes : Descending(c)' <=> Descending(c))
  BY <1>2 DEF Pending, Descending
<1>7. \A r \in Scopes : kids[r] \subseteq Tasks /\ child_scopes[r] \subseteq Scopes /\ r # 0
  BY <1>0, ScopeAssumption DEF ScopeTypes
<1>8. ASSUME NEW r \in Scopes, scancelled'[r], ~Pending(r)', NEW u \in kids'[r] PROVE flag'[u]
  BY <1>0, <1>2, <1>6, <1>8 DEF Reached
<1>9. ASSUME NEW r \in Scopes, scancelled'[r], ~Pending(r)', NEW c \in child_scopes'[r]
      PROVE  scancelled'[c] \/ Descending(c)' \/ \E u \in Tasks : tpc'[u] = "inherit" /\ scope'[u] = r
  <2>1. CASE r = scope[t]
    BY <1>2, <1>5, <1>7, <1>9, <2>1
  <2>2. CASE r # scope[t]
    <3>1. c \in child_scopes[r] /\ c \in Scopes
      BY <1>4, <1>7, <1>9, <2>2
    <3>2. scancelled[c] \/ Descending(c) \/ \E u \in Tasks : tpc[u] = "inherit" /\ scope[u] = r
      BY <1>0, <1>2, <1>6, <1>9, <3>1 DEF Reached
    <3> QED
      BY <1>1, <1>2, <1>5, <1>6, <3>1, <3>2
  <2> QED
    BY <2>1, <2>2
<1>10. Flagged'
  BY <1>0, <1>2 DEF Flagged
<1> QED
  BY <1>8, <1>9, <1>10 DEF Reached

\* The flag that the new scope inherits: nobody is in it yet.
LEMMA ReachEnter ==
  ASSUME CInv, NEW t \in Tasks, Enter(t)
  PROVE  Flagged' /\ Reached'
<1>0. JInv /\ ScopeTypes /\ Flagged /\ Reached /\ PlacesOK /\ Counts /\ Lists
  BY DEF CInv, JInv
<1> DEFINE d == scope[t] + 1
<1>1. tpc[t] \in {"inherit", "enter"} /\ kids' = kids /\ child_scopes' = child_scopes /\ frames' = frames /\ flag' = flag
  BY DEF Enter
<1>2. Depth(t) = d /\ d \in Nat /\ d \in Scopes /\ d \in opened[t] /\ Counted(d) = {}
  BY <1>0, <1>1, Owns, ScopeAssumption DEF Depth, PlacesOK, Counts
<1>3. kids[d] = {} /\ child_scopes[d] = {}
  <2>1. \A r \in Scopes : r > d => state[r] # "open"
    BY <1>0, <1>2, Alone
  <2>2. ASSUME NEW c \in child_scopes[d] PROVE FALSE
    <3>1. c = d + 1 /\ state[c] = "open" /\ c \in Scopes
      BY <1>0, <1>2 DEF Lists, ScopeTypes
    <3>2. c > d
      BY <1>2, <3>1
    <3> QED
      BY <2>1, <3>1, <3>2
  <2>3. kids[d] = {}
    BY <1>0, <1>2 DEF Lists
  <2> QED
    BY <2>2, <2>3
<1>4. \A s \in Scopes : scancelled'[s] = IF s = d /\ tpc[t] = "inherit" THEN TRUE ELSE scancelled[s]
  BY <1>0, <1>2 DEF Enter, With, ScopeTypes
<1>5. \A u \in Tasks : u # t => tpc'[u] = tpc[u] /\ scope'[u] = scope[u]
  BY <1>0 DEF Enter, With, Goto, ScopeTypes
<1>6. (\A r \in Scopes : Pending(r)' <=> Pending(r)) /\ (\A c \in Scopes : Descending(c)' <=> Descending(c))
  BY <1>1 DEF Pending, Descending
<1>7. \A r \in Scopes : child_scopes[r] \subseteq Scopes /\ r \in Nat
  BY <1>0, ScopeAssumption DEF ScopeTypes
<1>8. ASSUME NEW r \in Scopes, scancelled'[r], ~Pending(r)', NEW u \in kids'[r] PROVE flag'[u]
  BY <1>0, <1>1, <1>3, <1>4, <1>6, <1>8 DEF Reached
<1>9. ASSUME NEW r \in Scopes, scancelled'[r], ~Pending(r)', NEW c \in child_scopes'[r]
      PROVE  scancelled'[c] \/ Descending(c)' \/ \E u \in Tasks : tpc'[u] = "inherit" /\ scope'[u] = r
  <2>1. c \in child_scopes[r] /\ c \in Scopes /\ r # d /\ scancelled[r] /\ c = r + 1
    BY <1>0, <1>1, <1>3, <1>4, <1>7, <1>9 DEF Lists
  <2>2. scancelled[c] \/ Descending(c) \/ \E u \in Tasks : tpc[u] = "inherit" /\ scope[u] = r
    BY <1>0, <1>6, <1>9, <2>1 DEF Reached
  <2>3. CASE tpc[t] = "inherit" /\ scope[t] = r
    BY <1>4, <2>1, <2>3
  <2>4. CASE ~(tpc[t] = "inherit" /\ scope[t] = r)
    BY <1>4, <1>5, <1>6, <2>1, <2>2, <2>4
  <2> QED
    BY <2>3, <2>4
<1>10. Flagged'
  <2>1. ASSUME NEW u \in Tasks, NEW i \in DOMAIN frames[u], frames[u][i].at # "flag" PROVE scancelled'[frames[u][i].s]
    BY <1>0, <1>4, <2>1, CalledOpen DEF Flagged
  <2> QED
    BY <1>1, <2>1 DEF Flagged
<1> QED
  BY <1>8, <1>9, <1>10 DEF Reached


\* The frames below the innermost hold their locks and have nothing left; nobody in
\* them has linked a scope it has not entered.
LEMMA OuterFrames ==
  ASSUME JInv, NEW t \in Tasks, frames[t] # <<>>
  PROVE  /\ \A i \in DOMAIN frames[t] : i # 1 => frames[t][i].at = "nested" /\ frames[t][i].left = {}
         /\ \A i \in DOMAIN frames[t] : frames[t][i].at # "nested" => frames[t][i].left = {}
         /\ 1 \in DOMAIN frames[t] /\ tpc[t] = "cancel"
<1>1. 1 \in DOMAIN frames[t] /\ tpc[t] = "cancel"
  BY TopFrame
<1> QED
  BY <1>1 DEF JInv, Calls, Call

LEMMA ReachReturn ==
  ASSUME CInv, NEW t \in Tasks, frames[t] # <<>>, Return(t), Top(t).left = {}, Top(t).at # "lock", scancelled[Top(t).s],
         UNCHANGED <<scancelled, kids, child_scopes, scope, flag>>
  PROVE  Flagged' /\ Reached'
<1> DEFINE n == Len(frames[t])
<1>0. JInv /\ ScopeTypes /\ Flagged /\ Reached
  BY DEF CInv, JInv
<1>1. /\ frames[t] \in Seq(CallFrame) /\ n \in Nat \ {0} /\ DOMAIN frames[t] = 1..n /\ tpc[t] = "cancel"
      /\ \A i \in 1..n : frames[t][i].s \in Scopes
  BY <1>0, TopFrame
<1>2. frames'[t] = Tail(frames[t]) /\ \A u \in Tasks : u # t => frames'[u] = frames[u]
  BY <1>0 DEF Return, ScopeTypes
<1>3. Len(frames'[t]) = n - 1 /\ DOMAIN frames'[t] = 1..(n - 1) /\ \A i \in 1..(n - 1) : frames'[t][i] = frames[t][i + 1]
  BY <1>1, <1>2, TailFacts
<1>4. \A i \in DOMAIN frames[t] : frames[t][i].at # "lock" /\ frames[t][i].left = {}
  BY <1>0, OuterFrames DEF Top
<1>5. ASSUME NEW i \in DOMAIN frames'[t], frames'[t][i].at # "flag" PROVE scancelled'[frames'[t][i].s]
  <2>1. i + 1 \in DOMAIN frames[t] /\ frames'[t][i] = frames[t][i + 1]
    BY <1>1, <1>3
  <2> QED
    BY <1>0, <1>5, <2>1 DEF Flagged
<1>6. ASSUME NEW c \in Scopes, NEW i \in DOMAIN frames[t], frames[t][i].s = c, i # n PROVE scancelled'[c] \/ Descending(c)'
  <2>1. CASE i = 1
    BY <1>6, <2>1 DEF Top
  <2>2. CASE i # 1
    <3>1. i - 1 \in DOMAIN frames'[t] /\ (i - 1) + 1 = i /\ i - 1 # Len(frames'[t])
      BY <1>1, <1>3, <1>6, <2>2
    <3>2. frames'[t][i - 1] = frames[t][i]
      BY <1>3, <3>1
    <3> QED
      BY <1>6, <3>1, <3>2 DEF Descending
  <2> QED
    BY <2>1, <2>2
<1>7. \A u \in Tasks : tpc[u] = "inherit" => tpc'[u] = "inherit"
  BY <1>0, <1>1 DEF Return, Goto, ScopeTypes
<1>8. {} \subseteq Scopes
  OBVIOUS
<1>9. \A c \in Scopes : \A i \in DOMAIN frames[t] :
           \/ frames[t][i].s = c - 1 /\ c \in frames[t][i].left
           \/ frames[t][i].s = c /\ i # Len(frames[t])
           => scancelled'[c] \/ Descending(c)'
  BY <1>4, <1>6
<1>10. \A s \in Scopes \ {} : /\ scancelled'[s] => scancelled[s]
                              /\ \A i \in DOMAIN frames[t] : frames[t][i].s = s /\ frames[t][i].at = "lock" => Pending(s)'
  BY <1>4
<1>11. \A s \in Scopes : scancelled[s] => scancelled'[s]
  OBVIOUS
<1>12. \A u \in Tasks : flag[u] => flag'[u]
  OBVIOUS
<1> HIDE DEF n
<1> QED
  BY <1>0, <1>2, <1>5, <1>7, <1>8, <1>9, <1>10, <1>11, <1>12, CallReach

\* The innermost call goes on: its scope is flagged, or its children are.
LEMMA ReachReplace ==
  ASSUME CInv, NEW t \in Tasks, frames[t] # <<>>, Top(t).at # "nested", NEW x \in CallFrame, Replace(t, x), x.s = Top(t).s,
         \A s \in Scopes : scancelled'[s] = (scancelled[s] \/ s = x.s), \A u \in Tasks : flag[u] => flag'[u],
         \/ x.at = "lock"
         \/ x.at = "nested" /\ x.left = child_scopes[x.s] /\ \A u \in kids[x.s] : flag'[u],
         UNCHANGED <<kids, child_scopes, scope, tpc>>
  PROVE  Flagged' /\ Reached'
<1> DEFINE n == Len(frames[t])
           S == {x.s}
<1>0. JInv /\ ScopeTypes /\ Flagged /\ Reached /\ Lists
  BY DEF CInv, JInv
<1>1. /\ frames[t] \in Seq(CallFrame) /\ n \in Nat \ {0} /\ DOMAIN frames[t] = 1..n /\ tpc[t] = "cancel"
      /\ \A i \in 1..n : frames[t][i].s \in Scopes /\ frames[t][i].s \in Nat
  BY <1>0, TopFrame
<1>2. frames'[t] = <<x>> \o Tail(frames[t]) /\ \A u \in Tasks : u # t => frames'[u] = frames[u]
  BY <1>0 DEF Replace, ScopeTypes
<1>3. /\ Len(frames'[t]) = n /\ DOMAIN frames'[t] = 1..n
      /\ frames'[t][1] = x /\ \A i \in 2..n : frames'[t][i] = frames[t][i]
  BY <1>1, <1>2, ReplaceFacts
<1>4. 1 \in 1..n /\ x.s \in Scopes /\ x.s \in Nat /\ Top(t) = frames[t][1] /\ \A i \in 1..n : i # 1 => i \in 2..n
  BY <1>1 DEF Top
<1>5. \A i \in DOMAIN frames[t] : (i # 1 => frames[t][i].at # "lock") /\ frames[t][i].left = {}
  BY <1>0, OuterFrames DEF Top
<1>6. ASSUME NEW i \in DOMAIN frames'[t], frames'[t][i].at # "flag" PROVE scancelled'[frames'[t][i].s]
  <2>1. CASE i = 1
    BY <1>3, <1>4, <2>1
  <2>2. CASE i # 1
    <3>1. i \in DOMAIN frames[t] /\ frames'[t][i] = frames[t][i]
      BY <1>1, <1>3, <1>4, <2>2
    <3>2. scancelled[frames[t][i].s] /\ frames[t][i].s \in Scopes
      BY <1>0, <1>1, <1>6, <3>1 DEF Flagged
    <3> QED
      BY <3>1, <3>2
  <2> QED
    BY <2>1, <2>2
<1>7. \A c \in Scopes : \A i \in DOMAIN frames[t] :
           \/ frames[t][i].s = c - 1 /\ c \in frames[t][i].left
           \/ frames[t][i].s = c /\ i # Len(frames[t])
           => scancelled'[c] \/ Descending(c)'
  <2>1. ASSUME NEW c \in Scopes, NEW i \in DOMAIN frames[t], frames[t][i].s = c, i # n PROVE scancelled'[c] \/ Descending(c)'
    <3>1. i \in DOMAIN frames'[t] /\ frames'[t][i].s = c /\ i # Len(frames'[t])
      BY <1>1, <1>3, <1>4, <2>1
    <3> QED
      BY <3>1 DEF Descending
  <2> QED
    BY <1>5, <2>1
<1>8. \A s \in Scopes \ S : /\ scancelled'[s] => scancelled[s]
                            /\ \A i \in DOMAIN frames[t] : frames[t][i].s = s /\ frames[t][i].at = "lock" => Pending(s)'
  BY <1>4, <1>5
<1>9. ASSUME NEW s \in S, scancelled'[s], ~Pending(s)'
      PROVE  (\A u \in kids[s] : flag'[u]) /\ (\A c \in child_scopes[s] : scancelled'[c] \/ Descending(c)')
  <2>1. s = x.s /\ 1 \in DOMAIN frames'[t] /\ frames'[t][1] = x
    BY <1>3, <1>4
  <2>2. x.at # "lock"
    BY <1>9, <2>1 DEF Pending
  <2>3. ASSUME NEW c \in child_scopes[s] PROVE Descending(c)'
    <3>1. c = s + 1 /\ c - 1 = s
      BY <1>0, <1>4, <2>1 DEF Lists
    <3> QED
      BY <2>1, <2>2, <3>1 DEF Descending
  <2> QED
    BY <2>1, <2>2, <2>3
<1>10. S \subseteq Scopes
  BY <1>4
<1>11. \A s \in Scopes : scancelled[s] => scancelled'[s]
  OBVIOUS
<1>12. \A u \in Tasks : tpc[u] = "inherit" => tpc'[u] = "inherit"
  OBVIOUS
<1> HIDE DEF n, S
<1> QED
  BY <1>0, <1>2, <1>6, <1>7, <1>8, <1>9, <1>10, <1>11, <1>12, CallReach

LEMMA ReachPush ==
  ASSUME CInv, NEW t \in Tasks, frames[t] # <<>>, Top(t).at = "nested", NEW e \in Top(t).left,
         frames' = [frames EXCEPT ![t] = <<[s |-> e, at |-> "flag", left |-> {}, next |-> Top(t).next],
                                           [Top(t) EXCEPT !.left = @ \ {e}]>> \o Tail(@)],
         UNCHANGED <<scancelled, kids, child_scopes, scope, flag, tpc>>
  PROVE  Flagged' /\ Reached'
<1> DEFINE n == Len(frames[t])
           x == [s |-> e, at |-> "flag", left |-> {}, next |-> Top(t).next]
           y == [Top(t) EXCEPT !.left = @ \ {e}]
<1>0. JInv /\ ScopeTypes /\ Flagged /\ Reached /\ Lists
  BY DEF CInv, JInv
<1>1. /\ frames[t] \in Seq(CallFrame) /\ n \in Nat \ {0} /\ DOMAIN frames[t] = 1..n /\ tpc[t] = "cancel"
      /\ \A i \in 1..n : frames[t][i] \in CallFrame /\ frames[t][i].s \in Scopes /\ frames[t][i].s \in Nat /\ Call(t, i)
  BY <1>0, TopFrame
<1>2. 1 \in 1..n /\ Call(t, 1) /\ Top(t) = frames[t][1] /\ Top(t) \in CallFrame
  BY <1>1 DEF Top
<1>3. e \in Scopes
  <2>1. Top(t).left \subseteq Scopes
    BY <1>2 DEF CallFrame
  <2> QED
    BY <2>1
<1>4. /\ x \in CallFrame /\ x.s = e /\ x.at = "flag" /\ x.left = {}
      /\ y \in CallFrame /\ y.s = Top(t).s /\ y.at = "nested" /\ y.left = Top(t).left \ {e}
  <2>1. Top(t).next \in {"body", "exit", "join"} /\ Top(t).left \subseteq Scopes
    BY <1>2 DEF CallFrame
  <2>2. x \in CallFrame
    BY <1>3, <2>1 DEF CallFrame
  <2>3. y \in CallFrame /\ y.s = Top(t).s /\ y.at = Top(t).at /\ y.left = Top(t).left \ {e}
    BY <1>2, <2>1 DEF CallFrame
  <2> QED
    BY <2>2, <2>3
<1>5. frames'[t] = <<x, y>> \o Tail(frames[t]) /\ \A u \in Tasks : u # t => frames'[u] = frames[u]
  BY <1>0 DEF ScopeTypes
<1> HIDE DEF x, y, n
<1>6. /\ Len(frames'[t]) = n + 1 /\ DOMAIN frames'[t] = 1..(n + 1)
      /\ frames'[t][1] = x /\ frames'[t][2] = y /\ \A i \in 3..(n + 1) : frames'[t][i] = frames[t][i - 1]
  <2> DEFINE g == <<x, y>> \o Tail(frames[t])
  <2>1. x \in CallFrame /\ y \in CallFrame /\ frames[t] \in Seq(CallFrame) /\ frames[t] # <<>>
    BY <1>1, <1>4
  <2>2. /\ Len(g) = Len(frames[t]) + 1 /\ DOMAIN g = 1..(Len(frames[t]) + 1)
        /\ g[1] = x /\ g[2] = y /\ \A i \in 3..(Len(frames[t]) + 1) : g[i] = frames[t][i - 1]
    BY <2>1, PushFacts
  <2>3. frames'[t] = g
    BY <1>5
  <2> HIDE DEF g
  <2> QED
    BY <2>2, <2>3 DEF n
<1>7. ASSUME NEW i \in 1..n
      PROVE  /\ i + 1 \in DOMAIN frames'[t] /\ frames'[t][i + 1].s = frames[t][i].s /\ frames'[t][i + 1].at = frames[t][i].at
             /\ i + 1 # Len(frames'[t]) <=> i # n
             /\ i + 1 # 1 /\ i \in Nat
  <2>1. i + 1 \in 1..(n + 1) /\ (i + 1 # n + 1 <=> i # n) /\ i + 1 # 1 /\ i \in Nat
    BY <1>1
  <2>2. CASE i = 1
    <3>1. frames'[t][i + 1] = y /\ frames[t][i] = Top(t)
      BY <1>2, <1>6, <2>2
    <3> QED
      BY <1>4, <1>6, <2>1, <3>1
  <2>3. CASE i # 1
    <3>1. i + 1 \in 3..(n + 1) /\ (i + 1) - 1 = i
      BY <1>1, <2>3
    <3>2. frames'[t][i + 1] = frames[t][i]
      BY <1>6, <3>1
    <3> QED
      BY <1>6, <2>1, <3>2
  <2> QED
    BY <2>2, <2>3
<1>8. \A i \in DOMAIN frames[t] : frames[t][i].at # "lock" /\ (i # 1 => frames[t][i].left = {})
  <2>1. \A i \in DOMAIN frames[t] : i # 1 => frames[t][i].at = "nested" /\ frames[t][i].left = {}
    BY <1>0, OuterFrames
  <2> QED
    BY <1>2, <2>1
<1>9. ASSUME NEW i \in DOMAIN frames'[t], frames'[t][i].at # "flag" PROVE scancelled'[frames'[t][i].s]
  <2>1. i # 1
    BY <1>4, <1>6, <1>9
  <2>2. i - 1 \in 1..n /\ (i - 1) + 1 = i
    BY <1>1, <1>6, <2>1
  <2>3. frames'[t][i].s = frames[t][i - 1].s /\ frames'[t][i].at = frames[t][i - 1].at
    BY <1>7, <2>2
  <2> QED
    BY <1>0, <1>1, <1>9, <2>2, <2>3 DEF Flagged
<1>10. ASSUME NEW c \in Scopes, NEW i \in DOMAIN frames[t], frames[t][i].s = c, i # n PROVE Descending(c)'
  <2>1. i + 1 \in DOMAIN frames'[t] /\ frames'[t][i + 1].s = c /\ i + 1 # Len(frames'[t])
    BY <1>1, <1>7, <1>10
  <2> QED
    BY <2>1 DEF Descending
<1>11. ASSUME NEW c \in Scopes, NEW i \in DOMAIN frames[t], frames[t][i].s = c - 1, c \in frames[t][i].left PROVE Descending(c)'
  <2>1. i = 1 /\ c \in Top(t).left /\ Top(t).s = c - 1
    BY <1>2, <1>8, <1>11
  <2>2. CASE c = e
    <3>1. 1 \in DOMAIN frames'[t] /\ frames'[t][1].s = c /\ 1 # Len(frames'[t])
      BY <1>1, <1>4, <1>6, <2>2
    <3> QED
      BY <3>1 DEF Descending
  <2>3. CASE c # e
    <3>1. 2 \in DOMAIN frames'[t] /\ frames'[t][2].s = c - 1 /\ c \in frames'[t][2].left
      BY <1>1, <1>4, <1>6, <2>1, <2>3
    <3> QED
      BY <3>1 DEF Descending
  <2> QED
    BY <2>2, <2>3
<1>12. \A c \in Scopes : \A i \in DOMAIN frames[t] :
           \/ frames[t][i].s = c - 1 /\ c \in frames[t][i].left
           \/ frames[t][i].s = c /\ i # Len(frames[t])
           => scancelled'[c] \/ Descending(c)'
  BY <1>10, <1>11 DEF n
<1> DEFINE S == {}
<1>13. \A s \in Scopes \ S : /\ scancelled'[s] => scancelled[s]
                            /\ \A i \in DOMAIN frames[t] : frames[t][i].s = s /\ frames[t][i].at = "lock" => Pending(s)'
  BY <1>8
<1>14. /\ \A s \in Scopes : scancelled[s] => scancelled'[s]
       /\ \A u \in Tasks : flag[u] => flag'[u]
       /\ \A u \in Tasks : tpc[u] = "inherit" => tpc'[u] = "inherit"
  OBVIOUS
<1>15. \A s \in S : scancelled'[s] /\ ~Pending(s)' =>
           (\A u \in kids[s] : flag'[u]) /\ (\A c \in child_scopes[s] : scancelled'[c] \/ Descending(c)')
  OBVIOUS
<1>16. S \subseteq Scopes
  OBVIOUS
<1>17. UNCHANGED <<kids, child_scopes, scope>>
  OBVIOUS
<1>18. \A i \in DOMAIN frames'[t] : frames'[t][i].at # "flag" => scancelled'[frames'[t][i].s]
  BY <1>9
<1>19. \A u \in Tasks : u # t => frames'[u] = frames[u]
  BY <1>5
<1> HIDE DEF S
<1> QED
  BY <1>0, <1>12, <1>13, <1>14, <1>15, <1>16, <1>17, <1>18, <1>19, CallReach


LEMMA ReachCancel ==
  ASSUME CInv, NEW t \in Tasks, CancelFlag(t) \/ CancelMark(t) \/ CancelNested(t)
  PROVE  Flagged' /\ Reached'
<1>0. JInv /\ ScopeTypes /\ Flagged
  BY DEF CInv, JInv
<1>1. ASSUME CancelFlag(t) PROVE Flagged' /\ Reached'
  <2>1. frames[t] # <<>> /\ Top(t).at = "flag" /\ Top(t) = frames[t][1]
    BY <1>1 DEF CancelFlag, Cancelling, Top
  <2>2. Top(t) \in CallFrame /\ Top(t).s \in Scopes /\ Top(t).left = {}
    BY <1>0, <2>1, TopFrame, OuterFrames
  <2>3. UNCHANGED <<kids, child_scopes, scope, flag>>
    BY <1>1 DEF CancelFlag
  <2>4. \A s \in Scopes : scancelled'[s] = (scancelled[s] \/ s = Top(t).s)
    BY <1>0, <1>1, <2>2 DEF CancelFlag, With, ScopeTypes
  <2>5. CASE scancelled[Top(t).s]
    <3>1. scancelled' = scancelled
      BY <1>0, <1>1, <2>2, <2>5 DEF CancelFlag, With, ScopeTypes
    <3>2. Return(t)
      BY <1>1, <2>5 DEF CancelFlag
    <3> QED
      BY <2>1, <2>2, <2>3, <2>5, <3>1, <3>2, ReachReturn
  <2>6. CASE ~scancelled[Top(t).s]
    <3> DEFINE x == [Top(t) EXCEPT !.at = "lock"]
    <3>1. Replace(t, x) /\ tpc' = tpc
      BY <1>1, <2>6 DEF CancelFlag
    <3>2. x \in CallFrame /\ x.s = Top(t).s /\ x.at = "lock"
      BY <2>2 DEF CallFrame
    <3>3. \A u \in Tasks : flag[u] => flag'[u]
      BY <2>3
    <3> HIDE DEF x
    <3>4. \A s \in Scopes : scancelled'[s] = (scancelled[s] \/ s = x.s)
      BY <2>4, <3>2
    <3> QED
      BY <2>1, <2>3, <3>1, <3>2, <3>3, <3>4, ReachReplace
  <2> QED
    BY <2>5, <2>6
<1>2. ASSUME CancelMark(t) PROVE Flagged' /\ Reached'
  <2> DEFINE x == [Top(t) EXCEPT !.at = "nested", !.left = child_scopes[Top(t).s]]
  <2>1. frames[t] # <<>> /\ Top(t).at = "lock" /\ Top(t) = frames[t][1]
    BY <1>2 DEF CancelMark, Cancelling, Top
  <2>2. Top(t) \in CallFrame /\ Top(t).s \in Scopes
    BY <1>0, <2>1, TopFrame
  <2>3. UNCHANGED <<kids, child_scopes, scope, tpc>> /\ scancelled' = scancelled /\ Replace(t, x)
    BY <1>2 DEF CancelMark
  <2>4. x \in CallFrame /\ x.s = Top(t).s /\ x.at = "nested" /\ x.left = child_scopes[x.s]
    BY <1>0, <2>2 DEF CallFrame, ScopeTypes
  <2>5. scancelled[Top(t).s]
    BY <1>0, <2>1, OuterFrames DEF Flagged
  <2>6. /\ \A u \in Tasks : flag[u] => flag'[u]
        /\ \A u \in kids[Top(t).s] : flag'[u]
    <3>1. \A u \in Tasks : flag'[u] = (flag[u] \/ u \in kids[Top(t).s])
      BY <1>2 DEF CancelMark
    <3>2. kids[Top(t).s] \subseteq Tasks
      BY <1>0, <2>2 DEF ScopeTypes
    <3> QED
      BY <3>1, <3>2
  <2> HIDE DEF x
  <2>7. \A s \in Scopes : scancelled'[s] = (scancelled[s] \/ s = x.s)
    BY <1>0, <2>3, <2>4, <2>5 DEF ScopeTypes
  <2>8. \A u \in kids[x.s] : flag'[u]
    BY <2>4, <2>6
  <2> QED
    BY <2>1, <2>3, <2>4, <2>6, <2>7, <2>8, ReachReplace
<1>3. ASSUME CancelNested(t) PROVE Flagged' /\ Reached'
  <2>1. frames[t] # <<>> /\ Top(t).at = "nested" /\ Top(t) = frames[t][1]
    BY <1>3 DEF CancelNested, Cancelling, Top
  <2>2. scancelled[Top(t).s]
    BY <1>0, <2>1, OuterFrames DEF Flagged
  <2>3. UNCHANGED <<scancelled, kids, child_scopes, scope, flag>>
    BY <1>3 DEF CancelNested
  <2>4. CASE Top(t).left = {}
    <3>1. Return(t)
      BY <1>3, <2>4 DEF CancelNested
    <3> QED
      BY <2>1, <2>2, <2>3, <2>4, <3>1, ReachReturn
  <2>5. CASE Top(t).left # {}
    <3>1. PICK c \in Top(t).left :
            frames' = [frames EXCEPT ![t] = <<[s |-> c, at |-> "flag", left |-> {}, next |-> Top(t).next],
                                              [Top(t) EXCEPT !.left = @ \ {c}]>> \o Tail(@)]
      BY <1>3, <2>5 DEF CancelNested
    <3>2. tpc' = tpc
      BY <1>3, <2>5 DEF CancelNested
    <3> QED
      BY <2>1, <2>3, <3>1, <3>2, ReachPush
  <2> QED
    BY <2>4, <2>5
<1> QED
  BY <1>1, <1>2, <1>3

\* The steps that Still is about.
LEMMA ReachBegin ==
  ASSUME CInv, NEW t \in Tasks, Stop(t) \/ RecordClaim(t) \/ RecordStore(t) \/ Unwind(t)
  PROVE  Flagged' /\ Reached'
<1>0. JInv /\ Flagged /\ Reached /\ ScopeTypes /\ Calls
  BY DEF CInv, JInv
<1>1. tpc[t] \in {"body", "store"} /\ frames[t] = <<>>
  BY <1>0 DEF Stop, RecordClaim, RecordStore, Unwind, InBody, Calls
<1>2. scancelled' = scancelled /\ kids' = kids /\ child_scopes' = child_scopes /\ flag' = flag /\ scope' = scope
  BY DEF Stop, RecordClaim, RecordStore, Unwind, scope_state
<1>3. \A u \in Tasks : u # t => tpc'[u] = tpc[u]
  BY <1>0 DEF Stop, RecordClaim, RecordStore, Unwind, Begin, Goto, ScopeTypes
<1>4. frames' = frames \/ \E s, n : Begin(t, s, n)
  BY DEF Stop, RecordClaim, RecordStore, Unwind
<1>5. ASSUME NEW u \in Tasks
      PROVE  \/ frames'[u] = frames[u]
             \/ frames[u] = <<>> /\ \A i \in DOMAIN frames'[u] : frames'[u][i].at = "flag"
  <2>1. CASE frames' = frames
    BY <2>1
  <2>2. ASSUME NEW s, NEW n, Begin(t, s, n)
        PROVE  \/ frames'[u] = frames[u]
               \/ frames[u] = <<>> /\ \A i \in DOMAIN frames'[u] : frames'[u][i].at = "flag"
    <3> DEFINE f == [s |-> s, at |-> "flag", left |-> {}, next |-> n]
    <3>1. f.at = "flag"
      OBVIOUS
    <3>2. frames' = [frames EXCEPT ![t] = <<f>>]
      BY <2>2 DEF Begin, With
    <3> HIDE DEF f
    <3>3. CASE u # t
      BY <1>0, <3>2, <3>3 DEF ScopeTypes
    <3>4. CASE u = t
      <4>1. frames'[t] = <<f>>
        BY <1>0, <3>2 DEF ScopeTypes
      <4> QED
        BY <1>1, <3>1, <3>4, <4>1
    <3> QED
      BY <3>3, <3>4
  <2> QED
    BY <1>4, <2>1, <2>2
<1>6. \A u \in Tasks : tpc[u] = "inherit" => tpc'[u] = "inherit" /\ scope'[u] = scope[u]
  BY <1>1, <1>2, <1>3
<1>7. \A s \in Scopes : kids'[s] \subseteq kids[s] /\ child_scopes'[s] \subseteq child_scopes[s]
  BY <1>2
<1>8. \A u \in Tasks : flag[u] => flag'[u]
  BY <1>2
<1> QED
  BY <1>0, <1>2, <1>5, <1>6, <1>7, <1>8, Still

LEMMA ReachOther ==
  ASSUME CInv, NEW t \in Tasks,
         \/ \E u \in Tasks : Dispatch(t, u)
         \/ AddActor(t) \/ Wait(t) \/ Released(t) \/ EndBody(t)
         \/ DestroyActor(t) \/ Unregister(t) \/ ChildDone(t) \/ Release(t) \/ WakeParent(t)
         \/ StopActors(t) \/ JoinScope(t) \/ JoinSync(t) \/ JoinPark(t) \/ JoinSwap(t) \/ Unlink(t) \/ FreeScope(t)
  PROVE  Flagged' /\ Reached'
<1>0. JInv /\ Flagged /\ Reached /\ ScopeTypes /\ Making /\ Parents
  BY DEF CInv, JInv
<1>1. scancelled' = scancelled /\ flag' = flag /\ frames' = frames
  BY DEF Dispatch, AddActor, Wait, Released, EndBody, DestroyActor, Unregister, ChildDone, Release, WakeParent,
         StopActors, JoinScope, JoinSync, JoinPark, JoinSwap, Unlink, FreeScope, scope_state
<1>2. \A s \in Scopes : kids'[s] \subseteq kids[s]
  BY <1>0 DEF Dispatch, AddActor, Wait, Released, EndBody, DestroyActor, Unregister, ChildDone, Release, WakeParent,
         StopActors, JoinScope, JoinSync, JoinPark, JoinSwap, Unlink, FreeScope, scope_state, With, ScopeTypes
<1>3. \A s \in Scopes : child_scopes'[s] \subseteq child_scopes[s]
  <2>1. child_scopes' = child_scopes \/ Unlink(t)
    BY DEF Dispatch, AddActor, Wait, Released, EndBody, DestroyActor, Unregister, ChildDone, Release, WakeParent,
         StopActors, JoinScope, JoinSync, JoinPark, JoinSwap, FreeScope, scope_state
  <2>2. ASSUME Unlink(t) PROVE \A s \in Scopes : child_scopes'[s] \subseteq child_scopes[s]
    BY <1>0, <2>2 DEF Unlink, With, ScopeTypes
  <2> QED
    BY <2>1, <2>2
<1>4. \A u \in Tasks : tpc[u] = "inherit" => tpc'[u] = "inherit" /\ scope'[u] = scope[u]
  <2>1. ASSUME NEW v \in Tasks, Dispatch(t, v) PROVE \A u \in Tasks : tpc[u] = "inherit" => tpc'[u] = "inherit" /\ scope'[u] = scope[u]
    BY <1>0, <2>1 DEF Dispatch, With, InBody, ScopeTypes
  <2>2. ASSUME AddActor(t) \/ WakeParent(t) PROVE \A u \in Tasks : tpc[u] = "inherit" => tpc'[u] = "inherit" /\ scope'[u] = scope[u]
    <3>1. tpc[t] # "inherit" /\ arg[t] \in Tasks /\ tpc[arg[t]] # "inherit"
      BY <1>0, <2>2 DEF AddActor, WakeParent, Making, Parents, Woken
    <3> QED
      BY <1>0, <2>2, <3>1 DEF AddActor, WakeParent, ScopeTypes
  <2>3. ASSUME FreeScope(t) PROVE \A u \in Tasks : tpc[u] = "inherit" => tpc'[u] = "inherit" /\ scope'[u] = scope[u]
    BY <1>0, <2>3 DEF FreeScope, With, Goto, ScopeTypes
  <2>4. ASSUME \/ Wait(t) \/ Released(t) \/ EndBody(t) \/ DestroyActor(t) \/ Unregister(t) \/ ChildDone(t) \/ Release(t)
               \/ StopActors(t) \/ JoinScope(t) \/ JoinSync(t) \/ JoinPark(t) \/ JoinSwap(t) \/ Unlink(t)
        PROVE  \A u \in Tasks : tpc[u] = "inherit" => tpc'[u] = "inherit" /\ scope'[u] = scope[u]
    <3>1. tpc[t] # "inherit" /\ scope' = scope /\ \E p : Goto(t, p)
      BY <2>4 DEF Wait, Released, EndBody, DestroyActor, Unregister, ChildDone, Release, StopActors, JoinScope, JoinSync,
           JoinPark, JoinSwap, Unlink, InBody
    <3> QED
      BY <1>0, <3>1 DEF Goto, ScopeTypes
  <2> QED
    BY <2>1, <2>2, <2>3, <2>4
<1> QED
  BY <1>0, <1>1, <1>2, <1>3, <1>4, Still

LEMMA CancelStep ==
  ASSUME CInv, [ScopeNext]_scope_vars
  PROVE  CInv'
<1>0. JInv'
  BY JoinStep DEF CInv
<1>1. ASSUME UNCHANGED scope_vars PROVE Flagged' /\ Reached'
  <2>1. scancelled' = scancelled /\ kids' = kids /\ child_scopes' = child_scopes /\ flag' = flag /\ scope' = scope
        /\ tpc' = tpc /\ frames' = frames
    BY <1>1 DEF scope_vars, scope_state, task_state
  <2> QED
    BY <2>1, Still DEF CInv
<1>2. ASSUME ScopeNext PROVE Flagged' /\ Reached'
  BY <1>2, ReachLink, ReachEnter, ReachRegister, ReachCancel, ReachBegin, ReachOther DEF ScopeNext
<1> QED
  BY <1>0, <1>1, <1>2 DEF CInv

LEMMA InvReaches ==
  ASSUME CInv
  PROVE  CancelReaches
<1>0. JInv /\ Reached /\ Lists /\ Calls /\ ScopeTypes
  BY DEF CInv, JInv
<1>1. SUFFICES ASSUME NEW s \in Scopes, scancelled[s], \A t \in Tasks : \A i \in DOMAIN frames[t] : frames[t][i].s > s
               PROVE  /\ \A u \in kids[s] : flag[u]
                      /\ \A c \in child_scopes[s] : scancelled[c] \/ \E t \in Tasks : tpc[t] = "inherit"
  BY DEF CancelReaches
<1>2. s \in Nat
  BY ScopeAssumption
<1>3. ~Pending(s)
  BY <1>1, <1>2 DEF Pending
<1>4. ASSUME NEW c \in child_scopes[s] PROVE ~Descending(c)
  <2>1. c = s + 1 /\ c - 1 = s
    BY <1>0, <1>2 DEF Lists
  <2>2. ASSUME NEW t \in Tasks, NEW i \in DOMAIN frames[t]
        PROVE  ~(frames[t][i].s = c - 1) /\ ~(frames[t][i].s = c /\ i # Len(frames[t]))
    <3>1. frames[t][i].s > s /\ frames[t][i].s \in Nat
      BY <1>0, <1>1, CalledOpen, ScopeAssumption
    <3>2. ASSUME frames[t][i].s = c, i # Len(frames[t]) PROVE FALSE
      <4>1. /\ frames[t] # <<>> /\ frames[t] \in Seq(CallFrame)
        BY <1>0 DEF ScopeTypes
      <4>2. /\ Len(frames[t]) \in Nat \ {0} /\ DOMAIN frames[t] = 1..Len(frames[t])
            /\ \A j \in 1..Len(frames[t]) : frames[t][j].s \in Nat /\ Call(t, j)
        BY <1>0, <4>1, TopFrame
      <4>3. i + 1 \in DOMAIN frames[t] /\ 1 \in DOMAIN frames[t] /\ i \in Nat
        BY <3>2, <4>2
      <4>4. /\ frames[t][i].s + i = frames[t][1].s + 1 /\ frames[t][i + 1].s + (i + 1) = frames[t][1].s + 1
            /\ frames[t][i + 1].s \in Nat /\ frames[t][1].s \in Nat
        BY <4>2, <4>3 DEF Call
      <4>5. \A a, b, d \in Nat : a + i = d + 1 /\ b + (i + 1) = d + 1 => a = b + 1
        BY <4>3
      <4>6. frames[t][i].s = frames[t][i + 1].s + 1
        BY <3>1, <4>4, <4>5
      <4>7. frames[t][i + 1].s > s
        BY <1>1, <4>3
      <4> QED
        BY <1>2, <2>1, <3>2, <4>4, <4>6, <4>7
    <3> QED
      BY <1>2, <2>1, <3>1, <3>2
  <2> QED
    BY <2>2 DEF Descending
<1> QED
  BY <1>0, <1>1, <1>3, <1>4 DEF Reached

\* For any number of tasks and nested scopes: once no call of jinn_scope_cancel is at
\* work on a cancelled scope or around it, every child is flagged, whether it was
\* registered before, during or after the call, and every scope inside is cancelled
\* or about to inherit the flag.
THEOREM ScopeCancelReaches == ScopeSpec => []CancelReaches
<1>1. ScopeInit => CInv
  <2>1. ASSUME ScopeInit PROVE Flagged /\ Reached
    <3>1. (\A t \in Tasks : frames[t] = <<>>) /\ (\A s \in Scopes : ~scancelled[s])
      BY <2>1 DEF ScopeInit, ScopeStart
    <3> QED
      BY <3>1 DEF Flagged, Reached
  <2> QED
    BY <2>1, JoinInit DEF CInv
<1>2. CInv /\ [ScopeNext]_scope_vars => CInv'
  BY CancelStep
<1>3. CInv => CancelReaches
  BY InvReaches
<1> QED
  BY <1>1, <1>2, <1>3, PTL DEF ScopeSpec

=============================================================================
