------------------------------ MODULE Pipeline ------------------------------
(***************************************************************************)
(* The middle of the compiler: a function is lowered and then optimized,   *)
(* pass by pass, until nothing changes or the rounds are used up; and what *)
(* its statements mean, for the comparison.                                *)
(***************************************************************************)
EXTENDS Lowering

-----------------------------------------------------------------------------
(* What the language manual promises of a function body, said directly on  *)
(* the statements: the reference the lowered code is compared with.  The   *)
(* run state is that of module Mir; mem maps a variable to its storage in  *)
(* cells, and st is "run", "out" or the way control is leaving.            *)

\* A cancelled task rolls its transaction back before anything else unwinds.
Checkpoint(s) ==
  IF s.st # "run" THEN s
  ELSE Then(Cancelled(s), LAMBDA t :
         IF t.v = 1 THEN [TxnRollback(t) EXCEPT !.st = "cancel"] ELSE [t EXCEPT !.v = s.v])

Bind(s, x, v) == [s EXCEPT !.cells = Append(@, v), !.mem = (x :> Len(s.cells) + 1) @@ @, !.v = v]
Assign(s, x, v) == [s EXCEPT !.cells[s.mem[x]] = v, !.v = v]

RECURSIVE Value(_, _), Exec(_, _), Taken(_, _), Repeated(_, _, _), Elifs(_, _, _), Chosen(_, _, _, _)

Value(e, s) ==
  CASE s.st # "run" -> s
    [] e.k = "const" -> [s EXCEPT !.v = e.n]
    [] e.k = "var" -> [s EXCEPT !.v = s.cells[s.mem[e.x]]]
    [] e.k = "cond" -> Answer(s)
    [] e.k = "call" -> Checkpoint(Fresh(s, "call"))
    [] e.k \in {"and", "or"} ->
         Then(Value(e.l, s), LAMBDA l :
           IF l.st # "run" \/ ((l.v = 0) <=> (e.k = "and")) THEN l ELSE Value(e.r, l))
    [] e.k = "tern" -> Then(Value(e.c, s), LAMBDA c : Value(IF c.v # 0 THEN e.l ELSE e.r, c))
    [] e.k = "ifx" -> Taken(e, Value(e.c, s))

Block(b, s) == FoldLeft(LAMBDA t, x : IF t.st # "run" THEN t ELSE Exec(x, [t EXCEPT !.v = 0]), s, b)

Elifs(s, i, t) ==
  IF i > Len(s.elifs) THEN IF s.els = <<>> THEN [t EXCEPT !.v = 0] ELSE Block(s.els[1], t)
  ELSE Then(Value(s.elifs[i].c, t), LAMBDA c :
         IF c.st # "run" THEN c ELSE IF c.v # 0 THEN Block(s.elifs[i].b, c) ELSE Elifs(s, i + 1, c))
Taken(s, c) == CASE c.st # "run" -> c
                 [] c.st = "run" /\ c.v # 0 -> Block(s.then, c)
                 [] OTHER -> Elifs(s, 1, c)

\* The first arm whose pattern and guard accept the subject.
Matches(p, v) == CASE p.k = "lit" -> v = p.n
                   [] p.k = "or" -> \E i \in DOMAIN p.alts : p.alts[i].n = v
                   [] OTHER -> TRUE
Chosen(arms, i, v, t) ==
  IF i > Len(arms) THEN t
  ELSE IF ~Matches(arms[i].p, v) THEN Chosen(arms, i + 1, v, t)
  ELSE LET b == IF arms[i].p.k = "bind" THEN Bind(t, arms[i].p.x, v) ELSE t
       IN Then(IF arms[i].g = <<>> THEN [b EXCEPT !.v = 1] ELSE Value(arms[i].g[1], b), LAMBDA g :
            IF g.st # "run" THEN g
            ELSE IF g.v = 0 THEN Chosen(arms, i + 1, v, g) ELSE Block(arms[i].b, g))

\* What starts an iteration: TRUE in v when there is one.  A counter is bound
\* anew for every iteration.
Head1(s, i, t) ==
  LET truth(c, b) == [c EXCEPT !.v = IF b THEN 1 ELSE 0]
      element(u) == IF s.iter = "range" THEN [u EXCEPT !.v = i] ELSE Fresh(u, "value")
      bind(u) == IF u.st = "run" /\ u.v # 0
                 THEN Then(element(u), LAMBDA w : [Bind(w, s.x, w.v) EXCEPT !.v = 1]) ELSE u
      got(u) == IF u.st # "run" THEN u ELSE bind(Checkpoint([u EXCEPT !.v = IF s.iter = "gen" THEN 1 - @ ELSE @]))
  IN Then(Checkpoint(t), LAMBDA c :
       CASE c.st # "run" -> c
         [] c.st = "run" /\ s.k = "while" -> Value(s.c, c)
         [] c.st = "run" /\ s.k = "loop" -> truth(c, TRUE)
         [] c.st = "run" /\ s.k = "for" /\ s.iter \in {"range", "each"} -> bind(truth(c, i < s.n))
         [] OTHER -> got(Answer(Event(c, <<IF s.iter = "chan" THEN "chan_next" ELSE "gen_done">>))))

Mine(s, t) == t.label = "" \/ (s.k = "for" /\ t.label = s.label)
Repeated(s, i, t) ==
  LET on(b) == [b EXCEPT !.st = "run", !.v = 0]
      Turn(b) == CASE b.st = "break" /\ Mine(s, b) -> on(b)
                   [] b.st = "run" \/ (b.st = "continue" /\ Mine(s, b)) -> Repeated(s, i + 1, on(b))
                   [] OTHER -> b
  IN Then(Head1(s, i, t), LAMBDA h : IF h.st # "run" \/ h.v = 0 THEN h ELSE Turn(Block(s.b, h)))

\* `return`, `break` and `continue` commit, an error or a cancellation rolls back.
Transaction(s, t) ==
  Then(Block(s.b, TxnBegin(t)), LAMBDA b :
    CASE b.st = "out" -> b
      [] b.st \in {"err", "cancel"} -> TxnRollback(b)
      [] OTHER -> TxnCommit(b))

\* Children never outlive the block: it joins them however it is left.
Together(s, t) ==
  LET id == t.scopes + 1
      joined(b) == Event(Event(b, <<"scope_stop_actors", id>>), <<"scope_join", id>>)
      Failed(e) == CASE e.st # "run" -> e
                     [] e.st = "run" /\ e.v = 0 -> Block(s.ok, e)
                     [] e.st = "run" /\ e.v # 0 /\ s.handled -> Block(s.err, e)
                     [] OTHER -> [e EXCEPT !.st = "err", !.v = -1]
  IN Then(Block(s.b, [Event(t, <<"scope", id>>) EXCEPT !.scopes = id]), LAMBDA b :
       CASE b.st = "cancel" -> Event(Event(b, <<"scope_cancel", id>>), <<"scope_join", id>>)
         [] b.st = "out" -> b
         [] b.st \notin {"cancel", "out", "run"} -> joined(b)
         [] b.st = "run" /\ ~s.fallible -> Checkpoint(joined(b))
         [] OTHER -> Failed(Checkpoint(Answer(Event(joined(b), <<"join_take_error">>)))))

Select(s, t) ==
  LET got(a, x) == Then(Fresh(a, "value"), LAMBDA f : Checkpoint(Bind(f, x, f.v)))
      Alternative(a, i) == IF i <= Len(s.arms) THEN Block(s.arms[i].b, got(a, s.arms[i].x))
                   ELSE IF s.default # <<>> THEN Block(s.default[1], Checkpoint(a)) ELSE a
  IN Then(Answer(t), LAMBDA a : IF a.st # "run" THEN a ELSE Checkpoint(Alternative(a, a.v + 1)))

\* A statement whose expression has the value e.v.
WithValue(s, e) ==
  CASE e.st # "run" -> e
    [] e.st = "run" /\ s.k = "set" -> IF s.decl THEN Bind(e, s.x, e.v) ELSE Assign(e, s.x, e.v)
    [] e.st = "run" /\ s.k = "expr" -> e
    [] e.st = "run" /\ s.k = "log" -> Event(e, <<"log", e.v>>)
    [] e.st = "run" /\ s.k = "if" -> Taken(s, e)
    [] e.st = "run" /\ s.k = "match" -> Chosen(s.arms, 1, e.v, e)
    [] e.st = "run" /\ s.k \in {"ret", "err"} -> [e EXCEPT !.st = s.k]
Exec(s, t) ==
  CASE s.k \in {"set", "expr", "log", "ret", "err", "match", "if"} ->
         WithValue(s, Value(IF s.k = "if" THEN s.c ELSE s.e, t))
    [] s.k = "poke" -> Then(Fresh(t, "poke"), LAMBDA f : Checkpoint(Assign(f, s.x, f.v)))
    [] s.k \in {"while", "loop", "for"} -> Repeated(s, 0, t)
    [] s.k \in {"break", "continue"} -> [t EXCEPT !.st = s.k, !.label = s.label]
    [] s.k = "txn" -> Transaction(s, t)
    [] s.k = "together" -> Together(s, t)
    [] s.k = "select" -> Select(s, t)
    [] s.k = "defer" -> [t EXCEPT !.frame = Append(@, [b |-> s.b, mem |-> t.mem])]

\* The registered blocks run once each, last registered first, on the present
\* contents of the storage they captured.
Deferred(s) ==
  FoldLeft(LAMBDA t, d : [Block(d.b, [t EXCEPT !.mem = d.mem]) EXCEPT !.mem = t.mem],
           [s EXCEPT !.shield = TRUE, !.st = "run"], Reverse(s.frame))

RunSource(p, tape, cancel) ==
  LET v(s) == CASE s.st = "cancel" -> 0 [] s.st = "run" /\ p.void -> 0 [] OTHER -> s.v
      Ended(s, d) ==
        IF s.st = "out" \/ d.st = "out"
        THEN [d EXCEPT !.st = "out", !.trace = IF s.st = "out" THEN s.trace ELSE @, !.depth = s.depth]
        ELSE [Event(d, <<"return", v(s)>>) EXCEPT !.st = "done"]
  IN Then(Block(p.body, Checkpoint(Start(tape, cancel) @@ [label |-> ""])), LAMBDA s : Outcome(Ended(s, Deferred(s))))
-----------------------------------------------------------------------------
CONSTANTS Programs,   \* the bodies of this instance: [name -> [body, void]]
          Tapes,      \* answers given to the conditions of a run
          Cancels,    \* the checkpoints at which a run is cancelled; 0: never
          MaxRounds   \* the rounds of OptLevel::Full (bound)

VARIABLES prog, fns, phase, round, changed
vars == <<prog, fns, phase, round, changed>>

Init == /\ prog \in DOMAIN Programs /\ fns = <<>>
        /\ phase = "source" /\ round = 0 /\ changed = FALSE

Lower == /\ phase = "source"
         /\ fns' = lower_function(Programs[prog])
         /\ phase' = "unreachable"
         /\ UNCHANGED <<prog, round, changed>>

Pass(at, to, F(_)) ==
  /\ phase = at
  /\ fns' = [i \in DOMAIN fns |-> F(fns[i])]
  /\ changed' = (changed \/ fns' # fns)
  /\ phase' = to
  /\ UNCHANGED <<prog, round>>

\* optimize: unreachable blocks first, then rounds of the five passes.  A lowered
\* body has its cancellation block, so inject_yields leaves it as it is.
FirstPass == Pass("unreachable", "round", remove_unreachable_blocks)
StartRound == /\ phase = "round"
              /\ IF round = MaxRounds \/ (round > 0 /\ ~changed)
                 THEN phase' = "done" /\ UNCHANGED <<round, changed>>
                 ELSE phase' = "forward" /\ round' = round + 1 /\ changed' = FALSE
              /\ UNCHANGED <<prog, fns>>
Forward == Pass("forward", "phis", store_load_forwarding)
Simplify == Pass("phis", "dce", simplify_phis)
Eliminate == Pass("dce", "merge", dead_code_elimination)
Merge == Pass("merge", "sweep", merge_linear_blocks)
Sweep == Pass("sweep", "round", remove_unreachable_blocks)

Next == Lower \/ FirstPass \/ StartRound \/ Forward \/ Simplify \/ Eliminate \/ Merge \/ Sweep
Spec == Init /\ [][Next]_vars

-----------------------------------------------------------------------------
\* After lowering and after every pass, a run of the function does what the
\* statements promise: the same logs, calls, commits and rollbacks, scope joins
\* and deferred blocks in the same order, the same result, and no transaction
\* left open, for every answer to its conditions and every checkpoint at which
\* the task is cancelled.
Preserved ==
  phase # "source" =>
    \A t \in Tapes, c \in Cancels : RunMir(fns, t, c) = RunSource(Programs[prog], t, c)

\* What every stage hands on passes verify_function, which the compiler runs
\* before code generation, and in SSA form every reachable block's phis have
\* exactly one operand for each predecessor, as the code generator's phi nodes
\* need.
WellFormed ==
  \A i \in DOMAIN fns : LET f == fns[i] IN
    /\ verify_function(f)
    /\ phase # "unreachable" =>
         \A b \in DOMAIN f.blocks : \A p \in Range(f.blocks[b].phis) :
           /\ {e[1] : e \in Range(p.in)} = Range(predecessors(f)[b])
           /\ Len(p.in) = Cardinality(Range(predecessors(f)[b]))

\* Every loop of the generated code passes a scheduler poll, so a task that
\* loops cannot keep its worker from the others and sees its cancellation.
Polls(b) == \E i \in DOMAIN b.insts : (b.insts[i].op = "call" /\ b.insts[i].n = "poll")
RECURSIVE Within(_, _, _)
Within(f, S, Q) ==
  LET next == S \cup (Q \cap UNION {Range(Successors(f.blocks[b].term)) : b \in S})
  IN IF next = S THEN S ELSE Within(f, next, Q)
LoopsPoll ==
  \A i \in DOMAIN fns :
    LET f == fns[i]
        quiet == {b \in DOMAIN f.blocks : ~Polls(f.blocks[b])}
    IN \A b \in quiet : \A c \in quiet \cap Range(Successors(f.blocks[b].term)) :
         b \notin Within(f, {c}, quiet)

\* Both, after every pass: the code that is generated from is well formed and has
\* no loop that runs without meeting the scheduler.
Verified == WellFormed /\ LoopsPoll
=============================================================================
