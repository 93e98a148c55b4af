-------------------------------- MODULE Mir --------------------------------
(***************************************************************************)
(* The middle-level form of a function, its optimizer passes and what it   *)
(* does when it runs.  A function is                                       *)
(*    [blocks : id -> [phis, insts, term], params]                         *)
(* with entry block 1.  An instruction is [d, op, n, a]: the value it      *)
(* defines (0: none), its kind, a name or constant, the values it uses.    *)
(* A phi is [d, in], `in` a sequence of <<predecessor, value>>.            *)
(* Types, spans and names are left out.                                    *)
(***************************************************************************)
EXTENDS Integers, Sequences, FiniteSets, SequencesExt, FiniteSetsExt, Functions, TLC

\* x is computed, then F goes on from it.
Then(x, F(_)) == F(x)

Entry == 1
Inst(d, op, n, a) == [d |-> d, op |-> op, n |-> n, a |-> a]
NoTerm == <<"unreachable">>
Goto(b) == <<"goto", b>>
Branch(v, t, e) == <<"branch", v, t, e>>
Switch(v, cases, b) == <<"switch", v, cases, b>>
Return(v) == <<"return", v>>
EmptyBlock == [phis |-> <<>>, insts |-> <<>>, term |-> NoTerm]

\* Terminator::successors
Successors(t) ==
  CASE t[1] = "goto" -> <<t[2]>>
    [] t[1] = "branch" -> <<t[3], t[4]>>
    [] t[1] = "switch" -> Append([i \in DOMAIN t[3] |-> t[3][i][2]], t[4])
    [] OTHER -> <<>>

Ids(f) == SelectSeq([i \in 1..Max(DOMAIN f.blocks) |-> i], LAMBDA i : i \in DOMAIN f.blocks)
\* Function::predecessors: one entry per edge.
predecessors(f) ==
  [b \in DOMAIN f.blocks |->
     FlattenSeq([i \in DOMAIN Ids(f) |->
        LET s == Successors(f.blocks[Ids(f)[i]].term)
        IN [k \in DOMAIN SelectSeq(s, LAMBDA x : x = b) |-> Ids(f)[i]]])]

RECURSIVE Reach(_, _)
Reach(f, S) ==
  LET next == S \cup UNION {Range(Successors(f.blocks[b].term)) : b \in S}
  IN IF next = S THEN S ELSE Reach(f, next)
reachable_from(f, b) == Reach(f, {b})

-----------------------------------------------------------------------------
(* Substitution of values. *)

To(m, v) == IF v \in DOMAIN m THEN m[v] ELSE v
subst_inst(i, m) == [i EXCEPT !.a = [k \in DOMAIN i.a |-> To(m, i.a[k])]]
subst_term(t, m) == IF t[1] \in {"branch", "switch", "return"} THEN [t EXCEPT ![2] = To(m, @)] ELSE t
SubstPhi(p, m) == [p EXCEPT !.in = [k \in DOMAIN p.in |-> <<p.in[k][1], To(m, p.in[k][2])>>]]
SubstBlock(b, m) ==
  [phis |-> [k \in DOMAIN b.phis |-> SubstPhi(b.phis[k], m)],
   insts |-> [k \in DOMAIN b.insts |-> subst_inst(b.insts[k], m)],
   term |-> subst_term(b.term, m)]
MapBlocks(f, F(_)) == [f EXCEPT !.blocks = [b \in DOMAIN f.blocks |-> F(f.blocks[b])]]

InstUses(f) == UNION {UNION {Range(f.blocks[b].insts[k].a) : k \in DOMAIN f.blocks[b].insts} : b \in DOMAIN f.blocks}
TermUses(f) == {f.blocks[b].term[2] : b \in {c \in DOMAIN f.blocks :
                                              f.blocks[c].term[1] \in {"branch", "switch", "return"}}}
Phis(f) == UNION {Range(f.blocks[b].phis) : b \in DOMAIN f.blocks}
Incoming(p) == {e[2] : e \in Range(p.in)}

-----------------------------------------------------------------------------
(* The passes of mir/opt. *)

remove_unreachable_blocks(f) ==
  LET r == reachable_from(f, Entry)
      g == [f EXCEPT !.blocks = Restrict(@, r)]
      keep(p) == [p EXCEPT !.in = SelectSeq(@, LAMBDA e : e[1] \in r)]
  IN IF r = DOMAIN f.blocks THEN f
     ELSE MapBlocks(g, LAMBDA b : [b EXCEPT !.phis = [k \in DOMAIN @ |-> keep(@[k])]])

\* Within a block, a load takes the value of the last store or load of its name
\* that no call, address or field store came after.
ForwardBlock(b) ==
  LET forget == {"call", "log", "select"}
      step(s, i) ==
        CASE i.op = "addr" -> [s EXCEPT !.known = Restrict(@, DOMAIN @ \ {i.n}), !.esc = @ \cup {i.n}]
          [] i.op = "store" -> IF i.n \in s.esc THEN s ELSE [s EXCEPT !.known = (i.n :> i.a[1]) @@ @]
          [] i.op = "load" -> IF i.n \in DOMAIN s.known THEN [s EXCEPT !.map = (i.d :> s.known[i.n]) @@ @]
                              ELSE IF i.n \in s.esc THEN s ELSE [s EXCEPT !.known = (i.n :> i.d) @@ @]
          [] i.op \in forget -> [s EXCEPT !.known = <<>>]
          [] OTHER -> s
  IN FoldLeft(step, [known |-> <<>>, esc |-> {}, map |-> <<>>], b.insts).map

store_load_forwarding(f) ==
  LET own == {b \in DOMAIN f.blocks : b \notin Range(Successors(f.blocks[b].term))}
      maps == [b \in own |-> ForwardBlock(f.blocks[b])]
      all == [v \in UNION {DOMAIN maps[b] : b \in own} |->
                maps[CHOOSE b \in own : v \in DOMAIN maps[b]][v]]
  IN IF DOMAIN all = {} THEN f
     ELSE MapBlocks(f, LAMBDA b : [SubstBlock(b, all) EXCEPT
                                     !.insts = SelectSeq(@, LAMBDA i : i.d \notin DOMAIN all)])

RECURSIVE LivePhis(_, _)
LivePhis(f, live) ==
  LET more == live \cup UNION {Incoming(p) : p \in {q \in Phis(f) : q.d \in live}}
  IN IF more = live THEN live ELSE LivePhis(f, more)

RECURSIVE Chase(_, _, _)
Chase(m, v, seen) == IF v \notin DOMAIN m \/ v \in seen THEN v ELSE Chase(m, m[v], seen \cup {v})

simplify_phis(f) ==
  LET live == LivePhis(f, InstUses(f) \cup TermUses(f))
      g == MapBlocks(f, LAMBDA b : [b EXCEPT !.phis = SelectSeq(@, LAMBDA p : p.d \in live)])
      repl(ps, k) ==
        LET same == {j \in 1..(k - 1) : ps[j].in = ps[k].in}
            others == Incoming(ps[k]) \ {ps[k].d}
        IN IF same # {} THEN {<<ps[k].d, ps[Min(same)].d>>}
           ELSE IF Cardinality(others) = 1 THEN {<<ps[k].d, CHOOSE v \in others : TRUE>>} ELSE {}
      pairs == UNION {UNION {repl(g.blocks[b].phis, k) : k \in DOMAIN g.blocks[b].phis} : b \in DOMAIN g.blocks}
      m == [v \in {p[1] : p \in pairs} |-> (CHOOSE p \in pairs : p[1] = v)[2]]
      resolved == [v \in DOMAIN m |-> Chase(m, v, {})]
  IN IF DOMAIN m = {} THEN g
     ELSE MapBlocks(g, LAMBDA b : SubstBlock([b EXCEPT !.phis = SelectSeq(@, LAMBDA p : p.d \notin DOMAIN m)],
                                             resolved))

is_pure(op) == op \in {"const", "void", "copy", "lt", "eq", "ne", "add"}
may_trap(op) == op = "add"

dead_code_elimination(f) ==
  LET used == InstUses(f) \cup TermUses(f) \cup UNION {Incoming(p) : p \in Phis(f)}
  IN MapBlocks(f, LAMBDA b : [b EXCEPT !.insts =
        SelectSeq(@, LAMBDA i : i.d = 0 \/ i.d \in used \/ ~is_pure(i.op) \/ may_trap(i.op))])

\* A block whose only predecessor jumps to it is appended to that predecessor;
\* its phis become copies.
MergeInto(f, b) ==
  LET p == predecessors(f)[b][1]
      val(phi) == LET from == SelectSeq(phi.in, LAMBDA e : e[1] = p)
                  IN IF from # <<>> THEN from[1][2] ELSE phi.in[1][2]
      kept == SelectSeq(f.blocks[b].phis, LAMBDA phi : phi.in # <<>>)
      copies == [k \in DOMAIN kept |-> Inst(kept[k].d, "copy", "", <<val(kept[k])>>)]
      joined == [f.blocks[p] EXCEPT !.insts = @ \o copies \o f.blocks[b].insts,
                                    !.term = f.blocks[b].term]
      g == [f EXCEPT !.blocks = Restrict([@ EXCEPT ![p] = joined], DOMAIN f.blocks \ {b})]
      retarget(phi) == [phi EXCEPT !.in = [k \in DOMAIN @ |-> IF @[k][1] = b THEN <<p, @[k][2]>> ELSE @[k]]]
  IN MapBlocks(g, LAMBDA blk : [blk EXCEPT !.phis = [k \in DOMAIN @ |-> retarget(@[k])]])

MergeCandidates(f) ==
  LET pr == predecessors(f)
  IN {b \in DOMAIN f.blocks \ {Entry} : Len(pr[b]) = 1 /\ f.blocks[pr[b][1]].term = Goto(b)}
RECURSIVE merge_linear_blocks(_)
merge_linear_blocks(f) ==
  LET cand == MergeCandidates(f)
  IN IF cand = {} THEN f ELSE merge_linear_blocks(MergeInto(f, Min(cand)))

\* One round of optimize's loop.
OptRound(f) ==
  remove_unreachable_blocks(merge_linear_blocks(dead_code_elimination(
    simplify_phis(store_load_forwarding(f)))))

-----------------------------------------------------------------------------
(* verify_function_inner: block ids and targets exist, every value is        *)
(* defined once and every used value is defined, a phi has operands from      *)
(* predecessors only.                                                        *)

Defined(f) == f.params \o FlattenSeq([i \in DOMAIN Ids(f) |->
  LET b == f.blocks[Ids(f)[i]]
  IN [k \in DOMAIN b.phis |-> b.phis[k].d]
     \o SelectSeq([k \in DOMAIN b.insts |-> b.insts[k].d], LAMBDA d : d # 0)])

verify_function(f) ==
  LET defs == Defined(f)
      pr == predecessors(f)
  IN /\ Entry \in DOMAIN f.blocks
     /\ Cardinality(Range(defs)) = Len(defs)
     /\ \A b \in DOMAIN f.blocks :
          /\ Range(Successors(f.blocks[b].term)) \subseteq DOMAIN f.blocks
          /\ \A p \in Range(f.blocks[b].phis) : \A e \in Range(p.in) : e[1] \in Range(pr[b])
     /\ InstUses(f) \cup (TermUses(f) \ {0}) \cup UNION {Incoming(p) : p \in Phis(f)} \subseteq Range(defs)

-----------------------------------------------------------------------------
(* Execution.  A run is given a tape of answers for its conditions and the   *)
(* number of the checkpoint at which it finds itself cancelled.  State:      *)
(*   tape, cancel, trace   inputs left, events so far                        *)
(*   mem, cells, frame     named storage, cleanup cells, registered blocks   *)
(*   depth                 open transactions;  scopes: how many were made    *)
(*   n                     calls so far (a call returns 10 + n)              *)
(*   shield                cleanup is running;  st: "run", "out", "done"     *)

Start(tape, cancel) ==
  [tape |-> tape, cancel |-> cancel, trace |-> <<>>, mem |-> <<>>, cells |-> <<>>, frame |-> <<>>,
   depth |-> 0, scopes |-> 0, n |-> 0, shield |-> FALSE, st |-> "run", fuel |-> 60, v |-> 0]

Event(s, e) == [s EXCEPT !.trace = Append(@, e)]
Fresh(s, e) == [Event(s, <<e, s.n + 1>>) EXCEPT !.n = @ + 1, !.v = 11 + s.n]
\* An answer from the tape; a run whose tape is used up stops.
Answer(s) == IF s.tape = <<>> THEN [s EXCEPT !.st = "out", !.v = 0]
             ELSE [s EXCEPT !.v = Head(s.tape), !.tape = Tail(@)]
\* jinn_scope_check_cancelled: cleanup is shielded.
Cancelled(s) == IF s.shield \/ s.cancel = 0 THEN [s EXCEPT !.v = 0]
                ELSE [s EXCEPT !.cancel = @ - 1, !.v = IF s.cancel = 1 THEN 1 ELSE 0]

\* The transaction runtime: only the outermost commit commits, a rollback ends
\* every open level.
TxnBegin(s) == [s EXCEPT !.depth = @ + 1]
TxnCommit(s) == IF s.depth = 1 THEN [Event(s, <<"commit">>) EXCEPT !.depth = 0]
                ELSE [s EXCEPT !.depth = IF @ = 0 THEN 0 ELSE @ - 1]
TxnRollback(s) == IF s.depth = 0 THEN s ELSE [Event(s, <<"rollback">>) EXCEPT !.depth = 0]

RECURSIVE RunBlock(_, _, _, _, _, _), RunFrame(_, _)

\* One instruction: s with its result in s.v.
RunInst(fns, i, env, s) ==
  LET x(k) == env[i.a[k]]
      val(w) == [s EXCEPT !.v = w]
  IN CASE i.op = "const" -> val(i.n)
       [] i.op = "void" -> val(0)
       [] i.op = "copy" -> val(x(1))
       [] i.op = "add" -> val(x(1) + x(2))
       [] i.op = "lt" -> val(IF x(1) < x(2) THEN 1 ELSE 0)
       [] i.op = "eq" -> val(IF x(1) = x(2) THEN 1 ELSE 0)
       [] i.op = "addr" -> val(i.n)
       [] i.op = "load" -> val(IF i.n \in DOMAIN s.mem THEN s.mem[i.n] ELSE 0)
       [] i.op = "store" -> [s EXCEPT !.mem = (i.n :> x(1)) @@ @]
       [] i.op = "deref" -> val(s.cells[x(1)])
       [] i.op = "closure" -> val([fn |-> i.n, caps |-> [k \in DOMAIN i.a |-> x(k)]])
       [] i.op = "log" -> Event(s, <<"log", x(1)>>)
       [] i.op = "select" -> Answer(s)
       [] i.n = "cond" -> Answer(s)
       [] i.n \in {"chan_next", "gen_done", "join_take_error"} -> Answer(Event(s, <<i.n>>))
       [] i.n = "cancelled" -> Cancelled(s)
       [] i.n = "call" -> Fresh(s, "call")
       [] i.n = "iter_value" -> Fresh(s, "value")
       [] i.n = "poke" -> LET t == Fresh(s, "poke") IN [t EXCEPT !.mem = (x(1) :> t.v) @@ @]
       [] i.n = "txn_begin" -> TxnBegin(s)
       [] i.n = "txn_commit" -> TxnCommit(s)
       [] i.n = "txn_rollback" -> TxnRollback(s)
       [] i.n = "scope_create" -> [Event(s, <<"scope", s.scopes + 1>>) EXCEPT !.scopes = @ + 1, !.v = s.scopes + 1]
       [] i.n \in {"scope_cancel", "scope_join", "scope_stop_actors"} -> Event(s, <<i.n, x(1)>>)
       [] i.n = "cleanup_cell" -> [s EXCEPT !.cells = Append(@, x(2)), !.v = Len(s.cells) + 1]
       [] i.n = "cleanup_cell_set" -> [s EXCEPT !.cells[x(1)] = x(2)]
       [] i.n = "cleanup_push" -> [s EXCEPT !.frame = Append(@, x(2))]
       [] i.n = "cleanup_run" -> [RunFrame(fns, [s EXCEPT !.shield = TRUE]) EXCEPT !.shield = s.shield]
       [] OTHER -> val(0)

Undefined == -99
\* The phis of a block are read together, on the edge from block `from`.
Enter(b, from, env) ==
  LET new == [d \in {p.d : p \in Range(b.phis)} |->
                LET p == CHOOSE q \in Range(b.phis) : q.d = d
                    e == SelectSeq(p.in, LAMBDA x : x[1] = from)
                IN IF e = <<>> THEN Undefined ELSE env[e[1][2]]]
  IN new @@ env

RunBlock(fns, f, b, from, env0, s0) ==
  LET step(r, i) == IF r.s.st # "run" THEN r
                    ELSE Then(RunInst(fns, i, r.env, r.s), LAMBDA t :
                           [s |-> t, env |-> IF i.d = 0 THEN r.env ELSE (i.d :> t.v) @@ r.env])
      t == f.blocks[b].term
      GoTo(r, c) == RunBlock(fns, f, c, b, r.env, r.s)
      Terminate(r) ==
        CASE r.s.st # "run" -> r.s
          [] r.s.st = "run" /\ r.s.fuel = 0 -> [r.s EXCEPT !.st = "fuel"]
          [] r.s.st = "run" /\ r.s.fuel # 0 /\ t[1] = "goto" -> GoTo(r, t[2])
          [] r.s.st = "run" /\ r.s.fuel # 0 /\ t[1] = "branch" -> GoTo(r, IF r.env[t[2]] # 0 THEN t[3] ELSE t[4])
          [] r.s.st = "run" /\ r.s.fuel # 0 /\ t[1] = "switch" ->
               LET hit == SelectSeq(t[3], LAMBDA c : c[1] = r.env[t[2]])
               IN GoTo(r, IF hit = <<>> THEN t[4] ELSE hit[1][2])
          [] r.s.st = "run" /\ r.s.fuel # 0 /\ t[1] = "return" ->
               [r.s EXCEPT !.st = "done", !.v = IF t[2] = 0 THEN 0 ELSE r.env[t[2]]]
          [] OTHER -> [r.s EXCEPT !.st = "unreachable"]
  IN Terminate(FoldLeft(step, [s |-> [s0 EXCEPT !.fuel = @ - 1], env |-> Enter(f.blocks[b], from, env0)],
                        f.blocks[b].insts))

RunFn(fns, k, args, s) ==
  RunBlock(fns, fns[k], Entry, 0, [v \in Range(fns[k].params) |->
             args[CHOOSE j \in DOMAIN args : fns[k].params[j] = v]], s)

\* jinn_cleanup_run: the registered blocks, last registered first.
RunFrame(fns, s) ==
  IF s.frame = <<>> THEN s
  ELSE LET c == Last(s.frame)
           Resume(t) == IF t.st = "done" THEN [t EXCEPT !.st = "run"] ELSE t
       IN RunFrame(fns, Resume(RunFn(fns, c.fn, c.caps, [s EXCEPT !.frame = Front(@)])))

\* What an observer sees of a run.
Outcome(s) == <<s.trace, s.st, s.depth>>
RunMir(fns, tape, cancel) ==
  LET Ended(s) == IF s.st = "done" THEN Event(s, <<"return", s.v>>) ELSE s
  IN Outcome(Ended(RunFn(fns, 1, <<>>, Start(tape, cancel))))
=============================================================================
