------------------------------ MODULE Lowering ------------------------------
(***************************************************************************)
(* mir/lower: from a typed body to SSA blocks.  The lowerer is a record    *)
(* that every operator takes and returns, L.v the value just produced:     *)
(*   blocks, nb, nv   the function, its last block and value               *)
(*   cur              the block being filled                               *)
(*   defs, sealed, incomplete, preds, subst    SSA construction            *)
(*   dead             blocks after a jump; a terminator set there is lost  *)
(*   loops, labels    <<continue, exit>>, <<label, continue, exit>>        *)
(*   txns             per open transaction, the loops open at its begin    *)
(*   owned            scopes of the enclosing `together` blocks            *)
(*   frame, cellvars, cells   cleanup of deferred blocks                   *)
(*   taken            variables whose address is taken                     *)
(*   void             the values of type Void;  fns: lowered closures      *)
(* Statements and expressions are records with a kind k.                   *)
(***************************************************************************)
EXTENDS Mir

new == [blocks |-> Entry :> EmptyBlock, nb |-> Entry, nv |-> 0, cur |-> Entry, params |-> <<>>,
        defs |-> Entry :> <<>>, sealed |-> {Entry}, incomplete |-> Entry :> <<>>,
        preds |-> Entry :> <<>>, subst |-> <<>>, dead |-> {}, loops |-> <<>>, labels |-> <<>>,
        txns |-> <<>>, owned |-> <<>>, frame |-> 0, cellvars |-> {}, cells |-> <<>>, taken |-> {},
        bound |-> {}, void |-> {}, cancellation |-> FALSE, fns |-> <<>>, v |-> 0]

new_block(L) ==
  LET b == L.nb + 1
  IN [L EXCEPT !.nb = b, !.blocks = (b :> EmptyBlock) @@ @, !.defs = (b :> <<>>) @@ @,
               !.incomplete = (b :> <<>>) @@ @, !.preds = (b :> <<>>) @@ @]
RECURSIVE NewBlocks(_, _)
NewBlocks(L, n) == IF n = 0 THEN L ELSE NewBlocks(new_block(L), n - 1)
switch_to(L, b) == [L EXCEPT !.cur = b]

VoidResult == {"txn_begin", "txn_commit", "txn_rollback", "scope_cancel", "scope_join",
               "scope_stop_actors", "cleanup_push", "cleanup_run", "poll"}
emit(L, op, n, a) ==
  LET d == L.nv + 1
  IN [L EXCEPT !.nv = d, !.v = d, !.blocks[L.cur].insts = Append(@, Inst(d, op, n, a)),
               !.void = IF op \in {"void", "log"} \/ (op = "call" /\ n \in VoidResult) THEN @ \cup {d} ELSE @]
emit_void(L, op, n, a) == [L EXCEPT !.blocks[L.cur].insts = Append(@, Inst(0, op, n, a))]
call(L, n, a) == emit(L, "call", n, a)
Void(L) == emit(L, "void", "", <<>>)
\* Emission into block b, the current block unchanged.
EmitIn(L, b, op, n, a) == switch_to(emit(switch_to(L, b), op, n, a), L.cur)

\* The edges of the old terminator are taken back before the new ones are added.
set_terminator(L, t) ==
  LET b == L.cur
      old == Range(Successors(L.blocks[b].term))
      dropped == [c \in DOMAIN L.preds |-> IF c \in old THEN SelectSeq(L.preds[c], LAMBDA x : x # b)
                                           ELSE L.preds[c]]
      add(p, c) == [p EXCEPT ![c] = Append(@, b)]
  IN IF b \in L.dead THEN L
     ELSE [L EXCEPT !.blocks[b].term = t, !.preds = FoldLeft(add, dropped, Successors(t))]
current_block_has_terminator(L) == L.blocks[L.cur].term # NoTerm

-----------------------------------------------------------------------------
(* SSA construction. *)

RECURSIVE read_var(_, _, _), try_remove_trivial_phi(_, _, _), resolve(_, _)

resolve(L, v) == IF v \in DOMAIN L.subst /\ L.subst[v] # v THEN resolve(L, L.subst[v]) ELSE v

PhiIn(L, b, d) == SelectSeq(L.blocks[b].phis, LAMBDA p : p.d = d)
NewPhi(L, b) == [L EXCEPT !.nv = @ + 1, !.v = L.nv + 1,
                          !.blocks[b].phis = Append(@, [d |-> L.nv + 1, in |-> <<>>])]
SetPhi(L, b, d, in) ==
  [L EXCEPT !.blocks[b].phis = [k \in DOMAIN @ |-> IF @[k].d = d THEN [@[k] EXCEPT !.in = in] ELSE @[k]]]
Define(L, b, x, v) == [L EXCEPT !.defs[b] = (x :> v) @@ @]

add_phi_operands(L, x, b, d) ==
  Then(FoldLeft(LAMBDA r, p : Then(read_var(r[1], x, p), LAMBDA M : <<M, Append(r[2], <<p, M.v>>)>>),
                <<L, <<>>>>, L.preds[b]),
       LAMBDA r : SetPhi(r[1], b, d, r[2]))

Substituted(L, m) == [L EXCEPT !.subst = m @@ @,
                               !.blocks = [b \in DOMAIN @ |-> SubstBlock(@[b], m)],
                               !.defs = [b \in DOMAIN @ |-> [x \in DOMAIN @[b] |-> To(m, @[b][x])]]]
replace_value_uses(L, old, by) == Substituted(L, old :> resolve(L, by))

\* The phis that read v, as <<block, phi>>.
PhiUsers(L, v) ==
  FlattenSeq([c \in 1..L.nb |-> Then(SelectSeq(L.blocks[c].phis, LAMBDA p : v \in Incoming(p)),
                                     LAMBDA ps : [k \in DOMAIN ps |-> <<c, ps[k].d>>])])
WithoutPhi(L, b, d) == [L EXCEPT !.blocks[b].phis = SelectSeq(@, LAMBDA p : p.d # d)]

\* L with v the value that replaces the phi, or 0 if it stays.
try_remove_trivial_phi(L, b, d) ==
  LET found == PhiIn(L, b, d)
      others == Incoming(found[1]) \ {d}
  IN IF found = <<>> \/ Cardinality(others) # 1 THEN [L EXCEPT !.v = 0]
     ELSE Then(CHOOSE v \in others : TRUE, LAMBDA same :
            Then(replace_value_uses(WithoutPhi(L, b, d), d, same), LAMBDA M :
              [FoldLeft(LAMBDA N, e : try_remove_trivial_phi(N, e[1], e[2]), M, PhiUsers(M, same))
                 EXCEPT !.v = same]))

\* The phi d of x in a sealed block b, filled and removed again if it is trivial.
FillPhi(L, x, b, d) == try_remove_trivial_phi(add_phi_operands(L, x, b, d), b, d)

read_var_recursive(L, x, b) ==
  CASE b \notin L.sealed -> Then(NewPhi(L, b), LAMBDA M : [M EXCEPT !.incomplete[b] = Append(@, <<x, M.v>>)])
    [] b \in L.sealed /\ Len(L.preds[b]) = 0 -> EmitIn(L, b, "load", x, <<>>)
    [] b \in L.sealed /\ Len(L.preds[b]) = 1 -> read_var(L, x, L.preds[b][1])
    [] OTHER -> Then(FillPhi(Define(NewPhi(L, b), b, x, L.nv + 1), x, b, L.nv + 1),
                     LAMBDA N : [N EXCEPT !.v = resolve(N, IF N.v = 0 THEN L.nv + 1 ELSE N.v)])

read_var(L, x, b) ==
  CASE x \in DOMAIN L.cells ->
         Then(read_var(L, L.cells[x], b), LAMBDA M : EmitIn(M, b, "deref", "", <<M.v>>))
    [] x \notin DOMAIN L.cells /\ x \in L.taken -> EmitIn(L, b, "load", x, <<>>)
    [] x \notin DOMAIN L.cells \cup L.taken /\ x \in DOMAIN L.defs[b] -> [L EXCEPT !.v = L.defs[b][x]]
    [] OTHER -> Then(read_var_recursive(L, x, b),
                     LAMBDA M : Then(resolve(M, M.v), LAMBDA v : [Define(M, b, x, v) EXCEPT !.v = v]))

write_var(L, x, v) ==
  Then([L EXCEPT !.bound = @ \cup {x}], LAMBDA M :
    IF x \in DOMAIN L.cells
    THEN Then(read_var(M, L.cells[x], L.cur), LAMBDA N : emit_void(N, "call", "cleanup_cell_set", <<N.v, v>>))
    ELSE Define(IF x \in L.taken THEN emit_void(M, "store", x, <<v>>) ELSE M, L.cur, x, v))

\* x of block b, which was the phi d, is what has replaced the phi.
Redefine(L, b, x, d) == IF L.v # 0 /\ x \in DOMAIN L.defs[b] /\ L.defs[b][x] = d
                        THEN Define(L, b, x, resolve(L, L.v)) ELSE L
seal_block(L, b) ==
  IF b \in L.sealed THEN L
  ELSE FoldLeft(LAMBDA M, e : Redefine(FillPhi(M, e[1], b, e[2]), b, e[1], e[2]),
                [L EXCEPT !.sealed = @ \cup {b}, !.incomplete[b] = <<>>], L.incomplete[b])

\* Fill block b, all of whose predecessors are known.
Into(L, b) == seal_block(switch_to(L, b), b)
\* What follows a jump goes to a block of its own that nothing reaches.
AfterJump(L) ==
  LET b == L.nb + 1
  IN Void(seal_block([switch_to(new_block(L), b) EXCEPT !.dead = @ \cup {b}], b))

-----------------------------------------------------------------------------
(* Cleanup: transactions, deferred blocks, cancellation. *)

Repeat(L, n, name) == FoldLeft(LAMBDA M, i : call(M, name, <<>>), L, [i \in 1..n |-> i])
emit_txn_unwind(L, name) == Repeat(L, Len(L.txns), name)
\* Mutant: a transaction begun as the loop's first statement is left open.
EscapeInner(L) == Repeat(L, Len(SelectSeq(L.txns, LAMBDA begun : begun > Len(L.loops))), "txn_commit")
\* The transactions begun inside the innermost loop are committed.
emit_txn_loop_escape(L) ==
  Repeat(L, Len(SelectSeq(L.txns, LAMBDA begun : begun >= Len(L.loops))), "txn_commit")

lower_deferred_in_reverse(L) == IF L.frame = 0 THEN L ELSE call(L, "cleanup_run", <<L.frame>>)

CancelScopes(L) ==
  FoldLeft(LAMBDA M, sc : call(call(M, "scope_cancel", <<sc>>), "scope_join", <<sc>>), L, Reverse(L.owned))

\* A cancelled task leaves through its own unwinding block.
Unwind(L) ==
  call(lower_deferred_in_reverse(CancelScopes(call(L, "txn_rollback", <<>>))), "cancel_default", <<>>)
ReturnValue(L) == set_terminator(L, Return(L.v))
BranchTo(L, then, else) == set_terminator(L, Branch(L.v, then, else))
lower_cancel_checkpoint(L, yield_now) ==
  IF ~L.cancellation \/ current_block_has_terminator(L) THEN L
  ELSE [Into(ReturnValue(Unwind(Into(BranchTo(NewBlocks(
          call(IF yield_now THEN call(L, "poll", <<>>) ELSE L, "cancelled", <<>>), 2),
          L.nb + 1, L.nb + 2), L.nb + 1))), L.nb + 2) EXCEPT !.v = L.v]

cleanup_frame(L) ==
  IF L.frame # 0 THEN L
  ELSE Then(EmitIn(L, Entry, "call", "cleanup_new", <<>>),
            LAMBDA M : [M EXCEPT !.frame = M.v, !.blocks[Entry].insts = <<Last(@)>> \o Front(@)])

CellOf(x) == Append(x, "cell")
\* A variable that a deferred block reads lives in a cell of the frame, made
\* where the variable is bound.
NewCell(L, x) == [Define(L, L.cur, CellOf(x), L.v) EXCEPT !.cells = (x :> CellOf(x)) @@ @, !.bound = @ \cup {x}]
bind_cleanup_cell(L, x, v) ==
  IF x \notin L.cellvars \/ x \in DOMAIN L.cells THEN write_var(L, x, v)
  ELSE NewCell(Then(cleanup_frame(L), LAMBDA M : call(M, "cleanup_cell", <<M.frame, v>>)), x)

-----------------------------------------------------------------------------
(* What a body refers to (collect_var_refs, collect_addr_taken). *)

IfBodies(s) == {s.then} \cup {e.b : e \in Range(s.elifs)} \cup Range(s.els)
Bodies(s) ==
  CASE s.k = "if" -> IfBodies(s)
    [] s.k = "set" /\ s.e.k = "ifx" -> IfBodies(s.e)
    [] s.k = "match" -> {a.b : a \in Range(s.arms)}
    [] s.k = "select" -> {a.b : a \in Range(s.arms)} \cup Range(s.default)
    [] s.k = "together" -> {s.b, s.err, s.ok}
    [] s.k \in {"while", "loop", "for", "txn", "defer"} -> {s.b}
    [] OTHER -> {}
RECURSIVE AllStmts(_), ExprVars(_)
AllStmts(b) == Range(b) \cup UNION {UNION {AllStmts(c) : c \in Bodies(s)} : s \in Range(b)}
ExprVars(e) == CASE e.k = "var" -> {e.x} [] e.k \in {"and", "or"} -> ExprVars(e.l) \cup ExprVars(e.r)
                 [] e.k = "tern" -> ExprVars(e.l) \cup ExprVars(e.r) [] OTHER -> {}
StmtVars(s) == CASE s.k \in {"set", "log", "ret", "err"} -> ExprVars(s.e) [] OTHER -> {}
VarRefs(b) == UNION {StmtVars(s) : s \in AllStmts(b)}
Defers(b) == {s \in AllStmts(b) : s.k = "defer"}
AddrTaken(b) == {s.x : s \in {t \in AllStmts(b) : t.k = "poke"}}

-----------------------------------------------------------------------------
RECURSIVE lower_stmt(_, _), lower_expr(_, _), lower_if_expr(_, _), lower_arms(_, _, _, _, _), lower_elifs(_, _, _, _, _)

\* Control goes on to block b, unless it has left.
FallTo(L, b) == IF current_block_has_terminator(L) THEN L ELSE set_terminator(L, Goto(b))
lower_block_stmts(L, b) == FoldLeft(lower_stmt, L, b)
lower_block_expr(L, b) == FoldLeft(lower_stmt, Void(L), b)

Prologue(L, body) ==
  [L EXCEPT !.cellvars = UNION {VarRefs(d.b) : d \in Defers(body)}, !.taken = @ \cup AddrTaken(body)]
Framed(L, body) == [IF Defers(body) = {} THEN L ELSE cleanup_frame(L) EXCEPT !.cancellation = TRUE]
CloseBody(L, void) ==
  IF current_block_has_terminator(L) \/ L.cur \notin reachable_from(L, Entry) THEN L
  ELSE set_terminator(lower_deferred_in_reverse(L), Return(IF void THEN 0 ELSE L.v))
finish_body(L, body, void) ==
  CloseBody(lower_block_expr(lower_cancel_checkpoint(Framed(Prologue(L, body), body), FALSE), body), void)
Function(L) == [blocks |-> L.blocks, params |-> L.params]

\* Expressions that choose: one block per operand, a phi where they meet.
Meet(L, ends) ==
  LET live == SelectSeq(ends, LAMBDA e : e[1] \notin L.dead)
  IN IF live = <<>> THEN Void(L) ELSE SetPhi(NewPhi(L, L.cur), L.cur, L.nv + 1, live)

\* The second operand is lowered into block b; the values of both meet in the next.
OtherOperand(K, L, e, b, merge) ==
  Then(lower_expr(Into(L, b), e), LAMBDA R :
    Meet(Into(set_terminator(R, Goto(merge)), merge), <<<<K.cur, K.v>>, <<R.cur, R.v>>>>))

lower_short_circuit(L, e) ==
  Then(lower_expr(L, e.l), LAMBDA A :
    Then(emit(A, "const", IF e.k = "and" THEN 0 ELSE 1, <<>>), LAMBDA K :
      OtherOperand(K, set_terminator(NewBlocks(K, 2), IF e.k = "and" THEN Branch(A.v, A.nb + 1, A.nb + 2)
                                                      ELSE Branch(A.v, A.nb + 2, A.nb + 1)),
                   e.r, A.nb + 1, A.nb + 2)))

lower_ternary(L, e) ==
  Then(lower_expr(L, e.c), LAMBDA C :
    Then(lower_expr(Into(BranchTo(NewBlocks(C, 3), C.nb + 1, C.nb + 2), C.nb + 1), e.l), LAMBDA T :
      OtherOperand(T, set_terminator(T, Goto(C.nb + 3)), e.r, C.nb + 2, C.nb + 3)))

lower_expr(L, e) ==
  CASE e.k = "const" -> emit(L, "const", e.n, <<>>)
    [] e.k = "var" -> read_var(L, e.x, L.cur)
    [] e.k = "cond" -> call(L, "cond", <<>>)
    [] e.k = "call" -> lower_cancel_checkpoint(call(L, "call", <<>>), FALSE)
    [] e.k \in {"and", "or"} -> lower_short_circuit(L, e)
    [] e.k = "tern" -> lower_ternary(L, e)
    [] e.k = "ifx" -> lower_if_expr(L, e)

-----------------------------------------------------------------------------
(* if / elif / else *)

Arm(L, b, body, merge, ends) ==
  Then(lower_block_expr(Into(L, b), body), LAMBDA M :
    [l |-> set_terminator(M, Goto(merge)), ends |-> Append(ends, <<M.cur, M.v>>)])

\* The tests after the first: `test` is the block where the previous one failed.
lower_elifs(r, s, i, test, merge) ==
  IF i > Len(s.elifs)
  THEN IF s.els = <<>> THEN r ELSE Arm(r.l, test, s.els[1], merge, r.ends)
  ELSE LET more == i < Len(s.elifs) \/ s.els # <<>>
           body == r.l.nb + 1
           fails == IF more THEN r.l.nb + 2 ELSE merge
       IN lower_elifs(Arm(BranchTo(lower_expr(Into(NewBlocks(r.l, IF more THEN 2 ELSE 1), test), s.elifs[i].c),
                                   body, fails),
                          body, s.elifs[i].b, merge, r.ends), s, i + 1, fails, merge)

\* An `if` with an else whose live arms all have a value has that value.
IfValue(L, s, live) ==
  IF s.els # <<>> /\ live # <<>> /\ \A i \in DOMAIN live : live[i][2] \notin L.void
  THEN Meet(L, live) ELSE Void(L)
FinishIf(L, s, merge, ends) ==
  Then(Into(L, merge), LAMBDA M : IfValue(M, s, SelectSeq(ends, LAMBDA e : e[1] \notin M.dead)))
lower_if_arms(L, s) ==
  LET more == s.elifs # <<>> \/ s.els # <<>>
      fails(C) == IF more THEN C.nb + 3 ELSE C.nb + 2
  IN Then(lower_expr(L, s.c), LAMBDA C :
       Then(Arm(BranchTo(NewBlocks(C, IF more THEN 3 ELSE 2), C.nb + 1, fails(C)), C.nb + 1, s.then, C.nb + 2, <<>>),
            LAMBDA A : IF more THEN lower_elifs(A, s, 1, fails(C), C.nb + 2) ELSE A)
       @@ [merge |-> C.nb + 2])
lower_if(L, s) == Then(lower_if_arms(L, s), LAMBDA R : FinishIf(R.l, s, R.merge, R.ends))
lower_if_expr(L, e) == Then(lower_if_arms(L, e), LAMBDA R : Meet(Into(R.l, R.merge), R.ends))

-----------------------------------------------------------------------------
(* match: a switch when the patterns are distinct constants and no arm has a *)
(* guard, a chain of tests otherwise.  An arm is [p, g, b].                  *)

ByConstants(arms) ==
  /\ \A i \in DOMAIN arms : arms[i].p.k \in {"lit", "wild"} /\ arms[i].g = <<>>
  /\ \A i, j \in DOMAIN arms : (i # j /\ arms[i].p.k = "lit") => arms[i].p # arms[j].p

ArmBody(L, arm, merge) ==
  FallTo(lower_block_expr(L, arm.b), merge)

lower_match_switch(L, subj, arms, merge) ==
  LET first == L.nb + 1
      arm(i) == first + i
      lits == SelectSeq([i \in DOMAIN arms |-> i], LAMBDA i : arms[i].p.k = "lit")
      wilds == {i \in DOMAIN arms : arms[i].p.k = "wild"}
      default == IF wilds = {} THEN first ELSE arm(Max(wilds))
      cases == [k \in DOMAIN lits |-> <<arms[lits[k]].p.n, arm(lits[k])>>]
  IN FoldLeft(LAMBDA M, i : ArmBody(Into(M, arm(i)), arms[i], merge),
              Then(set_terminator(NewBlocks(L, Len(arms) + 1), Switch(subj, cases, default)), LAMBDA S :
                IF wilds = {} THEN Into(S, first) ELSE S),
              [i \in DOMAIN arms |-> i])

\* The test of one pattern in the current block.
lower_pattern_test(L, subj, p, hit, miss) ==
  CASE p.k = "lit" -> Then(emit(emit(L, "const", p.n, <<>>), "eq", "", <<subj, L.nv + 1>>), LAMBDA C :
                        set_terminator(C, Branch(C.v, hit, miss)))
    [] p.k = "bind" -> set_terminator(write_var(L, p.x, subj), Goto(hit))
    [] OTHER -> set_terminator(L, Goto(hit))

lower_or_pattern(L, subj, alts, hit, miss) ==
  LET fails(M, i) == IF i = Len(alts) THEN miss ELSE M.nb + 1
      more(M, i) == IF i = Len(alts) THEN M ELSE new_block(M)
  IN FoldLeft(LAMBDA r, i : [l |-> lower_pattern_test(switch_to(more(r.l, i), r.at), subj, alts[i], hit, fails(r.l, i)),
                             at |-> fails(r.l, i)],
              [l |-> L, at |-> L.cur], [i \in DOMAIN alts |-> i]).l

ArmTest(L, subj, p, hit, miss) ==
  IF p.k = "or" THEN lower_or_pattern(L, subj, p.alts, hit, miss) ELSE lower_pattern_test(L, subj, p, hit, miss)
ArmBinder(L, subj, p) == IF p.k = "bind" THEN bind_cleanup_cell(L, p.x, subj) ELSE L
ArmGuard(L, g, next) ==
  IF g = <<>> THEN L
  ELSE Then(lower_expr(L, g[1]), LAMBDA C : Into(BranchTo(new_block(C), C.nb + 1, next), C.nb + 1))

\* The blocks that hold the later tests are never sealed.
lower_arms(L, subj, arms, i, merge) ==
  IF i > Len(arms) THEN L
  ELSE LET last == i = Len(arms)
           arm == L.nb + 1
           next == IF last THEN merge ELSE L.nb + 2
           p == arms[i].p
       IN lower_arms(switch_to(ArmBody(ArmGuard(ArmBinder(Into(
                       ArmTest(NewBlocks(L, IF last THEN 1 ELSE 2), subj, p, arm, next), arm), subj, p),
                       arms[i].g, next), arms[i], merge), next), subj, arms, i + 1, merge)

lower_match(L, s) ==
  Then(lower_expr(L, s.e), LAMBDA S :
    Then(new_block(S), LAMBDA M :
      Void(Into(IF ByConstants(s.arms) THEN lower_match_switch(M, S.v, s.arms, M.nb)
                ELSE lower_arms(M, S.v, s.arms, 1, M.nb), M.nb))))

-----------------------------------------------------------------------------
(* Loops. *)

\* The body of a loop that continues at `cont` and leaves to `exit`.
LoopBody(L, body, cont, exit) ==
  [FallTo(lower_block_stmts([L EXCEPT !.loops = Append(@, <<cont, exit>>)], body), cont) EXCEPT !.loops = L.loops]

\* A loop's first block: reached from here, it polls and looks for cancellation.
LoopHead(L, head, poll) == lower_cancel_checkpoint(switch_to(set_terminator(L, Goto(head)), head), poll)
LeaveLoop(L, cont, exit) == Void(Into(seal_block(L, cont), exit))

lower_while(L, s) ==
  LET cond == L.nb + 1
      body == L.nb + 2
      exit == L.nb + 3
  IN LeaveLoop(LoopBody(Into(BranchTo(lower_expr(LoopHead(NewBlocks(L, 3), cond, TRUE), s.c), body, exit), body),
                        s.b, cond, exit), cond, exit)

lower_loop(L, s) ==
  LeaveLoop(LoopBody(LoopHead(NewBlocks(L, 2), L.nb + 1, TRUE), s.b, L.nb + 1, L.nb + 2), L.nb + 1, L.nb + 2)

BindElement(L, x) == bind_cleanup_cell(call(L, "iter_value", <<>>), x, L.nv + 1)

\* The elements of a channel or a generator: ask, look for cancellation, branch.
AskIter(L, s) == lower_cancel_checkpoint(call(L, IF s.iter = "chan" THEN "chan_next" ELSE "gen_done", <<>>), FALSE)
lower_iter_for(L, s, cond, body, exit) ==
  Then(AskIter(LoopHead(L, cond, TRUE), s), LAMBDA M :
    LoopBody(BindElement(Into(IF s.iter = "chan" THEN BranchTo(M, body, exit) ELSE BranchTo(M, exit, body), body),
                         s.x), s.b, cond, exit))

\* 0, 1, ... below s.n; the elements of a vector go through an index of their own.
Consts(L, ns) == FoldLeft(LAMBDA M, n : emit(M, "const", n, <<>>), L, ns)
CountedBody(L, s, inc, exit) ==
  switch_to(LoopBody(IF s.iter = "each" THEN BindElement(L, s.x) ELSE L, s.b, inc, exit), inc)
lower_counted_for(L, s, cond, body, inc, exit) ==
  LET idx == IF s.iter = "each" THEN Append(s.x, "idx") ELSE s.x
      end == L.nv + 1
      one == L.nv + 2
      zero == L.nv + 3
  IN Then(Then(LoopHead(write_var(Consts(L, <<s.n, 1, 0>>), idx, zero), cond, TRUE), LAMBDA M : read_var(M, idx, M.cur)),
       LAMBDA R : Then(emit(CountedBody(Into(BranchTo(emit(R, "lt", "", <<R.v, end>>), body, exit), body), s, inc, exit),
                            "add", "", <<R.v, one>>),
         LAMBDA A : set_terminator(write_var(A, idx, A.v), Goto(cond))))

lower_for(L, s) ==
  LET cond == L.nb + 1
      body == L.nb + 2
      inc == L.nb + 3
      exit == L.nb + 4
  IN Then([NewBlocks(L, 4) EXCEPT !.labels = IF s.label = "" THEN @ ELSE Append(@, <<s.label, inc, exit>>)], LAMBDA N :
       LeaveLoop(seal_block([IF s.iter \in {"chan", "gen"} THEN lower_iter_for(N, s, cond, body, exit)
                             ELSE lower_counted_for(N, s, cond, body, inc, exit) EXCEPT !.labels = L.labels], inc),
                 cond, exit))

-----------------------------------------------------------------------------
(* Jumps. *)

LeaveWith(L, unwind) ==
  AfterJump(set_terminator(lower_deferred_in_reverse(emit_txn_unwind(L, unwind)), Return(L.v)))
lower_ret(L, s) == LeaveWith(lower_expr(L, s.e), "txn_commit")
lower_err_return(L, s) == LeaveWith(lower_expr(L, s.e), "txn_rollback")

\* break and continue, of the innermost loop or of a labelled one.
lower_jump(L, s) ==
  LET hits == SelectSeq(L.labels, LAMBDA e : e[1] = s.label)
      target == IF s.label # "" THEN <<Last(hits)[2], Last(hits)[3]>> ELSE Last(L.loops)
  IN AfterJump(set_terminator(emit_txn_loop_escape(L), Goto(IF s.k = "break" THEN target[2] ELSE target[1])))

-----------------------------------------------------------------------------
(* Transactions, deferred blocks, structured concurrency, select. *)

lower_txn(L, s) ==
  call([lower_block_stmts([call(L, "txn_begin", <<>>) EXCEPT !.txns = Append(@, Len(L.loops))], s.b)
          EXCEPT !.txns = L.txns], "txn_commit", <<>>)

\* A deferred block is a closure over the cells (or the values) of the
\* variables it reads.
Captured(L, names) ==
  FoldLeft(LAMBDA r, x : Then(read_var(r[1], x, r[1].cur), LAMBDA M : <<M, Append(r[2], M.v)>>), <<L, <<>>>>, names)
Closure(L, caps, sub, body) ==
  emit([L EXCEPT !.fns = Append(@, Function(finish_body(sub, body, TRUE)))], "closure", Len(L.fns) + 2, caps)
lower_defer(L, s) ==
  LET vars == SetToSeq(VarRefs(s.b) \cap L.bound)
      name(x) == IF x \in DOMAIN L.cells THEN L.cells[x] ELSE x
      sub == [new EXCEPT !.nv = Len(vars), !.params = [i \in DOMAIN vars |-> i],
                         !.cells = [x \in Range(vars) \cap DOMAIN L.cells |-> L.cells[x]],
                         !.defs = Entry :> [y \in {name(x) : x \in Range(vars)} |->
                                              CHOOSE i \in DOMAIN vars : name(vars[i]) = y]]
  IN Then(Captured(cleanup_frame(L), [i \in DOMAIN vars |-> name(vars[i])]), LAMBDA caps :
       Then(Closure(caps[1], caps[2], sub, s.b), LAMBDA C : call(C, "cleanup_push", <<C.frame, C.v>>)))

\* The error of a child leaves the function, or goes to the handler's arm.
TogetherBody(L, s, sc) ==
  call([lower_block_stmts([call(L, "scope_create", <<>>) EXCEPT !.owned = Append(@, sc)], s.b)
          EXCEPT !.owned = L.owned], "scope_stop_actors", <<sc>>)
JoinScope(L, s) == lower_cancel_checkpoint(IF s.fallible THEN call(L, "join_take_error", <<>>) ELSE L, FALSE)
ChildFailed(L, s, done) ==
  IF s.handled THEN set_terminator(lower_block_stmts(L, s.err), Goto(done))
  ELSE AfterJump(set_terminator(lower_deferred_in_reverse(emit(L, "const", -1, <<>>)), Return(L.nv + 1)))
lower_together(L, s) ==
  Then(JoinScope(call(TogetherBody(L, s, L.nv + 1), "scope_join", <<L.nv + 1>>), s), LAMBDA G :
    IF ~s.fallible THEN G
    ELSE Void(Into(set_terminator(lower_block_stmts(Into(
           ChildFailed(Into(BranchTo(NewBlocks(G, 3), G.nb + 1, G.nb + 2), G.nb + 1), s, G.nb + 3),
           G.nb + 2), s.ok), Goto(G.nb + 3)), G.nb + 3)))

\* The arms are lowered first; the switch of the select block is set last.
SelectArm(L, s, i, b, merge) ==
  set_terminator(lower_block_stmts(lower_cancel_checkpoint(
      IF i <= Len(s.arms) THEN BindElement(switch_to(L, b), s.arms[i].x) ELSE switch_to(L, b), FALSE),
    IF i <= Len(s.arms) THEN s.arms[i].b ELSE s.default[1]), Goto(merge))
lower_select(L, s) ==
  LET n == Len(s.arms) + Len(s.default)
      merge == L.nb + 1
      arm(i) == merge + i
      cases == [i \in DOMAIN s.arms |-> <<i - 1, arm(i)>>]
      switch == Switch(L.nv + 1, cases, IF s.default = <<>> THEN merge ELSE arm(n))
  IN Then(FoldLeft(LAMBDA N, i : SelectArm(N, s, i, arm(i), merge),
                   NewBlocks(emit(L, "select", "", <<>>), 1 + n), [i \in 1..n |-> i]), LAMBDA A :
       emit(lower_cancel_checkpoint(Into(
              FoldLeft(LAMBDA N, i : seal_block(N, arm(i)), set_terminator(switch_to(A, L.cur), switch),
                       [i \in 1..n |-> i]), merge), FALSE), "const", 0, <<>>))

lower_stmt(L, s) ==
  CASE s.k = "set" -> Then(lower_expr(L, s.e), LAMBDA E : [bind_cleanup_cell(E, s.x, E.v) EXCEPT !.v = E.v])
    [] s.k = "expr" -> lower_expr(L, s.e)
    [] s.k = "log" -> Then(lower_expr(L, s.e), LAMBDA E : emit(E, "log", "", <<E.v>>))
    [] s.k = "poke" -> lower_cancel_checkpoint(call(emit(L, "addr", s.x, <<>>), "poke", <<L.nv + 1>>), FALSE)
    [] s.k = "if" -> lower_if(L, s)
    [] s.k = "match" -> lower_match(L, s)
    [] s.k = "while" -> lower_while(L, s)
    [] s.k = "loop" -> lower_loop(L, s)
    [] s.k = "for" -> lower_for(L, s)
    [] s.k = "ret" -> lower_ret(L, s)
    [] s.k = "err" -> lower_err_return(L, s)
    [] s.k \in {"break", "continue"} -> lower_jump(L, s)
    [] s.k = "txn" -> lower_txn(L, s)
    [] s.k = "defer" -> lower_defer(L, s)
    [] s.k = "together" -> lower_together(L, s)
    [] s.k = "select" -> lower_select(L, s)

lower_function(p) == Then(finish_body(new, p.body, p.void), LAMBDA L : <<Function(L)>> \o L.fns)
=============================================================================
