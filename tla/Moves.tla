-------------------------------- MODULE Moves --------------------------------
(***************************************************************************)
(* The move checker and the placement of scope drops in the typer          *)
(* (src/typer/lower/block.rs, place.rs, stmt/dispatch.rs, stmt/block.rs).  *)
(* A place is <<x>> or <<x, "f">>.  The checker's state c is a record:     *)
(*   mv     the moved places            own    ownership of each variable  *)
(*   scopes the declared names, innermost scope last                       *)
(*   iter   places borrowed by a `for`  dfr    variables a defer reads     *)
(*   pay    the place a payload binder was matched out of                  *)
(*   take, mut  what the two inferences say of every parameter             *)
(*   ok     no error has been reported                                     *)
(***************************************************************************)
EXTENDS Access

CONSTANTS Strs,     \* the variables that hold strings; all others hold aggregates
          Params    \* the parameters of the function being checked

Err(c) == [c EXCEPT !.ok = FALSE]
IsAggregate(e) == \/ e.op \in {"field", "new", "ctor"}
                  \/ e.op = "var" /\ e.x \notin Strs
place_of_expr(e) == CASE e.op = "var" -> <<e.x>>
                      [] e.op \in {"field", "name"} -> <<e.x, e.op>>
                      [] OTHER -> <<>>

path_covers(outer, inner) == Len(outer) <= Len(inner) /\ \A i \in DOMAIN outer : outer[i] = inner[i]
paths_overlap(p, q) == path_covers(p, q) \/ path_covers(q, p)

Declared(c) == UNION {Elems(c.scopes[i]) : i \in DOMAIN c.scopes}

\* A read of a whole value needs every part of it; a read of a field needs
\* that field and whatever contains it.
Readable(pl, c) == ~ \E q \in c.mv : paths_overlap(q, pl)
RECURSIVE ReadsOk(_, _)
ReadsOk(e, c) ==
  /\ e.op \in {"var", "field", "name", "push", "lambda"} => e.x \in Declared(c)
  /\ e.op \in {"var", "push", "lambda"} => Readable(<<e.x>>, c)
  /\ e.op \in {"field", "name"} => Readable(place_of_expr(e), c)
  /\ \A a \in Elems(e.args) : ReadsOk(a, c)

iter_borrow_conflict(pl, c) == \E q \in c.iter : paths_overlap(q, pl)

\* Moving a payload binder also moves the value it was matched out of.
RECURSIVE mark_place_moved_checked(_, _)
mark_place_moved_checked(pl, c) ==
  IF iter_borrow_conflict(pl, c) \/ pl[1] \in c.dfr THEN Err(c)
  ELSE LET d == [c EXCEPT !.mv = @ \cup {pl}]
       IN IF c.pay[pl[1]] = <<>> THEN d ELSE mark_place_moved_checked(c.pay[pl[1]], d)

(***************************************************************************)
(* Two arguments of one call may not overlap when the callee changes one   *)
(* of them; a consumed variable may not be used again in the same list; a  *)
(* mutating parameter gets a whole variable.                               *)
(***************************************************************************)
check_call_arg_aliasing(f, args, c) ==
  LET placed == {i \in DOMAIN args : place_of_expr(args[i]) # <<>>}
      P(i) == place_of_expr(args[i])
  IN /\ \A i \in placed : Len(P(i)) > 1 => ~c.mut[f][i]
     /\ \A i \in placed, j \in DOMAIN args :
          c.take[f][i] /\ Len(P(i)) = 1 /\ i # j => P(i)[1] \notin collect_hir_var_ids_expr(args[j])
     /\ \A i, j \in placed :
          i < j /\ ~c.take[f][i] /\ ~c.take[f][j] /\ paths_overlap(P(i), P(j))
            => ~(c.mut[f][i] \/ c.mut[f][j])
     /\ \A i \in placed : c.mut[f][i] => ~iter_borrow_conflict(P(i), c)

\* Every expression of es that names an aggregate variable moves it.
RECURSIVE MoveAll(_, _)
MoveAll(es, c) ==
  IF es = <<>> THEN c
  ELSE MoveAll(Tail(es), IF Head(es).op = "var" /\ IsAggregate(Head(es))
                           THEN mark_place_moved_checked(<<Head(es).x>>, c) ELSE c)

RECURSIVE record_take_moves_in_expr(_, _)
RECURSIVE RecordAll(_, _)
RecordAll(es, c) ==
  IF es = <<>> THEN c ELSE RecordAll(Tail(es), record_take_moves_in_expr(Head(es), c))

\* Mutant: a parameter that is handed over is not marked as moved.
RecordCallLocals(e, c) ==
  IF ~check_call_arg_aliasing(e.x, e.args, c) THEN Err(c)
  ELSE RecordAll(e.args, MoveAll(SelectSeq(e.args, LAMBDA a : a.x \notin Params /\
         \E i \in DOMAIN e.args : c.take[e.x][i] /\ e.args[i] = a), c))

RecordCall(e, c) ==
  IF ~check_call_arg_aliasing(e.x, e.args, c) THEN Err(c)
  ELSE RecordAll(e.args, MoveAll(SelectSeq(e.args, LAMBDA a :
         \E i \in DOMAIN e.args : c.take[e.x][i] /\ e.args[i] = a), c))

\* A parameter is not marked when it is pushed, even when it is owned.
RecordPush(e, c) ==
  IF iter_borrow_conflict(<<e.x>>, c) \/ e.args[1] = Var(e.x) THEN Err(c)
  ELSE RecordAll(e.args, MoveAll(SelectSeq(e.args, LAMBDA a :
         a.op = "var" /\ a.x \notin Params /\ c.own[a.x] = "owned"), c))

RecordSend(e, c) == RecordAll(e.args, MoveAll(e.args, c))
record_ctor_capture(e, c) == RecordAll(e.args, MoveAll(e.args, c))

\* Each arm starts from the same moves; afterwards either may have happened.
RecordArms(e, c) ==
  LET t == record_take_moves_in_expr(e.args[1], c)
      f == record_take_moves_in_expr(e.args[2], c)
  IN [c EXCEPT !.mv = t.mv \cup f.mv, !.ok = t.ok /\ f.ok]

mark_closure_captures(e, c) ==
  IF e.x \in Strs THEN c
  ELSE IF c.own[e.x] = "borrowed" THEN Err(c)
  ELSE mark_place_moved_checked(<<e.x>>, c)

record_take_moves_in_expr(e, c) ==
  CASE e.op = "call"   -> RecordCall(e, c)
    [] e.op = "push"   -> RecordPush(e, c)
    [] e.op = "send"   -> RecordSend(e, c)
    [] e.op = "ctor"   -> record_ctor_capture(e, c)
    [] e.op = "cond"   -> RecordArms(e, c)
    [] e.op = "lambda" -> mark_closure_captures(e, c)
    [] OTHER -> c

(***************************************************************************)
(* What a block gives away, and so does not drop at its end.               *)
(***************************************************************************)
collect_moved_var_ids(e) ==
  IF e.op = "var" THEN {e.x}
  ELSE IF e.op = "ctor" THEN {a.x : a \in {b \in Elems(e.args) : b.op = "var"}} ELSE {}

RECURSIVE collect_consumed_in_expr(_, _)
collect_consumed_in_expr(e, c) ==
  (CASE e.op \in {"push", "send"} -> collect_moved_var_ids(e.args[1])
     [] e.op = "ctor" -> {x \in collect_moved_var_ids(e) : x \notin Strs}
     [] e.op = "call" -> UNION {collect_moved_var_ids(e.args[i]) : i \in {j \in DOMAIN e.args : c.take[e.x][j]}}
     [] e.op = "lambda" -> {e.x} \ Strs
     [] OTHER -> {})
  \cup UNION {collect_consumed_in_expr(a, c) : a \in Elems(e.args)}

RECURSIVE collect_consumed_in_stmt(_, _)
collect_consumed_in_stmt(s, c) ==
  (IF s.k \in {"bind", "assignf"} /\ s.e.op = "var" THEN {s.e.x} ELSE {})
    \cup collect_consumed_in_expr(s.e, c)
    \cup UNION {collect_consumed_in_stmt(t, c) : t \in Elems(s.a) \cup Elems(s.b)}

expand_payload_bind_links(ids, c) == ids \cup {c.pay[x][1] : x \in {y \in ids : c.pay[y] # <<>>}}

\* The owned names of the innermost scope that nothing consumed, youngest first.
emit_scope_drops_excluding(stmts, exclude, c) ==
  LET scope == c.scopes[Len(c.scopes)]
      gone  == expand_payload_bind_links(
                 exclude \cup UNION {collect_consumed_in_stmt(t, c) : t \in Elems(stmts)}, c)
      kept  == SelectSeq(scope, LAMBDA x : c.own[x] = "owned" /\ x \notin gone)
  IN [i \in 1..Len(kept) |-> St("drop", kept[Len(kept) + 1 - i], "none", New, <<>>, <<>>)]

Jumps == {"ret", "break", "continue"}

\* Drops go before a jump that ends the block and spare what the jump reads.
finalize_block_drops(stmts, extra, c) ==
  LET n == Len(stmts)
  IN IF n > 0 /\ stmts[n].k \in Jumps
     THEN SubSeq(stmts, 1, n - 1)
            \o emit_scope_drops_excluding(SubSeq(stmts, 1, n - 1), extra \cup collect_hir_var_ids_stmt(stmts[n]), c)
            \o <<stmts[n]>>
     ELSE stmts \o emit_scope_drops_excluding(stmts, extra, c)

push_scope(names, c) == [c EXCEPT !.scopes = Append(@, names)]
pop_scope(c) ==
  LET dead == Elems(c.scopes[Len(c.scopes)])
  IN [c EXCEPT !.scopes = SubSeq(@, 1, Len(@) - 1),
               !.own = [x \in DOMAIN @ |-> IF x \in dead THEN "none" ELSE @[x]],
               !.mv = {pl \in @ : pl[1] \notin dead}]

(***************************************************************************)
(* A loop body may not leave an outer value moved that was not moved       *)
(* before it; what the body did is then forgotten.                         *)
(***************************************************************************)
\* Mutant: what a body moves is not looked at when the loop ends.
LoopMovesUnchecked(pre, end) == end
check_loop_body_moves(pre, end) ==
  IF \E pl \in end.mv \ pre.mv : pl[1] \in Declared(pre) THEN Err(end) ELSE end
AfterLoop(pre, end) == [check_loop_body_moves(pre, end) EXCEPT !.mv = pre.mv]

(***************************************************************************)
(* A bind.  A field that holds an aggregate is taken out of its owner; a   *)
(* plain bind of a borrowed variable is another borrow; a name that is     *)
(* already bound is assigned to, and its old value dropped if it is owned, *)
(* whole and not part of the new value.                                    *)
(***************************************************************************)
BindMod(s) == IF s.mod = "none" /\ s.e.op = "field" THEN "take" ELSE s.mod
BindOwnership(s, c) ==
  IF BindMod(s) = "none" /\ s.e.op = "var" /\ c.own[s.e.x] = "borrowed" THEN "borrowed" ELSE "owned"
assign_old_drop_safe(s) == s.x \notin collect_hir_var_ids_expr(s.e)

LowerBind(s, c) ==
  LET mod  == BindMod(s)
      own  == BindOwnership(s, c)
      old  == s.x \in Declared(c)
      drop == old /\ c.own[s.x] = "owned" /\ (\A pl \in c.mv : pl[1] # s.x) /\ assign_old_drop_safe(s)
      out  == [s EXCEPT !.mod = mod, !.old = drop, !.own = own]
      bad  == \/ ~ReadsOk(s.e, c)
              \/ mod = "take" /\ s.e.op = "var" /\ c.own[s.e.x] = "borrowed"
              \/ old /\ iter_borrow_conflict(<<s.x>>, c)
      c1   == [c EXCEPT !.own[s.x] = own, !.mv = {pl \in @ : pl[1] # s.x},
                        !.scopes[Len(c.scopes)] = IF old THEN @ ELSE Append(@, s.x)]
      c2   == IF mod = "take" /\ s.e.op = "field" THEN mark_place_moved_checked(<<s.e.x, "field">>, c1) ELSE c1
      c3   == IF s.e.op = "var" /\ s.e.x # s.x /\ own # "borrowed" /\ mod # "copy" /\ IsAggregate(s.e)
                THEN mark_place_moved_checked(<<s.e.x>>, c2) ELSE c2
      c4   == record_take_moves_in_expr(s.e, c3)
  IN [c |-> IF bad THEN Err(c) ELSE [c4 EXCEPT !.mv = {pl \in @ : pl[1] # s.x}], out |-> <<out>>]

\* x.f is e: the field counts as whole again.
LowerAssignField(s, c) ==
  LET bad == ~ReadsOk(s.e, c) \/ Readable(<<s.x>>, [c EXCEPT !.mv = {<<s.x>>} \cap @]) = FALSE
                \/ iter_borrow_conflict(<<s.x, "field">>, c)
      c1  == [c EXCEPT !.mv = {pl \in @ : ~path_covers(<<s.x, "field">>, pl)}]
      c2  == record_take_moves_in_expr(s.e, c1)
  IN [c |-> IF bad THEN Err(c) ELSE c2, out |-> <<s>>]

RECURSIVE lower_stmt(_, _)
RECURSIVE LowerSeq(_, _)
lower_block(b, c) ==
  LET Close(r) == [c |-> pop_scope(r.c), out |-> finalize_block_drops(r.out, {}, r.c)]
  IN Close(LowerSeq(b, push_scope(<<>>, c)))

LowerExpr(s, c) ==
  [c |-> IF ReadsOk(s.e, c) THEN record_take_moves_in_expr(s.e, c) ELSE Err(c), out |-> <<s>>]

\* A return records no move, but it may not give away what a deferred body reads.
check_deferred_return(e, c) == collect_moved_var_ids(e) \cap c.dfr = {}
LowerRet(s, c) ==
  [c |-> IF ReadsOk(s.e, c) /\ check_deferred_return(s.e, c) THEN c ELSE Err(c), out |-> <<s>>]

\* Both arms start from the same moves and their results are joined; ownership
\* changes of a variable are kept in the order the arms are lowered.
lower_if(s, c) ==
  LET Join(t, f) == [c |-> [f.c EXCEPT !.mv = c.mv \cup t.c.mv \cup f.c.mv],
                     out |-> <<[s EXCEPT !.a = t.out, !.b = f.out]>>]
      Else(t) == Join(t, lower_block(s.b, [c EXCEPT !.ok = t.c.ok, !.own = t.c.own]))
  IN Else(lower_block(s.a, c))

LowerWhile(s, c) ==
  LET Close(r) == [c |-> AfterLoop(c, r.c), out |-> <<[s EXCEPT !.a = r.out]>>]
  IN Close(lower_block(s.a, c))

LowerFor(s, c) ==
  LET Close(r) == [c |-> AfterLoop(c, [r.c EXCEPT !.iter = c.iter, !.ok = @ /\ Readable(<<s.x>>, c)]),
                   out |-> <<[s EXCEPT !.a = r.out]>>]
  IN Close(lower_block(s.a, [c EXCEPT !.iter = @ \cup {<<s.x>>}]))

\* While a deferred body is lowered nothing in scope may be moved; afterwards
\* what it reads may not be.
LowerDefer(s, c) ==
  LET ids == UNION {collect_hir_var_ids_stmt(t) : t \in Elems(s.a)}
      Close(r) == [c |-> [r.c EXCEPT !.dfr = c.dfr \cup expand_payload_bind_links(ids, c)],
                   out |-> <<[s EXCEPT !.a = r.out]>>]
  IN Close(lower_block(s.a, [c EXCEPT !.dfr = @ \cup Declared(c)]))

lower_match(s, c) ==
  LET arm == [push_scope(<<s.mod>>, c) EXCEPT !.own[s.mod] = "owned", !.pay[s.mod] = <<s.x>>]
      Join(t, tc, f) ==
        [c |-> [f.c EXCEPT !.mv = c.mv \cup tc.mv \cup f.c.mv, !.ok = @ /\ Readable(<<s.x>>, c)],
         out |-> <<[s EXCEPT !.a = finalize_block_drops(t.out, {s.mod}, t.c), !.b = f.out]>>]
      Other(t, tc) == Join(t, tc, lower_block(s.b, [c EXCEPT !.ok = tc.ok, !.own = tc.own]))
      First(t) == Other(t, [pop_scope(t.c) EXCEPT !.pay = c.pay])
  IN First(LowerSeq(s.a, arm))

lower_stmt(s, c) ==
  CASE s.k = "bind"    -> LowerBind(s, c)
    [] s.k = "assignf" -> LowerAssignField(s, c)
    [] s.k = "do"      -> LowerExpr(s, c)
    [] s.k = "ret"     -> LowerRet(s, c)
    [] s.k = "if"      -> lower_if(s, c)
    [] s.k = "while"   -> LowerWhile(s, c)
    [] s.k = "for"     -> LowerFor(s, c)
    [] s.k = "defer"   -> LowerDefer(s, c)
    [] s.k = "match"   -> lower_match(s, c)
    [] OTHER -> [c |-> c, out |-> <<s>>]
LowerSeq(b, c) ==
  IF b = <<>> THEN [c |-> c, out |-> <<>>]
  ELSE LET Joined(h, t) == [c |-> t.c, out |-> h.out \o t.out]
           Rest(h) == Joined(h, LowerSeq(Tail(b), h.c))
       IN Rest(lower_stmt(Head(b), c))

\* The function's own scope: a consumed parameter is an owner, any other a borrow.
lower_fn(fn, take, mut, self, Vars) ==
  LET own(x) == IF x \notin Elems(fn.params) THEN "none"
                ELSE IF take[self][CHOOSE i \in DOMAIN fn.params : fn.params[i] = x] THEN "owned" ELSE "borrowed"
      c0 == [mv |-> {}, own |-> [x \in Vars |-> own(x)], scopes |-> <<fn.params>>, iter |-> {}, dfr |-> {},
             pay |-> [x \in Vars |-> <<>>], take |-> take, mut |-> mut, ok |-> TRUE]
      Close(r) == [ok |-> r.c.ok, body |-> finalize_block_drops(r.out, {}, r.c)]
  IN Close(LowerSeq(fn.body, c0))
-----------------------------------------------------------------------------
(* Escape analysis (src/escape/mod.rs): how far the value of each local    *)
(* bind may travel, and the binds that need not own theirs.  Tiers are     *)
(* 0 (Auto, never used), 1 (read in place), 2 (stored, returned or read by *)
(* a closure) and 3 (sent to another thread); join is the maximum.         *)

note_var_use(x, ctx, inner) == <<x, IF ctx = 1 /\ inner THEN 2 ELSE ctx>>

\* The uses in an expression that stands in context ctx.
RECURSIVE walk_expr_consumer(_, _)
walk_expr_consumer(e, ctx) ==
  LET into == CASE e.op \in {"push", "ctor"} -> 2 [] e.op = "send" -> 3 [] OTHER -> 1
  IN (CASE e.op = "var" -> {note_var_use(e.x, ctx, FALSE)}
        [] e.op \in {"field", "name", "push"} -> {note_var_use(e.x, 1, FALSE)}
        [] e.op = "lambda" -> {note_var_use(e.x, 1, TRUE)}
        [] OTHER -> {})
     \cup UNION {walk_expr_consumer(a, into) : a \in Elems(e.args)}

lvalue_store_context(s) == IF s.k = "assignf" THEN 2 ELSE 1

RECURSIVE walk_stmt(_)
walk_stmt(s) ==
  walk_expr_consumer(s.e, IF s.k = "ret" THEN 2 ELSE lvalue_store_context(s))
    \cup (IF s.k \in {"assignf", "for", "match"} THEN {note_var_use(s.x, 1, FALSE)} ELSE {})
    \cup UNION {walk_stmt(t) : t \in Elems(s.a) \cup Elems(s.b)}

\* The body's own binds are seeded with Auto; parameters have no entry.
RECURSIVE seed_binds_in_stmt(_)
seed_binds_in_stmt(s) ==
  IF s.k = "bind" THEN {s.x}
  ELSE UNION {seed_binds_in_stmt(t) : t \in Elems(s.a) \cup Elems(s.b)}

analyze_fn(body) ==
  LET uses  == UNION {walk_stmt(t) : t \in Elems(body)}
      seeds == UNION {seed_binds_in_stmt(t) : t \in Elems(body)}
      top(x) == {0} \cup {u[2] : u \in {w \in uses : w[1] = x}}
  IN [x \in seeds |-> CHOOSE t \in top(x) : \A o \in top(x) : o <= t]

(***************************************************************************)
(* A plain bind of a string field that never leaves the function borrows   *)
(* the field: the bind is marked, and its drops leave the block.           *)
(***************************************************************************)
Demotable(s, tier) ==
  s.k = "bind" /\ s.mod = "none" /\ s.own = "owned" /\ s.e.op = "name" /\ tier[s.x] = 1

RECURSIVE demote_block(_, _)
demote_block(b, tier) ==
  LET demoted == {s.x : s \in {t \in Elems(b) : Demotable(t, tier)}}
      kept == SelectSeq(b, LAMBDA s : ~(s.k = "drop" /\ s.x \in demoted))
  IN [i \in DOMAIN kept |->
        CASE Demotable(kept[i], tier) -> [kept[i] EXCEPT !.own = "borrowed"]
          [] OTHER -> [kept[i] EXCEPT !.a = demote_block(@, tier), !.b = demote_block(@, tier)]]

apply_demotions(body) == demote_block(body, analyze_fn(body))
=============================================================================
