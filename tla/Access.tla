------------------------------- MODULE Access -------------------------------
(***************************************************************************)
(* Which parameters a function consumes and which it mutates: the two      *)
(* fixpoints of src/typer/consume_infer.rs and src/typer/mutate_infer.rs.  *)
(* A program is a function from function names to their parameters and     *)
(* bodies; expressions and statements are the part of the syntax that      *)
(* moves, stores, mutates or reads heap values.                            *)
(***************************************************************************)
EXTENDS Integers, Sequences, FiniteSets

Ex(op, x, args) == [op |-> op, x |-> x, args |-> args]
Var(x)        == Ex("var", x, <<>>)
Field(x)      == Ex("field", x, <<>>)      \* x.f, a field that holds an aggregate
Name(x)       == Ex("name", x, <<>>)       \* x.name, a field that holds a string
New           == Ex("new", "", <<>>)
Call(f, args) == Ex("call", f, args)
Push(x, a)    == Ex("push", x, <<a>>)      \* x.push(a)
Ctor(args)    == Ex("ctor", "", args)
Send(a)       == Ex("send", "", <<a>>)
Cond(t, e)    == Ex("cond", "", <<t, e>>)
Lambda(x)     == Ex("lambda", x, <<>>)     \* a closure that reads x

\* own and old are filled in for binds by Moves: how the variable holds the value,
\* and whether the value it held before is dropped.
St(k, x, mod, e, a, b) ==
  [k |-> k, x |-> x, mod |-> mod, e |-> e, a |-> a, b |-> b, own |-> "none", old |-> FALSE]
Bind(x, mod, e)  == St("bind", x, mod, e, <<>>, <<>>)
AssignF(x, e)    == St("assignf", x, "none", e, <<>>, <<>>)
Do(e)            == St("do", "", "none", e, <<>>, <<>>)
If(a, b)         == St("if", "", "none", New, a, b)
While(a)         == St("while", "", "none", New, a, <<>>)
For(x, a)        == St("for", x, "none", New, a, <<>>)
Match(x, v, a, b) == St("match", x, v, New, a, b)   \* mod names the payload binder
Defer(a)         == St("defer", "", "none", New, a, <<>>)
Ret(e)           == St("ret", "", "none", e, <<>>, <<>>)
Break            == St("break", "", "none", New, <<>>, <<>>)
Continue         == St("continue", "", "none", New, <<>>, <<>>)

Elems(s) == {s[i] : i \in DOMAIN s}

(***************************************************************************)
(* The variables an expression or a statement mentions.                    *)
(***************************************************************************)
RECURSIVE collect_hir_var_ids_expr(_)
collect_hir_var_ids_expr(e) ==
  (IF e.op \in {"var", "field", "name", "push", "lambda"} THEN {e.x} ELSE {})
    \cup UNION {collect_hir_var_ids_expr(a) : a \in Elems(e.args)}

RECURSIVE collect_hir_var_ids_stmt(_)
collect_hir_var_ids_stmt(s) ==
  (IF s.k \in {"assignf", "for", "match"} THEN {s.x} ELSE {})
    \cup collect_hir_var_ids_expr(s.e)
    \cup UNION {collect_hir_var_ids_stmt(t) : t \in Elems(s.a) \cup Elems(s.b)}

(***************************************************************************)
(* Consumption.  alias[x] is the set of parameters x may stand for; a      *)
(* parameter that reaches a sink (is returned, stored, sent, frozen or     *)
(* handed to a consuming parameter) escapes.  A body is read once, in      *)
(* order, and aliases only grow.                                           *)
(***************************************************************************)
expr_alias(e, alias) ==
  CASE e.op = "var"  -> alias[e.x]
    [] e.op = "ctor" -> UNION {IF a.op = "var" THEN alias[a.x] ELSE {} : a \in Elems(e.args)}
    [] OTHER         -> {}

RECURSIVE scan_expr_sinks(_, _, _)
scan_expr_sinks(e, alias, take) ==
  LET sunk == CASE e.op \in {"push", "ctor", "send"} -> DOMAIN e.args
                [] e.op = "call" -> {i \in DOMAIN e.args : take[e.x][i]}
                [] OTHER -> {}
  IN UNION {expr_alias(e.args[i], alias) : i \in sunk}
       \cup UNION {scan_expr_sinks(a, alias, take) : a \in Elems(e.args)}

\* st is [alias, esc]: one statement of the scan, nested blocks included.
RECURSIVE scan_stmt(_, _, _)
RECURSIVE scan_block(_, _, _)
scan_stmt(s, st, take) ==
  LET seen == [st EXCEPT !.esc = @ \cup scan_expr_sinks(s.e, st.alias, take)]
      set  == expr_alias(s.e, st.alias)
  IN CASE s.k = "bind"    -> [seen EXCEPT !.alias[s.x] = @ \cup set]
       [] s.k \in {"assignf", "ret"} -> [seen EXCEPT !.esc = @ \cup set]
       [] s.k = "match"   -> scan_block(s.b, scan_block(s.a,
                               [st EXCEPT !.esc = @ \cup
                                  (IF s.a # <<>> /\ s.a[Len(s.a)] \in {Do(Var(s.mod)), Ret(Var(s.mod))}
                                     THEN st.alias[s.x] ELSE {})], take), take)
       [] OTHER           -> scan_block(s.b, scan_block(s.a, seen, take), take)
scan_block(b, st, take) ==
  IF b = <<>> THEN st ELSE scan_block(Tail(b), scan_stmt(Head(b), st, take), take)

(***************************************************************************)
(* Mutation: a parameter is mutated when a field of it (or of an alias) is *)
(* assigned, a mutating method is called on it, or it is handed to a       *)
(* mutating parameter.  Aliases do not go through constructors here.       *)
(***************************************************************************)
mutate_expr_alias(e, alias) == IF e.op \in {"var", "field", "name"} THEN alias[e.x] ELSE {}

RECURSIVE mutate_scan_expr(_, _, _)
mutate_scan_expr(e, alias, mut) ==
  (CASE e.op = "push" -> alias[e.x]
     [] e.op = "call" -> UNION {mutate_expr_alias(e.args[i], alias) : i \in {j \in DOMAIN e.args : mut[e.x][j]}}
     [] OTHER -> {})
  \cup UNION {mutate_scan_expr(a, alias, mut) : a \in Elems(e.args)}

RECURSIVE mutate_scan_stmt(_, _, _)
RECURSIVE mutate_scan_block(_, _, _)
mutate_scan_stmt(s, st, mut) ==
  LET seen == [st EXCEPT !.esc = @ \cup mutate_scan_expr(s.e, st.alias, mut)]
  IN CASE s.k = "bind"    -> [seen EXCEPT !.alias[s.x] =
                                @ \cup (IF s.e.op = "var" THEN st.alias[s.e.x] ELSE {})]
       [] s.k = "assignf" -> [seen EXCEPT !.esc = @ \cup st.alias[s.x]]
       [] OTHER           -> mutate_scan_block(s.b, mutate_scan_block(s.a, seen, mut), mut)
mutate_scan_block(b, st, mut) ==
  IF b = <<>> THEN st ELSE mutate_scan_block(Tail(b), mutate_scan_stmt(Head(b), st, mut), mut)

\* The first aliases of a scan: every parameter stands for its own slot.
ScanStart(fn, Vars) ==
  [alias |-> [x \in Vars |-> {i \in DOMAIN fn.params : fn.params[i] = x}], esc |-> {}]

consume_scan_one(fn, take, Vars) == scan_block(fn.body, ScanStart(fn, Vars), take).esc

mutate_scan_one(fn, mut, Vars) == mutate_scan_block(fn.body, ScanStart(fn, Vars), mut).esc

(***************************************************************************)
(* Both start from nothing and scan every function again until a whole     *)
(* round changes nothing, so that a fact found in a callee reaches its     *)
(* callers whatever the order of the declarations.                         *)
(***************************************************************************)
RECURSIVE infer_consuming_params(_, _, _)
infer_consuming_params(prog, take, Vars) ==
  LET next == [f \in DOMAIN prog |-> [i \in DOMAIN prog[f].params |->
                  take[f][i] \/ i \in consume_scan_one(prog[f], take, Vars)]]
  IN IF next = take THEN take ELSE infer_consuming_params(prog, next, Vars)

RECURSIVE infer_mutating_params(_, _, _)
infer_mutating_params(prog, mut, Vars) ==
  LET next == [f \in DOMAIN prog |-> [i \in DOMAIN prog[f].params |->
                  mut[f][i] \/ i \in mutate_scan_one(prog[f], mut, Vars)]]
  IN IF next = mut THEN mut ELSE infer_mutating_params(prog, next, Vars)

Nothing(prog) == [f \in DOMAIN prog |-> [i \in DOMAIN prog[f].params |-> FALSE]]
=============================================================================
