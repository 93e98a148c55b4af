------------------------------- MODULE Infer -------------------------------
(***************************************************************************)
(* Type inference of one function body over the solver of Unify: what the  *)
(* typer asks while it lowers expressions (equations, constraints, methods *)
(* and fields of receivers whose type is not known yet, calls of a         *)
(* generalised function), and how it answers at the end: deferred methods, *)
(* deferred fields, trait-constrained variables, then defaults.            *)
(***************************************************************************)
EXTENDS Unify

CONSTANTS BodyVars,     \* how many variables the body starts with
          Modes,        \* "strict", "lenient", "pedantic": the driver's flag
          Equations,    \* pairs of types a body may equate
          Demands,      \* [ty, c]: constraints a body may put
          MethodCalls,  \* [recv, m, args]
          FieldReads,   \* [recv, field]
          Signature,    \* the type of the callee a body may generalise and call
          CallArgs,     \* argument types of its calls
          Env,          \* types of the variables in the callee's scope
          Fields,       \* declared type -> its fields' types
          Methods,      \* [on, m, params, ret]: methods of declared types
          TraitsOf,     \* method -> the traits that declare it
          StringOnly,   \* methods only strings have
          GroundTypes,  \* the sample of ground types a refusal is measured by
          MaxAsks       \* bound: requests of a body

VARIABLE inf

Lowering == inf.phase = "lowering" /\ inf.asks < MaxAsks

\* One request of the body: the solver's answer, and the fact asked.
Ask(r, facts, rest) ==
  inf' = [inf EXCEPT !.c = r.c, !.asks = @ + 1, !.facts = @ \cup facts,
                     !.fields = @ \o rest.fields, !.methods = @ \o rest.methods,
                     !.phase = IF r.ok THEN @ ELSE "refused"]

\* A variable of the callee's scheme is out of scope once it is generalised.
InScope(types) == \A t \in types : free_type_vars(canonicalize_type(inf.c, t)) \cap inf.c.quantified = {}

Nothing == [fields |-> <<>>, methods |-> <<>>]

InferInit ==
  \E mode \in Modes :
    inf = [c |-> InferCtx(BodyVars),
           mode |-> mode, phase |-> "lowering", asks |-> 0, facts |-> {}, late |-> {},
           fields |-> <<>>, methods |-> <<>>, scheme |-> <<>>, errors |-> FALSE, types |-> <<>>]

\* unify_at: an assignment, an argument, the two sides of an operator.
Equate(e) ==
  /\ Lowering /\ InScope({e[1], e[2]})
  /\ Ask(unify(inf.c, e[1], e[2]), {[f |-> "eq", a |-> e[1], b |-> e[2]]}, Nothing)

\* An operator puts Addable and Trait only on what is still unknown, and
\* drops a refusal: the type check of the operator is left to find it.
Demand(d) ==
  /\ Lowering /\ InScope({d.ty})
  /\ d.c.k \in {"add", "trait"} => shallow_resolve(inf.c, d.ty).k = "var"
  /\ LET r == constrain(inf.c, d.ty, d.c)
     IN Ask([c |-> r.c, ok |-> TRUE], {x \in {[f |-> "con", ty |-> d.ty, c |-> d.c]} : r.ok}, Nothing)

ImplName(n) == <<"struct", n>>

ImplsOf(n) == IF ImplName(n) \in DOMAIN Impls THEN Impls[ImplName(n)] ELSE {}

\* The declared types a method may be of, narrowed to those that implement a
\* trait declaring it when that leaves any.
Candidates(m) ==
  LET having == {s \in Methods : s.m = m}
      narrowed == {s \in having : ImplsOf(s.on) \cap TraitsOf[m] # {}}
  IN IF Cardinality(having) > 1 /\ narrowed # {} THEN narrowed ELSE having

The(S) == CHOOSE x \in S : TRUE

\* A method call on a receiver whose type is a variable.
CallMethod(mc) ==
  /\ Lowering /\ InScope({mc.recv} \cup {mc.args[i] : i \in DOMAIN mc.args})
  /\ shallow_resolve(inf.c, mc.recv).k = "var"
  /\ LET c1 == fresh_var_with(inf.c, NoConstraint)
         ret == Var(num_vars(c1))
         fact == [f |-> "method", recv |-> mc.recv, m |-> mc.m, args |-> mc.args, ret |-> ret]
         cands == Candidates(mc.m)
         known == unify_all(c1, <<mc.recv, ret>> \o mc.args,
                            <<Struct(The(cands).on, <<>>), The(cands).ret>> \o The(cands).params)
         traits == constrain(c1, mc.recv, TypeConstraint("trait", TraitsOf[mc.m]))
     IN \/ /\ mc.m \in StringOnly
           /\ Ask(unify_all(c1, <<mc.recv, ret>>, <<Base("str"), Base("str")>>), {fact}, Nothing)
        \/ /\ mc.m \notin StringOnly /\ Cardinality(cands) = 1
           /\ Ask(known, {fact}, Nothing)
        \/ /\ mc.m \notin StringOnly /\ Cardinality(cands) # 1
           /\ Ask([c |-> IF TraitsOf[mc.m] = {} THEN c1 ELSE traits.c, ok |-> TRUE], {fact},
                  [fields |-> <<>>, methods |-> <<fact>>])

FieldCandidates(fs) == {s \in DOMAIN Fields : \A f \in fs : f \in DOMAIN Fields[s]}

\* A field of a receiver whose type is a variable: all the fields read of the
\* variable so far must be of the type.
ReadField(fr) ==
  /\ Lowering /\ InScope({fr.recv})
  /\ shallow_resolve(inf.c, fr.recv).k = "var"
  /\ LET c1 == fresh_var_with(inf.c, NoConstraint)
         fact == [f |-> "field", recv |-> fr.recv, field |-> fr.field, ty |-> Var(num_vars(c1)),
                  root |-> find(inf.c, fr.recv.n)]
         asked == {fact} \cup {x \in inf.facts : x.f = "field" /\ x.root = fact.root}
         cands == FieldCandidates({x.field : x \in asked})
         s == The(cands)
         olds == SelectSeq(Append(inf.fields, fact), LAMBDA x : x.root = fact.root)
     IN \/ /\ Cardinality(cands) = 1
           /\ Ask(unify_all(c1, <<fr.recv>> \o [i \in DOMAIN olds |-> olds[i].ty],
                            <<Struct(s, <<>>)>> \o [i \in DOMAIN olds |-> Fields[s][olds[i].field]]),
                  {fact}, Nothing)
        \/ /\ Cardinality(cands) # 1
           /\ Ask([c |-> c1, ok |-> TRUE], {fact}, [fields |-> <<fact>>, methods |-> <<>>])

\* The callee is lowered: what its signature leaves open is quantified.
build_fn_scheme ==
  /\ Lowering
  /\ inf.scheme = <<>>
  /\ LET s == generalize(inf.c, Signature, Env)
     IN inf' = [inf EXCEPT !.scheme = <<s>>, !.c = mark_quantified(@, s.quantified), !.asks = @ + 1]

RECURSIVE Subst(_, _)
\* A type with variables replaced, all the way down.
Subst(t, s) ==
  IF t.k = "var" THEN IF t.n \in DOMAIN s THEN s[t.n] ELSE t
  ELSE [t EXCEPT !.a = [i \in DOMAIN t.a |-> Subst(t.a[i], s)]]

SubstFact(x, s) ==
  CASE x.f = "eq" -> [x EXCEPT !.a = Subst(@, s), !.b = Subst(@, s)]
    [] x.f = "con" -> [x EXCEPT !.ty = Subst(@, s)]
    [] OTHER -> x

\* check_call_arg: a mismatch is let through while either side is open.
check_call_arg(c, param, arg) ==
  LET Lax(r) == [c |-> r.c, same |-> r.ok,
                 ok |-> r.ok \/ type_has_unresolved(r.c, param) \/ type_has_unresolved(r.c, arg)]
  IN Lax(unify(c, param, arg))

\* A call of the generalised callee: a fresh instance of its scheme takes the
\* argument, then the copy made for the instance's types takes it: what is
\* still open by then is fixed to its default.
lower_call_expected(arg) ==
  /\ Lowering /\ InScope({arg})
  /\ inf.scheme # <<>> /\ inf.scheme[1].quantified # {}
  /\ LET Copied(s) == LET copy == [v \in 1..num_vars(inf.c) |-> Subst(canonicalize_type(inf.c, Var(v)), s)]
                      IN {SubstFact(x, copy) : x \in inf.facts}
         Passed(ty, r) == IF r.same \/ ~r.ok THEN {[f |-> "eq", a |-> ty, b |-> arg]} ELSE {}
         Call(s, first, mono, second) ==
           Ask([c |-> second.c, ok |-> first.ok /\ second.ok],
               Copied(s) \cup Passed(Subst(inf.scheme[1].ty.a[1], s), first) \cup Passed(mono, second), Nothing)
         Mono(s, first, mono) == Call(s, first, mono, check_call_arg(first.c, mono, arg))
         First(i, first) == Mono(i.s, first, resolve_core(first.c, i.ty.a[1]))
         Instance(i) == First(i, check_call_arg(i.c, i.ty.a[1], arg))
     IN Instance(instantiate(inf.c, inf.scheme[1]))

----------------------------------------------------------------------------
(* The end of the body.                                                    *)

Sig(params, ret) == [params |-> params, ret |-> ret]

is_float_method(m) == m = "sqrt"

\* vec_method_ret_ty, map_method_ret_ty, string_method_ret_ty: the method m
\* of a built-in receiver of type t, if it has one.
BuiltinSigs(t, m) ==
  CASE m = "to_string" /\ is_num(t) -> {Sig(<<>>, Base("str"))}
    [] t.k = "vec" /\ m = "push" -> {Sig(<<t.a[1]>>, Base("void"))}
    [] t.k = "vec" /\ m = "set" -> {Sig(<<Base("i64"), t.a[1]>>, Base("void"))}
    [] t.k \in {"vec", "map", "str"} /\ m = "length" -> {Sig(<<>>, Base("i64"))}
    [] t.k = "map" /\ m = "set" -> {Sig(t.a, Base("void"))}
    [] t.k = "map" /\ m = "get" -> {Sig(<<t.a[1]>>, t.a[2])}
    [] t.k = "str" /\ m \in StringOnly -> {Sig(<<>>, Base("str"))}
    [] is_float(t) /\ is_float_method(m) -> {Sig(<<>>, t)}
    [] OTHER -> {}

\* A step of resolve_deferred_methods: the solver, whether an error was
\* reported, and whether the call was left as it was.
Step(r, error, late) == [c |-> r.c, errors |-> error \/ ~r.ok, late |-> late]

Same(c) == [c |-> c, ok |-> TRUE]

\* unify_at keeps every mismatch as an error of the program.
OnBuiltin(c, dm, sigs) ==
  IF sigs = {} THEN Step(Same(c), FALSE, FALSE)
  ELSE Step(unify_all(c, The(sigs).params \o <<dm.ret>>, dm.args \o <<The(sigs).ret>>), FALSE, FALSE)

OnStruct(c, dm, n) ==
  LET own == {s \in Methods : s.on = n /\ s.m = dm.m}
  IN IF own = {} THEN Step(Same(c), TRUE, FALSE)
     ELSE Step(unify_all(c, The(own).params \o <<dm.ret>>, dm.args \o <<The(own).ret>>), FALSE, FALSE)

\* The receiver is still a variable v: what the method alone says of it.
OnVar(c, dm, v) ==
  LET having == {s \in Methods : s.m = dm.m}
      req == c.constraints[v]
      byTrait == {s \in having : req.traits \subseteq ImplsOf(s.on)}
      first == IF req.k = "trait" /\ byTrait # {} THEN byTrait ELSE having
      narrowed == {s \in first : ImplsOf(s.on) \cap TraitsOf[dm.m] # {}}
      cands == IF Cardinality(first) > 1 /\ narrowed # {} THEN narrowed ELSE first
      s == The(cands)
  IN CASE req.k = "float" /\ is_float_method(dm.m) ->
            Step(unify_all(c, <<Var(v), dm.ret>>, <<Base("f64"), Base("f64")>>), FALSE, FALSE)
       [] dm.m \in StringOnly ->
            Step(unify_all(c, <<Var(v), dm.ret>>, <<Base("str"), Base("str")>>), FALSE, FALSE)
       [] Cardinality(cands) = 1 ->
            Step(unify_all(c, <<Var(v)>> \o s.params \o <<dm.ret>>, <<Struct(s.on, <<>>)>> \o dm.args \o <<s.ret>>),
                 FALSE, FALSE)
       [] Cardinality(cands) > 1 -> Step(Same(c), v \notin c.quantified, TRUE)
       [] OTHER -> Step(Same(c), FALSE, TRUE)

DeferredMethod(c, dm) ==
  LET recv == shallow_resolve(c, dm.recv)
  IN CASE recv.k = "var" -> OnVar(c, dm, recv.n)
       [] recv.k = "struct" -> OnStruct(c, dm, recv.n)
       [] recv.k = "i64" /\ dm.m # "to_string" -> Step(Same(c), TRUE, FALSE)
       [] OTHER -> OnBuiltin(c, dm, BuiltinSigs(recv, dm.m))

RECURSIVE resolve_deferred_methods(_, _)
\* Each deferred call once, in the order they were met.
resolve_deferred_methods(st, dms) ==
  IF dms = <<>> THEN st
  ELSE LET After(s) == [c |-> s.c, errors |-> st.errors \/ s.errors,
                        late |-> IF s.late THEN st.late \cup {Head(dms)} ELSE st.late]
       IN resolve_deferred_methods(After(DeferredMethod(st.c, Head(dms))), Tail(dms))

RECURSIVE FieldsOfKnown(_, _)
FieldsOfKnown(st, dfs) ==
  IF dfs = <<>> THEN st
  ELSE LET df == Head(dfs)
           recv == shallow_resolve(st.c, df.recv)
           of == recv.k = "struct" /\ recv.n \in DOMAIN Fields /\ df.field \in DOMAIN Fields[recv.n]
           r == IF of THEN unify(st.c, df.ty, Fields[recv.n][df.field]) ELSE Same(st.c)
       IN FieldsOfKnown([st EXCEPT !.c = r.c, !.errors = @ \/ ~r.ok], Tail(dfs))

\* The fields read of one variable, taken together.
FieldsOfVar(st, root, dfs) ==
  LET named == {dfs[i].field : i \in DOMAIN dfs}
      extra == {x.field : x \in {y \in inf.facts : y.f = "field" /\ y.root = root}}
      cands == FieldCandidates(named \cup extra)
      s == The(cands)
      r == IF Cardinality(cands) # 1 THEN Same(st.c)
           ELSE unify_all(st.c, <<dfs[1].recv>> \o [i \in DOMAIN dfs |-> dfs[i].ty],
                          <<Struct(s, <<>>)>> \o [i \in DOMAIN dfs |-> Fields[s][dfs[i].field]])
      ambiguous == Cardinality(cands) > 1 /\ find(st.c, root) \notin st.c.quantified
  IN [st EXCEPT !.c = r.c, !.errors = @ \/ ~r.ok \/ ambiguous,
                !.late = IF Cardinality(cands) = 1 THEN @ ELSE @ \cup {dfs[i] : i \in DOMAIN dfs}]

RECURSIVE FieldGroups(_, _, _)
FieldGroups(st, roots, groups) ==
  IF roots = <<>> THEN st
  ELSE FieldGroups(FieldsOfVar(st, Head(roots), groups[Head(roots)]), Tail(roots), groups)

Open(c, df) == shallow_resolve(c, df.recv).k = "var"

RootsOpen(c, dfs) == {find(c, shallow_resolve(c, dfs[i].recv).n) : i \in {j \in DOMAIN dfs : Open(c, dfs[j])}}

Orders(S) == {o \in [1..Cardinality(S) -> S] : \A i, j \in DOMAIN o : i # j => o[i] # o[j]}

\* The groups come out of a hash map in any order.
resolve_deferred_fields(st, dfs, order) ==
  LET of == [r \in RootsOpen(st.c, dfs) |->
               SelectSeq(dfs, LAMBDA d : Open(st.c, d) /\ find(st.c, shallow_resolve(st.c, d.recv).n) = r)]
  IN FieldGroups(FieldsOfKnown(st, SelectSeq(dfs, LAMBDA d : ~Open(st.c, d))), order, of)

ImplType(name) == Term(name[1], name[2], <<>>)

RECURSIVE resolve_trait_constrained_vars(_, _)
resolve_trait_constrained_vars(st, v) ==
  IF v > num_vars(st.c) THEN st
  ELSE LET req == st.c.constraints[v]
           open == shallow_resolve(st.c, Var(v)) = Var(v) /\ req.k = "trait" /\ req.traits # {}
           cands == {n \in DOMAIN Impls : req.traits \subseteq Impls[n]}
           c2 == IF open /\ Cardinality(cands) = 1 THEN unify(st.c, Var(v), ImplType(The(cands))).c ELSE st.c
       IN resolve_trait_constrained_vars(
            [st EXCEPT !.c = c2, !.errors = @ \/ (open /\ Cardinality(cands) > 1)], v + 1)

\* lower_program: the deferred requests, then every type that is left.
resolve_all_types ==
  /\ inf.phase = "lowering"
  /\ LET Answer(st) ==
           [inf EXCEPT !.c = st.c, !.phase = "done", !.late = st.late,
                       !.errors = st.errors \/ \E v \in 1..num_vars(st.c) : Unsolved(st.c, Var(v), inf.mode) # {},
                       !.types = [v \in 1..num_vars(st.c) |-> resolve_core(st.c, Var(v))]]
         Finish(st) ==
           \E order \in Orders(RootsOpen(st.c, inf.fields)) :
             inf' = Answer(resolve_trait_constrained_vars(resolve_deferred_fields(st, inf.fields, order), 1))
     IN Finish(resolve_deferred_methods([c |-> inf.c, errors |-> FALSE, late |-> {}], inf.methods))

InferNext ==
  \/ \E e \in Equations : Equate(e)
  \/ \E d \in Demands : Demand(d)
  \/ \E mc \in MethodCalls : CallMethod(mc)
  \/ \E fr \in FieldReads : ReadField(fr)
  \/ build_fn_scheme
  \/ \E arg \in CallArgs : lower_call_expected(arg)
  \/ resolve_all_types

InferSpec == InferInit /\ [][InferNext]_inf

----------------------------------------------------------------------------
(* What the answers are measured by: facts over ground types.              *)

RECURSIVE Ground(_)
\* A ground type with every monomorphised name spelled out.
Ground(t) ==
  IF t.k = "struct" /\ t.a = <<>> /\ t.n \in DOMAIN MonoOrigin
  THEN Struct(MonoOrigin[t.n].base, MonoOrigin[t.n].args)
  ELSE [t EXCEPT !.a = [i \in DOMAIN t.a |-> Ground(t.a[i])]]

\* The signatures of method m on the ground receiver t.
SignaturesOn(t, m) ==
  BuiltinSigs(t, m) \cup {Sig(s.params, s.ret) : s \in {x \in Methods : t = Struct(x.on, <<>>) /\ x.m = m}}

Meets(constraint, t) == constraint.k = "none" \/ Admits(constraint, t)

\* Fact x holds when the variables have the ground types g.  A method the
\* receiver does not have is reported by a later stage.
Holds(x, g) ==
  CASE x.f = "eq" -> Ground(Subst(x.a, g)) = Ground(Subst(x.b, g))
    [] x.f = "con" -> Meets(x.c, Subst(x.ty, g))
    [] x.f = "method" ->
         \A s \in SignaturesOn(Ground(Subst(x.recv, g)), x.m) :
           /\ Ground(Subst(x.ret, g)) = s.ret
           /\ [i \in DOMAIN x.args |-> Ground(Subst(x.args[i], g))] = s.params
    [] x.f = "field" ->
         LET t == Ground(Subst(x.recv, g))
         IN (t.k = "struct" /\ t.n \in DOMAIN Fields) =>
               (x.field \in DOMAIN Fields[t.n] => Ground(Subst(x.ty, g)) = Fields[t.n][x.field])

\* The typer's answers are right.  A body it accepts has, with the types
\* resolve_all_types writes into it, every equation, constraint, method
\* signature and field type the body asked for (a request whose receiver was
\* still open when its turn came is set apart), whatever the order in which
\* requests came, variables were merged and field groups were visited; and a
\* request it refuses has no solution among the sample of ground types.
Answered ==
  /\ inf.phase = "done" /\ ~inf.errors =>
       \A x \in inf.facts \ inf.late :
         (inf.mode = "lenient" /\ x.f = "con" /\ x.c.k = "trait") \/ Holds(x, inf.types)
  /\ inf.phase = "refused" /\ (\A x \in inf.facts : x.f = "eq" \/ (x.f = "con" /\ x.c.k # "trait")) =>
       LET vars == UNION {IF x.f = "eq" THEN free_type_vars(x.a) \cup free_type_vars(x.b)
                          ELSE free_type_vars(x.ty) : x \in inf.facts}
       IN ~\E g \in [vars -> GroundTypes] : \A x \in inf.facts : Holds(x, g)
============================================================================
