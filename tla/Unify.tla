------------------------------- MODULE Unify -------------------------------
(***************************************************************************)
(* The type solver: type variables in a union-find forest, each class with *)
(* at most one type and one constraint (typer/unify).  Every operator maps *)
(* a solver c to a solver.  A type is a term: k its constructor, n the     *)
(* number of a variable or of a declared name, a its arguments (the last   *)
(* one of a function is its result).                                       *)
(***************************************************************************)
EXTENDS Integers, Sequences, FiniteSets

CONSTANTS MonoOrigin,  \* declared name -> [base, args]: what it is an instance of
          Impls        \* name of a type -> the traits it implements

Term(k, n, a) == [k |-> k, n |-> n, a |-> a]

Var(v) == Term("var", v, <<>>)

Base(k) == Term(k, 0, <<>>)

Vec(t) == Term("vec", 0, <<t>>)

MapOf(k, v) == Term("map", 0, <<k, v>>)

Fn(params, ret) == Term("fn", 0, Append(params, ret))

Struct(n, args) == Term("struct", n, args)

Unbound == Base("unbound")

TypeConstraint(k, traits) == [k |-> k, traits |-> traits]

NoConstraint == TypeConstraint("none", {})

is_int(t) == t.k = "i64"

is_float(t) == t.k = "f64"

is_num(t) == is_int(t) \/ is_float(t)

----------------------------------------------------------------------------

InferCtx(n) == [parent |-> [i \in 1..n |-> i], rank |-> [i \in 1..n |-> 0], types |-> [i \in 1..n |-> Unbound],
                constraints |-> [i \in 1..n |-> NoConstraint], quantified |-> {}]

num_vars(c) == Len(c.parent)

fresh_var_with(c, constraint) ==
  [c EXCEPT !.parent = Append(@, num_vars(c) + 1), !.rank = Append(@, 0),
            !.types = Append(@, Unbound), !.constraints = Append(@, constraint)]

RECURSIVE find(_, _)
\* Path compression moves no variable to another class and is left out.
find(c, v) == IF c.parent[v] = v THEN v ELSE find(c, c.parent[v])

RECURSIVE shallow_resolve(_, _)
shallow_resolve(c, t) ==
  IF t.k # "var" THEN t
  ELSE LET r == find(c, t.n) IN
       IF c.types[r] = Unbound THEN Var(r) ELSE shallow_resolve(c, c.types[r])

RECURSIVE canonicalize_type(_, _)
canonicalize_type(c, t) ==
  LET s == shallow_resolve(c, t)
  IN [s EXCEPT !.a = [i \in DOMAIN s.a |-> canonicalize_type(c, s.a[i])]]

RECURSIVE occurs_in(_, _, _)
occurs_in(c, v, t) ==
  IF t.k = "var"
  THEN LET r == find(c, t.n) IN r = v \/ (c.types[r] # Unbound /\ occurs_in(c, v, c.types[r]))
  ELSE \E i \in DOMAIN t.a : occurs_in(c, v, t.a[i])

RECURSIVE free_type_vars(_)
free_type_vars(t) ==
  IF t.k = "var" THEN {t.n} ELSE UNION {free_type_vars(t.a[i]) : i \in DOMAIN t.a}

type_has_unresolved(c, t) == free_type_vars(canonicalize_type(c, t)) # {}

----------------------------------------------------------------------------

\* Addable is implied by Numeric, and Numeric by Integer and by Float.
Strength == [add |-> 1, num |-> 2, int |-> 3, float |-> 3]

constraints_conflict(a, b) ==
  /\ "none" \notin {a.k, b.k}
  /\ \/ (a.k = "trait") # (b.k = "trait")
     \/ {a.k, b.k} = {"int", "float"}

\* A mutant: an addition is taken to be of numbers or strings whatever the
\* variable was asked to be before.
MergeForgetful(a, b) == IF b.k = "none" THEN a ELSE b

merge_constraints(a, b) ==
  CASE a.k = "none" -> b
    [] b.k = "none" -> a
    [] a.k = "trait" -> TypeConstraint("trait", a.traits \cup b.traits)
    [] OTHER -> IF Strength[a.k] < Strength[b.k] THEN b ELSE a

\* The name a type implements traits under; a container has none.
type_to_impl_name(t) ==
  IF t.k \in {"i64", "f64", "str", "struct"} THEN <<t.k, t.n>> ELSE <<>>

\* What unify asks of the type it binds a constrained variable to.
Admits(constraint, t) ==
  CASE constraint.k = "int" -> is_int(t)
    [] constraint.k = "float" -> is_float(t)
    [] constraint.k = "num" -> is_num(t)
    [] constraint.k = "add" -> is_num(t) \/ t.k = "str"
    [] constraint.k = "trait" ->
         LET name == type_to_impl_name(t)
         IN name # <<>> => (name \in DOMAIN Impls /\ constraint.traits \subseteq Impls[name])
    [] OTHER -> TRUE

union(c, a, b) ==
  LET under == c.rank[a] < c.rank[b]
      root == IF under THEN b ELSE a
      child == IF under THEN a ELSE b
  IN [c EXCEPT !.parent[child] = root,
               !.constraints[root] = merge_constraints(c.constraints[a], c.constraints[b]),
               !.rank[root] = IF c.rank[a] = c.rank[b] THEN @ + 1 ELSE @]

\* What a monomorphised name stands for, when the other side spells it out.
Origin(t, other) ==
  IF /\ t.k = "struct" /\ t.a = <<>> /\ t.n \in DOMAIN MonoOrigin
     /\ other.k = "struct" /\ MonoOrigin[t.n].base = other.n
     /\ Len(MonoOrigin[t.n].args) = Len(other.a)
  THEN Struct(other.n, MonoOrigin[t.n].args) ELSE t

BindVar(c, v, t) ==
  IF occurs_in(c, v, t) \/ ~Admits(c.constraints[v], t)
  THEN [c |-> c, ok |-> FALSE]
  ELSE [c |-> [c EXCEPT !.types[v] = t], ok |-> TRUE]

RECURSIVE unify(_, _, _)
RECURSIVE unify_all(_, _, _)
\* unify after the two sides are resolved
UnifyTerms(c, a, b) ==
  CASE a = b -> [c |-> c, ok |-> TRUE]
    [] a.k = "var" /\ b.k = "var" ->
         IF constraints_conflict(c.constraints[a.n], c.constraints[b.n])
         THEN [c |-> c, ok |-> FALSE] ELSE [c |-> union(c, a.n, b.n), ok |-> TRUE]
    [] a.k = "var" /\ b.k # "var" -> BindVar(c, a.n, b)
    [] a.k # "var" /\ b.k = "var" -> BindVar(c, b.n, a)
    [] OTHER -> IF a.k = b.k /\ a.n = b.n /\ Len(a.a) = Len(b.a)
                THEN unify_all(c, a.a, b.a) ELSE [c |-> c, ok |-> FALSE]
unify(c, a0, b0) ==
  LET Spelled(a, b) == IF a.k = "struct" /\ b.k = "struct" /\ a.n # b.n THEN Origin(a, b) ELSE a
      Resolved(a, b) == UnifyTerms(c, Spelled(a, b), Spelled(b, a))
  IN Resolved(shallow_resolve(c, a0), shallow_resolve(c, b0))

\* The arguments from left to right; the ones before a failure stay unified.
unify_all(c, as, bs) ==
  LET Rest(first) == IF first.ok THEN unify_all(first.c, Tail(as), Tail(bs)) ELSE first
  IN IF as = <<>> THEN [c |-> c, ok |-> TRUE] ELSE Rest(unify(c, Head(as), Head(bs)))

constrain(c, t, constraint) ==
  LET On(r) ==
        IF r.k = "var"
        THEN IF constraints_conflict(c.constraints[r.n], constraint) THEN [c |-> c, ok |-> FALSE]
             ELSE [c |-> [c EXCEPT !.constraints[r.n] = merge_constraints(@, constraint)], ok |-> TRUE]
        ELSE [c |-> c, ok |-> constraint.k \in {"int", "float", "num"} => Admits(constraint, r)]
  IN On(shallow_resolve(c, t))

----------------------------------------------------------------------------

DefaultOf(constraint) == IF constraint.k = "float" THEN Base("f64") ELSE Base("i64")

RECURSIVE resolve_core(_, _)
resolve_core(c, t) ==
  LET s == shallow_resolve(c, t)
  IN IF s.k = "var" THEN DefaultOf(c.constraints[s.n])
     ELSE [s EXCEPT !.a = [i \in DOMAIN s.a |-> resolve_core(c, s.a[i])]]

\* The unsolved variables of t that the resolution reports as errors.
Unsolved(c, t, mode) ==
  {v \in free_type_vars(canonicalize_type(c, t)) :
     /\ v \notin c.quantified
     /\ \/ mode = "strict" /\ c.constraints[v].k \in {"none", "trait"}
        \/ mode = "pedantic" /\ c.constraints[v].k \in {"none", "trait", "int", "float"}}

generalize(c, t, env) ==
  LET ty == canonicalize_type(c, t)
      envVars == UNION {free_type_vars(shallow_resolve(c, e)) : e \in env}
  IN [quantified |-> free_type_vars(ty) \ envVars, ty |-> ty]

mark_quantified(c, vs) == [c EXCEPT !.quantified = @ \cup {find(c, v) : v \in vs}]

RECURSIVE substitute(_, _)
\* The arguments of a declared type are not looked into.
substitute(t, s) ==
  CASE t.k = "var" -> IF t.n \in DOMAIN s THEN s[t.n] ELSE t
    [] t.k = "struct" -> t
    [] OTHER -> [t EXCEPT !.a = [i \in DOMAIN t.a |-> substitute(t.a[i], s)]]

RECURSIVE FreshFor(_, _, _)
FreshFor(c, vs, s) ==
  IF vs = {} THEN [c |-> c, s |-> s]
  ELSE LET v == CHOOSE x \in vs : \A y \in vs : x <= y
           c2 == fresh_var_with(c, c.constraints[find(c, v)])
       IN FreshFor(c2, vs \ {v}, [x \in DOMAIN s \cup {v} |-> IF x = v THEN Var(num_vars(c2)) ELSE s[x]])

instantiate(c, scheme) ==
  LET f == FreshFor(c, scheme.quantified, <<>>)
  IN [c |-> f.c, s |-> f.s, ty |-> substitute(scheme.ty, f.s)]
============================================================================
