------------------------------- MODULE Names -------------------------------
(***************************************************************************)
(* How the files of a program become one list of declarations              *)
(* (driver/sources/modules.rs) without changing what any name means        *)
(* (resolve.rs): the functions and constants of an imported module get the *)
(* module's name in front, types that two files declare get a tag of their *)
(* file, and a renamer walks every body with the local names in scope.     *)
(*                                                                         *)
(* A name is a sequence of parts (<<"f">>, <<"m", "f">>, <<"T", "tag">>);  *)
(* a body is a tree of nodes [k, ns, xs]: kind, names bound or used,       *)
(* children.  A declaration is [file, k, name, tree, id]: id is its file   *)
(* and the name it was written with.                                       *)
(***************************************************************************)
EXTENDS Integers, Sequences, FiniteSets

CONSTANTS Projects,  \* [files: file -> sequence of declarations, uses: file -> sequence of [file, only]]
          Root       \* the file the compiler is given

VARIABLE names

Node(k, ns, xs) == [k |-> k, ns |-> ns, xs |-> xs]

Names(s) == {s[i] : i \in DOMAIN s}

----------------------------------------------------------------------------
(* The renamer.                                                            *)

Renamer(renames, types, ambiguous) ==
  [renames |-> renames, types |-> types, ambiguous |-> ambiguous, hits |-> <<>>, scopes |-> <<>>]

shadowed(r, n) == \E i \in DOMAIN r.scopes : n \in Names(r.scopes[i])

push_scope(r) == [r EXCEPT !.scopes = Append(@, <<>>)]

pop_scope(r) == [r EXCEPT !.scopes = SubSeq(@, 1, Len(@) - 1)]

shadow(r, ns) == [r EXCEPT !.scopes[Len(r.scopes)] = @ \o ns]

\* A name of the type namespace: its file's own, or one it may not use.
nominal(r, n) ==
  CASE n \in DOMAIN r.types -> [r |-> r, n |-> r.types[n]]
    [] n \notin DOMAIN r.types /\ n \in r.ambiguous -> [r |-> [r EXCEPT !.hits = Append(@, n)], n |-> n]
    [] OTHER -> [r |-> r, n |-> n]

value_name(r, n) ==
  CASE shadowed(r, n) -> [r |-> r, n |-> n]
    [] ~shadowed(r, n) /\ n \in DOMAIN r.renames -> [r |-> r, n |-> r.renames[n]]
    [] OTHER -> nominal(r, n)

lookup(r, n) == ~shadowed(r, n) /\ n \in DOMAIN r.renames

Renamed(t, v) == [r |-> v.r, t |-> [t EXCEPT !.ns = <<v.n>>]]

\* The name of a declared type; a container's parts are types of their own.
rewrite_type(r, t) == Renamed(t, nominal(r, t.ns[1]))

RECURSIVE rewrite(_, _)
RECURSIVE rewrite_all(_, _)
RECURSIVE rewrite_pat(_, _)

\* Children from left to right.
rewrite_all(r, ts) ==
  IF ts = <<>> THEN [r |-> r, ts |-> <<>>]
  ELSE LET first == rewrite(r, Head(ts))
           rest == rewrite_all(first.r, Tail(ts))
       IN [r |-> rest.r, ts |-> <<first.t>> \o rest.ts]

rewrite_pat(r, p) ==
  IF p.k = "pident" THEN Renamed(p, value_name(r, p.ns[1]))
  ELSE LET name == nominal(r, p.ns[1])
           sub == rewrite_pat(name.r, p.xs[1])
       IN [r |-> sub.r, t |-> [p EXCEPT !.ns = <<name.n>>, !.xs = <<sub.t>>]]

RECURSIVE collect_pat_binders(_)
collect_pat_binders(p) == IF p.k = "pident" THEN p.ns ELSE collect_pat_binders(p.xs[1])

\* The first n children outside the scope of the names ns, the others inside.
Scoped(r, t, n, ns) ==
  LET Close(out, in) == [r |-> pop_scope(in.r), t |-> [t EXCEPT !.xs = out.ts \o in.ts]]
      Open(out) == Close(out, rewrite_all(shadow(push_scope(out.r), ns), SubSeq(t.xs, n + 1, Len(t.xs))))
  IN Open(rewrite_all(r, SubSeq(t.xs, 1, n)))

rewrite_block(r, t) == Scoped(r, t, 0, <<>>)

\* A mutant: the name is in scope in the value it is bound to.
BindEarly(r, t) ==
  LET e == rewrite(shadow(r, t.ns), t.xs[1])
  IN [r |-> e.r, t |-> [t EXCEPT !.xs = <<e.t>>]]

\* A binding is in scope after its own value.
rewrite_bind(r, t) ==
  LET e == rewrite(r, t.xs[1])
  IN [r |-> shadow(e.r, t.ns), t |-> [t EXCEPT !.xs = <<e.t>>]]

rewrite_for(r, t) == Scoped(r, t, 1, t.ns)

rewrite_lambda(r, t) == Scoped(r, t, 0, t.ns)

rewrite_comp(r, t) == Scoped(r, t, 1, t.ns)

rewrite_together(r, t) == Scoped(r, t, 0, t.ns)

\* An arm of select or receive: the channel is outside.
rewrite_arm(r, t) == Scoped(r, t, 1, t.ns)

\* subject, pattern, guard, body.
rewrite_match(r, t) ==
  LET subject == rewrite(r, t.xs[1])
      pat == rewrite_pat(push_scope(subject.r), t.xs[2])
      rest == rewrite_all(shadow(pat.r, collect_pat_binders(pat.t)), SubSeq(t.xs, 3, 4))
  IN [r |-> pop_scope(rest.r), t |-> [t EXCEPT !.xs = <<subject.t, pat.t>> \o rest.ts]]

\* name(field is value): a call when the name is a function's.
rewrite_struct(r, t) ==
  LET kids == rewrite_all(r, t.xs)
      name == nominal(r, t.ns[1])
      kids2 == rewrite_all(name.r, t.xs)
  IN IF lookup(r, t.ns[1])
     THEN [r |-> kids.r, t |-> [t EXCEPT !.k = "call", !.ns = <<r.renames[t.ns[1]]>>, !.xs = kids.ts]]
     ELSE [r |-> kids2.r, t |-> [t EXCEPT !.ns = <<name.n>>, !.xs = kids2.ts]]

\* A statement that removes, restores or sets records keeps its filter as it is.
rewrite_unvisited(r, t) == [r |-> r, t |-> t]

rewrite_stmt(r, t) ==
  CASE t.k = "bind" -> rewrite_bind(r, t)
    [] t.k = "for" -> rewrite_for(r, t)
    [] t.k = "match" -> rewrite_match(r, t)
    [] t.k = "together" -> rewrite_together(r, t)
    [] t.k = "filter" -> rewrite_unvisited(r, t)

rewrite_expr(r, t) ==
  CASE t.k = "ident" -> Renamed(t, value_name(r, t.ns[1]))
    [] t.k = "type" -> rewrite_type(r, t)
    [] t.k = "struct" -> rewrite_struct(r, t)
    [] t.k = "lambda" -> rewrite_lambda(r, t)
    [] t.k = "comp" -> rewrite_comp(r, t)
    [] t.k = "arm" -> rewrite_arm(r, t)
    [] t.k \in {"call", "op"} -> LET kids == rewrite_all(r, t.xs) IN [r |-> kids.r, t |-> [t EXCEPT !.xs = kids.ts]]

rewrite(r, t) ==
  CASE t.k = "block" -> rewrite_block(r, t)
    [] t.k \in {"bind", "for", "match", "together", "filter"} -> rewrite_stmt(r, t)
    [] OTHER -> rewrite_expr(r, t)

\* A function's default values are walked with its parameters in scope.
rewrite_fn(r, d) == Scoped(r, d.tree, 0, d.tree.ns)

rewrite_decl(r, d) ==
  LET Done(n, body) == [r |-> body.r, d |-> [d EXCEPT !.name = n, !.tree = body.t]]
      Named(v) == Done(v.n, IF d.k = "fn" THEN rewrite_fn(v.r, d) ELSE rewrite(v.r, d.tree))
  IN Named(IF d.k = "type" THEN nominal(r, d.name) ELSE [r |-> r, n |-> d.name])

----------------------------------------------------------------------------
(* Modules.                                                                *)

Mangled(module, n) == <<module>> \o n

flatten_module(decls, module) ==
  LET own == {decls[i].name : i \in {j \in DOMAIN decls : decls[j].k \in {"fn", "const"}}}
      renames == [n \in own |-> Mangled(module, n)]
      Flat(d) == LET d2 == IF d.k \in {"fn", "const"} THEN [d EXCEPT !.name = renames[@]] ELSE d
                 IN rewrite_decl(Renamer(renames, <<>>, {}), d2).d
  IN [i \in DOMAIN decls |-> Flat(decls[i])]

should_import_decl(d, only) == only = {} \/ d.name \in only

RECURSIVE resolve_modules_rec(_, _, _)
\* The declarations that using file u adds, and the files loaded by then: a
\* file is loaded once, before the files it uses.
resolve_modules_rec(p, uses, loaded) ==
  IF uses = <<>> THEN [decls |-> <<>>, loaded |-> loaded]
  ELSE LET u == Head(uses)
           sub == resolve_modules_rec(p, p.uses[u.file], loaded \cup {u.file})
           own == SelectSeq(p.files[u.file], LAMBDA d : should_import_decl(d, u.only))
           mine == IF u.file \in loaded THEN [decls |-> <<>>, loaded |-> loaded]
                   ELSE [decls |-> flatten_module(own, u.file) \o sub.decls, loaded |-> sub.loaded]
           rest == resolve_modules_rec(p, Tail(uses), mine.loaded)
       IN [decls |-> mine.decls \o rest.decls, loaded |-> rest.loaded]

----------------------------------------------------------------------------
(* Types of the same name in two files.                                    *)

DeclaredIn(decls, n) == {decls[i].file : i \in {j \in DOMAIN decls : decls[j].k = "type" /\ decls[j].name = n}}

Colliding(decls) ==
  {n \in {decls[i].name : i \in DOMAIN decls} : Cardinality(DeclaredIn(decls, n)) > 1}

Tagged(n, file) == n \o <<"M", file>>

qualify_colliding_types(decls) ==
  LET amb == Colliding(decls)
      own(file) == {n \in amb : file \in DeclaredIn(decls, n)}
      Qual(d) == rewrite_decl(Renamer(<<>>, [n \in own(d.file) |-> Tagged(n, d.file)], amb), d)
      All(res) == [decls |-> [i \in DOMAIN decls |-> res[i].d], hits |-> \E i \in DOMAIN decls : res[i].r.hits # <<>>]
  IN All([i \in DOMAIN decls |-> Qual(decls[i])])

----------------------------------------------------------------------------

NamesInit == \E p \in Projects : names = [p |-> p, phase |-> "root", decls |-> p.files[Root], errors |-> FALSE]

resolve_modules ==
  /\ names.phase = "root"
  /\ names' = [names EXCEPT !.phase = "flat",
                            !.decls = @ \o resolve_modules_rec(names.p, names.p.uses[Root], {Root}).decls]

qualify ==
  /\ names.phase = "flat"
  /\ LET Named(q) == [names EXCEPT !.phase = "named", !.decls = q.decls, !.errors = q.hits]
     IN names' = Named(qualify_colliding_types(names.decls))

NamesNext == resolve_modules \/ qualify

NamesSpec == NamesInit /\ [][NamesNext]_names

----------------------------------------------------------------------------
(* What a name means, as the typer looks it up.                            *)

\* The children of a node that see the names it binds.
Sees(t) ==
  CASE t.k \in {"lambda", "fn"} -> DOMAIN t.xs
    [] t.k \in {"for", "comp", "arm"} -> DOMAIN t.xs \ {1}
    [] t.k = "match" -> {3, 4}
    [] t.k = "together" -> {1}
    [] OTHER -> {}

Binders(t) == IF t.k = "match" THEN collect_pat_binders(t.xs[2]) ELSE t.ns

\* env maps the names of an environment to what they stand for; the binder of
\* a local is its place in the tree.
With(env, ns, at) == [n \in DOMAIN env \cup Names(ns) |-> IF n \in Names(ns) THEN at ELSE env[n]]

Of(g, n) == IF n \in DOMAIN g THEN <<"global", g[n]>> ELSE <<"free", n>>

UseOf(n, env, g) == IF n \in DOMAIN env THEN <<"local", env[n]>> ELSE Of(g, n)

RECURSIVE Uses(_, _, _, _)
RECURSIVE UsesInOrder(_, _, _, _, _)

\* Statements: a binding is seen by the ones after it.
UsesInOrder(ts, i, env, g, at) ==
  IF i > Len(ts) THEN <<>>
  ELSE Uses(ts[i], env, g, Append(at, i))
         \o UsesInOrder(ts, i + 1, IF ts[i].k = "bind" THEN With(env, ts[i].ns, Append(at, i)) ELSE env, g, at)

\* The target of every use in t, from left to right.  A filter is left out:
\* the renamer does not look into it.
Uses(t, env, g, at) ==
  LET name == IF t.ns = <<>> \/ t.k \notin {"ident", "type", "struct", "call", "pctor"} THEN <<>>
              ELSE <<IF t.k \in {"type", "pctor"} THEN Of(g, t.ns[1]) ELSE UseOf(t.ns[1], env, g)>>
      inner == With(env, Binders(t), at)
      kid(i) == Uses(t.xs[i], IF i \in Sees(t) THEN inner ELSE env, g, Append(at, i))
      kids[i \in 0..Len(t.xs)] == IF i = 0 THEN <<>> ELSE kids[i - 1] \o kid(i)
  IN CASE t.k \in {"filter", "pident"} -> <<>>
       [] t.k = "block" -> UsesInOrder(t.xs, 1, env, g, at)
       [] OTHER -> name \o kids[Len(t.xs)]

AllDecls(p) == UNION {Names(p.files[f]) : f \in DOMAIN p.files}

\* What the names in file f stand for in the source: its own declaration, else
\* a type that one other file declares, else the root's declaration.
Source(p, f) ==
  LET own(n) == {d \in AllDecls(p) : d.file = f /\ d.name = n}
      types(n) == {d \in AllDecls(p) : d.k = "type" /\ d.name = n}
      root(n) == {d \in AllDecls(p) : d.file = Root /\ d.name = n}
      pick(n) == IF own(n) # {} THEN own(n) ELSE IF types(n) # {} THEN types(n) ELSE root(n)
      known == {n \in {d.name : d \in AllDecls(p)} : pick(n) # {}}
  IN [n \in known |-> IF Cardinality(pick(n)) = 1 THEN (CHOOSE d \in pick(n) : TRUE).id ELSE <<"ambiguous", n>>]

\* What a name stands for in the one list of declarations.
Flat(decls) ==
  LET at(n) == CHOOSE i \in DOMAIN decls : decls[i].name = n /\ \A j \in 1..(i - 1) : decls[j].name # n
  IN [n \in {decls[i].name : i \in DOMAIN decls} |-> decls[at(n)].id]

\* Making one list of the files changes no meaning: every use in every body
\* that was kept stands, in the list, for the binder or the declaration that
\* it stood for in its own file, or the program is refused because it uses a
\* type name that is ambiguous there.
NamesKept ==
  names.phase = "named" /\ ~names.errors =>
    \A i \in DOMAIN names.decls :
      LET d == names.decls[i]
          was == CHOOSE o \in AllDecls(names.p) : o.id = d.id
      IN Uses(d.tree, <<>>, Flat(names.decls), <<>>) = Uses(was.tree, <<>>, Source(names.p, d.file), <<>>)
============================================================================
