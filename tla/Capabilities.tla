---------------------------- MODULE Capabilities ----------------------------
(***************************************************************************)
(* The capability pass (src/typer/caps.rs, cap_sites.rs, caps.rs): what    *)
(* each function may do to the outside world is collected from its body,   *)
(* propagated to its callers, and compared with the `needs` it declares.   *)
(* A program that passes then runs, and every effect it has is compared    *)
(* with what was declared.                                                 *)
(*                                                                         *)
(* A program has functions and handlers (`body`), nested blocks and the    *)
(* initialisers of globals, all of them sequences of operations [op, x,    *)
(* path, mode]; x names what the operation is about.  `needs` maps the     *)
(* annotated functions to capabilities.  A capability is [class, scope]; a *)
(* scope is a path [abs, segs], a region name in segs, or AnyScope, which  *)
(* also stands for an argument that is no literal.  Symbolic links and a   *)
(* change of the working directory are left out.                           *)
(***************************************************************************)
EXTENDS Integers, Sequences, FiniteSets, SequencesExt

CONSTANTS Programs,    \* the programs that are tried
          Segments,    \* what a segment of a path may be
          Cwd,         \* the working directory of the running program
          Anywhere,    \* places an argument that is no literal may name
          Fuel         \* bound on the operations one execution performs

Path(abs, segs) == [abs |-> abs, segs |-> segs]
AnyScope == Path(FALSE, <<"*">>)
Cap(class, scope) == [class |-> class, scope |-> scope]
FfiUnsafe == Cap("ffi.unsafe", AnyScope)
IndirectCall == Cap("indirect-call", AnyScope)

Op(op, x, path, mode) == [op |-> op, x |-> x, path |-> path, mode |-> mode]

Paths == [abs : BOOLEAN, segs : Seq(Segments)]
Ops == [op : STRING, x : STRING, path : Paths \cup {AnyScope}, mode : STRING]

\* The names of an operation are resolved before the pass, but for functions.
Resolved(p, o) ==
  /\ o.op \in {"insert", "delete", "query"} => o.x \in DOMAIN p.stores
  /\ o.op = "spawn" => o.x \in DOMAIN p.actors
  /\ o.op = "drop"  => o.x \in DOMAIN p.types
  /\ o.op = "gget"  => o.x \in DOMAIN p.globals
  /\ o.op = "block" => o.x \in DOMAIN p.blocks
  /\ o.op # "init"
WellFormed(p) ==
  /\ \A code \in {p.body, p.blocks, p.globals} : \A f \in DOMAIN code :
       code[f] \in Seq(Ops) /\ \A i \in DOMAIN code[f] : Resolved(p, code[f][i])
  /\ p.order \in Seq(DOMAIN p.body) /\ IsFiniteSet(DOMAIN p.body)
  /\ DOMAIN p.body \subseteq {p.order[i] : i \in DOMAIN p.order}
  /\ p.inits \in Seq(Ops) /\ \A i \in DOMAIN p.inits : p.inits[i].op = "init" /\ p.inits[i].x \in DOMAIN p.globals
  /\ DOMAIN p.stores \subseteq Segments
  /\ \A s \in DOMAIN p.stores : p.stores[s].cascade \subseteq DOMAIN p.stores
  /\ \A t \in DOMAIN p.types : p.types[t].fields \subseteq DOMAIN p.types
  /\ DOMAIN p.needs \subseteq DOMAIN p.body
  /\ \A f \in DOMAIN p.needs : \A d \in p.needs[f] : d.class # "indirect-call" /\ d.scope \in Paths \cup {AnyScope}

\* No segment of a path is "/" or "*": the one separates them, the other
\* stands for an unknown path.
ASSUME CapabilitiesAssumption ==
  /\ {"."} \subseteq Segments /\ Segments \subseteq STRING \ {"/", "*"}
  /\ Cwd \in Seq(Segments) /\ Anywhere # {} /\ Fuel \in Nat
  /\ \A p \in Programs : WellFormed(p)

VARIABLE cap

(***************************************************************************)
(* Scopes.  A normalised path is its text: segments with "/" between them. *)
(***************************************************************************)
Front1(s) == SubSeq(s, 1, Len(s) - 1)
PushSeg(out, seg) ==
  CASE seg \in {"", "."} -> out
    [] seg = ".." /\ (out = <<>> \/ out[Len(out)] = "..") -> Append(out, seg)
    [] seg = ".." /\ out # <<>> /\ out[Len(out)] # ".." -> Front1(out)
    [] OTHER -> Append(out, seg)
NormalSegs(segs) ==
  LET out[n \in 0..Len(segs)] == IF n = 0 THEN <<>> ELSE PushSeg(out[n - 1], segs[n])
  IN out[Len(segs)]
Joined(segs) == [i \in 1..(2 * Len(segs) - 1) |-> IF i % 2 = 1 THEN segs[(i + 1) \div 2] ELSE "/"]
normalize_path(p) ==
  LET text == IF NormalSegs(p.segs) = <<>> THEN <<>> ELSE Joined(NormalSegs(p.segs))
  IN IF p.abs THEN <<"/">> \o text ELSE text

StartsWith(s, pre) == Len(pre) <= Len(s) /\ \A i \in 1..Len(pre) : s[i] = pre[i]
path_within(inner, outer) ==
  \/ outer = AnyScope
  \/ /\ inner # AnyScope
     /\ LET no == normalize_path(outer)
            ni == normalize_path(inner)
        IN ni = no \/ StartsWith(ni, Append(no, "/"))

subsumed_by(c, d) ==
  /\ c.class = d.class
  /\ CASE c.class \in {"fs.read", "fs.write"} -> path_within(c.scope, d.scope)
       [] c.class = "state" -> d.scope = AnyScope \/ c.scope = d.scope
       [] OTHER -> TRUE
satisfies(set, c) == \E d \in set : subsumed_by(c, d)
contained_in(set, ceiling) == {c \in set : ~satisfies(ceiling, c)}

(***************************************************************************)
(* The classification of the leaves: externs by name, files by open mode.  *)
(***************************************************************************)
open_mode_caps(path, mode) ==
  CASE mode = "r" -> {Cap("fs.read", path)}
    [] mode = "?" -> {Cap("fs.read", path), Cap("fs.write", path)}
    [] OTHER      -> {Cap("fs.write", path)}

capability_of(class, path) ==
  Cap(class, CASE class \in {"fs.read", "fs.write"} -> path
               [] class = "state" -> Path(FALSE, <<"env">>)      \* setenv
               [] OTHER -> AnyScope)

\* An extern is named by the class its table gives it; one that no table
\* lists may do anything.
classify_extern(o) ==
  CASE o.x = "fopen"   -> open_mode_caps(o.path, o.mode)
    [] o.x = "benign"  -> {}
    [] o.x = "unknown" -> {FfiUnsafe}
    [] OTHER           -> {capability_of(o.x, o.path)}

(***************************************************************************)
(* The scan of one body: [caps, callees].                                  *)
(***************************************************************************)
None == [caps |-> {}, callees |-> {}]
OfCaps(cs) == [caps |-> cs, callees |-> {}]
OfCallees(fs) == [caps |-> {}, callees |-> fs]
Both(a, b) == [caps |-> a.caps \cup b.caps, callees |-> a.callees \cup b.callees]

\* What a work list with a `seen` set visits from S: the least set that has S
\* and is closed under next, a function on All.
Closure(All, S, next) ==
  {u \in All : \A T \in SUBSET All : S \subseteq T /\ (\A v \in T : next[v] \subseteq T) => u \in T}

call(p, f) == IF f \in DOMAIN p.body THEN OfCallees({f}) ELSE OfCaps({FfiUnsafe})
method(p, f) == IF f \in DOMAIN p.body THEN OfCallees({f}) ELSE OfCaps({IndirectCall})

StoreFile(s) == Path(FALSE, <<".", s>>)
store(s) == OfCaps({Cap("fs.read", StoreFile(s)), Cap("fs.write", StoreFile(s))})
\* A hook that is no function is called indirectly.
store_hooks(p, s, event) ==
  LET hooks == p.stores[s].hooks[event]
  IN Both(OfCallees(hooks \cap DOMAIN p.body), OfCaps(IF hooks \subseteq DOMAIN p.body THEN {} ELSE {IndirectCall}))

\* Deleting a row deletes through every cascading relation.
Cascaded(p, s) == Closure(DOMAIN p.stores, {s}, [t \in DOMAIN p.stores |-> p.stores[t].cascade])
store_delete(p, s) ==
  [caps    |-> UNION {store(t).caps \cup store_hooks(p, t, "delete").caps : t \in Cascaded(p, s)},
   callees |-> UNION {store_hooks(p, t, "delete").callees : t \in Cascaded(p, s)}]

\* The drop methods of a resource type and of what it is made of.
Within(p, t) == Closure(DOMAIN p.types, {t}, [u \in DOMAIN p.types |-> p.types[u].fields])
drop_type(p, t) ==
  OfCallees({p.types[u].drop : u \in {v \in Within(p, t) : p.types[v].resource}} \cap DOMAIN p.body)
display(p, t) == OfCallees({p.types[u].display : u \in {t} \cap DOMAIN p.types} \cap DOMAIN p.body)

StoreExpr(p, o) ==
  CASE o.op = "insert" -> Both(store(o.x), store_hooks(p, o.x, "insert"))
    [] o.op = "delete" -> store_delete(p, o.x)
    [] OTHER           -> store(o.x)

\* Spawning an actor counts all its handlers, a message the one it names.
ActorExpr(p, o) == OfCallees(IF o.op = "spawn" THEN p.actors[o.x] ELSE {o.x})

expr(p, o) ==
  CASE o.op \in {"call", "ref"} -> call(p, o.x)
    [] o.op = "method"   -> method(p, o.x)
    [] o.op = "indirect" -> OfCaps({IndirectCall})
    [] o.op = "extern"   -> OfCaps(classify_extern(o))
    [] o.op \in {"insert", "delete", "query"} -> StoreExpr(p, o)
    [] o.op \in {"spawn", "send"} -> ActorExpr(p, o)
    [] o.op \in {"gset", "gget"}  -> OfCaps({Cap("state", Path(FALSE, <<o.x>>))})
    [] o.op = "drop"     -> drop_type(p, o.x)
    [] o.op = "log"      -> display(p, o.x)
    [] OTHER             -> None

\* The operations of a body lie in the body itself, in the blocks nested in it
\* (branches, loops, lambdas) and in the initialisers of the globals it reads;
\* main has the initialisers of all.
Pieces(p) == ({"block"} \X DOMAIN p.blocks) \cup ({"global"} \X DOMAIN p.globals)
Code(p, u) == ToSet(IF u[1] = "block" THEN p.blocks[u[2]] ELSE p.globals[u[2]])
Inner(p, code) == Pieces(p) \cap ({<<"block", o.x>> : o \in {q \in code : q.op = "block"}}
                                   \cup {<<"global", o.x>> : o \in {q \in code : q.op = "gget"}})
block(p, f) ==
  LET own  == ToSet(p.body[f])
      init == IF f = "main" THEN {"global"} \X DOMAIN p.globals ELSE {}
  IN own \cup UNION {Code(p, u) : u \in Closure(Pieces(p), Inner(p, own) \cup init,
                                                [u \in Pieces(p) |-> Inner(p, Code(p, u))])}

Scan(p, f) ==
  LET callees == UNION {expr(p, o).callees : o \in block(p, f)}
      caps    == UNION {expr(p, o).caps : o \in block(p, f)}
  IN [callees |-> callees,
      caps    |-> caps \cup (IF callees \subseteq DOMAIN p.body THEN {} ELSE {IndirectCall})]

----------------------------------------------------------------------------
(***************************************************************************)
(* cap is [prog, stage, graph, rows, pending, from, k, vals, did, fuel]:   *)
(* the scanned callees and capability rows, the work list, and then the    *)
(* execution of the annotated function `from`.                             *)
(***************************************************************************)
Fresh(p) == [prog |-> p, stage |-> "scan", graph |-> <<>>, rows |-> <<>>, pending |-> <<>>,
             from |-> "", k |-> <<>>, vals |-> {}, did |-> {}, fuel |-> Fuel]
CapabilitiesInit == \E p \in Programs : cap = Fresh(p)

analyze ==
  /\ cap.stage = "scan"
  /\ LET p == cap.prog
     IN cap' = [cap EXCEPT !.stage = "spread",
                           !.graph = [f \in DOMAIN p.body |-> Scan(p, f).callees \cap DOMAIN p.body],
                           !.rows  = [f \in DOMAIN p.body |-> Scan(p, f).caps],
                           !.pending = p.order]

\* The callers whose row grows when callee's row is joined to theirs.
Grown(c, callee) ==
  {f \in DOMAIN c.rows : callee \in c.graph[f] /\ ~(c.rows[callee] \subseteq c.rows[f])}
\* One turn of the work list: rows grow, and the grown callers are queued unless
\* they wait already.  Mutant: a function is never queued a second time.
SpreadOnce(c) ==
  LET callee == Head(c.pending)
      up == Grown(c, callee)
  IN [c EXCEPT !.rows = [f \in DOMAIN @ |-> IF f \in up THEN @[f] \cup @[callee] ELSE @[f]],
               !.pending = Tail(@)]
Spread(c) ==
  LET callee == Head(c.pending)
      up   == Grown(c, callee)
      back == SetToSeq(up \ ToSet(Tail(c.pending)))
  IN [c EXCEPT !.rows = [f \in DOMAIN @ |-> IF f \in up THEN @[f] \cup @[callee] ELSE @[f]],
               !.pending = Tail(@) \o back]
spread == cap.stage = "spread" /\ cap.pending # <<>> /\ cap' = Spread(cap)

\* An annotated function may not exceed its declaration; an accepted program
\* may then be entered at any annotated function, at main after the globals
\* have been initialised.
EntryOf(p, f) == (IF f = "main" THEN p.inits ELSE <<>>) \o p.body[f]
judge ==
  /\ cap.stage = "spread" /\ cap.pending = <<>>
  /\ LET over == {f \in DOMAIN cap.prog.needs : contained_in(cap.rows[f], cap.prog.needs[f]) # {}}
     IN IF over # {} THEN cap' = [cap EXCEPT !.stage = "refused"]
        ELSE \E f \in DOMAIN cap.prog.needs :
               cap' = [cap EXCEPT !.stage = "run", !.from = f, !.k = EntryOf(cap.prog, f)]

(***************************************************************************)
(* The running program.  did collects the effects as they really are: an   *)
(* absolute place for a file, the region for global state.                 *)
(***************************************************************************)
Up(at) == IF at = <<>> THEN at ELSE Front1(at)
WalkSeg(at, seg) == CASE seg \in {"", "."} -> at [] seg = ".." -> Up(at) [] OTHER -> Append(at, seg)
Walk(from, segs) ==
  LET at[n \in 0..Len(segs)] == IF n = 0 THEN from ELSE WalkSeg(at[n - 1], segs[n])
  IN at[Len(segs)]
At(p) == Walk(IF p.abs THEN <<>> ELSE Cwd, p.segs)
Places(path) == IF path = AnyScope THEN Anywhere ELSE {At(path)}

Eff(class, at) == [class |-> class, at |-> at, back |-> FALSE]
ReadBack(at) == [class |-> "fs.read", at |-> at, back |-> TRUE]
\* A file opened to be updated is read as well as written.
OpenEffs(mode, at) ==
  (IF mode \in {"r", "?"} THEN {Eff("fs.read", at)} ELSE {})
    \cup (IF mode # "r" THEN {Eff("fs.write", at)} ELSE {})
    \cup (IF mode \in {"r+", "w+", "a+"} THEN {ReadBack(at)} ELSE {})

\* What one operation does, its path being the place at.
ExternEffs(o, at) ==
  CASE o.x = "fopen"   -> OpenEffs(o.mode, at)
    [] o.x = "benign"  -> {}
    [] o.x = "unknown" -> {Eff("ffi.unsafe", <<>>)}
    [] o.x \in {"fs.read", "fs.write"} -> {Eff(o.x, at)}
    [] o.x = "state"   -> {Eff(o.x, <<"env">>)}
    [] OTHER           -> {Eff(o.x, <<>>)}
Effects(p, o, at) ==
  CASE o.op = "extern" -> ExternEffs(o, at)
    [] o.op \in {"insert", "delete", "query"} -> OpenEffs("?", At(StoreFile(o.x)))
    [] o.op \in {"gset", "gget"} -> {Eff("state", <<o.x>>)}
    [] o.op = "call" /\ o.x \notin DOMAIN p.body -> {Eff("ffi.unsafe", <<>>)}
    [] o.op = "method" /\ o.x \notin DOMAIN p.body -> {Eff("indirect-call", <<>>)}
    [] OTHER -> {}

\* The functions it may set off, and the rest of what it stands for: the rows
\* deleted with a row, the fields dropped with a value, the code of a block.
Called(c, o) ==
  CASE o.op \in {"call", "method", "send"} -> {o.x}
    [] o.op = "indirect" -> c.vals
    [] o.op \in {"insert", "delete"} -> c.prog.stores[o.x].hooks[o.op]
    [] o.op = "spawn" -> c.prog.actors[o.x]
    [] o.op = "drop" -> {c.prog.types[t].drop : t \in {u \in {o.x} : c.prog.types[u].resource}}
    [] o.op = "log" -> {c.prog.types[t].display : t \in {o.x} \cap DOMAIN c.prog.types}
    [] OTHER -> {}
Follows(c, o) ==
  CASE o.op = "delete" -> {<<Op("delete", s, AnyScope, "")>> : s \in c.prog.stores[o.x].cascade}
    [] o.op = "drop"   -> {<<Op("drop", t, AnyScope, "")>> : t \in c.prog.types[o.x].fields}
    [] o.op = "block"  -> {c.prog.blocks[o.x]}
    [] o.op = "init"   -> {c.prog.globals[o.x]}
    [] OTHER -> {}
Started(c, o) == {c.prog.body[f] : f \in Called(c, o) \cap DOMAIN c.prog.body} \cup Follows(c, o) \cup {<<>>}

step ==
  /\ cap.stage = "run" /\ cap.k # <<>> /\ cap.fuel > 0
  /\ LET o == Head(cap.k)
     IN \E b \in Started(cap, o), at \in Places(o.path) :
          cap' = [cap EXCEPT !.k = b \o Tail(@), !.did = @ \cup Effects(cap.prog, o, at), !.fuel = @ - 1,
                             !.vals = IF o.op = "ref" THEN @ \cup {o.x} ELSE @]

CapabilitiesNext == analyze \/ spread \/ judge \/ step
CapabilitiesSpec == CapabilitiesInit /\ [][CapabilitiesNext]_cap
----------------------------------------------------------------------------
\* Reading a file that was opened to be updated counts as writing it.
CountsAs(e) == IF e.back THEN "fs.write" ELSE e.class

\* path_within compares texts, and a relative scope that stands for the working
\* directory ("." has the text "") or for one above it is a prefix of the wrong
\* ones: it limits the class of an effect and not its place.
NamesPlace(scope) ==
  \/ scope.abs
  \/ NormalSegs(scope.segs) # <<>> /\ NormalSegs(scope.segs)[Len(NormalSegs(scope.segs))] # ".."

Covered(e, d) ==
  /\ CountsAs(e) = d.class
  /\ CASE d.class \in {"fs.read", "fs.write"} ->
              d.scope = AnyScope \/ (NamesPlace(d.scope) => StartsWith(e.at, At(d.scope)))
       [] d.class = "state" -> d.scope = AnyScope \/ e.at = d.scope.segs
       [] OTHER -> TRUE

\* Every effect an accepted function has, directly or through any chain of
\* calls, hooks, cascades, drops, handlers and initialisers, is of a class its
\* `needs` declares and, where that declaration names a place or a region, there
\* (docs/internals.md:68: annotations are compiler-checked upper bounds).  What
\* the checker lets through is in CountsAs and NamesPlace.
NeedsHold == cap.stage = "run" =>
               \A e \in cap.did : \E d \in cap.prog.needs[cap.from] : Covered(e, d)
=============================================================================
