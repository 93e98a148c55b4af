----------------------------- MODULE Ownership ------------------------------
(***************************************************************************)
(* What an accepted program does with its heap values.  A function f(p) is *)
(* checked and given its drops (Moves), its cheap binds are demoted        *)
(* (Escape), and the result runs: k holds the statements still to run and  *)
(* m the machine,                                                          *)
(*   env   the cell each variable holds (0: none, or given away)           *)
(*   heap  cells [live, f, name, kids]: the parts a cell owns              *)
(*   it    what the `for`s walk, [x, c], innermost last                    *)
(*   dfr   deferred bodies, latest first    late  drops put off for them   *)
(*   alias the variables that borrow; what consumes or drops one after a   *)
(*         join gets the clone the MIR drop pass makes there (Drops)       *)
(*   turns loop iterations left             bad   what went wrong          *)
(*   loose the cells a known gap of the checker has let loose (see Sound)  *)
(*   lost  one of those was used after its end: the run is over            *)
(* Whatever leaves the function (sent, captured, handed to a consuming     *)
(* callee) is taken to die at once.                                        *)
(***************************************************************************)
EXTENDS Moves

CONSTANTS Vars,        \* every variable of the program
          Callees,     \* the functions f calls: name -> [params, body]
          Bodies,      \* the bodies of f that are tried
          Turns        \* bound on the iterations of all loops

VARIABLES body, phase, k, m
vars == <<body, phase, k, m>>

Cell == [live |-> TRUE, f |-> 0, name |-> 0, kids |-> {}]

\* The cells cs are not what the program takes them for.  When all of them were
\* let loose by a known gap the run ends without a complaint.
Wrong(cs, why, mm) ==
  IF cs # {} /\ cs \subseteq mm.loose THEN [mm EXCEPT !.lost = TRUE] ELSE [mm EXCEPT !.bad = @ \cup {why}]
Loosen(cs, mm) == [mm EXCEPT !.loose = @ \cup cs]

\* A new aggregate: a cell, its field and its name.
Alloc(mm) ==
  LET n == Len(mm.heap)
  IN [mm EXCEPT !.heap = @ \o <<[Cell EXCEPT !.f = n + 2, !.name = n + 3], Cell, Cell>>]
Newest(mm) == Len(mm.heap) - 2

RECURSIVE Parts(_, _)
Parts(h, c) == IF c = 0 THEN {}
               ELSE {c} \cup UNION {Parts(h, d) : d \in {h[c].f, h[c].name} \cup h[c].kids}

Dead(c, mm) == {i \in Parts(mm.heap, c) : ~mm.heap[i].live}

Free(c, mm) ==
  LET ps == Parts(mm.heap, c)
      d  == [mm EXCEPT !.heap = [i \in DOMAIN @ |-> IF i \in ps THEN [@[i] EXCEPT !.live = FALSE] ELSE @[i]]]
  IN IF c = 0 THEN Wrong({}, "drop of a value given away", mm)
     ELSE IF Dead(c, mm) # {} THEN Wrong(Dead(c, mm), "freed twice", d) ELSE d

\* Reading x: it must hold something, and all of it must be live.
Read(x, mm) ==
  LET c == mm.env[x]
  IN IF c = 0 \/ Dead(c, mm) # {} THEN Wrong(Dead(c, mm), "read of a dead value", mm) ELSE mm
ReadPart(x, part, mm) ==
  LET c == mm.env[x]
      d == IF c = 0 THEN 0 ELSE IF part = "field" THEN mm.heap[c].f ELSE mm.heap[c].name
      gone == IF c = 0 THEN {} ELSE IF d = 0 \/ ~mm.heap[c].live THEN {c} ELSE {d}
  IN IF c = 0 \/ d = 0 \/ ~mm.heap[c].live \/ ~mm.heap[d].live
     THEN Wrong(gone, "read of a dead value", mm) ELSE mm

\* x gives its cell away; a payload binder gives it out of the matched value.
Give(x, mm) ==
  LET c == mm.env[x]
  IN [mm EXCEPT !.env[x] = 0,
                !.heap = [i \in DOMAIN @ |-> IF c # 0 /\ @[i].f = c THEN [@[i] EXCEPT !.f = 0] ELSE @[i]]]

\* x and y reach the same cells cs.  The places of a borrow and of what it
\* borrows are different to the checker, so that is let loose between two names.
Overlap(x, y, cs, why, mm) ==
  Wrong(cs, why, IF x # y /\ {x, y} \cap mm.alias # {} THEN Loosen(cs, mm) ELSE mm)
RECURSIVE UnderLoops(_, _, _)
UnderLoops(x, walks, mm) ==
  IF walks = <<>> THEN mm
  ELSE UnderLoops(x, Tail(walks),
         IF mm.env[x] = Head(walks).c THEN Overlap(x, Head(walks).x, {mm.env[x]}, "changed under a loop", mm) ELSE mm)
Grow(x, mm) == UnderLoops(x, mm.it, mm)

\* A string that leaves the function must not be on loan from a field of x.
Leaves(x, mm) ==
  IF x \in Strs \cap mm.alias THEN Wrong({}, "borrow handed over", mm) ELSE Read(x, mm)

\* An aggregate argument that is handed over and dies with the receiver.
HandOver(a, mm) ==
  CASE a.op = "var" /\ a.x \notin Strs \cup mm.alias -> Give(a.x, Free(mm.env[a.x], Read(a.x, mm)))
    [] a.op = "var" -> Leaves(a.x, mm)
    [] a.op \in {"field", "name"} -> ReadPart(a.x, a.op, mm)
    [] OTHER -> mm
Look(a, mm) == CASE a.op = "var" -> Read(a.x, mm)
                 [] a.op \in {"field", "name"} -> ReadPart(a.x, a.op, mm)
                 [] OTHER -> mm

\* The cells an argument exposes to the callee.
Exposed(a, mm) ==
  IF a.op \notin {"var", "field"} \/ mm.env[a.x] = 0 THEN {}
  ELSE Parts(mm.heap, IF a.op = "var" THEN mm.env[a.x] ELSE mm.heap[mm.env[a.x]].f)

RECURSIVE AllOf(_, _, _)
AllOf(Op(_, _), es, mm) == IF es = <<>> THEN mm ELSE AllOf(Op, Tail(es), Op(Head(es), mm))

\* keep and relay swallow their argument, pair swallows the first and reads the
\* second, grow and fill change the first, fill while it reads the second.
Callee(e, mm) ==
  LET a == e.args
  IN CASE e.x = "look" -> Look(a[1], mm)
       [] e.x \in {"keep", "relay"} -> HandOver(a[1], mm)
       [] e.x = "pair" -> HandOver(a[1], Look(a[2], mm))
       [] OTHER -> LET d == AllOf(Look, a, mm)
                       g == IF a[1].op = "var" THEN Grow(a[1].x, d) ELSE d
                       both == IF Len(a) = 2 THEN Exposed(a[1], mm) \cap Exposed(a[2], mm) ELSE {}
                   IN IF both # {} THEN Overlap(a[1].x, a[2].x, both, "arguments alias", g) ELSE g

\* The owned cell an expression yields is the last one allocated, or `got`.
Eval(e, mm) ==
  CASE e.op = "var"   -> [m |-> Read(e.x, mm), got |-> mm.env[e.x]]
    [] e.op \in {"field", "name"} ->
         LET d == ReadPart(e.x, e.op, mm)
             c == IF d.bad # mm.bad THEN 0 ELSE IF e.op = "field" THEN mm.heap[mm.env[e.x]].f ELSE mm.heap[mm.env[e.x]].name
         IN [m |-> d, got |-> c]
    [] e.op = "call"  -> [m |-> Callee(e, mm), got |-> 0]
    [] e.op = "push"  ->
         LET a == e.args[1]
             d == Grow(e.x, Look(a, Read(e.x, mm)))
             n == IF a.op = "new" THEN Alloc(d) ELSE d
             c == IF a.op = "new" THEN Newest(n) ELSE IF a.op = "var" /\ a.x \notin Strs THEN d.env[a.x] ELSE 0
             g == IF a.op # "var" \/ a.x \in Strs THEN n
                  ELSE IF a.x \in Params THEN Loosen(Parts(n.heap, c), n) ELSE Give(a.x, n)
         IN [m |-> IF c = 0 \/ d.env[e.x] = 0 THEN g ELSE [g EXCEPT !.heap[d.env[e.x]].kids = @ \cup {c}], got |-> 0]
    [] e.op = "ctor"  ->
         LET a == e.args[1]
             d == Alloc(Read(a.x, mm))
         IN [m |-> IF mm.env[a.x] = 0 THEN d ELSE Give(a.x, [d EXCEPT !.heap[Newest(d)].kids = {mm.env[a.x]}]),
             got |-> Newest(d)]
    [] e.op = "send"  -> [m |-> HandOver(e.args[1], mm), got |-> 0]
    [] e.op = "lambda" -> [m |-> HandOver(Var(e.x), mm), got |-> 0]
    [] OTHER -> [m |-> Alloc(mm), got |-> Newest(Alloc(mm))]

(***************************************************************************)
(* A bind: the value is computed, the old one dropped, the new one stored. *)
(* Copies are clones, and a borrow is an alias.                            *)
(***************************************************************************)
Lent(x, mm) == x \in mm.alias \/ (x \in Params /\ ~mm.keeps)
RunBind(s, mm) ==
  LET clone == \/ s.mod = "copy"
               \/ s.e.op = "name" /\ s.own = "owned"
      Store(d, c) == [d EXCEPT !.env[s.x] = c,
                               !.alias = IF s.own = "borrowed" THEN @ \cup {s.x} ELSE @ \ {s.x}]
      Taken(d, got) == IF s.e.op = "field" /\ got # 0 THEN Give(s.x, [d EXCEPT !.env[s.x] = got])
                       ELSE IF s.e.op = "var" /\ s.own = "owned" THEN [d EXCEPT !.env[s.e.x] = 0] ELSE d
      Replace(d, got) == IF clone THEN Store(Alloc(d), Len(d.heap) + 1) ELSE Store(Taken(d, got), got)
      Loose(d, got) ==
        CASE s.e.op = "field" /\ Lent(s.e.x, mm) -> Loosen({mm.env[s.e.x]} \cup Parts(d.heap, got), d)
          [] s.e.op = "name" /\ ~clone -> Loosen({got}, d)
          [] OTHER -> d
      DropOld(d) == IF s.old /\ s.x \notin mm.alias THEN Free(mm.env[s.x], d) ELSE d
      Bound(r) == Replace(DropOld(Loose(r.m, r.got)), r.got)
  IN Bound(Eval(s.e, mm))

\* A variable stored in a field is not marked as moved: two names for one value.
RunAssignF(s, mm) ==
  LET Shared(r) == IF s.e.op = "var" THEN Loosen(Parts(r.m.heap, r.got), r.m) ELSE r.m
      Store(d, got) == IF mm.env[s.x] = 0 THEN Wrong({}, "read of a dead value", d)
                       ELSE [Read(s.x, d) EXCEPT !.heap[mm.env[s.x]].f = got]
      Stored(r) == Store(Shared(r), r.got)
  IN Stored(Eval(s.e, mm))

\* A drop of something a registered deferred body reads waits for that body.
RunDrop(s, mm) ==
  IF s.x \in UNION {collect_hir_var_ids_stmt(t) : t \in Elems(mm.dfr)}
  THEN [mm EXCEPT !.late = Append(@, s)]
  ELSE IF s.x \in Strs \cup mm.alias THEN mm
  ELSE [Free(mm.env[s.x], mm) EXCEPT !.env[s.x] = 0]

----------------------------------------------------------------------------
Program(b) == [g \in DOMAIN Callees \cup {"f"} |->
                 IF g = "f" THEN [params |-> <<"p">>, body |-> b] ELSE Callees[g]]
Lowered(b) ==
  LET prog == Program(b)
      take == infer_consuming_params(prog, Nothing(prog), Vars)
      mut  == infer_mutating_params(prog, Nothing(prog), Vars)
      Demoted(r) == [ok |-> r.ok, keeps |-> take["f"][1], code |-> IF r.ok THEN apply_demotions(r.body) ELSE <<>>]
  IN Demoted(lower_fn(prog["f"], take, mut, "f", Vars))

Idle == [env |-> [x \in Vars |-> 0], heap |-> <<>>, it |-> <<>>, dfr |-> <<>>, late |-> <<>>,
         alias |-> {}, turns |-> 0, bad |-> {}, loose |-> {}, lost |-> FALSE, keeps |-> FALSE]

Init == body \in Bodies /\ phase = "source" /\ k = <<>> /\ m = Idle

\* The compiler accepts the body, or refuses it.
Compile ==
  /\ phase = "source"
  /\ LET Emit(r) ==
           IF r.ok
           THEN /\ phase' = "run"
                /\ k' = r.code
                /\ m' = [Alloc(Idle) EXCEPT !.env["p"] = 1, !.turns = Turns, !.keeps = r.keeps]
           ELSE phase' = "refused" /\ UNCHANGED <<k, m>>
     IN Emit(Lowered(body))
  /\ UNCHANGED body

Mark(kind, s) == [s EXCEPT !.k = kind]
IsMark(s) == s.k \in {"again", "walked"}
\* What is left of k after the innermost loop's marker, itself included or not.
After(rest) == CHOOSE i \in DOMAIN rest : IsMark(rest[i]) /\ \A j \in 1..(i - 1) : ~IsMark(rest[j])
From(rest, i) == SubSeq(rest, i, Len(rest))

\* One statement of straight-line code.
Simple(s, rest) ==
  /\ s.k \in {"bind", "assignf", "do", "drop", "defer"}
  /\ k' = rest
  /\ m' = CASE s.k = "bind" -> RunBind(s, m)
            [] s.k = "assignf" -> RunAssignF(s, m)
            [] s.k = "drop" -> RunDrop(s, m)
            [] s.k = "defer" -> [m EXCEPT !.dfr = s.a \o @]
            [] OTHER -> Eval(s.e, m).m

Branch(s, rest) ==
  \/ s.k = "if" /\ (k' = s.a \o rest \/ k' = s.b \o rest) /\ UNCHANGED m
  \/ /\ s.k = "match"
     /\ \/ /\ m' = LET d == ReadPart(s.x, "field", m)
                   IN [d EXCEPT !.env[s.mod] = IF m.env[s.x] = 0 THEN 0 ELSE m.heap[m.env[s.x]].f]
           /\ k' = s.a \o rest
        \/ m' = Read(s.x, m) /\ k' = s.b \o rest

\* The marker behind a loop's body runs it again or leaves the loop.
Loop(s, rest) ==
  \/ /\ s.k \in {"while", "for"}
     /\ k' = <<Mark(IF s.k = "for" THEN "walked" ELSE "again", s)>> \o rest
     /\ m' = IF s.k = "for" THEN [Read(s.x, m) EXCEPT !.it = Append(@, [x |-> s.x, c |-> m.env[s.x]])] ELSE m
  \/ /\ IsMark(s) /\ m.turns > 0
     /\ k' = s.a \o k
     /\ m' = [m EXCEPT !.turns = @ - 1]
  \/ /\ IsMark(s)
     /\ k' = rest
     /\ m' = IF s.k = "walked" THEN [Read(s.x, m) EXCEPT !.it = SubSeq(@, 1, Len(@) - 1)] ELSE m

Jump(s, rest) ==
  \/ s.k \in {"break", "continue"} /\ k' = From(rest, After(rest)) /\ UNCHANGED m
  \/ /\ s.k = "ret"
     /\ k' = <<>>
     /\ m' = LET Left(d) == IF s.e.op = "var" THEN [Give(s.e.x, Leaves(s.e.x, d)) EXCEPT !.it = <<>>] ELSE [d EXCEPT !.it = <<>>]
             IN Left(Eval(s.e, m).m)

\* The run stops at the first thing that goes wrong.
Going == m.bad = {} /\ ~m.lost
Step == /\ phase = "run" /\ k # <<>> /\ Going
        /\ \/ Simple(Head(k), Tail(k)) \/ Branch(Head(k), Tail(k))
           \/ Loop(Head(k), Tail(k)) \/ Jump(Head(k), Tail(k))
        /\ UNCHANGED <<body, phase>>

\* The end of the body, or a return: the deferred bodies run, then the drops
\* that waited for them.
Unwind == /\ phase = "run" /\ k = <<>> /\ Going
          /\ phase' = "unwind"
          /\ k' = m.dfr \o m.late
          /\ m' = [m EXCEPT !.dfr = <<>>, !.late = <<>>]
          /\ UNCHANGED body

Deferred == /\ phase = "unwind" /\ k # <<>> /\ Going
            /\ Simple(Head(k), Tail(k))
            /\ UNCHANGED <<body, phase>>

\* Back in the caller: a borrowed argument is still the caller's, whole.
Return == /\ phase = "unwind" /\ k = <<>> /\ Going
          /\ phase' = "done"
          /\ m' = IF m.keeps THEN m
                  ELSE IF m.heap[1].f = 0 THEN Wrong({1}, "read of a dead value", m)
                  ELSE Free(1, m)
          /\ UNCHANGED <<body, k>>

Next == Compile \/ Step \/ Unwind \/ Deferred \/ Return

Spec == Init /\ [][Next]_vars
----------------------------------------------------------------------------
(***************************************************************************)
(* Sound: a program the typer accepts never reads, drops or hands over a   *)
(* value it no longer has, never changes a collection a `for` walks and    *)
(* never lets a callee change what another argument shows.  Five gaps of   *)
(* the checker each let particular cells loose, from the statement that    *)
(* falls into the gap, and only what later concerns no other cell is set   *)
(* apart:                                                                  *)
(*  - a parameter that is pushed is not marked as moved: it and its parts  *)
(*    have a second owner (typer/lower/block.rs:1274);                     *)
(*  - a variable assigned to a field is not marked either: what it holds   *)
(*    (block.rs:949-985 asks for a variable as the target);                *)
(*  - a field may be taken out of a borrow: the field and its owner        *)
(*    (typer/stmt/dispatch.rs:516-533 asks for a whole variable);          *)
(*  - a string bind demoted to an alias of x.name is not dropped and does  *)
(*    not keep x from being replaced or given away: that string            *)
(*    (escape/mod.rs:98-108);                                              *)
(*  - a plain bind of a borrow has a place of its own: what is reached     *)
(*    through the borrow and under the other name at once                  *)
(*    (dispatch.rs:516-523).                                               *)
(***************************************************************************)
Sound == m.bad = {}
=============================================================================
