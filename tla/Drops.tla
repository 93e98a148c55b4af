------------------------------- MODULE Drops -------------------------------
(***************************************************************************)
(* drops: who frees what.  The passes that follow the optimizer clone the  *)
(* values that escape from a borrow, add the drops that are missing on     *)
(* some path, move, remove, fuse and pair drops, and check themselves.  A  *)
(* behaviour is run_on_function, pass by pass; its result is then run on   *)
(* a heap.  A function is one of module Mir with                           *)
(*   ty      the type of each value: "vec", "str", "res" (move-only),      *)
(*           "enum", "int" (nothing to free)                               *)
(*   owned   the parameters the function owns                              *)
(*   save, consume   the reuse slot a drop fills, a VecNew empties         *)
(***************************************************************************)
EXTENDS Mir

CONSTANTS Bodies,       \* the functions of this instance
          Answers,      \* what the branches of a run are answered
          MaxBlocks     \* blocks executed in one run (bound)

VARIABLES fn, stage, before, accepted
vars == <<fn, stage, before, accepted>>

\* Consumed arguments of the known functions (ConsumingMap).
Consuming == [take |-> <<TRUE>>, peek |-> <<FALSE>>, make |-> <<>>]
is_trivially_droppable(t) == t = "int"
is_move_only(t) == t = "res"

Values(f) == DOMAIN f.ty
NewValue(f) == Max(Values(f)) + 1
WithValue(f, v, t) == [f EXCEPT !.ty = (v :> t) @@ @]
NewBlock(f, b) == Max(DOMAIN f.blocks) + 1
term_operands(t) == IF t[1] \in {"branch", "switch"} \/ (t[1] = "return" /\ t[2] # 0) THEN {t[2]} ELSE {}
IsDrop(i) == i.op \in {"drop", "dropmany"}
Insts(f) == UNION {{<<b, k>> : k \in DOMAIN f.blocks[b].insts} : b \in DOMAIN f.blocks}
At(f, e) == f.blocks[e[1]].insts[e[2]]
replace_successor(t, old, by) ==
  CASE t[1] = "goto" -> IF t[2] = old THEN Goto(by) ELSE t
    [] t[1] = "branch" -> Branch(t[2], IF t[3] = old THEN by ELSE t[3], IF t[4] = old THEN by ELSE t[4])
    [] t[1] = "switch" -> Switch(t[2], [k \in DOMAIN t[3] |-> IF t[3][k][2] = old THEN <<t[3][k][1], by>> ELSE t[3][k]],
                                 IF t[4] = old THEN by ELSE t[4])
    [] OTHER -> t
\* The block that stands for the edge pred -> succ: pred itself when it only
\* jumps there, a new block otherwise.
EdgeBlock(f, pred, succ) ==
  LET e == Max(DOMAIN f.blocks) + 1
      turn(p) == [p EXCEPT !.in = [k \in DOMAIN @ |-> IF @[k][1] = pred THEN <<e, @[k][2]>> ELSE @[k]]]
      blocks == [f.blocks EXCEPT ![pred].term = replace_successor(@, succ, e),
                                 ![succ].phis = [k \in DOMAIN @ |-> turn(@[k])]]
  IN IF f.blocks[pred].term[1] = "goto" THEN <<f, pred>>
     ELSE <<[f EXCEPT !.blocks = (e :> [EmptyBlock EXCEPT !.term = Goto(succ)]) @@ blocks], e>>
Push(f, b, i) == [f EXCEPT !.blocks[b].insts = Append(@, i)]

-----------------------------------------------------------------------------
(* Which instructions make an owner, which take one. *)

reads_without_taking(op) == op \in {"log", "fieldget", "index", "strcat", "clone", "len", "const"}

\* The operands whose ownership the instruction takes.
strict_transfers(i) ==
  CASE IsDrop(i) -> {}
    [] i.op = "call" /\ i.n = "payload_move" -> {i.a[1]}
    [] i.op = "call" /\ i.n \in DOMAIN Consuming ->
         {i.a[k] : k \in {j \in DOMAIN i.a : j \in DOMAIN Consuming[i.n] /\ Consuming[i.n][j]}}
    [] i.op = "call" -> {}
    [] i.op = "push" -> {i.a[2]}
    [] reads_without_taking(i.op) -> {}
    [] OTHER -> Range(i.a)

Passes(f, i) == i.op \in {"copy", "fieldset"} /\ ~is_trivially_droppable(f.ty[i.d])
RECURSIVE OwningClosure(_, _)
OwningClosure(f, S) ==
  LET phis == {p.d : p \in {q \in Phis(f) : Incoming(q) \cap S # {}}}
      passed == {At(f, e).d : e \in {x \in Insts(f) : Passes(f, At(f, x)) /\ At(f, x).a[1] \in S}}
      more == S \cup phis \cup passed
  IN IF more = S THEN S ELSE OwningClosure(f, more)
owning_allocs(f) ==
  LET makes(i) == \/ i.op = "vecnew"
                  \/ i.op \in {"clone", "variant", "strcat"} /\ ~is_trivially_droppable(f.ty[i.d])
                  \/ /\ i.op = "call" /\ i.n \in DOMAIN Consuming \cup {"payload_move"}
                     /\ i.d # 0 /\ ~is_trivially_droppable(f.ty[i.d])
  IN OwningClosure(f, {p \in f.owned : ~is_trivially_droppable(f.ty[p])}
                      \cup {At(f, e).d : e \in {x \in Insts(f) : makes(At(f, x))}})

\* Values held after a block that is entered holding `entry`.
process_must_held(f, b, own, entry) ==
  LET step(h, i) == (h \ (IF IsDrop(i) THEN Range(i.a) ELSE strict_transfers(i)))
                    \cup (IF i.d \in own THEN {i.d} ELSE {})
  IN FoldLeft(step, entry, f.blocks[b].insts)

\* What is held on entry on every path; the edges move the inputs of the phis.
RECURSIVE MustHeld(_, _, _)
MustHeld(f, own, st) ==
  LET r == reachable_from(f, Entry)
      exit == [b \in r |-> process_must_held(f, b, own, st[b])]
      from(p, b) == {e[2] : e \in UNION {{x \in Range(q.in) : x[1] = p} : q \in Range(f.blocks[b].phis)}}
      dests(p, b) == {q.d : q \in {x \in Range(f.blocks[b].phis) :
                                    \E e \in Range(x.in) : e[1] = p /\ e[2] \in exit[p]}}
      flow(p, b) == (exit[p] \ from(p, b)) \cup dests(p, b)
      preds(b) == Range(predecessors(f)[b]) \cap r
      next == [b \in r |-> IF b = Entry THEN st[b]
                           ELSE {v \in own : \A p \in preds(b) : v \in flow(p, b)}]
  IN IF next = st THEN st ELSE MustHeld(f, own, next)
must_held_entry_states(f, own) ==
  MustHeld(f, own, [b \in reachable_from(f, Entry) |-> IF b = Entry THEN f.owned \cap own ELSE own])

\* Per returning block, the values still held there that it does not return.
must_held_at_returns(f) ==
  LET own == owning_allocs(f)
      st == must_held_entry_states(f, own)
      returns == {b \in DOMAIN st : f.blocks[b].term[1] = "return"}
  IN [b \in returns |-> process_must_held(f, b, own, st[b]) \ {f.blocks[b].term[2]}]

-----------------------------------------------------------------------------
(* The passes. *)

Sorted(S) == SelectSeq([k \in 1..Max(S \cup {1}) |-> k], LAMBDA k : k \in S)
DropOf(f, v) == Inst(0, "drop", f.ty[v], <<v>>)
PushDrops(f, b, S) == FoldLeft(LAMBDA g, v : Push(g, b, DropOf(g, v)), f, Sorted(S))

\* A payload read out of an enum that then escapes becomes a value of its own:
\* a clone, or, for a move-only type, the payload itself.
RECURSIVE PhiSources(_, _)
PhiSources(f, S) ==
  LET more == S \cup UNION {Incoming(p) : p \in {q \in Phis(f) : q.d \in S}}
  IN IF more = S THEN S ELSE PhiSources(f, more)
own_escaping_enum_payloads(f) ==
  LET taken(i) == IF IsDrop(i) THEN Range(i.a) ELSE IF i.op = "store" THEN Range(i.a) ELSE strict_transfers(i)
      returned == {f.blocks[b].term[2] : b \in {c \in DOMAIN f.blocks : f.blocks[c].term[1] = "return"}}
      escapes == PhiSources(f, returned \cup UNION {taken(At(f, e)) : e \in Insts(f)})
      step(r, i) ==
        LET w == NewValue(r.f)
            own == IF is_move_only(f.ty[i.d]) THEN Inst(i.d, "call", "payload_move", <<i.a[1], w>>)
                   ELSE Inst(i.d, "clone", "", <<w>>)
        IN IF i.op = "fieldget" /\ ~is_trivially_droppable(f.ty[i.d]) /\ i.d \in escapes
           THEN [f |-> WithValue(r.f, w, f.ty[i.d]), out |-> r.out \o <<[i EXCEPT !.d = w], own>>]
           ELSE [r EXCEPT !.out = Append(@, i)]
      block(g, b) == LET r == FoldLeft(step, [f |-> g, out |-> <<>>], g.blocks[b].insts)
                     IN [r.f EXCEPT !.blocks[b].insts = r.out]
  IN FoldLeft(block, f, Ids(f))

\* Mutant: the borrowed inputs are left as they are.
PhiTakesBorrow(f) == f
\* A phi that owns gets a clone on each edge whose value is only borrowed.
own_mixed_phi_inputs(f) ==
  LET own == owning_allocs(f)
      inputs(b) == FlattenSeq([k \in DOMAIN f.blocks[b].phis |->
                     LET p == f.blocks[b].phis[k]
                         in == SelectSeq(p.in, LAMBDA e : p.d \in own /\ ~is_move_only(f.ty[p.d]) /\ e[2] \notin own)
                     IN [j \in DOMAIN in |-> [b |-> b, d |-> p.d, pred |-> in[j][1], v |-> in[j][2]]]])
      step(r, x) ==
        LET known == <<x.pred, x.b>> \in DOMAIN r.edges
            e == IF known THEN <<r.f, r.edges[<<x.pred, x.b>>]>> ELSE EdgeBlock(r.f, x.pred, x.b)
            w == NewValue(e[1])
            g == Push(WithValue(e[1], w, f.ty[x.d]), e[2], Inst(w, "clone", "", <<x.v>>))
            fix(p) == IF p.d # x.d THEN p
                      ELSE [p EXCEPT !.in = [k \in DOMAIN @ |-> IF @[k][1] = e[2] THEN <<e[2], w>> ELSE @[k]]]
        IN [f |-> [g EXCEPT !.blocks[x.b].phis = [k \in DOMAIN @ |-> fix(@[k])]],
            edges |-> (<<x.pred, x.b>> :> e[2]) @@ r.edges]
      all == FlattenSeq([k \in DOMAIN Ids(f) |-> inputs(Ids(f)[k])])
  IN FoldLeft(step, [f |-> f, edges |-> <<>>], all).f

\* Liveness of values at block entry.
BlockDefs(f, b) == {p.d : p \in Range(f.blocks[b].phis)} \cup {f.blocks[b].insts[k].d : k \in DOMAIN f.blocks[b].insts}
BlockUses(f, b) ==
  LET phis == {p.d : p \in Range(f.blocks[b].phis)}
      upto(k) == phis \cup {f.blocks[b].insts[j].d : j \in 1..(k - 1)}
  IN UNION {Range(f.blocks[b].insts[k].a) \ upto(k) : k \in DOMAIN f.blocks[b].insts}
     \cup (term_operands(f.blocks[b].term) \ BlockDefs(f, b))
EdgeInputs(f, p, s) == {e[2] : e \in UNION {{x \in Range(q.in) : x[1] = p} : q \in Range(f.blocks[s].phis)}}
RECURSIVE LiveIn(_, _)
LiveIn(f, li) ==
  LET out(b) == UNION {li[s] \cup EdgeInputs(f, b, s) : s \in Range(Successors(f.blocks[b].term))}
      next == [b \in DOMAIN li |-> BlockUses(f, b) \cup (out(b) \ BlockDefs(f, b))]
  IN IF next = li THEN li ELSE LiveIn(f, next)

\* A value held at the end of a block that neither the successor's entry state
\* nor any later use keeps is dropped on that edge.  One block at a time, until
\* there is none.
RECURSIVE insert_edge_escape_drops(_)
insert_edge_escape_drops(f) ==
  LET own == owning_allocs(f)
      live == LiveIn(f, [b \in DOMAIN f.blocks |-> BlockUses(f, b)])
      st == must_held_entry_states(f, own)
      dead(b, s) == process_must_held(f, b, own, st[b]) \ (live[s] \cup st[s] \cup EdgeInputs(f, b, s))
      succs(b) == Range(Successors(f.blocks[b].term))
      cands == {b \in DOMAIN st : \E s \in succs(b) : dead(b, s) # {}}
      b0 == Min(cands)
      step(g, s) == LET e == EdgeBlock(g, b0, s) IN PushDrops(e[1], e[2], dead(b0, s))
  IN IF own = {} \/ cands = {} THEN f
     ELSE insert_edge_escape_drops(FoldLeft(step, f, Sorted({s \in succs(b0) : dead(b0, s) # {}})))

insert_missing_return_drops(f) ==
  LET missing == must_held_at_returns(f)
  IN FoldLeft(LAMBDA g, b : PushDrops(g, b, missing[b]), f, Sorted(DOMAIN missing))

\* Position of the last use of each value: block, then instruction; the
\* terminator comes after the instructions.
count_uses(f) ==
  LET used(b) == {<<b, k>> : k \in {j \in DOMAIN f.blocks[b].insts : ~IsDrop(f.blocks[b].insts[j])}}
      at(v) == {e \in UNION {used(b) : b \in DOMAIN f.blocks} : v \in Range(At(f, e).a)}
               \cup {<<b, Len(f.blocks[b].insts) + 1>> : b \in {c \in DOMAIN f.blocks : v \in term_operands(f.blocks[c].term)}}
      later(x, y) == x[1] > y[1] \/ (x[1] = y[1] /\ x[2] >= y[2])
  IN [v \in {w \in Values(f) : at(w) # {}} |-> CHOOSE x \in at(v) : \A y \in at(v) : later(x, y)]

\* A drop that comes before the last use in its own block is moved behind it.
drop_sinking(f) ==
  LET last == count_uses(f)
      late(b, k) == LET i == f.blocks[b].insts[k]
                    IN i.op = "drop" /\ i.a[1] \in DOMAIN last /\ last[i.a[1]][1] = b /\ last[i.a[1]][2] > k
      sink(b) ==
        LET is == f.blocks[b].insts
            due(k) == SelectSeq([j \in 1..(k - 1) |-> j], LAMBDA j : late(b, j) /\ last[is[j].a[1]][2] = k)
            put(k) == (IF k <= Len(is) /\ ~late(b, k) THEN <<is[k]>> ELSE <<>>) \o [x \in DOMAIN due(k) |-> is[due(k)[x]]]
        IN FlattenSeq([k \in 1..(Len(is) + 1) |-> put(k)])
  IN [f EXCEPT !.blocks = [b \in DOMAIN @ |-> [@[b] EXCEPT !.insts = sink(b)]]]

drop_elision(f) ==
  MapBlocks(f, LAMBDA b : [b EXCEPT !.insts = SelectSeq(@, LAMBDA i : ~(i.op = "drop" /\ is_trivially_droppable(i.n)))])

block_is_loop_body(f, b) == b \in Reach(f, Range(Successors(f.blocks[b].term)))
\* The cycles of the function, each as the set of its blocks.
collect_loop_bodies(f) ==
  {{c \in reachable_from(f, b) : b \in reachable_from(f, c)} : b \in {x \in DOMAIN f.blocks : block_is_loop_body(f, x)}}

Kills(i) == i.op = "call"
Frees(f, i) == i.op = "drop" /\ i.n = "vec" /\ i.a[1] \notin DOMAIN f.save
Allocs(f, i) == i.op = "vecnew" /\ i.a = <<>> /\ i.d \notin DOMAIN f.consume
Pair(f, v, d) ==
  LET slot == Cardinality(DOMAIN f.consume) + 1
  IN [f EXCEPT !.save = (v :> slot) @@ @, !.consume = (d :> slot) @@ @]

\* A dropped vector's buffer is kept for a later allocation of the same block,
\* or of the next iteration, if no call can come between.
PairBlock(f, b) ==
  LET is == f.blocks[b].insts
      at(g, P(_, _)) == {k \in DOMAIN is : P(g, is[k])}
      calls == {k \in DOMAIN is : Kills(is[k])}
      forward(g, k) == {a \in at(g, Allocs) : a > k /\ ~\E c \in calls : k < c /\ c < a}
      around(g, k) == {a \in at(g, Allocs) : a < k /\ ~\E c \in calls : k < c \/ c < a}
      all == [k \in DOMAIN is |-> k]
      one == FoldLeft(LAMBDA g, k : IF k \notin at(g, Frees) \/ forward(g, k) = {} THEN g
                                    ELSE Pair(g, is[k].a[1], is[Min(forward(g, k))].d), f, all)
  IN IF ~block_is_loop_body(f, b) THEN one
     ELSE FoldLeft(LAMBDA g, k : IF k \notin at(g, Frees) \/ around(g, k) = {} THEN g
                                 ELSE Pair(g, is[k].a[1], is[Min(around(g, k))].d), one, all)

\* Within a cycle that makes no call, any drop is paired with any allocation.
PairLoop(f, body) ==
  LET sites == FlattenSeq([k \in 1..Max(body) |->
                 IF k \in body THEN [j \in DOMAIN f.blocks[k].insts |-> f.blocks[k].insts[j]] ELSE <<>>])
      step(g, i) == LET free == SelectSeq(sites, LAMBDA a : Allocs(g, a))
                    IN IF ~Frees(f, i) \/ free = <<>> THEN g ELSE Pair(g, i.a[1], free[1].d)
  IN IF \E k \in DOMAIN sites : Kills(sites[k]) THEN f ELSE FoldLeft(step, f, sites)
vec_reuse_pairing(f) ==
  LET byBlock == FoldLeft(PairBlock, f, Ids(f))
      loops == collect_loop_bodies(f)
      heads == Sorted({Min(l) : l \in loops})
  IN FoldLeft(LAMBDA g, h : PairLoop(g, CHOOSE l \in loops : Min(l) = h), byBlock, heads)

\* Runs of drops become one, those that fill a slot stay as they are.
drop_fusion(f) ==
  LET fusible(i) == i.op = "drop" /\ i.a[1] \notin DOMAIN f.save
      join(x, y) == Inst(0, "dropmany", "", x.a \o y.a)
      step(out, i) == IF out # <<>> /\ fusible(i) /\ (Last(out).op = "dropmany" \/ fusible(Last(out)))
                      THEN Append(Front(out), join(Last(out), i)) ELSE Append(out, i)
  IN MapBlocks(f, LAMBDA b : [b EXCEPT !.insts = FoldLeft(step, <<>>, @)])

-----------------------------------------------------------------------------
(* The checks the compiler makes of its own result. *)

\* Values dropped on some path to the end of a block.
process(f, b, entry) ==
  FoldLeft(LAMBDA s, i : (IF IsDrop(i) THEN s \cup Range(i.a) ELSE s) \ {i.d},
           entry \ {p.d : p \in Range(f.blocks[b].phis)}, f.blocks[b].insts)
RECURSIVE Dropped(_, _)
Dropped(f, st) ==
  LET next == [b \in DOMAIN st |-> UNION {process(f, p, st[p]) : p \in Range(predecessors(f)[b])}]
  IN IF next = st THEN st ELSE Dropped(f, next)

verify_drops(f) ==
  LET st == Dropped(f, [b \in DOMAIN f.blocks |-> {}])
      upto(b, k) == process([f EXCEPT !.blocks[b].insts = SubSeq(@, 1, k - 1)], b, st[b])
      plain(v) == {e \in Insts(f) : At(f, e).op = "drop" /\ At(f, e).a[1] = v}
      fused(v) == {e \in Insts(f) : At(f, e).op = "dropmany" /\ v \in Range(At(f, e).a)}
  IN /\ \A e \in Insts(f) : /\ Range(At(f, e).a) \cap upto(e[1], e[2]) = {}
                            /\ IsDrop(At(f, e)) => IsInjective(At(f, e).a)
     /\ \A b \in DOMAIN f.blocks :
          /\ term_operands(f.blocks[b].term) \cap process(f, b, st[b]) = {}
          /\ \A p \in Range(f.blocks[b].phis) : \A e \in Range(p.in) : e[2] \notin process(f, e[1], st[e[1]])
     /\ \A v \in DOMAIN f.save : plain(v) # {} /\ fused(v) = {}
     /\ \A d \in DOMAIN f.consume : \E e \in Insts(f) : At(f, e).op = "vecnew" /\ At(f, e).d = d
verify_function_leaks(f) == \A b \in DOMAIN must_held_at_returns(f) : must_held_at_returns(f)[b] = {}

\* The drops of each block, as a bag.
snapshot(f) ==
  [b \in DOMAIN f.blocks |->
     LET drops == FlattenSeq([k \in DOMAIN f.blocks[b].insts |->
                    IF IsDrop(f.blocks[b].insts[k]) THEN f.blocks[b].insts[k].a ELSE <<>>])
     IN [v \in Range(drops) |-> Cardinality({k \in DOMAIN drops : drops[k] = v})]]
check_preserved(old, f, trivial) ==
  LET after == snapshot(f)
  IN /\ DOMAIN old = DOMAIN after
     /\ \A b \in DOMAIN old :
          /\ \A v \in DOMAIN after[b] : v \in DOMAIN old[b] /\ old[b][v] = after[b][v]
          /\ \A v \in DOMAIN old[b] : v \in DOMAIN after[b] \/ (trivial /\ is_trivially_droppable(f.ty[v]))

-----------------------------------------------------------------------------
(* The run of a function.  A cell is what one allocation returned; `live`   *)
(* holds those not yet freed, kids what a cell owns, slots the buffers kept *)
(* for reuse, and made the slots that exist when a block is emitted.        *)

NoCell == 0
RECURSIVE Owned(_, _)
Owned(kids, S) ==
  LET more == S \cup UNION {kids[c] : c \in S \cap DOMAIN kids}
  IN IF more = S THEN S ELSE Owned(kids, more)

NewCell(m, d, owns) ==
  [m EXCEPT !.next = @ + 1, !.env = (d :> m.next) @@ @, !.live = @ \cup {m.next},
            !.kids = (m.next :> owns) @@ @]
Cell(m, v) == IF v # 0 /\ v \in DOMAIN m.env THEN m.env[v] ELSE NoCell
Uses(m, vs) == IF \E v \in vs : Cell(m, v) # NoCell /\ Cell(m, v) \notin m.live
               THEN [m EXCEPT !.err = "used after free"] ELSE m
\* Ownership leaves the function: to a callee, or back to the allocator.
FreeAll(m, all) ==
  IF ~(all \subseteq m.live) THEN [m EXCEPT !.err = "freed twice"]
  ELSE IF all \cap m.lent # {} THEN [m EXCEPT !.err = "freed a borrow"]
  ELSE [m EXCEPT !.live = @ \ all]
Release(m, v) == IF Cell(m, v) = NoCell THEN m ELSE FreeAll(m, Owned(m.kids, {Cell(m, v)}))
Give(m, v, to) ==
  LET c == Cell(m, v)
  IN IF c \in m.lent THEN [m EXCEPT !.err = "gave away a borrow"]
     ELSE [m EXCEPT !.kids[Cell(m, to)] = @ \cup {c}]
Payload(m, v) == CHOOSE c \in m.kids[Cell(m, v)] : TRUE
SaveSlot(f, m, v) == IF v \in DOMAIN f.save THEN [m EXCEPT !.slots = @ \cup {f.save[v]}] ELSE m
try_consume_vec_slot(f, m, d) ==
  IF d \in DOMAIN f.consume THEN [m EXCEPT !.slots = @ \ {f.consume[d]}] ELSE m

\* One instruction.  In the source's reading (src) a payload that is bound is
\* a value of its own, and a drop comes after the uses of its block.
Effect(f, src, m, fresh, i) ==
     IF m.err # "" THEN m
     ELSE CASE IsDrop(i) -> FoldLeft(LAMBDA x, v : SaveSlot(f, Release(x, v), v), m, i.a)
            [] i.op = "vecnew" -> try_consume_vec_slot(f, fresh, i.d)
            [] i.op \in {"clone", "strcat"} -> fresh
            [] i.op = "variant" -> Give(fresh, i.a[1], i.d)
            [] i.op = "push" -> Give(m, i.a[2], i.a[1])
            [] i.op = "copy" -> [m EXCEPT !.env = (i.d :> Cell(m, i.a[1])) @@ @]
            [] i.op = "fieldget" ->
                 IF src /\ ~is_move_only(f.ty[i.d]) THEN fresh
                 ELSE [m EXCEPT !.env = (i.d :> Payload(m, i.a[1])) @@ @]
            [] i.op = "call" /\ i.n = "payload_move" ->
                 [m EXCEPT !.env = (i.d :> Cell(m, i.a[2])) @@ @, !.live = @ \ {Cell(m, i.a[1])}]
            [] i.op = "call" /\ i.n = "take" -> Release(m, i.a[1])
            [] i.op = "call" /\ i.n = "make" -> fresh
            [] OTHER -> m
Exec(f, src, m0, i) ==
  Then(Uses(m0, IF IsDrop(i) THEN {} ELSE Range(i.a)),
       LAMBDA m : Effect(f, src, m, NewCell(m, i.d, {}), i))

\* The slots known when a block is emitted: of its own and of earlier blocks.
RECURSIVE PostOrder(_, _, _, _)
PostOrder(f, stack, seen, post) ==
  IF stack = <<>> THEN post
  ELSE LET top == Last(stack) rest == Front(stack) IN
       IF top[2] THEN PostOrder(f, rest, seen, Append(post, top[1]))
       ELSE IF top[1] \in seen THEN PostOrder(f, rest, seen, post)
       ELSE LET s == Successors(f.blocks[top[1]].term)
            IN PostOrder(f, rest \o <<<<top[1], TRUE>>>> \o [k \in DOMAIN s |-> <<s[k], FALSE>>],
                         seen \cup {top[1]}, post)
dominance_compatible_order(f) == Reverse(PostOrder(f, <<<<Entry, FALSE>>>>, {}, <<>>))
get_or_create_reuse_alloca(f, b) ==
  LET upto(order) == {order[k] : k \in {j \in DOMAIN order : \E l \in j..Len(order) : order[l] = b}}
      here(c) == {f.save[v] : v \in {w \in DOMAIN f.save : \E k \in DOMAIN f.blocks[c].insts :
                                       f.blocks[c].insts[k].op = "drop" /\ f.blocks[c].insts[k].a[1] = w}}
                 \cup {f.consume[d] : d \in DOMAIN f.consume \cap BlockDefs(f, c)}
  IN UNION {here(c) : c \in upto(dominance_compatible_order(f))}
drain_reuse_slots(f, m, b) == [m EXCEPT !.slots = @ \ get_or_create_reuse_alloca(f, b)]

\* The phis of an edge, read together.
Phi(f, src, m, from, b) ==
  LET ps == f.blocks[b].phis
      val(p) == (CHOOSE e \in Range(p.in) : e[1] = from)[2]
      mixed(p) == src /\ p.d \in owning_allocs(f) /\ val(p) \notin owning_allocs(f)
      step(x, p) == IF ~mixed(p) THEN [x EXCEPT !.env = (p.d :> Cell(m, val(p))) @@ @]
                    ELSE IF is_move_only(f.ty[p.d]) THEN [x EXCEPT !.err = "bound a borrow"]
                    ELSE NewCell(x, p.d, {})
  IN FoldLeft(step, m, ps)

\* A block: its instructions, and the value its return gives to the caller.
HeapBlock(f, src, m0, is) ==
  FoldLeft(LAMBDA x, i : IF x.err # "" THEN x ELSE Exec(f, src, x, i), m0,
           IF src THEN SelectSeq(is, LAMBDA i : ~IsDrop(i)) \o SelectSeq(is, IsDrop) ELSE is)
Returned(m, c) ==
  [m EXCEPT !.err = IF c \in m.lent THEN "returned a borrow" ELSE @,
            !.done = TRUE, !.live = @ \ Owned(m.kids, {c})]
RECURSIVE HeapRun(_, _, _, _, _, _)
HeapRun(f, src, m0, b, tape, n) ==
  LET t == f.blocks[b].term
      to == IF t[1] = "goto" THEN t[2] ELSE IF tape[1] THEN t[3] ELSE t[4]
      rest == IF t[1] = "goto" THEN tape ELSE Tail(tape)
  IN Then(HeapBlock(f, src, m0, f.blocks[b].insts), LAMBDA m :
       IF m.err # "" \/ n = 0 \/ (t[1] = "branch" /\ tape = <<>>) THEN m
       ELSE IF t[1] = "return" THEN Returned(Uses(drain_reuse_slots(f, m, b), {t[2]}), Cell(m, t[2]))
       ELSE HeapRun(f, src, Phi(f, src, m, b, to), to, rest, n - 1))

HeapStart(f) ==
  LET arg(m, p) == LET x == NewCell(m, p, {})
                       y == IF f.ty[p] # "enum" THEN x ELSE
                            LET z == NewCell(x, 0, {}) IN [z EXCEPT !.kids[x.env[p]] = {x.next}]
                   IN IF p \in f.owned THEN y ELSE [y EXCEPT !.lent = @ \cup Owned(y.kids, {y.env[p]})]
  IN FoldLeft(arg, [env |-> <<>>, live |-> {}, kids |-> <<>>, lent |-> {}, slots |-> {}, next |-> 1,
                    err |-> "", done |-> FALSE], f.params)
Run(f, src, tape) == HeapRun(f, src, HeapStart(f), Entry, tape, MaxBlocks)

\* What the front end promises of a body: no value is used, or given away,
\* after it was given away.  Values may be dropped on some paths only.
WellOwned(f) == \A t \in Answers : Run(f, TRUE, t).err = ""

-----------------------------------------------------------------------------
(* run_on_function *)

Init == /\ fn \in {f \in Bodies : WellOwned(f)}
        /\ stage = "phis" /\ before = <<>> /\ accepted = TRUE

Pass(at, to, F(_)) == /\ stage = at /\ fn' = F(fn) /\ stage' = to
                      /\ UNCHANGED <<before, accepted>>
Checked(at, to, out, trivial) ==
  /\ stage = at /\ fn' = out /\ stage' = to
  /\ accepted' = (accepted /\ check_preserved(before, fn', trivial))
  /\ before' = IF trivial THEN snapshot(fn') ELSE before

SimplifyPhis == /\ stage = "phis"
                /\ fn' = simplify_phis(fn)
                /\ stage' = IF fn' = fn THEN "payloads" ELSE "phis"
                /\ UNCHANGED <<before, accepted>>
OwnPayloads == Pass("payloads", "mixed", own_escaping_enum_payloads)
OwnMixedPhis == Pass("mixed", "edges", own_mixed_phi_inputs)
EdgeDrops == Pass("edges", "returns", insert_edge_escape_drops)
ReturnDrops == /\ stage = "returns"
               /\ fn' = insert_missing_return_drops(fn)
               /\ before' = snapshot(fn') /\ stage' = "sink"
               /\ UNCHANGED accepted
Sink == Checked("sink", "elide", drop_sinking(fn), FALSE)
Elide == Checked("elide", "pair", drop_elision(fn), TRUE)
PairReuse == Checked("pair", "fuse", vec_reuse_pairing(fn), FALSE)
Fuse == Checked("fuse", "verify", drop_fusion(fn), FALSE)
Verify == /\ stage = "verify" /\ stage' = "done"
          /\ accepted' = (accepted /\ verify_drops(fn) /\ verify_function_leaks(fn))
          /\ UNCHANGED <<fn, before>>

Next == \/ SimplifyPhis \/ OwnPayloads \/ OwnMixedPhis \/ EdgeDrops \/ ReturnDrops
        \/ Sink \/ Elide \/ PairReuse \/ Fuse \/ Verify
Spec == Init /\ [][Next]_vars

-----------------------------------------------------------------------------
\* The compiler accepts its own result (no program whose ownership is right is
\* refused for a drop the passes lost, added or left behind another), and no
\* run of it uses or frees a value after it was freed or given away, or frees
\* what its caller lent it; a run that returns has freed, given away or
\* returned everything it allocated or owned, and every buffer kept for reuse.
DropsRight ==
  /\ accepted
  /\ stage = "done" => \A t \in Answers :
       Then(Run(fn, FALSE, t), LAMBDA m :
         /\ m.err = ""
         /\ m.done => m.live \subseteq Owned(m.kids, m.lent) /\ m.slots = {})
=============================================================================
