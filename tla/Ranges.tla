------------------------------- MODULE Ranges -------------------------------
(* Integer arithmetic as the compiler emits it.  A number is a bit pattern   *)
(* of its type's width; a type is [bits, signed].  An operation answers      *)
(* [ok, v]: ok is FALSE when the emitted code traps, and v is Poison when    *)
(* the emitted instruction has no defined result.                            *)
EXTENDS Integers, Sequences, FiniteSets, SequencesExt

CONSTANTS Word,        \* bits of the machine word type (64)
          Mantissa     \* bits of a float's significand (53)

Poison == -1
Trap   == [ok |-> FALSE, v |-> 0]
Ok(v)  == [ok |-> TRUE, v |-> v]

MinOf(ty) == IF ty.signed THEN -(2 ^ (ty.bits - 1)) ELSE 0
MaxOf(ty) == IF ty.signed THEN (2 ^ (ty.bits - 1)) - 1 ELSE (2 ^ ty.bits) - 1
Fits(n, ty) == MinOf(ty) <= n /\ n <= MaxOf(ty)

\* the number a pattern stands for, and the pattern of a number
Read(x, ty) == IF ty.signed /\ x >= 2 ^ (ty.bits - 1) THEN x - (2 ^ ty.bits) ELSE x
Pattern(n, bits) == n % (2 ^ bits)

Abs(n) == IF n < 0 THEN -n ELSE n
\* C division and remainder: towards zero, the remainder has the sign of l
Quot(l, r) == IF (l < 0) = (r < 0) THEN Abs(l) \div Abs(r) ELSE -(Abs(l) \div Abs(r))
Rem(l, r)  == l - r * Quot(l, r)

BitsOf(x, w) == [i \in 0..(w - 1) |-> (x \div (2 ^ i)) % 2]
OfBits(f, w) == FoldLeft(LAMBDA acc, i : acc + f[i - 1] * (2 ^ (i - 1)), 0, [i \in 1..w |-> i])
Bitwise2(F(_, _), l, r, w) ==
  LET a == BitsOf(l, w)
      b == BitsOf(r, w)
  IN  OfBits([i \in 0..(w - 1) |-> F(a[i], b[i])], w)
BitAnd2(a, b) == a * b
BitOr2(a, b)  == (a + b) - a * b
BitXor2(a, b) == (a + b) % 2
-----------------------------------------------------------------------------
\* llvm.{s,u}{add,sub,mul}.with.overflow
Exact(op, l, r) ==
  CASE op = "add" -> l + r
    [] op = "sub" -> l - r
    [] op = "mul" -> l * r
overflow_pair(op, l, r, ty) ==
  LET m == Exact(op, Read(l, ty), Read(r, ty))
  IN  [val |-> Pattern(m, ty.bits), ovf |-> ~Fits(m, ty)]

checked_arith(op, l, r, ty) ==
  LET p == overflow_pair(op, l, r, ty) IN IF p.ovf THEN Trap ELSE Ok(p.val)

\* nsw/nuw arithmetic: no test, and no defined result on overflow
proven_arith(op, l, r, ty) ==
  LET p == overflow_pair(op, l, r, ty) IN Ok(IF p.ovf THEN Poison ELSE p.val)

checked_divmod(l, r, ty, is_div) ==
  LET a == Read(l, ty)
      b == Read(r, ty)
  IN  IF r = 0 \/ (ty.signed /\ b = -1 /\ a = MinOf(ty)) THEN Trap
      ELSE Ok(Pattern(IF is_div THEN Quot(a, b) ELSE Rem(a, b), ty.bits))

\* Square and multiply; the factor is squared only while exponent bits remain.
RECURSIVE PowLoop(_, _, _, _)
PowLoop(a, f, e, ty) ==
  LET prod == IF e % 2 = 1 THEN checked_arith("mul", a, f, ty) ELSE Ok(a)
      rest == e \div 2
      sq   == checked_arith("mul", f, f, ty)
  IN  CASE e = 0 -> Ok(a)
        [] e # 0 /\ ~prod.ok -> Trap
        [] e # 0 /\ prod.ok /\ rest = 0 -> prod
        [] OTHER -> IF sq.ok THEN PowLoop(prod.v, sq.v, rest, ty) ELSE Trap
\* mutant: the factor is squared on every round
RECURSIVE PowSquare(_, _, _, _)
PowSquare(a, f, e, ty) ==
  LET prod == IF e % 2 = 1 THEN checked_arith("mul", a, f, ty) ELSE Ok(a)
      sq   == checked_arith("mul", f, f, ty)
  IN  IF e = 0 THEN Ok(a) ELSE IF prod.ok /\ sq.ok THEN PowSquare(prod.v, sq.v, e \div 2, ty) ELSE Trap
PowEager(base, exponent, ty) ==
  IF ty.signed /\ Read(exponent, ty) < 0 THEN Trap ELSE PowSquare(1, base, exponent, ty)

checked_pow(base, exponent, ty) ==
  IF ty.signed /\ Read(exponent, ty) < 0 THEN Trap ELSE PowLoop(1, base, exponent, ty)

\* the count as an unsigned number below the width
checked_shift_count(count, ty) == count < ty.bits

\* the narrower operand takes the other's width, by the result's signedness
Widen(x, from, ty) ==
  IF from.bits >= ty.bits THEN x
  ELSE Pattern(Read(x, [bits |-> from.bits, signed |-> ty.signed]), ty.bits)

emit_binop(op, l0, lty, r0, rty, ty, safe) ==
  LET l == Widen(l0, lty, ty)
      r == Widen(r0, rty, ty)
      shr(signed) == Pattern(Read(l, [ty EXCEPT !.signed = signed]) \div (2 ^ r), ty.bits)
  IN  CASE op \in {"add", "sub", "mul"} /\ safe  -> proven_arith(op, l, r, ty)
        [] op \in {"add", "sub", "mul"} /\ ~safe -> checked_arith(op, l, r, ty)
        [] op = "div" -> checked_divmod(l, r, ty, TRUE)
        [] op = "mod" -> checked_divmod(l, r, ty, FALSE)
        [] op = "and" -> Ok(Bitwise2(BitAnd2, l, r, ty.bits))
        [] op = "or"  -> Ok(Bitwise2(BitOr2, l, r, ty.bits))
        [] op = "xor" -> Ok(Bitwise2(BitXor2, l, r, ty.bits))
        [] op \in {"shl", "shr", "ushr"} /\ ~checked_shift_count(r, ty) -> Trap
        [] op = "shl"  /\ checked_shift_count(r, ty) -> Ok(Pattern(l * (2 ^ r), ty.bits))
        [] op = "shr"  /\ checked_shift_count(r, ty) -> Ok(shr(ty.signed))
        [] op = "ushr" /\ checked_shift_count(r, ty) -> Ok(shr(FALSE))
        [] op = "exp" -> checked_pow(l, r, ty)

emit_unary(op, x, ty, safe) ==
  CASE op = "neg" /\ ty.signed /\ ~safe -> checked_arith("sub", 0, x, ty)
    [] op = "neg" /\ ~(ty.signed /\ ~safe) -> Ok(Pattern(-x, ty.bits))
    [] op = "bitnot" -> Ok(((2 ^ ty.bits) - 1) - x)

\* the predicate follows the operand type's signedness
emit_cmp(op, l, r, ty) ==
  LET a == Read(l, ty)
      b == Read(r, ty)
  IN  CASE op = "eq" -> l = r  [] op = "ne" -> l # r
        [] op = "lt" -> a < b  [] op = "gt" -> a > b
        [] op = "le" -> a <= b [] op = "ge" -> a >= b
-----------------------------------------------------------------------------
\* Floats: a number of halves (so that a fraction exists) or NaN, infinities.
Num(h) == [k |-> "num", h |-> h]
NaN    == [k |-> "nan", h |-> 0]
Inf(s) == [k |-> "inf", h |-> s]

\* an integer rounded to the significand, to the nearest and ties to even
RECURSIVE BitLen(_)
BitLen(n) == IF n = 0 THEN 0 ELSE 1 + BitLen(n \div 2)
ToFloat(n) ==
  LET a    == Abs(n)
      k    == IF BitLen(a) > Mantissa THEN BitLen(a) - Mantissa ELSE 0
      q    == a \div (2 ^ k)
      rem2 == 2 * (a % (2 ^ k))
      up   == rem2 > 2 ^ k \/ (rem2 = 2 ^ k /\ k > 0 /\ q % 2 = 1)
      m    == (IF up THEN q + 1 ELSE q) * (2 ^ k)
  IN  Num(2 * (IF n < 0 THEN -m ELSE m))

\* llvm.fpto{s,u}i.sat: truncation clamped to the type, NaN is 0
emit_float_to_int_saturating(f, ty) ==
  LET t == Quot(f.h, 2)
      n == CASE f.k = "nan" -> 0
             [] f.k = "inf" -> IF f.h < 0 THEN MinOf(ty) ELSE MaxOf(ty)
             [] f.k = "num" -> IF t < MinOf(ty) THEN MinOf(ty)
                               ELSE IF t > MaxOf(ty) THEN MaxOf(ty) ELSE t
  IN  Pattern(n, ty.bits)

\* between integers: extension by the source's signedness, or truncation
emit_cast(x, src, dst) ==
  IF dst.bits > src.bits THEN Pattern(Read(x, src), dst.bits) ELSE Pattern(x, dst.bits)

\* the 128-bit view of the source and of the result must be the same number
emit_strict_cast(x, src, dst) ==
  LET c == emit_cast(x, src, dst)
  IN  IF Read(x, src) = Read(c, dst) THEN Ok(c) ELSE Trap

StrictToFloat(x, src) ==
  LET f == ToFloat(Read(x, src))
  IN  IF Quot(f.h, 2) = Read(x, src) THEN Ok(f) ELSE Trap

\* converted back it must be the same finite float, inside [low, high + 1)
StrictToInt(f, dst) ==
  LET c == emit_float_to_int_saturating(f, dst)
      restored == ToFloat(Read(c, dst))
      equal    == f.k = "num" /\ restored = f
      in_range == f.k = "num" /\ f.h >= ToFloat(MinOf(dst)).h /\ f.h < ToFloat(MaxOf(dst) + 1).h
  IN  IF equal /\ in_range THEN Ok(c) ELSE Trap
-----------------------------------------------------------------------------
\* the wrapping, checked and saturating built-ins
wrapping_arith(op, l, r, ty) == overflow_pair(op, l, r, ty).val

saturating_arith(op, l, r, ty) ==
  LET p == overflow_pair(op, l, r, ty)
      negative == IF op = "mul" THEN (Read(l, ty) < 0) # (Read(r, ty) < 0) ELSE Read(l, ty) < 0
      bound == CASE ty.signed -> IF negative THEN MinOf(ty) ELSE MaxOf(ty)
                 [] ~ty.signed -> IF op = "sub" THEN 0 ELSE MaxOf(ty)
  IN  IF p.ovf THEN Pattern(bound, ty.bits) ELSE p.val
-----------------------------------------------------------------------------
(* Folding of constants before code is generated.  A literal is a signed     *)
(* word; "none" leaves the operation to the emitted code.                    *)
WordTy  == [bits |-> Word, signed |-> TRUE]
None    == [some |-> FALSE, n |-> 0]
Some(n) == [some |-> TRUE, n |-> n]
Wrap(n) == Read(Pattern(n, Word), WordTy)

fold_int_op(a, op, b) ==
  LET ua == Pattern(a, Word)
      shift_ok == b >= 0 /\ b < Word
      bits2(F(_, _)) == Some(Wrap(Bitwise2(F, ua, Pattern(b, Word), Word)))
  IN  CASE op \in {"add", "sub", "mul"} ->
             IF Fits(Exact(op, a, b), WordTy) THEN Some(Exact(op, a, b)) ELSE None
        [] op \in {"div", "mod"} ->
             IF b = 0 \/ (a = MinOf(WordTy) /\ b = -1) THEN None
             ELSE Some(IF op = "div" THEN Quot(a, b) ELSE Rem(a, b))
        [] op \in {"shl", "shr", "ushr"} /\ ~shift_ok -> None
        [] op = "shl"  /\ shift_ok -> Some(Wrap(a * (2 ^ b)))
        [] op = "shr"  /\ shift_ok -> Some(a \div (2 ^ b))
        [] op = "ushr" /\ shift_ok -> Some(Wrap(ua \div (2 ^ b)))
        [] op = "and" -> bits2(BitAnd2)
        [] op = "or"  -> bits2(BitOr2)
        [] op = "xor" -> bits2(BitXor2)
        [] OTHER -> None

fold_unary(op, n) ==
  CASE op = "neg" -> IF Fits(-n, WordTy) THEN Some(-n) ELSE None
    [] op = "bitnot" -> Some(-n - 1)

\* `n as i8 as i64` and the like; U64 keeps the word
fold_cast(n, dst) ==
  IF dst.bits = Word /\ dst.signed THEN None
  ELSE Some(IF dst.bits = Word THEN n ELSE Read(Pattern(n, dst.bits), dst))

(* Expressions of word type: [k |-> "int", n], [k |-> "bool", b],            *)
(* "bin" op l r, "unary" op e, "ternary" c t f, "cast" e ty.                 *)
IsLit(e) == e.k = "int"
Lit(n)   == [k |-> "int", n |-> n]

fold_binop(e) ==
  LET f == fold_int_op(e.l.n, e.op, e.r.n)
  IN  IF IsLit(e.l) /\ IsLit(e.r) THEN (IF f.some THEN Lit(f.n) ELSE e) ELSE e

fold_ternary(e) == IF e.c.k = "bool" THEN (IF e.c.b THEN e.t ELSE e.f) ELSE e

try_fold(e) ==
  CASE e.k = "bin" -> fold_binop(e)
    [] e.k = "unary" -> IF ~IsLit(e.e) THEN e
                        ELSE IF fold_unary(e.op, e.e.n).some THEN Lit(fold_unary(e.op, e.e.n).n) ELSE e
    [] e.k = "ternary" -> fold_ternary(e)
    [] OTHER -> e

RECURSIVE fold_expr(_)
\* the operands first
FoldChildren(e) ==
  CASE e.k = "bin" -> [e EXCEPT !.l = fold_expr(e.l), !.r = fold_expr(e.r)]
    [] e.k = "unary" -> [e EXCEPT !.e = fold_expr(e.e)]
    [] e.k = "ternary" -> [e EXCEPT !.c = fold_expr(e.c), !.t = fold_expr(e.t), !.f = fold_expr(e.f)]
    [] OTHER -> e
fold_expr(e) == try_fold(FoldChildren(e))

\* what the emitted code of an expression computes
RECURSIVE Compute(_)
Compute(e) ==
  CASE e.k = "int"  -> Ok(Pattern(e.n, Word))
    [] e.k = "bool" -> Ok(IF e.b THEN 1 ELSE 0)
    [] e.k = "unary" -> LET x == Compute(e.e) IN IF x.ok THEN emit_unary(e.op, x.v, WordTy, FALSE) ELSE Trap
    [] e.k = "ternary" -> LET c == Compute(e.c)
                          IN  IF ~c.ok THEN Trap ELSE IF c.v = 1 THEN Compute(e.t) ELSE Compute(e.f)
    [] e.k = "bin" -> LET l == Compute(e.l)
                          r == Compute(e.r)
                      IN  IF l.ok /\ r.ok THEN emit_binop(e.op, l.v, WordTy, r.v, WordTy, WordTy, FALSE) ELSE Trap
-----------------------------------------------------------------------------
(* The range analysis that decides which additions, subtractions, products   *)
(* and negations are emitted without an overflow test (mir/range.rs).        *)
(*                                                                           *)
(* A function is a sequence of blocks, block 1 the entry:                    *)
(*   phis   <<[d, ty, inc]>>, inc a set of <<predecessor, value>>            *)
(*   insts  <<[d, ty, k, ...]>>: "const" n, "copy" v, "len", "cast" v,       *)
(*          "neg" v, "bin" op l r, "cmp" op l r cty, "not" v, "any"          *)
(*   term   [k |-> "goto", to], [k |-> "branch", c, t, e], [k |-> "ret"]     *)
(* and `params`, a function from values to types.                            *)
CONSTANTS MaxSweeps,      \* 64: widening sweeps before the analysis gives up
          NarrowSweeps    \* 3

Lowest  == -100000        \* i128::MIN and i128::MAX: beyond every sum and product
Highest == 100000
EMPTY   == [lo |-> 1, hi |-> 0]
FULL    == [lo |-> Lowest, hi |-> Highest]
BoolTy  == [bits |-> 1, signed |-> FALSE, bool |-> TRUE]

IsInt(ty) == "bool" \notin DOMAIN ty
RangeOf(ty) == [lo |-> MinOf(ty), hi |-> MaxOf(ty)]
Point(n) == [lo |-> n, hi |-> n]
Least(a, b) == IF a < b THEN a ELSE b
Most(a, b)  == IF a > b THEN a ELSE b

is_empty(r) == r.lo > r.hi
join(a, b) ==
  CASE is_empty(a) -> b
    [] ~is_empty(a) /\ is_empty(b) -> a
    [] OTHER -> [lo |-> Least(a.lo, b.lo), hi |-> Most(a.hi, b.hi)]
meet(a, b) == [lo |-> Most(a.lo, b.lo), hi |-> Least(a.hi, b.hi)]
within(a, b) == ~is_empty(a) /\ a.lo >= b.lo /\ a.hi <= b.hi
fit(r, bound) == IF within(r, bound) THEN r ELSE bound
constant(n, ty) == Point(Read(Pattern(n, ty.bits), ty))
corners(a, b, op) ==
  LET F(x, y) == IF op = "div" THEN Quot(x, y) ELSE Exact(op, x, y)
      c == {F(a.lo, b.lo), F(a.lo, b.hi), F(a.hi, b.lo), F(a.hi, b.hi)}
  IN  IF is_empty(a) \/ is_empty(b) THEN EMPTY
      ELSE [lo |-> CHOOSE x \in c : \A y \in c : x <= y, hi |-> CHOOSE x \in c : \A y \in c : x >= y]

flip(op) ==
  CASE op = "lt" -> "gt" [] op = "gt" -> "lt" [] op = "le" -> "ge" [] op = "ge" -> "le" [] OTHER -> op
negate(op) ==
  CASE op = "lt" -> "ge" [] op = "ge" -> "lt" [] op = "gt" -> "le" [] op = "le" -> "gt"
    [] op = "eq" -> "ne" [] op = "ne" -> "eq"
-----------------------------------------------------------------------------
successors(t) ==
  CASE t.k = "goto" -> <<t.to>> [] t.k = "branch" -> <<t.t, t.e>> [] t.k = "ret" -> <<>>
Preds(f, b) == {p \in DOMAIN f.blocks : \E i \in DOMAIN successors(f.blocks[p].term) :
                                           successors(f.blocks[p].term)[i] = b}
\* the predecessor list has an entry per edge
EdgesInto(f, b) == {<<p, i>> \in (DOMAIN f.blocks) \X {1, 2} :
                      /\ i \in DOMAIN successors(f.blocks[p].term)
                      /\ successors(f.blocks[p].term)[i] = b}

\* depth first with an explicit stack; a block is put out behind its successors
RECURSIVE Postorder(_, _, _, _)
Postorder(f, stack, seen, post) ==
  IF stack = <<>> THEN post
  ELSE LET top  == stack[Len(stack)]
           rest == SubSeq(stack, 1, Len(stack) - 1)
           ss   == successors(f.blocks[top[1]].term)
           back == Append(rest, <<top[1], top[2] + 1>>)
       IN  CASE top[2] > Len(ss) -> Postorder(f, rest, seen, Append(post, top[1]))
             [] top[2] <= Len(ss) /\ ss[top[2]] \in seen -> Postorder(f, back, seen, post)
             [] OTHER -> Postorder(f, Append(back, <<ss[top[2]], 1>>), seen \cup {ss[top[2]]}, post)
reverse_postorder(f) == Reverse(Postorder(f, <<<<1, 1>>>>, {1}, <<>>))

\* the immediate dominators, by sweeps in reverse postorder until nothing changes
dominators(f, order) ==
  LET index == [b \in ToSet(order) |-> CHOOSE i \in DOMAIN order : order[i] = b]
      RECURSIVE Meet(_, _, _)
      Meet(idom, a, b) ==
        CASE a = b -> a
          [] a # b /\ index[a] > index[b] -> Meet(idom, idom[a], b)
          [] OTHER -> Meet(idom, a, idom[b])
      Visit(idom, b) ==
        LET ps == SelectSeq([i \in 1..Len(f.blocks) |-> i], LAMBDA p : p \in Preds(f, b) /\ p \in DOMAIN idom)
            n  == FoldLeft(LAMBDA acc, p : IF acc = 0 THEN p ELSE Meet(idom, p, acc), 0, ps)
        IN  IF n = 0 THEN idom
            ELSE [x \in DOMAIN idom \cup {b} |-> IF x = b THEN n ELSE idom[x]]
      RECURSIVE Fix(_)
      Fix(idom) == LET next == FoldLeft(Visit, idom, Tail(order))
                   IN  IF next = idom THEN idom ELSE Fix(next)
  IN  Fix([x \in {1} |-> 1])

AllInsts(f) == FlattenSeq([b \in DOMAIN f.blocks |-> f.blocks[b].insts])
Types(f) ==
  LET defs == ToSet(AllInsts(f)) \cup UNION {ToSet(f.blocks[b].phis) : b \in DOMAIN f.blocks}
  IN  [v \in DOMAIN f.params \cup {i.d : i \in defs} |->
         IF v \in DOMAIN f.params THEN f.params[v] ELSE (CHOOSE i \in defs : i.d = v).ty]

\* What the branches taken on the way to a block say: the dominator's facts and,
\* with a single edge into the block, the comparison that edge decides.
branch_facts(f, order, tys) ==
  LET idom == dominators(f, order)
      Record(cmps, i) ==
        CASE i.k = "cmp" /\ IsInt(i.cty) /\ tys[i.l] = i.cty /\ tys[i.r] = i.cty ->
               Append(cmps, [d |-> i.d, op |-> i.op, l |-> i.l, r |-> i.r, neg |-> FALSE])
          [] i.k = "not" /\ \E n \in DOMAIN cmps : cmps[n].d = i.v ->
               LET c == cmps[CHOOSE n \in DOMAIN cmps : cmps[n].d = i.v]
               IN  Append(cmps, [c EXCEPT !.d = i.d, !.neg = ~c.neg])
          [] OTHER -> cmps
      cmps == ToSet(FoldLeft(Record, <<>>, AllInsts(f)))
      Own(b) ==
        LET es == EdgesInto(f, b)
            p  == (CHOOSE e \in es : TRUE)[1]
            t  == f.blocks[p].term
        IN  IF b = 1 \/ Cardinality(es) # 1 \/ t.k # "branch" THEN <<>>
            ELSE IF t.t = t.e \/ ~\E c \in cmps : c.d = t.c THEN <<>>
            ELSE LET c == CHOOSE x \in cmps : x.d = t.c
                 IN  <<[l |-> c.l, op |-> IF (b = t.e) # c.neg THEN negate(c.op) ELSE c.op, r |-> c.r]>>
      Visit(facts, b) ==
        LET above == IF idom[b] # b THEN facts[idom[b]] ELSE <<>>
        IN  [x \in DOMAIN facts \cup {b} |-> IF x = b THEN above \o Own(b) ELSE facts[x]]
  IN  FoldLeft(Visit, [x \in {} |-> <<>>], order)
-----------------------------------------------------------------------------
\* an analysis: [f, tys, facts, order, ranges], ranges partial over the values
Analysis(f) ==
  LET order == reverse_postorder(f)
      tys   == Types(f)
      vals  == UNION {{i.d : i \in ToSet(f.blocks[b].insts) \cup ToSet(f.blocks[b].phis)} : b \in ToSet(order)}
  IN  [f |-> f, tys |-> tys, order |-> order, facts |-> branch_facts(f, order, tys),
       ranges |-> [v \in {x \in vals : IsInt(tys[x])} |-> EMPTY]]

range(a, v) ==
  CASE v \in DOMAIN a.ranges -> a.ranges[v]
    [] v \notin DOMAIN a.ranges /\ IsInt(a.tys[v]) -> RangeOf(a.tys[v])
    [] OTHER -> FULL

\* the range of v narrowed by what is known in block b
refined(a, v, b) ==
  LET Bound(op, o) ==
        CASE op = "lt" -> [lo |-> Lowest, hi |-> o.hi - 1]
          [] op = "le" -> [lo |-> Lowest, hi |-> o.hi]
          [] op = "gt" -> [lo |-> o.lo + 1, hi |-> Highest]
          [] op = "ge" -> [lo |-> o.lo, hi |-> Highest]
          [] op = "eq" -> o
          [] op = "ne" -> FULL
      Use(r, fact) ==
        LET other == IF fact.l = v THEN fact.r ELSE fact.l
            op    == IF fact.l = v THEN fact.op ELSE flip(fact.op)
            o     == range(a, other)
        IN  IF v \notin {fact.l, fact.r} \/ is_empty(o) THEN r ELSE meet(r, Bound(op, o))
  IN  FoldLeft(Use, range(a, v), a.facts[b])

\* mutant: only the equal ends are combined
ExactEnds(op, l, r) ==
  IF is_empty(l) \/ is_empty(r) THEN EMPTY ELSE [lo |-> Exact(op, l.lo, r.lo), hi |-> Exact(op, l.hi, r.hi)]

exact(op, l, r) ==
  corners(l, r, op)
NegRange(r) == IF is_empty(r) THEN r ELSE [lo |-> -r.hi, hi |-> -r.lo]

TransferBin(op, l, r, bound) ==
  LET m == r.hi - 1
  IN  CASE is_empty(l) \/ is_empty(r) -> EMPTY
        [] op \in {"add", "sub", "mul"} -> exact(op, l, r)
        [] op = "div" /\ (r.lo > 0 \/ r.hi < 0) -> corners(l, r, "div")
        [] op = "mod" /\ r.lo > 0 ->
             (CASE l.lo >= 0 -> [lo |-> 0, hi |-> Least(l.hi, m)]
                [] l.lo < 0 /\ l.hi <= 0 -> [lo |-> Most(l.lo, -m), hi |-> 0]
                [] OTHER -> [lo |-> -m, hi |-> m])
        [] op = "and" /\ l.lo >= 0 /\ r.lo >= 0 -> [lo |-> 0, hi |-> Least(l.hi, r.hi)]
        [] op = "and" /\ l.lo >= 0 /\ r.lo < 0  -> [lo |-> 0, hi |-> l.hi]
        [] op = "and" /\ l.lo < 0 /\ r.lo >= 0  -> [lo |-> 0, hi |-> r.hi]
        [] op \in {"or", "xor"} /\ l.lo >= 0 /\ r.lo >= 0 ->
             [lo |-> 0, hi |-> (2 ^ BitLen(Most(l.hi, r.hi))) - 1]
        [] op \in {"shr", "ushr"} /\ l.lo >= 0 /\ r.lo >= 0 /\ r.hi < 64 ->
             [lo |-> l.lo \div (2 ^ r.hi), hi |-> l.hi \div (2 ^ r.lo)]
        [] OTHER -> bound

Clip(r, bound) == IF is_empty(r) THEN r ELSE meet(r, bound)

transfer(a, i, b, bound) ==
  LET same(v) == a.tys[v] = i.ty
      r == CASE i.k = "const" -> constant(i.n, i.ty)
             [] i.k = "copy"  -> fit(refined(a, i.v, b), bound)
             [] i.k = "len"   -> [lo |-> 0, hi |-> MaxOf(WordTy)]
             [] i.k = "cast" /\ IsInt(a.tys[i.v]) -> fit(refined(a, i.v, b), bound)
             [] i.k = "neg" /\ same(i.v) -> fit(NegRange(refined(a, i.v, b)), bound)
             [] i.k = "bin" /\ same(i.l) /\ same(i.r) ->
                  TransferBin(i.op, refined(a, i.l, b), refined(a, i.r, b), bound)
             [] OTHER -> bound
  IN  Clip(r, bound)

\* the hull of a set of ranges
Hull(rs) ==
  IF rs = {} THEN EMPTY
  ELSE [lo |-> CHOOSE n \in {x.lo : x \in rs} : \A x \in rs : n <= x.lo,
        hi |-> CHOOSE n \in {x.hi : x \in rs} : \A x \in rs : n >= x.hi]

\* While widening, a phi that has grown more than twice takes its type's bound
\* on the side that grows.
Grow(acc, phi, r, old, widen) ==
  LET grew  == widen /\ r # old /\ ~is_empty(old)
      n     == acc.counts[phi.d] + 1
      wide  == [lo |-> IF r.lo < old.lo THEN MinOf(phi.ty) ELSE r.lo,
                hi |-> IF r.hi > old.hi THEN MaxOf(phi.ty) ELSE r.hi]
  IN  [a |-> [acc.a EXCEPT !.ranges[phi.d] = IF grew /\ n > 2 THEN wide ELSE r],
       counts |-> IF grew THEN [acc.counts EXCEPT ![phi.d] = n] ELSE acc.counts]

SweepPhi(acc, phi, widen) ==
  LET a   == acc.a
      in  == {refined(a, x[2], x[1]) : x \in {y \in phi.inc : y[1] \in ToSet(a.order)}}
      old == a.ranges[phi.d]
      Joined(r) == IF widen THEN join(r, old) ELSE r
  IN  IF ~IsInt(phi.ty) THEN acc
      ELSE Grow(acc, phi, Joined(Clip(Hull({x \in in : ~is_empty(x)}), RangeOf(phi.ty))), old, widen)

SweepInst(acc, b, i, widen) ==
  LET Joined(r, old) == IF widen THEN join(r, old) ELSE r
  IN  IF ~IsInt(i.ty) THEN acc
      ELSE [acc EXCEPT !.a.ranges[i.d] = Joined(transfer(acc.a, i, b, RangeOf(i.ty)), @)]

\* one pass over the blocks
sweep(a0, counts0, widen) ==
  LET Block(acc, b) ==
        LET f == acc.a.f
        IN  FoldLeft(LAMBDA x, i : SweepInst(x, b, i, widen),
                     FoldLeft(LAMBDA x, phi : SweepPhi(x, phi, widen), acc, f.blocks[b].phis),
                     f.blocks[b].insts)
  IN  FoldLeft(Block, [a |-> a0, counts |-> counts0], a0.order)

NoCounts(a) == [v \in DOMAIN a.ranges |-> 0]
RECURSIVE Widening(_, _, _), Narrowing(_, _)
Widening(a, counts, left) ==
  LET Again(s) == IF s.a = a THEN [stable |-> TRUE, a |-> a] ELSE Widening(s.a, s.counts, left - 1)
  IN  IF left = 0 THEN [stable |-> FALSE, a |-> a] ELSE Again(sweep(a, counts, TRUE))
Narrowing(a, left) ==
  LET Again(s) == IF s.a = a THEN a ELSE Narrowing(s.a, left - 1)
  IN  IF left = 0 THEN a ELSE Again(sweep(a, NoCounts(a), FALSE))
Narrowed(w) == [stable |-> w.stable, a |-> IF w.stable THEN Narrowing(w.a, NarrowSweeps) ELSE w.a]
solve(f) ==
  LET Solved(a) == Narrowed(Widening(a, NoCounts(a), MaxSweeps))
  IN  Solved(Analysis(f))

\* the results whose exact value fits the type for all operands in range
proven_no_overflow(s) ==
  LET a == s.a
      Safe(b, i) ==
        LET same(v) == a.tys[v] = i.ty
            e == CASE i.k = "bin" -> exact(i.op, refined(a, i.l, b), refined(a, i.r, b))
                   [] i.k = "neg" -> NegRange(refined(a, i.v, b))
        IN  /\ \/ i.k = "bin" /\ i.op \in {"add", "sub", "mul"} /\ same(i.l) /\ same(i.r)
               \/ i.k = "neg" /\ same(i.v)
            /\ within(e, RangeOf(i.ty))
  IN  IF ~s.stable THEN {}
      ELSE UNION {{i.d : i \in {x \in ToSet(a.f.blocks[b].insts) : IsInt(x.ty) /\ Safe(b, x)}} : b \in ToSet(a.order)}
=============================================================================
