----------------------------- MODULE Arithmetic -----------------------------
(* Runs of the emitted arithmetic.  `calc` is one operation on one pair of   *)
(* operands; `run` is an execution of a small function, a block at a time,   *)
(* with the operations the range analysis proved emitted without a test.     *)
EXTENDS Ranges

CONSTANTS CalcTypes,     \* types the single operations are tried at
          Functions      \* a set of functions (see Ranges)

VARIABLES calc, run
arith_vars == <<calc, run>>

Idle == [k |-> "idle"]

BinOps  == {"add", "sub", "mul", "div", "mod", "and", "or", "xor", "shl", "shr", "ushr", "exp"}
Patterns(ty) == 0..((2 ^ ty.bits) - 1)

Calcs ==
  UNION {[k : {"calc"}, op : BinOps, ty : {ty}, l : Patterns(ty), r : Patterns(ty)] : ty \in CalcTypes}

-----------------------------------------------------------------------------
\* the compiler analyses the function once
Compile ==
  /\ run.k = "source"
  /\ LET Emitted(s) == [k |-> "compiled", f |-> run.f, tys |-> s.a.tys, proven |-> proven_no_overflow(s),
                        ranges |-> IF s.stable THEN s.a.ranges ELSE [v \in {} |-> EMPTY]]
     IN  run' = Emitted(solve(run.f))
  /\ UNCHANGED calc

\* one instruction on an environment of patterns; "bad" marks an operation
\* that overflowed although it is emitted without a test
Eval(st, i) ==
  LET env == st.env
      tys == st.tys
      safe == i.d \in st.proven
      res == CASE i.k = "const" -> Ok(Pattern(i.n, i.ty.bits))
               [] i.k = "copy"  -> Ok(env[i.v])
               [] i.k = "len"   -> Ok(st.len)
               [] i.k = "cast"  -> Ok(emit_cast(env[i.v], tys[i.v], i.ty))
               [] i.k = "neg"   -> emit_unary("neg", env[i.v], i.ty, safe)
               [] i.k = "bin"   -> emit_binop(i.op, env[i.l], tys[i.l], env[i.r], tys[i.r], i.ty, safe)
               [] i.k = "cmp"   -> Ok(IF emit_cmp(i.op, env[i.l], env[i.r], i.cty) THEN 1 ELSE 0)
               [] i.k = "not"   -> Ok(1 - env[i.v])
      over(v) == CASE ~safe -> FALSE
                   [] safe /\ i.k = "neg" -> ~Fits(-Read(env[i.v], i.ty), i.ty)
                   [] safe /\ i.k = "bin" -> v = Poison
      Store(r) == CASE ~r.ok -> [st EXCEPT !.k = "trapped"]
                    [] r.ok  -> [st EXCEPT !.env = [v \in DOMAIN env \cup {i.d} |-> IF v = i.d THEN r.v ELSE env[v]],
                                           !.bad = @ \/ over(r.v)]
  IN  IF st.k # "at" THEN st ELSE Store(res)

\* the phis read the edge the block was entered by, all at once
EnterPhis(st) ==
  LET ps == ToSet(st.f.blocks[st.b].phis)
      In(p) == (CHOOSE x \in p.inc : x[1] = st.from)[2]
  IN  [st EXCEPT !.env = [v \in DOMAIN st.env \cup {p.d : p \in ps} |->
                            IF \E p \in ps : p.d = v THEN st.env[In(CHOOSE p \in ps : p.d = v)] ELSE st.env[v]]]

\* the lengths a vector may have, for a function that asks
Lengths(f) == IF \E i \in ToSet(AllInsts(f)) : i.k = "len" THEN 0..MaxOf(WordTy) ELSE {0}

Call ==
  /\ run.k = "compiled"
  /\ \E e \in [DOMAIN run.f.params -> 0..((2 ^ Word) - 1)], len \in Lengths(run.f) :
       /\ \A v \in DOMAIN run.f.params : e[v] \in Patterns(run.f.params[v])
       /\ run' = [k |-> "at", f |-> run.f, tys |-> run.tys, proven |-> run.proven, ranges |-> run.ranges,
                  b |-> 1, from |-> 0, env |-> e, len |-> len, bad |-> FALSE]
  /\ UNCHANGED calc

RunBlock ==
  /\ run.k = "at"
  /\ LET blk == run.f.blocks[run.b]
         t   == blk.term
         To(st) == CASE t.k = "goto" -> t.to
                     [] t.k = "branch" -> IF st.env[t.c] = 1 THEN t.t ELSE t.e
         Leave(st) == CASE st.k # "at" -> st
                        [] st.k = "at" /\ t.k = "ret" -> [st EXCEPT !.k = "returned"]
                        [] OTHER -> [st EXCEPT !.b = To(st), !.from = run.b]
     IN  run' = Leave(FoldLeft(Eval, EnterPhis(run), blk.insts))
  /\ UNCHANGED calc

ArithInit ==
  \/ calc \in Calcs /\ run = Idle
  \/ calc = Idle /\ run \in [k : {"source"}, f : Functions]
ArithIdle == calc = Idle /\ run = Idle
ArithNext == Compile \/ Call \/ RunBlock
-----------------------------------------------------------------------------
\* the powers of a number, and -- once beyond every type -- a number that fits none
Power(a, e) == FoldLeft(LAMBDA acc, i : IF Abs(acc) > 2 ^ (2 * Word) THEN acc ELSE acc * a, 1, [i \in 1..e |-> i])

\* The emitted operation traps exactly when the mathematical result is not a
\* number of the type (or there is none), and gives that number otherwise; the
\* saturating form clamps it; a constant folded by the compiler is what the
\* program would have computed, and a strict cast succeeds exactly when the
\* number is kept.  (checked_arith, checked_divmod, checked_pow, fold_int_op.)
ArithExact ==
  calc.k = "calc" =>
    LET ty == calc.ty
        a  == Read(calc.l, ty)
        b  == Read(calc.r, ty)
        out == emit_binop(calc.op, calc.l, ty, calc.r, ty, ty, FALSE)
        defined == CASE calc.op \in {"div", "mod"} -> b # 0
                     [] calc.op = "exp" -> b >= 0
                     [] OTHER -> TRUE
        math == CASE calc.op \in {"add", "sub", "mul"} -> Exact(calc.op, a, b)
                  [] calc.op = "div" -> Quot(a, b)
                  [] calc.op = "mod" -> IF a = MinOf(ty) /\ b = -1 /\ ty.signed THEN MaxOf(ty) + 1 ELSE Rem(a, b)
                  [] calc.op = "exp" -> Power(a, b)
        sat == saturating_arith(calc.op, calc.l, calc.r, ty)
        clamped == IF math < MinOf(ty) THEN MinOf(ty) ELSE IF math > MaxOf(ty) THEN MaxOf(ty) ELSE math
        folded == fold_int_op(a, calc.op, b)
    IN  /\ calc.op \in {"add", "sub", "mul", "div", "mod", "exp"} =>
             /\ out.ok <=> (defined /\ Fits(math, ty))
             /\ out.ok => Read(out.v, ty) = math
        /\ calc.op \in {"add", "sub", "mul"} => Read(sat, ty) = clamped
        /\ ty = WordTy =>
             /\ folded.some => out.ok /\ Read(out.v, ty) = folded.n
             /\ (calc.op # "exp") => (out.ok <=> folded.some)
             /\ \A un \in {"neg", "bitnot"}, cond \in BOOLEAN :
                  LET inner == [k |-> "unary", op |-> un, e |-> Lit(b)]
                      e == [k |-> "ternary", c |-> [k |-> "bool", b |-> cond], f |-> inner,
                            t |-> [k |-> "bin", op |-> calc.op, l |-> Lit(a), r |-> inner]]
                  IN  Compute(fold_expr(e)) = Compute(e)
        /\ \A dst \in CalcTypes :
             /\ emit_strict_cast(calc.l, ty, dst).ok <=> Fits(a, dst)
             /\ (ty = WordTy /\ fold_cast(a, dst).some) =>
                  Pattern(fold_cast(a, dst).n, dst.bits) = emit_cast(calc.l, ty, dst)
             /\ LET f == Num(a)          \* a halves: the fraction included
                IN  StrictToInt(f, dst).ok <=> (ToFloat(Quot(a, 2)) = f /\ Fits(Quot(a, 2), dst))

\* An operation emitted without an overflow test never overflows, and every
\* value stays in the range the analysis gave it, in every execution: through
\* loops, branches on the other operand and the narrowing after widening.
ProvenSafe ==
  run.k \in {"at", "trapped", "returned"} =>
    /\ ~run.bad
    /\ \A v \in DOMAIN run.env \cap DOMAIN run.ranges :
         LET r == run.ranges[v]
             x == Read(run.env[v], run.tys[v])
         IN  r.lo <= x /\ x <= r.hi

\* Both: what is computed is what the program says, and what is not tested cannot
\* go wrong.
ArithSound == ArithExact /\ ProvenSafe
=============================================================================
