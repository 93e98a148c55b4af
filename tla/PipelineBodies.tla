----------------------------- MODULE PipelineBodies -----------------------------
(***************************************************************************)
(* The function bodies that MCBodies gives to Pipeline.                    *)
(***************************************************************************)
EXTENDS Integers, Sequences

C(n) == [k |-> "const", n |-> n]
V(x) == [k |-> "var", x |-> <<x>>]
Call == [k |-> "call"]
Cond == [k |-> "cond"]
And(l, r) == [k |-> "and", l |-> l, r |-> r]
Or(l, r) == [k |-> "or", l |-> l, r |-> r]
Tern(c, l, r) == [k |-> "tern", c |-> c, l |-> l, r |-> r]

Let(x, e) == [k |-> "set", x |-> <<x>>, e |-> e, decl |-> TRUE]
Set(x, e) == [k |-> "set", x |-> <<x>>, e |-> e, decl |-> FALSE]
Do == [k |-> "expr", e |-> Call]
Tail1(e) == [k |-> "expr", e |-> e]
Log(e) == [k |-> "log", e |-> e]
Poke(x) == [k |-> "poke", x |-> <<x>>]
If(c, then, elifs, els) == [k |-> "if", c |-> c, then |-> then, elifs |-> elifs, els |-> els]
IfX(c, then, elifs, els) == [k |-> "ifx", c |-> c, then |-> then, elifs |-> elifs, els |-> <<els>>]
When(then) == If(Cond, then, <<>>, <<>>)
Elif(c, b) == [c |-> c, b |-> b]
Match(e, arms) == [k |-> "match", e |-> e, arms |-> arms]
On(p, b) == [p |-> p, g |-> <<>>, b |-> b]
OnIf(p, g, b) == [p |-> p, g |-> <<g>>, b |-> b]
Lit(n) == [k |-> "lit", n |-> n]
Wild == [k |-> "wild"]
BindTo(x) == [k |-> "bind", x |-> <<x>>]
Alt(s) == [k |-> "or", alts |-> s]
While(c, b) == [k |-> "while", c |-> c, b |-> b]
Loop(b) == [k |-> "loop", b |-> b]
For(iter, x, label, b) == [k |-> "for", iter |-> iter, x |-> <<x>>, n |-> 2, label |-> label, b |-> b]
Break == [k |-> "break", label |-> ""]
Continue == [k |-> "continue", label |-> ""]
BreakTo(l) == [k |-> "break", label |-> l]
ContinueTo(l) == [k |-> "continue", label |-> l]
Ret(e) == [k |-> "ret", e |-> e]
Err(e) == [k |-> "err", e |-> e]
Txn(b) == [k |-> "txn", b |-> b]
Defer(b) == [k |-> "defer", b |-> b]
Group(b) == [k |-> "together", b |-> b, fallible |-> FALSE, handled |-> FALSE, err |-> <<>>, ok |-> <<>>]
Try(b) == [Group(b) EXCEPT !.fallible = TRUE]
TryOr(b, err, ok) == [Try(b) EXCEPT !.handled = TRUE, !.err = err, !.ok = ok]
SelectOf(arms, default) == [k |-> "select", arms |-> arms, default |-> default]
Case1(x, b) == [x |-> <<x>>, b |-> b]
Fn(b) == [body |-> b, void |-> TRUE]
FnOf(b) == [body |-> b, void |-> FALSE]

x == V("x")
y == V("y")
i == V("i")

MCPrograms ==
  [branches |-> Fn(<<Let("x", C(1)), If(Cond, <<Set("x", Call)>>, <<Elif(Cond, <<Set("x", C(3))>>)>>, <<<<Log(x)>>>>),
                     Log(x), When(<<Ret(x)>>), Log(C(4))>>),
   values |-> FnOf(<<Let("x", Tern(Cond, Call, C(2))), Let("y", x), If(Or(Cond, Cond), <<Set("y", C(5))>>, <<>>, <<>>),
                     If(And(Cond, Call), <<Tail1(y)>>, <<>>, <<<<Tail1(x)>>>>)>>),
   picks |-> FnOf(<<Let("x", IfX(Cond, <<Do, Tail1(Call)>>, <<Elif(Call, <<When(<<Ret(C(3))>>), Tail1(C(4))>>)>>, <<Ret(C(2))>>)),
                    Defer(<<Log(x)>>), Set("x", IfX(Cond, <<Tail1(x)>>, <<>>, <<Tail1(C(5))>>)), Tail1(x)>>),
   swap |-> Fn(<<Let("x", C(1)), Let("y", C(2)),
                 While(Cond, <<Let("t", x), Set("x", y), Set("y", V("t")), When(<<Continue>>), Log(x)>>), Log(y)>>),
   breaks |-> FnOf(<<Let("x", C(1)), Let("y", C(7)),
                     Loop(<<When(<<Break>>), Set("x", Call), When(<<Set("y", x), Continue>>), Log(x)>>), Ret(y)>>),
   labels |-> Fn(<<Let("x", C(0)),
                   For("range", "i", "out", <<For("range", "j", "", <<When(<<BreakTo("out")>>),
                     When(<<ContinueTo("out")>>), Set("x", V("j"))>>), Log(i)>>), Log(x)>>),
   exits |-> Fn(<<Let("x", C(1)), Txn(<<When(<<Ret(x)>>), Txn(<<When(<<Err(C(9))>>), Set("x", Call)>>), Log(x)>>), Log(x)>>),
   txn_loop |-> Fn(<<Let("x", C(0)), While(Cond, <<Txn(<<When(<<Break>>), Set("x", Call),
                        Loop(<<When(<<Break>>), When(<<Ret(x)>>)>>), When(<<Continue>>)>>)>>), Log(x)>>),
   defers |-> FnOf(<<Let("x", C(1)), Defer(<<Log(x)>>), When(<<Defer(<<Log(C(8))>>), Ret(x)>>),
                     For("each", "i", "", <<Defer(<<Log(i)>>), Set("x", i)>>), Set("x", Call), Ret(x)>>),
   txn_defer |-> Fn(<<Let("x", C(1)), Txn(<<Defer(<<Log(x)>>), Set("x", Call), When(<<Err(x)>>)>>), Set("x", C(6))>>),
   counters |-> Fn(<<For("range", "i", "", <<Defer(<<Log(i)>>), When(<<Continue>>), Log(i)>>)>>),
   groups |-> Fn(<<Let("x", C(1)), Defer(<<Log(x)>>), Txn(<<Group(<<Do, Group(<<Set("x", Call)>>)>>)>>), Log(x)>>),
   errors |-> FnOf(<<Let("x", C(1)), TryOr(<<Do>>, <<Set("x", C(2))>>, <<Log(x)>>), Defer(<<Log(x)>>), Try(<<Do>>), Tail1(x)>>),
   selects |-> Fn(<<Let("x", C(1)), Loop(<<SelectOf(<<Case1("m", <<Set("x", V("m")), When(<<Break>>)>>)>>,
                                                    <<<<Log(x), When(<<Ret(x)>>)>>>>)>>), Log(x)>>),
   switches |-> Fn(<<Let("x", C(1)), Match(Cond, <<On(Lit(0), <<Set("x", Call)>>), On(Lit(1), <<When(<<Ret(x)>>)>>),
                                                   On(Wild, <<>>)>>), Log(x)>>),
   chains |-> Fn(<<Match(Cond, <<OnIf(BindTo("b"), Cond, <<Log(V("b"))>>),
                     On(Alt(<<Lit(1), Lit(2)>>), <<Let("z", Call), Log(V("z"))>>), On(Wild, <<Log(C(5))>>)>>), Do>>),
   pokes |-> Fn(<<Let("x", C(1)), Log(x), Poke("x"), Log(x), While(Cond, <<Set("x", C(3)), Log(x), When(<<Poke("x")>>)>>), Log(x)>>),
   streams |-> Fn(<<Let("x", C(0)), For("chan", "i", "", <<Defer(<<Log(i)>>), When(<<Continue>>), Set("x", i)>>),
                    For("gen", "j", "g", <<When(<<BreakTo("g")>>), Set("x", V("j"))>>), Log(x)>>)]

MCTapes == [1..6 -> {0, 1}]
=============================================================================
