----------------------------- MODULE CheckedBodies -----------------------------
(***************************************************************************)
(* The bodies that MCBodies gives to Ownership and the functions that it   *)
(* gives to Drops.                                                         *)
(***************************************************************************)
EXTENDS Access, Mir

(* Bodies of f(p) for Ownership: `x is new`, a statement, a control         *)
(* statement around two more, and a last one.  x is a local, p the          *)
(* parameter, y and s the variables that are bound from them, v a matched   *)
(* payload.                                                                 *)
MCVars == {"p", "x", "y", "s", "v", "q", "r", "w"}
MCStrs == {"s"}
MCParams == {"p"}

Fn(params, b) == [params |-> params, body |-> b]
MCCallees ==
  [look  |-> Fn(<<"q">>, <<>>),
   keep  |-> Fn(<<"q">>, <<Bind("w", "none", New), Do(Push("w", Var("q")))>>),
   grow  |-> Fn(<<"q">>, <<Do(Push("q", New))>>),
   relay |-> Fn(<<"q">>, <<Do(Call("keep", <<Var("q")>>))>>),
   pair  |-> Fn(<<"q", "r">>, <<Do(Call("keep", <<Var("q")>>)), Do(Call("look", <<Var("r")>>))>>),
   fill  |-> Fn(<<"q", "r">>, <<Do(Push("q", New)), Do(Call("look", <<Var("r")>>))>>)]

On(f, x) == Do(Call(f, <<Var(x)>>))
On2(f, a, b) == Do(Call(f, <<a, b>>))

First == {On("look", "p"), On("keep", "x"), Bind("y", "none", Var("x")), Bind("y", "copy", Var("x")),
          Bind("y", "none", Field("x")), Bind("y", "none", Var("p")), Bind("s", "none", Name("x")),
          Bind("x", "none", Var("p"))}

Inner == {On("look", "x"), On("keep", "x"), On("grow", "x"), On("relay", "p"), On("look", "y"), On("keep", "y"),
          Do(Push("x", New)), Do(Push("x", Var("p"))), Do(Push("y", Var("x"))), Do(Send(Var("x"))),
          Do(Lambda("x")), On2("pair", Var("x"), Var("x")), On2("pair", Var("x"), Var("p")),
          On2("fill", Var("x"), Var("x")), On2("fill", Var("x"), Var("p")), On2("fill", Var("x"), Field("x")),
          Bind("x", "none", New), Bind("x", "none", Ctor(<<Var("p")>>)), Bind("y", "take", Field("p")),
          AssignF("x", New), AssignF("x", Var("y")), On("keep", "v"), Do(Cond(Var("x"), Var("p"))), Ret(Var("x"))}

After2 == {On("look", "x"), Bind("x", "none", New), On("keep", "p"), Break, Continue, Ret(Var("p"))}

Final == {On("look", "x"), On("look", "y"), On("look", "s"), On("keep", "p"), On("keep", "x"),
         Do(Push("x", Var("p"))), Do(Send(Var("s"))), Ret(Var("s")), Ret(Var("x")), Ret(Field("x"))}

Control(a, b) ==
  {If(<<a, b>>, <<>>), If(<<a>>, <<b>>), While(<<a, b>>), For("x", <<a, b>>),
   Match("x", "v", <<a>>, <<b>>), Defer(<<a, b>>)}

Binds == {t \in Inner \cup After2 : t.k \in {"bind", "assignf"}}
Jumpy(t) == t.k \in {"break", "continue"}
Legal(c) ==            \* jumps only in loops; deferred bodies neither return nor assign
  /\ c.k \notin {"while", "for"} => \A t \in Elems(c.a) \cup Elems(c.b) : ~Jumpy(t)
  /\ c.k = "defer" => \A t \in Elems(c.a) : t.k # "ret" /\ t \notin Binds

OwnershipBodies == {<<Bind("x", "none", New), s1, c, s4>> :
               s1 \in First, s4 \in Final,
               c \in {d \in UNION {Control(a, b) : a \in Inner, b \in After2} : Legal(d)}}

-----------------------------------------------------------------------------
(* Functions for Drops: a diamond, an early return, a loop, a match and     *)
(* straight code, with every choice of what happens on each path.           *)
I(d, op, a) == Inst(d, op, "", a)
CallOf(d, n, a) == Inst(d, "call", n, a)
Drop(v, t) == Inst(0, "drop", t, <<v>>)
B(phis, insts, term) == [phis |-> phis, insts |-> insts, term |-> term]
P(d, in) == [d |-> d, in |-> in]
Ask(v) == I(v, "const", <<>>)
Types == [v \in 1..16 |-> CASE v \in {1, 5, 6, 11, 12, 13} -> "str" [] v \in {2, 3} -> "enum"
                            [] v \in {10, 14, 15, 16} -> "vec" [] OTHER -> "int"]
F(params, owned, ty, blocks) ==
  [params |-> params, owned |-> owned, ty |-> ty, blocks |-> blocks, save |-> <<>>, consume |-> <<>>]

\* What a path may do with the string s and the vector v.
Fate(s, v) == {<<>>, <<I(0, "log", <<s>>)>>, <<CallOf(0, "take", <<s>>)>>, <<Drop(s, "str")>>,
               <<I(0, "push", <<v, s>>)>>, <<CallOf(0, "peek", <<s>>), Drop(s, "str"), Drop(v, "vec")>>}

Diamonds ==
  {F(<<1>>, o, Types, <<
     B(<<>>, <<I(10, "vecnew", <<>>), I(11, "strcat", <<1, 1>>), Ask(4)>>, Branch(4, 2, 3)),
     B(<<>>, x, Goto(4)), B(<<>>, y, IF early THEN Return(0) ELSE Goto(4)),
     B(<<>>, z, Return(r))>>) :
   o \in {{}, {1}}, x \in Fate(11, 10), y \in Fate(11, 10), early \in BOOLEAN,
   z \in {<<>>, <<I(0, "log", <<10>>)>>, <<Drop(11, "str"), I(0, "log", <<11>>), Drop(10, "vec"), Drop(4, "int")>>},
   r \in {0, 10}}

\* One side brings a new string, the other a lent one, a payload or its own;
\* the front end drops the variable they are bound to.
Joins ==
  {remove_unreachable_blocks(F(<<1, 2>>, {2}, ty, <<
     B(<<>>, <<Ask(4)>>, IF edge THEN Branch(4, 2, 4) ELSE Branch(4, 2, 3)),
     B(<<>>, <<CallOf(11, "make", <<>>)>>, Goto(4)),
     B(<<>>, y[1], Goto(4)),
     B(<<P(13, <<<<2, 11>>, IF edge THEN <<1, 1>> ELSE <<3, y[2]>>>>)>>, z, Return(r))>>)) :
   edge \in BOOLEAN, ty \in {Types, [Types EXCEPT ![1] = "res", ![11] = "res", ![12] = "res", ![13] = "res"]},
   y \in {<<<<>>, 1>>, <<<<I(12, "fieldget", <<2>>)>>, 12>>, <<<<I(12, "fieldget", <<2>>), Drop(2, "enum")>>, 12>>,
          <<<<CallOf(12, "make", <<>>)>>, 12>>},
   z \in {<<>>, <<CallOf(0, "take", <<13>>)>>, <<I(0, "log", <<13>>), Drop(13, "str")>>, <<Drop(13, "str"), Drop(2, "enum")>>},
   r \in {0, 13}}

\* A vector carried round a loop and replaced, extended or kept; the front end
\* drops what an assignment replaces.
Loops ==
  {F(<<1>>, {}, Types, <<
     B(<<>>, <<I(10, "vecnew", <<>>)>>, Goto(2)),
     B(<<P(14, <<<<1, 10>>, <<3, x[2]>>>>)>>, <<CallOf(0, "poll", <<>>), Ask(4)>>, Branch(4, 3, 4)),
     B(<<>>, x[1], Goto(2)),
     B(<<>>, z, Return(r))>>) :
   x \in {<<<<Drop(14, "vec"), I(16, "vecnew", <<>>)>>, 16>>, <<<<I(16, "vecnew", <<>>), I(0, "log", <<14>>), Drop(14, "vec")>>, 16>>,
          <<<<I(11, "clone", <<1>>), I(0, "push", <<14, 11>>)>>, 14>>, <<<<I(15, "vecnew", <<>>), I(0, "log", <<15>>)>>, 14>>,
          <<<<Drop(14, "vec"), CallOf(0, "peek", <<1>>), I(16, "vecnew", <<>>), I(15, "vecnew", <<>>), Drop(15, "vec")>>, 16>>},
   z \in {<<>>, <<Drop(14, "vec")>>, <<I(0, "log", <<14>>)>>}, r \in {0, 14}}

\* A body that wraps its parameter in an enum and takes it out again.
Matches ==
  {F(<<1>>, o, [Types EXCEPT ![5] = t, ![6] = t, ![1] = t], <<
     B(<<>>, <<I(3, "variant", <<1>>), Ask(4)>>, Branch(4, 2, 3)),
     B(<<>>, <<I(5, "fieldget", <<3>>)>> \o x, Return(r)),
     B(<<>>, y, Return(0))>>) :
   o \in {{}, {1}}, t \in {"str", "res"},
   x \in {<<>>, <<I(0, "log", <<5>>)>>, <<CallOf(0, "take", <<5>>)>>, <<I(6, "copy", <<5>>), CallOf(0, "take", <<6>>)>>,
          <<I(0, "log", <<5>>), Drop(3, "enum")>>},
   y \in {<<>>, <<Drop(3, "enum")>>}, r \in {0, 5}}

DropBodies == Diamonds \cup Joins \cup Loops \cup Matches
DropAnswers == [1..4 -> BOOLEAN]
=============================================================================
