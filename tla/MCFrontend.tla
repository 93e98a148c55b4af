---------------------------- MODULE MCFrontend -----------------------------
(***************************************************************************)
(* What happens to a project before its bodies are lowered, one stage at a *)
(* time: the packages are fetched, the files read and formatted, the names *)
(* made one list, the types solved and the capabilities added up.  A       *)
(* behaviour runs one of the stages, on one of the inputs below; the other *)
(* stages are idle.                                                        *)
(***************************************************************************)
EXTENDS Packages, Grammar, Names, Infer, Capabilities

(***************************************************************************)
(* Packages 1, 2 and 3: 1 requires 2, in a newer revision at a newer       *)
(* version, and 2 requires 3.                                              *)
(***************************************************************************)

V10 == <<1, 0>>
V11 == <<1, 1>>
V20 == <<2, 0>>
D(n, v) == [name |-> n, version |-> v]
MCDirs == {<<1, V10>>, <<2, V10>>, <<2, V20>>, <<3, V10>>}
MCManifest ==
  [dr \in MCDirs \X {1, 2} |->
     [requires |-> CASE dr[1][1] = 1 /\ dr[2] = 1 -> <<D(2, V10)>>
                     [] dr[1][1] = 1 /\ dr[2] = 2 -> <<D(2, V20)>>
                     [] dr[1] = <<2, V10>> -> <<D(3, V10)>>
                     [] dr[1] = <<2, V20>> /\ dr[2] = 2 -> <<D(1, V10)>>
                     [] OTHER -> <<>>,
      internal |-> dr[1][1] = 3 \/ dr = <<<<2, V10>>, 2>>]]
MCRequirements == {<<D(1, V10)>>, <<D(3, V10), D(2, V10)>>, <<D(2, V20), D(1, V10)>>}
MCUsePaths == {<<1, 2>>, <<2, 3>>, <<2>>}
MCUnpublished == {{}, {<<2, V10>>}}

(***************************************************************************)
(* Every construct around every other, written with all parentheses, and   *)
(* with none.                                                              *)
(***************************************************************************)

BinOps == {"or", "xor", "and", "equals", "<", ">=", "|", "&", "<<", "+", "-", "*", "pow", "~", "in"}
PreOps == {"-", "not", "~", "@", "freeze", "yield", "receive"}
Atoms == {<<"a">>, <<"$">>, <<"(", ")">>}
Name == <<"a">>
Paren(s) == <<"(">> \o s \o <<")">>
(* The constructs around a part x. *)
Around(x) ==
  {x \o <<op>> \o Name : op \in BinOps} \cup {Name \o <<op>> \o x : op \in BinOps} \cup {<<op>> \o x : op \in PreOps}
  \cup {x \o <<".", "f">>, x \o <<".", "map", "(">> \o Name \o <<")">>, Name \o <<".", "map">> \o Paren(x), x \o Paren(Name),
        <<"f">> \o Paren(x), x \o <<"[">> \o Name \o <<"]">>, Name \o <<"[">> \o x \o <<"]">>, Name \o <<"at">> \o x,
        x \o <<"as", "int">>, x \o <<"as", "strict", "int">>, x \o <<"as", "T">>, x \o <<"from", "1", "to">> \o Name, Name \o <<"from">> \o x \o <<"to", "1">>,
        Name \o <<"from", "1", "to">> \o x, <<"f", "of">> \o x, Paren(<<"|", "a", "|">> \o x) \o <<"of", "1">>, <<"%">> \o x, <<"|", "a", "|">> \o x,
        x \o <<"?">> \o Name \o <<"!", "1">>, Name \o <<"?">> \o x \o <<"!", "1">>, Name \o <<"?", "1", "!">> \o x,
        x \o <<"!!">> \o Name, Name \o <<"?">> \o x \o <<"!!", "1">>, Name \o <<"!">> \o x \o <<"!!", "1">>, Name \o <<"!!">> \o x,
        <<"(">> \o x \o <<",", ")">>, <<"(">> \o x \o <<",", "1", ")">>, <<"[">> \o x \o <<",", "1", "]">>,
        <<"P", "(", "f", "is">> \o x \o <<")">>, <<"[">> \o x \o <<"for", "a", "in", "f", "to", "1", "]">>,
        <<"[", "1", "for", "a", "in">> \o x \o <<"if">> \o Name \o <<"]">>, <<"send">> \o Name \o <<",">> \o x,
        <<"f", "(", "a", "is">> \o x \o <<",", "1", ")">>, <<"channel", "(">> \o x \o <<")">>}
Depth1 == UNION {Around(x) : x \in Atoms}
Depth2 == UNION {Around(Paren(x)) \cup Around(x) : x \in Depth1}
MCSources == Depth1 \cup Depth2 \cup {Paren(<<"P">>) \o Paren(Name)}

(***************************************************************************)
(* A root file and two modules: m declares a function f and a constant c,  *)
(* the root a function f, and a type T is declared by one or more of them. *)
(* The body of m's f binds and uses f, c, x and T in every construct.      *)
(***************************************************************************)

nf == <<"f">>
nc == <<"c">>
nx == <<"x">>
nT == <<"T">>

NameIdent(n) == Node("ident", <<n>>, <<>>)
TypeOf(n) == Node("type", <<n>>, <<>>)
StructLit(n, e) == Node("struct", <<n>>, <<e>>)
Block(ts) == Node("block", <<>>, ts)
PIdent(n) == Node("pident", <<n>>, <<>>)

NameLeaves == {NameIdent(nf), NameIdent(nc), NameIdent(nx), TypeOf(nT), StructLit(nf, NameIdent(nx)), StructLit(nT, NameIdent(nc))}
NameExprs == {Node("op", <<>>, <<e, NameIdent(nf)>>) : e \in NameLeaves}
      \cup {Node("lambda", <<n>>, <<Block(<<e>>)>>) : n \in {nf, nx}, e \in NameLeaves}
      \cup {Node("comp", <<n>>, <<NameIdent(nf), e, NameIdent(nc)>>) : n \in {nf, nc}, e \in NameLeaves}
      \cup {Node("arm", <<n>>, <<NameIdent(nf), Block(<<e>>)>>) : n \in {nf, nx}, e \in NameLeaves}
Pats == {PIdent(nf), PIdent(nx), Node("pctor", <<nT>>, <<PIdent(nf)>>)}
NameStmts == {Node("bind", <<n>>, <<e>>) : n \in {nf, nx}, e \in NameLeaves \cup {Node("lambda", <<nx>>, <<NameIdent(nf)>>)}}
         \cup {Node("for", <<n>>, <<NameIdent(nf), Block(<<e>>)>>) : n \in {nf, nx}, e \in NameLeaves}
         \cup {Node("match", <<>>, <<NameIdent(nf), p, NameIdent(nc), Block(<<e>>)>>) : p \in Pats, e \in NameLeaves}
         \cup {Node("together", <<nx>>, <<Block(<<Node("bind", <<n>>, <<NameIdent(nf)>>), e>>), NameIdent(nc)>>) : n \in {nf, nx}, e \in NameLeaves}
         \cup {Node("filter", <<>>, <<NameIdent(nc)>>)} \cup {Block(<<Node("bind", <<nf>>, <<e>>)>>) : e \in NameLeaves}
NameBodies == {Block(<<s, e>>) : s \in NameStmts \cup NameExprs, e \in NameLeaves}

Decl(file, k, n, tree) == [file |-> file, k |-> k, name |-> n, tree |-> tree, id |-> <<file, n>>]
Types(file, in) == IF file \in in THEN <<Decl(file, "type", nT, Block(<<TypeOf(nT)>>))>> ELSE <<>>

Program(params, body, in, only) ==
  [files |-> [file \in {"root", "m", "n"} |->
                CASE file = "root" -> <<Decl("root", "fn", nf, Node("fn", <<>>, <<Block(<<NameIdent(nf)>>)>>))>> \o Types("root", in)
                  [] file = "m" -> <<Decl("m", "fn", nf, Node("fn", params, <<body, NameIdent(nc)>>)),
                                     Decl("m", "const", nc, NameIdent(nf))>> \o Types("m", in)
                  [] file = "n" -> <<Decl("n", "fn", nc, Node("fn", <<>>, <<Block(<<NameIdent(nc)>>)>>))>> \o Types("n", in)],
   uses |-> [file \in {"root", "m", "n"} |->
               CASE file = "root" -> <<[file |-> "m", only |-> only], [file |-> "n", only |-> {}]>>
                 [] file = "m" -> <<[file |-> "n", only |-> {}]>>
                 [] file = "n" -> <<[file |-> "m", only |-> {}]>>]]

MCProjects == {Program(ps, b, in, only) : ps \in {<<>>, <<nf>>, <<nx>>}, b \in NameBodies,
                                          in \in {{"m"}, {"root", "n"}, {"m", "n"}}, only \in {{}, {nf, nc, nT}}}

(***************************************************************************)
(* Bodies over three variables: a generic Box (1) and its instance over    *)
(* i64 (2), two declared types (3, 4) that share a field and two methods,  *)
(* of which one is declared by a trait both implement.                     *)
(***************************************************************************)

I64 == Base("i64")
F64 == Base("f64")
Str == Base("str")
v1 == Var(1)
v2 == Var(2)
v3 == Var(3)

MCMonoOrigin == 2 :> [base |-> 1, args |-> <<I64>>]
MCImpls == (<<"struct", 3>> :> {"Shape"}) @@ (<<"struct", 4>> :> {"Shape"}) @@ (<<"i64", 0>> :> {"Show"})
MCEquations ==
  {<<v1, v2>>, <<v2, v3>>, <<v1, I64>>, <<v2, Str>>, <<v3, F64>>, <<v1, Vec(v2)>>, <<Vec(v1), v3>>, <<v1, MapOf(Str, v3)>>,
   <<v2, Vec(v2)>>, <<Struct(1, <<v1>>), v2>>, <<v2, Struct(2, <<>>)>>, <<v3, Struct(4, <<>>)>>,
   <<Fn(<<v1>>, v2), Fn(<<v3>>, I64)>>}
MCDemands ==
  {[ty |-> v1, c |-> TypeConstraint("add", {})], [ty |-> v2, c |-> TypeConstraint("num", {})],
   [ty |-> v1, c |-> TypeConstraint("float", {})], [ty |-> v3, c |-> TypeConstraint("int", {})],
   [ty |-> v1, c |-> TypeConstraint("trait", {"Show"})]}
MCMethodCalls ==
  {[recv |-> v1, m |-> "length", args |-> <<>>], [recv |-> v1, m |-> "upper", args |-> <<>>],
   [recv |-> v1, m |-> "push", args |-> <<v2>>], [recv |-> v1, m |-> "get", args |-> <<v2>>],
   [recv |-> v1, m |-> "set", args |-> <<v2, v3>>], [recv |-> v1, m |-> "sqrt", args |-> <<>>],
   [recv |-> v3, m |-> "area", args |-> <<>>], [recv |-> v3, m |-> "radius", args |-> <<>>],
   [recv |-> v1, m |-> "to_string", args |-> <<>>]}
MCFieldReads == {[recv |-> v3, field |-> "id"], [recv |-> v3, field |-> "side"], [recv |-> v1, field |-> "id"],
                 [recv |-> v1, field |-> "r"]}
MCFields == (3 :> [r |-> F64, id |-> I64]) @@ (4 :> [side |-> I64, id |-> Str])
MCMethods ==
  {[on |-> 3, m |-> "area", params |-> <<>>, ret |-> F64], [on |-> 4, m |-> "area", params |-> <<>>, ret |-> I64],
   [on |-> 3, m |-> "radius", params |-> <<>>, ret |-> F64]}
MCTraitsOf == [m \in {"length", "upper", "get", "set", "push", "sqrt", "radius", "to_string"} |-> {}] @@ ("area" :> {"Shape"})
MCGround == {I64, F64, Str, Vec(I64), Vec(Str), Vec(F64), Struct(1, <<I64>>), Struct(1, <<Str>>), Struct(3, <<>>),
             Struct(4, <<>>)}
MCSignature == Fn(<<v1>>, v2)
MCCallArgs == {I64, Str, v3}
MCEnv == {v3}

(***************************************************************************)
(* Programs for Capabilities: main calls g, g calls h, and h may call back;*)
(* main or g is annotated.  The other callables are reached through hooks, *)
(* cascades, drops, messages, blocks and initialisers.                     *)
(***************************************************************************)

Rel(segs) == Path(FALSE, segs)
Ext(x, path, mode) == Op("extern", x, path, mode)
Simple(op, x) == Op(op, x, AnyScope, "")

Leaves == {Ext("fopen", Rel(<<"out", "log">>), "w"), Ext("fopen", Rel(<<".", "out", "..", "in">>), "r"),
           Ext("fopen", Rel(<<"out", "..", "..", "out">>), "w"), Ext("fopen", AnyScope, "r"),
           Ext("fs.read", Path(TRUE, <<"out">>), ""), Ext("net.client", AnyScope, ""),
           Ext("fopen", Rel(<<"out", "log">>), "r+"), Ext("unknown", AnyScope, ""), Ext("benign", AnyScope, "")}
Reaches == {Simple("insert", "s"), Simple("delete", "s"), Simple("query", "t"), Simple("drop", "T"),
            Simple("drop", "U"), Simple("gget", "v"), Simple("spawn", "a"), Simple("send", "a.on"),
            Simple("block", "b"), Simple("log", "U"), Simple("method", "none"),
            Simple("indirect", ""), Simple("ref", "h")}
CallBodies == {<<o>> : o \in Leaves \cup Reaches} \cup {<<Simple("call", "g"), o>> : o \in Leaves \cup Reaches}

NeedSets ==
  {{}, {Cap("fs.write", Rel(<<"out">>)), Cap("fs.read", Rel(<<"in">>)), Cap("state", AnyScope)},
   {Cap("fs.read", AnyScope), Cap("fs.write", AnyScope), Cap("net.client", AnyScope), Cap("state", Rel(<<"v">>))},
   {Cap("fs.read", Rel(<<".", "s">>)), Cap("fs.write", Rel(<<"s">>)), Cap("net.client", AnyScope)},
   {Cap("fs.read", Rel(<<".">>)), Cap("fs.write", Rel(<<"out">>))}}

\* Through every side entrance (hooks, drops, messages, initialisers, blocks) runs `via`.
MCPrograms ==
  {[order |-> <<"main", "g", "h", "hook", "T_drop", "U_display", "a.on">>,
    body |-> [x \in {"main", "g", "h", "hook", "T_drop", "U_display", "a.on"} |->
                CASE x = "main" -> <<Simple("call", "g")>>
                  [] x = "g" -> bg
                  [] x = "h" -> bh
                  [] OTHER -> <<via>>],
    needs |-> [x \in a |-> n],
    stores |-> [x \in {"s", "t"} |->
                  [hooks |-> [e \in {"insert", "delete"} |-> IF <<x, e>> \in {<<"t", "delete">>, <<"s", "insert">>} THEN {"hook"} ELSE {}],
                   cascade |-> IF x = "s" THEN {"t"} ELSE {}]],
    actors |-> [x \in {"a"} |-> {"a.on"}],
    blocks |-> [x \in {"b"} |-> <<via>>],
    globals |-> [x \in {"v"} |-> <<via>>], inits |-> <<Simple("init", "v")>>,
    types |-> [x \in {"T", "U"} |-> [resource |-> x = "T", drop |-> "T_drop", display |-> "U_display",
                                     fields |-> IF x = "U" THEN {"T"} ELSE {"U"}]]] :
   a \in {{"main"}, {"g"}}, bg \in {<<Simple("call", "h")>>} \cup {<<o, Simple("call", "h")>> : o \in Reaches},
   bh \in CallBodies, via \in {Ext("net.client", AnyScope, ""), Ext("fopen", Rel(<<"out", "log">>), "w")}, n \in NeedSets}
MCSegments == {"", ".", "..", "out", "in", "log", "s", "t", "v", "home", "me"}
MCCwd == <<"home", "me">>
MCAnywhere == {<<>>}

-----------------------------------------------------------------------------
NoPackages == pkg = [count |-> MaxCommands, done |-> Idle]
NoSource == gram = [at |-> "idle"]
NoNames == names = [phase |-> "idle"]
NoTypes == inf = [phase |-> "idle"]
NoNeeds == cap = [stage |-> "idle"]

Init == \/ PackagesInit /\ NoSource /\ NoNames /\ NoTypes /\ NoNeeds
        \/ GrammarInit /\ NoPackages /\ NoNames /\ NoTypes /\ NoNeeds
        \/ NamesInit /\ NoPackages /\ NoSource /\ NoTypes /\ NoNeeds
        \/ InferInit /\ NoPackages /\ NoSource /\ NoNames /\ NoNeeds
        \/ CapabilitiesInit /\ NoPackages /\ NoSource /\ NoNames /\ NoTypes

Next == \/ PackagesNext /\ UNCHANGED <<gram, names, inf, cap>>
        \/ GrammarNext /\ UNCHANGED <<pkg, names, inf, cap>>
        \/ NamesNext /\ UNCHANGED <<pkg, gram, inf, cap>>
        \/ InferNext /\ UNCHANGED <<pkg, gram, names, cap>>
        \/ CapabilitiesNext /\ UNCHANGED <<pkg, gram, names, inf>>

Spec == Init /\ [][Next]_<<pkg, gram, names, inf, cap>>
=============================================================================
