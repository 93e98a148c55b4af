------------------------------ MODULE Grammar ------------------------------
(***************************************************************************)
(* Expressions as text: the parser (src/parser/expr) and the formatter     *)
(* (src/fmt.rs).  The formatter parses a file, prints the tree, parses     *)
(* what it printed and refuses to write it unless the tree is the same.    *)
(*                                                                         *)
(* A text is a sequence of tokens.  A tree is [k, op, kids]; op is the     *)
(* operator, name or type, as a sequence of tokens.  An absent child is    *)
(* Nil.  Blocks, queries, stores, strings and literals' digits are left    *)
(* out.  The levels of the parser's descent are numbered so that each      *)
(* calls the next.                                                         *)
(***************************************************************************)
EXTENDS Integers, Sequences, FiniteSets

CONSTANTS Sources,   \* the texts that are formatted
          Idents,    \* tokens that are lower-case identifiers
          Uppers,    \* tokens that are capitalised identifiers
          Numbers,   \* tokens that are literals
          Scalars,   \* tokens that name types without arguments
          HofNames   \* methods whose arguments take placeholders

VARIABLE gram

N(k, op, kids) == [k |-> k, op |-> op, kids |-> kids]
Nil == N("nil", <<>>, <<>>)
Void == N("void", <<>>, <<>>)
Ident(name) == N("ident", <<name>>, <<>>)
Bin(op, l, r) == N("bin", <<op>>, <<l, r>>)

Found(e, i) == [ok |-> TRUE, e |-> e, i |-> i]
Error == [ok |-> FALSE, e |-> Nil, i |-> 0]
Peek(t, i) == IF i \in 1..Len(t) THEN t[i] ELSE "eof"

(***************************************************************************)
(* Placeholders.                                                           *)
(***************************************************************************)
Entered == {"bin", "un", "call", "method", "field", "index", "ternary", "as", "ref", "deref", "freeze", "tuple", "pipe"}

RECURSIVE contains_placeholder(_, _)
contains_placeholder(e, kinds) ==
  \/ e.k \in kinds
  \/ e.k \in Entered /\ \E i \in DOMAIN e.kids : contains_placeholder(e.kids[i], kinds)

RECURSIVE replace_placeholder(_)
replace_placeholder(e) ==
  CASE e.k = "ph" -> Ident("__ph")
    [] e.k \in Entered -> [e EXCEPT !.kids = [i \in DOMAIN e.kids |-> replace_placeholder(e.kids[i])]]
    [] OTHER -> e

Lifted(e) == N("lambda", <<"__ph">>, <<replace_placeholder(e)>>)

lift_hof_placeholder_args(name, args) ==
  [i \in DOMAIN args |->
     IF name \in HofNames /\ contains_placeholder(args[i], {"ph"}) /\ args[i].k \notin {"ph", "lambda"}
     THEN Lifted(args[i]) ELSE args[i]]

PipeTarget(e) ==
  IF /\ contains_placeholder(e, {"ph", "iph"}) /\ e.k # "ph"
     /\ ~(e.k = "call" /\ e.kids[1].k = "ident")
  THEN Lifted(e) ELSE e

(***************************************************************************)
(* The parser.  Parse(level, t, i) parses t from position i on.            *)
(***************************************************************************)
OpsAt(level) ==
  CASE level = 2 -> {"or"} [] level = 3 -> {"xor"} [] level = 4 -> {"and"}
    [] level = 8 -> {"|"} [] level = 9 -> {"^"} [] level = 10 -> {"&"}
    [] level = 11 -> {"<<", ">>", ">>>"} [] level = 12 -> {"+", "-"} [] level = 13 -> {"*", "/", "%"}
    [] OTHER -> {}
OpOf(tok) == IF tok = "xor" THEN "^" ELSE tok

RECURSIVE is_pure_operand(_)
is_pure_operand(e) ==
  \/ e.k \in {"num", "void", "ident", "ph", "iph"}
  \/ e.k \in {"bin", "un", "as", "ref", "deref", "field", "index"} /\ \A i \in DOMAIN e.kids : is_pure_operand(e.kids[i])

RECURSIVE Parse(_, _, _)

(* binop!: a left-associative level *)
RECURSIVE LeftAssoc(_, _, _, _)
LeftAssoc(level, t, l, i) ==
  IF Peek(t, i) \notin OpsAt(level) THEN Found(l, i)
  ELSE LET r == Parse(level + 1, t, i + 1)
       IN IF r.ok THEN LeftAssoc(level, t, Bin(OpOf(t[i]), l, r.e), r.i) ELSE Error

RECURSIVE parse_eq(_, _, _)
parse_eq(t, l, i) ==
  LET width == CASE Peek(t, i) \in {"equals", "neq"} -> 1
                 [] Peek(t, i) = "not" /\ Peek(t, i + 1) = "equals" -> 2
                 [] OTHER -> 0
      r == Parse(7, t, i + width)
  IN IF width = 0 THEN Found(l, i)
     ELSE IF r.ok THEN parse_eq(t, Bin(IF Peek(t, i) = "equals" THEN "equals" ELSE "neq", l, r.e), r.i) ELSE Error

(* A chain a < b < c becomes a < b and b < c. *)
RECURSIVE parse_cmp(_, _, _, _)
parse_cmp(t, l, prev, i) ==
  LET r == Parse(8, t, i + 1)
      right == Bin(Peek(t, i), prev, r.e)
  IN CASE Peek(t, i) \in {"<", ">", "<=", ">="} /\ ~r.ok -> Error
       [] Peek(t, i) \in {"<", ">", "<=", ">="} /\ r.ok /\ prev = Nil ->
            parse_cmp(t, Bin(t[i], l, r.e), r.e, r.i)
       [] Peek(t, i) \in {"<", ">", "<=", ">="} /\ r.ok /\ prev # Nil ->
            IF is_pure_operand(prev) THEN parse_cmp(t, Bin("and", l, right), r.e, r.i) ELSE Error
       [] Peek(t, i) = "in" ->
            IF r.ok THEN parse_cmp(t, N("method", <<"contains">>, <<r.e, l>>), prev, r.i) ELSE Error
       [] OTHER -> Found(l, i)

RECURSIVE parse_pipeline(_, _, _)
parse_pipeline(t, l, i) ==
  IF Peek(t, i) # "~" THEN Found(l, i)
  ELSE LET r == Parse(2, t, i + 1)
       IN IF r.ok THEN parse_pipeline(t, N("pipe", <<>>, <<l, PipeTarget(r.e)>>), r.i) ELSE Error

(* The arms `? ok ! nothing !! err` of an expression used as a value. *)
Handler(subject, got) ==
  CASE got[3] # Nil -> N("quaternary", <<>>, <<subject>> \o got)
    [] got[3] = Nil /\ got[1] # Nil /\ got[2] # Nil -> N("ternary", <<>>, <<subject, got[1], got[2]>>)
    [] got = <<Nil, Nil, Nil>> -> subject
    [] OTHER -> Nil
RECURSIVE collect_handler_arms(_, _, _, _)
collect_handler_arms(t, subject, got, i) ==
  LET arm == CASE Peek(t, i) = "?" -> 1 [] Peek(t, i) = "!" -> 2 [] Peek(t, i) = "!!" -> 3 [] OTHER -> 0
      r == Parse(1, t, i + 1)
      inner == IF arm = 2 /\ r.ok /\ Peek(t, r.i) = "?" THEN collect_handler_arms(t, r.e, <<Nil, Nil, Nil>>, r.i) ELSE r
  IN IF arm = 0 \/ (arm # 0 /\ got[IF arm = 0 THEN 1 ELSE arm] # Nil)
     THEN IF Handler(subject, got) = Nil THEN Error ELSE Found(Handler(subject, got), i)
     ELSE IF inner.ok THEN collect_handler_arms(t, subject, [got EXCEPT ![arm] = inner.e], inner.i) ELSE Error

(* A comma-separated list up to the token `close`: e.kids are its items,
   which may be named in arguments and fields. *)
RECURSIVE ParseList(_, _, _, _, _)
ParseList(t, close, names, items, i) ==
  LET named == names /\ Peek(t, i) \in Idents /\ Peek(t, i + 1) = "is"
      r == Parse(0, t, IF named THEN i + 2 ELSE i)
      item == IF named THEN N("named", <<t[i]>>, <<r.e>>) ELSE r.e
  IN IF Peek(t, i) = close THEN Found(N("list", <<>>, items), i + 1)
     ELSE CASE ~r.ok -> Error
            [] r.ok /\ Peek(t, r.i) = close -> Found(N("list", <<>>, Append(items, item)), r.i + 1)
            [] r.ok /\ Peek(t, r.i) = "," -> ParseList(t, close, names, Append(items, item), r.i + 1)
            [] OTHER -> Error

RECURSIVE parse_type(_, _)
parse_type(t, i) ==
  LET arg == parse_type(t, i + 2)
  IN CASE Peek(t, i) \in Scalars -> Found(N("type", <<t[i]>>, <<>>), i + 1)
       [] Peek(t, i) \in Uppers /\ Peek(t, i + 1) # "<" -> Found(N("type", <<t[i]>>, <<>>), i + 1)
       [] Peek(t, i) \in Uppers /\ Peek(t, i + 1) = "<" ->
            IF arg.ok /\ Peek(t, arg.i) = ">"
            THEN Found(N("type", <<t[i], "<">> \o arg.e.op \o <<">">>, <<>>), arg.i + 1) ELSE Error
       [] OTHER -> Error

RECURSIVE parse_postfix(_, _, _)
parse_postfix(t, e, i) ==
  LET tok == Peek(t, i)
      args == ParseList(t, ")", TRUE, <<>>, IF tok = "." THEN i + 3 ELSE i + 1)
      hof == IF tok = "." THEN Peek(t, i + 1) ELSE IF e.k = "ident" THEN e.op[1] ELSE ""
      lifted == lift_hof_placeholder_args(hof, args.e.kids)
      ty == parse_type(t, IF Peek(t, i + 1) = "strict" THEN i + 2 ELSE i + 1)
      sub == Parse(IF tok = "[" THEN 0 ELSE IF tok = "at" THEN 15 ELSE IF tok = "of" THEN 17 ELSE 7, t, i + 1)
      end == Parse(7, t, sub.i + 1)
  IN CASE tok = "." /\ Peek(t, i + 1) \notin Idents -> Error
       [] tok = "." /\ Peek(t, i + 1) \in Idents /\ Peek(t, i + 2) = "(" ->
            IF args.ok THEN parse_postfix(t, N("method", <<t[i + 1]>>, <<e>> \o lifted), args.i) ELSE Error
       [] tok = "." /\ Peek(t, i + 1) \in Idents /\ Peek(t, i + 2) # "(" ->
            parse_postfix(t, N("field", <<t[i + 1]>>, <<e>>), i + 2)
       [] tok = "(" -> IF args.ok THEN parse_postfix(t, N("call", <<>>, <<e>> \o lifted), args.i) ELSE Error
       [] tok = "[" -> IF sub.ok /\ Peek(t, sub.i) = "]"
                       THEN parse_postfix(t, N("index", <<>>, <<e, sub.e>>), sub.i + 1) ELSE Error
       [] tok = "at" -> IF sub.ok THEN parse_postfix(t, N("index", <<>>, <<e, sub.e>>), sub.i) ELSE Error
       [] tok = "as" -> IF ty.ok
                        THEN parse_postfix(t, N(IF Peek(t, i + 1) = "strict" THEN "strict" ELSE "as", ty.e.op, <<e>>), ty.i)
                        ELSE Error
       [] tok = "from" -> IF sub.ok /\ Peek(t, sub.i) = "to" /\ end.ok
                          THEN parse_postfix(t, N("slice", <<>>, <<e, sub.e, end.e>>), end.i) ELSE Error
       [] tok = "of" /\ e.k \in {"ident", "lambda"} ->
            IF sub.ok THEN parse_postfix(t, N("of", <<>>, <<e, sub.e>>), sub.i) ELSE Error
       [] OTHER -> Found(e, i)

(* [body for x in iter to end if cond], after the body *)
ListComp(t, body, i) ==
  LET it == Parse(0, t, i + 3)
      end == IF Peek(t, it.i) = "to" THEN Parse(0, t, it.i + 1) ELSE Found(Nil, it.i)
      cond == IF Peek(t, end.i) = "if" THEN Parse(0, t, end.i + 1) ELSE Found(Nil, end.i)
  IN IF /\ Peek(t, i + 1) \in Idents /\ Peek(t, i + 2) = "in"
        /\ it.ok /\ end.ok /\ cond.ok /\ Peek(t, cond.i) = "]"
     THEN Found(N("comp", <<t[i + 1]>>, <<body, it.e, end.e, cond.e>>), cond.i + 1) ELSE Error

(* Forms that a keyword or `|` starts. *)
KeywordForm(t, i) ==
  LET tok == Peek(t, i)
      one == Parse(0, t, i + 1)
      two == Parse(0, t, one.i + 1)
      body == Parse(0, t, i + 3)
      cap == Parse(0, t, i + 2)
  IN CASE tok = "|" -> IF Peek(t, i + 1) \in Idents /\ Peek(t, i + 2) = "|" /\ body.ok
                       THEN Found(N("lambda", <<t[i + 1]>>, <<body.e>>), body.i) ELSE Error
       [] tok \in {"yield", "receive"} -> IF one.ok THEN Found(N(tok, <<>>, <<one.e>>), one.i) ELSE Error
       [] tok = "send" -> IF one.ok /\ Peek(t, one.i) = "," /\ two.ok
                          THEN Found(N("send", <<>>, <<one.e, two.e>>), two.i) ELSE Error
       [] tok = "channel" -> IF Peek(t, i + 1) # "(" THEN Found(N("channel", <<>>, <<N("num", <<"16">>, <<>>)>>), i + 1)
                             ELSE IF cap.ok /\ Peek(t, cap.i) = ")" THEN Found(N("channel", <<>>, <<cap.e>>), cap.i + 1)
                             ELSE Error

(* A name, or a capitalised name with fields *)
NameForm(t, i) ==
  LET l == ParseList(t, ")", TRUE, <<>>, i + 2)
  IN IF ~(t[i] \in Uppers /\ Peek(t, i + 1) = "(") THEN Found(Ident(t[i]), i + 1)
     ELSE IF l.ok THEN Found(N("struct", <<t[i]>>, l.e.kids), l.i) ELSE Error

(* [...], a list or a comprehension *)
BracketForm(t, i) ==
  LET one == Parse(0, t, i + 1)
      l == ParseList(t, "]", FALSE, <<>>, i + 1)
  IN IF one.ok /\ Peek(t, one.i) = "for" THEN ListComp(t, one.e, one.i)
     ELSE IF l.ok THEN Found(N("call", <<>>, <<Ident("vector")>> \o l.e.kids), l.i) ELSE Error

(* (...), nothing, a tuple or an expression *)
ParenForm(t, i) ==
  LET one == Parse(0, t, i + 1)
      l == ParseList(t, ")", FALSE, <<>>, i + 1)
  IN CASE Peek(t, i + 1) = ")" -> Found(Void, i + 2)
       [] Peek(t, i + 1) # ")" /\ one.ok /\ Peek(t, one.i) = ")" -> Found(one.e, one.i + 1)
       [] Peek(t, i + 1) # ")" /\ one.ok /\ Peek(t, one.i) = "," /\ l.ok -> Found(N("tuple", <<>>, l.e.kids), l.i)
       [] OTHER -> Error

parse_primary(t, i) ==
  LET tok == Peek(t, i)
      of == Parse(17, t, i + 1)
  IN CASE tok \in Numbers -> Found(N("num", <<tok>>, <<>>), i + 1)
       [] tok = "$" -> Found(N("ph", <<>>, <<>>), i + 1)
       [] tok = "$$" -> Found(N("iph", <<>>, <<>>), i + 1)
       [] tok = "(" -> ParenForm(t, i)
       [] tok = "[" -> BracketForm(t, i)
       [] tok = "%" -> IF of.ok THEN Found(N("ref", <<>>, <<of.e>>), of.i) ELSE Error
       [] tok \in {"|", "yield", "receive", "send", "channel"} -> KeywordForm(t, i)
       [] tok \in Idents \cup Uppers -> NameForm(t, i)
       [] OTHER -> Error

Unary(tok) == CASE tok \in {"-", "not", "~"} -> N("un", <<tok>>, <<>>) [] tok = "@" -> N("deref", <<>>, <<>>)
                [] tok = "freeze" -> N("freeze", <<>>, <<>>) [] OTHER -> Nil
parse_unary(t, i) ==
  LET u == Unary(Peek(t, i))
      r == Parse(15, t, i + 1)
  IN IF u = Nil THEN Parse(16, t, i) ELSE IF r.ok THEN Found([u EXCEPT !.kids = <<r.e>>], r.i) ELSE Error

parse_not(t, i) ==
  LET r == Parse(5, t, i + 1)
  IN IF Peek(t, i) = "not" /\ Peek(t, i + 1) # "equals"
     THEN IF r.ok THEN Found(N("un", <<"not">>, <<r.e>>), r.i) ELSE Error
     ELSE LET l == Parse(7, t, i) IN IF l.ok THEN parse_eq(t, l.e, l.i) ELSE Error

parse_exp(t, i) ==
  LET l == Parse(15, t, i)
      r == Parse(14, t, l.i + 1)
  IN CASE ~l.ok -> Error
       [] l.ok /\ Peek(t, l.i) # "pow" -> l
       [] OTHER -> IF r.ok THEN Found(Bin("pow", l.e, r.e), r.i) ELSE Error

Parse(level, t, i) ==
  LET l == Parse(level + 1, t, i)
  IN CASE level = 5 -> parse_not(t, i)
       [] level = 14 -> parse_exp(t, i)
       [] level = 15 -> parse_unary(t, i)
       [] level = 17 -> parse_primary(t, i)
       [] level \notin {5, 14, 15, 17} /\ ~l.ok -> Error
       [] level = 0 /\ l.ok -> collect_handler_arms(t, l.e, <<Nil, Nil, Nil>>, l.i)
       [] level = 1 /\ l.ok -> parse_pipeline(t, l.e, l.i)
       [] level = 7 /\ l.ok -> parse_cmp(t, l.e, Nil, l.i)
       [] level = 16 /\ l.ok -> parse_postfix(t, l.e, l.i)
       [] level \in {2, 3, 4} \cup 8..13 /\ l.ok -> LeftAssoc(level, t, l.e, l.i)

parse_expr(t) == LET Whole(r) == IF r.ok /\ r.i = Len(t) + 1 THEN r ELSE Error IN Whole(Parse(0, t, 1))

(***************************************************************************)
(* The formatter.                                                          *)
(***************************************************************************)
binary_precedence(op) ==
  CASE op = "or" -> 2 [] op = "and" -> 4 [] op \in {"equals", "neq"} -> 6 [] op \in {"<", "<=", ">", ">="} -> 7
    [] op = "|" -> 8 [] op = "^" -> 9 [] op = "&" -> 10 [] op \in {"<<", ">>", ">>>"} -> 11
    [] op \in {"+", "-"} -> 12 [] op \in {"*", "/", "%"} -> 13 [] op = "pow" -> 14

expression_precedence(e) ==
  CASE e.k = "pipe" -> 1
    [] e.k = "bin" -> binary_precedence(e.op[1])
    [] e.k = "un" -> IF e.op[1] = "not" THEN 5 ELSE 15
    [] e.k \in {"deref", "freeze"} -> 15
    [] e.k \in {"call", "method", "field", "index", "as", "strict"} -> 16
    [] e.k \in {"num", "void", "ident", "tuple", "struct", "ph", "iph", "comp", "channel"} -> 17
    [] OTHER -> 0

\* The least precedence the left operand of an operator is printed bare at.
\* Mutant: a comparison is printed like any left-associative operator.
LeftMinimumAssoc(op) == binary_precedence(op) + (IF op = "pow" THEN 1 ELSE 0)
LeftMinimum(op) == binary_precedence(op) + (IF op \in {"pow", "<", "<=", ">", ">="} THEN 1 ELSE 0)
RightMinimum(op) == binary_precedence(op) + (IF op = "pow" THEN 0 ELSE 1)

RECURSIVE format_expr(_)
format_operand(e, minimum) ==
  IF expression_precedence(e) < minimum THEN <<"(">> \o format_expr(e) \o <<")">> ELSE format_expr(e)

RECURSIVE CommaList(_)
CommaList(es) ==
  CASE es = <<>> -> <<>>
    [] Len(es) = 1 -> format_expr(es[1])
    [] OTHER -> format_expr(es[1]) \o <<",">> \o CommaList(Tail(es))

Arm(mark, e) == IF e = Nil THEN <<>> ELSE <<mark>> \o format_operand(e, 1)

(* Forms that are printed without parentheses of their own *)
format_form(e) ==
  LET kid(i) == format_expr(e.kids[i])
      option(mark, x) == IF x = Nil THEN <<>> ELSE <<mark>> \o format_expr(x)
  IN CASE e.k = "pipe" -> format_operand(e.kids[1], 1) \o <<"~">> \o format_operand(e.kids[2], 2)
       [] e.k = "lambda" -> <<"|">> \o e.op \o <<"|">> \o kid(1)
       [] e.k = "ph" -> <<"$">>
       [] e.k = "iph" -> <<"$$">>
       [] e.k = "ref" -> <<"%">> \o format_operand(e.kids[1], 17)
       [] e.k = "deref" -> <<"@">> \o format_operand(e.kids[1], 15)
       [] e.k = "freeze" -> <<"freeze">> \o format_operand(e.kids[1], 15)
       [] e.k = "comp" -> <<"[">> \o kid(1) \o <<"for">> \o e.op \o <<"in">> \o kid(2)
                          \o option("to", e.kids[3]) \o option("if", e.kids[4]) \o <<"]">>
       [] e.k = "strict" -> format_operand(e.kids[1], 16) \o <<"as", "strict">> \o e.op
       [] e.k = "slice" -> format_operand(e.kids[1], 16) \o <<"from">> \o format_operand(e.kids[2], 7)
                           \o <<"to">> \o format_operand(e.kids[3], 7)
       [] e.k = "named" -> e.op \o <<"is">> \o kid(1)
       [] e.k \in {"yield", "receive"} -> <<e.k>> \o kid(1)
       [] e.k = "send" -> <<"send">> \o kid(1) \o <<",">> \o kid(2)
       [] e.k = "channel" -> <<"channel", "(">> \o kid(1) \o <<")">>
       [] e.k = "of" -> kid(1) \o <<"of">> \o format_operand(e.kids[2], 17)

format_expr(e) ==
  LET recv == format_operand(e.kids[1], 16)
      subject == format_operand(e.kids[1], 1)
      args == <<"(">> \o CommaList(Tail(e.kids)) \o <<")">>
      all == <<"(">> \o CommaList(e.kids) \o <<")">>
  IN CASE e.k \in {"num", "ident"} -> e.op
       [] e.k = "void" -> <<"(", ")">>
       [] e.k = "bin" -> format_operand(e.kids[1], LeftMinimum(e.op[1])) \o e.op
                         \o format_operand(e.kids[2], RightMinimum(e.op[1]))
       [] e.k = "un" -> e.op \o format_operand(e.kids[1], IF e.op[1] = "not" THEN 5 ELSE 15)
       [] e.k = "call" -> recv \o args
       [] e.k = "method" -> recv \o <<".">> \o e.op \o args
       [] e.k = "field" -> recv \o <<".">> \o e.op
       [] e.k = "index" -> recv \o <<"[">> \o format_expr(e.kids[2]) \o <<"]">>
       [] e.k = "as" -> recv \o <<"as">> \o e.op
       [] e.k = "ternary" ->
            CASE e.kids[3] = Void -> subject \o Arm("?", e.kids[2])
              [] e.kids[3] # Void /\ e.kids[2] = Void -> subject \o Arm("!", e.kids[3])
              [] OTHER -> subject \o Arm("?", e.kids[2]) \o Arm("!", e.kids[3])
       [] e.k = "quaternary" -> subject \o Arm("?", e.kids[2]) \o Arm("!", e.kids[3]) \o Arm("!!", e.kids[4])
       [] e.k = "tuple" -> IF Len(e.kids) = 1 THEN <<"(">> \o format_expr(e.kids[1]) \o <<",", ")">> ELSE all
       [] e.k = "struct" -> e.op \o all
       [] OTHER -> format_form(e)

(***************************************************************************)
(* format_source: a file is read, printed, and what was printed verified.  *)
(***************************************************************************)
GrammarInit == \E s \in Sources : gram = [at |-> "source", src |-> s, tree |-> Nil, out |-> <<>>]

Read ==
  /\ gram.at = "source"
  /\ LET Parsed(r) == [gram EXCEPT !.at = IF r.ok THEN "read" ELSE "rejected", !.tree = r.e]
     IN gram' = Parsed(parse_expr(gram.src))
Format ==
  /\ gram.at = "read"
  /\ gram' = [gram EXCEPT !.at = "printed", !.out = format_expr(gram.tree)]
verify_preservation ==
  /\ gram.at = "printed"
  /\ LET Same(r) == r.ok /\ r.e = gram.tree
     IN gram' = [gram EXCEPT !.at = IF Same(parse_expr(gram.out)) THEN "written" ELSE "refused"]

GrammarNext == Read \/ Format \/ verify_preservation
GrammarSpec == GrammarInit /\ [][GrammarNext]_gram

(* The trees that have no text the formatter would print: a call of a
   field's value, which reads as a method call; a call of a capitalised
   name, which reads as a literal; a cast to a type that takes arguments,
   left of `<`; a lambda applied with `of`; a handler with an empty arm. *)
RECURSIVE EndsInCast(_)
EndsInCast(e) ==
  \/ e.k \in {"as", "strict"} /\ e.op[Len(e.op)] \in Uppers
  \/ e.k \in {"bin", "un", "deref", "freeze"} /\ EndsInCast(e.kids[Len(e.kids)])
RECURSIVE Unprintable(_)
Unprintable(e) ==
  \/ e.k = "call" /\ (e.kids[1].k = "field" \/ (e.kids[1].k = "ident" /\ e.kids[1].op[1] \in Uppers))
  \/ e.k = "ternary" /\ Void \in {e.kids[2], e.kids[3]}
  \/ e.k = "of" /\ e.kids[1].k = "lambda"
  \/ e.k = "bin" /\ e.op = <<"<">> /\ EndsInCast(e.kids[1])
  \/ \E i \in DOMAIN e.kids : Unprintable(e.kids[i])

(* What the parser accepts, the formatter can print, but for these: the
   parentheses it leaves out, the chains of comparisons and the placeholders
   the parser rewrites never make it refuse its own output. *)
Printable == gram.at = "refused" => Unprintable(gram.tree)
============================================================================
