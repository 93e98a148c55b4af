---------------------------- MODULE MCStructures ----------------------------
(***************************************************************************)
(* The structures under a running program, one part per behaviour: the     *)
(* deque of a worker with its thieves, nested scopes with a child and an   *)
(* actor, an actor with its messages, a supervisor of two children, the    *)
(* writer gate, the completion latch of an actor, the values of the        *)
(* library, the table behind a map, or a calculation.                      *)
(* Strings have one to three bytes with an inline limit of two, vectors    *)
(* grow from two, a table has four buckets, with colliding hashes, words   *)
(* have four bits, and a deque starts with one slot.                       *)
(***************************************************************************)
EXTENDS Deque, Scope, Actor, Supervisor, Waiting, Library, HashMap, Arithmetic, TLC

\* Coroutines are interchangeable, and so are the threads that run them.
Symmetry == Permutations(Item) \cup Permutations(Thieves)

\* A word before the value that is dropped, a word between two of them, a word alone.
MCHandlers == << <<"int", "own">>, <<"own", "int", "own">>, <<"int">> >>

MCHash(k) == CASE k = 1 -> 7 [] k = 2 -> 15 [] k = 3 -> 0 [] k = 4 -> 3
MCTexts == {<<97>>, <<98, 99>>}
MCSamples ==
  LET e == EmptyHeap
      s1 == Built(e, <<98, 99>>)
      s2 == Built(s1.h, <<97, 98>>)
      v1 == vec_push_raw_with_floor(vec_alloc_empty(s2.h).h, vec_alloc_empty(s2.h).v, s1.v)
      v2 == vec_push_raw_with_floor(v1.h, v1.v, s2.v)
      s3 == Built(v2.h, <<97, 98, 99>>)
      n1 == vec_alloc_empty(e)
      n2 == vec_push_raw_with_floor(n1.h, n1.v, Scalar(3))
      b1 == Malloc(s2.h)
      w  == vec_alloc_empty(v2.h)
      w1 == vec_push_raw_with_floor(w.h, w.v, v2.v)
  IN  { [h |-> s2.h, vs |-> <<Tuple(<<s1.v, Scalar(1), s2.v>>)>>],
        [h |-> v2.h, vs |-> <<Struct(<<Scalar(1), v2.v>>)>>],
        [h |-> b1.h, vs |-> <<Enum(1, <<s1.v, Box(b1.n, Enum(1, <<s2.v>>))>>)>>],
        [h |-> w1.h, vs |-> <<w1.v>>], [h |-> s3.h, vs |-> <<v2.v, s3.v>>],
        [h |-> n2.h, vs |-> <<[n2.v EXCEPT !.len = 3, !.cap = 4, !.data = <<Scalar(3), Scalar(1), Scalar(2), Junk>>]>>],
        [h |-> [s2.h EXCEPT !.refs = 1], vs |-> <<Tuple(<<Chan, s1.v, s2.v>>)>>],
        [h |-> Malloc(Malloc(s2.h).h).h,
         vs |-> <<[k |-> "map", hdr |-> Malloc(s2.h).n, buf |-> Malloc(Malloc(s2.h).h).n,
                entries |-> {[key |-> s1.v, val |-> s2.v]}]>>] }
MCBuffers == 1..60
Byte == {97, 160, 32}
Upto(n) == UNION {[1..m -> Byte] : m \in 0..n}
MCTextCases == {<<s, p, r>> : s \in Upto(4), p \in Upto(2), r \in {<<>>, <<97, 160>>}}
-----------------------------------------------------------------------------
S3 == [bits |-> 3, signed |-> TRUE]
U3 == [bits |-> 3, signed |-> FALSE]
MCTypes == {S3, U3, [bits |-> 4, signed |-> TRUE], [bits |-> 2, signed |-> TRUE]}
C(d, n, ty) == [d |-> d, ty |-> ty, k |-> "const", n |-> n]
B(d, op, l, r, ty) == [d |-> d, ty |-> ty, k |-> "bin", op |-> op, l |-> l, r |-> r]
Q(d, op, l, r, ty) == [d |-> d, ty |-> BoolTy, k |-> "cmp", op |-> op, l |-> l, r |-> r, cty |-> ty]
\* values: 1 start, 2 step, 3 limit (a parameter or a constant), 4 the counter
LoopFn(ty, start, step, limit, cmp, swap, upd, extra) ==
  [params |-> IF limit = 9 THEN [v \in {3} |-> ty] ELSE [v \in {} |-> ty],
   blocks |-> <<
     [phis |-> <<>>, insts |-> <<C(1, start, ty), C(2, step, ty)>> \o (IF limit = 9 THEN <<>> ELSE <<C(3, limit, ty)>>),
      term |-> [k |-> "goto", to |-> 2]],
     [phis |-> <<[d |-> 4, ty |-> ty, inc |-> {<<1, 1>>, <<3, 7>>}]>>,
      insts |-> <<Q(5, cmp, 4, 3, ty), [d |-> 8, ty |-> BoolTy, k |-> "not", v |-> 5]>>,
      term |-> [k |-> "branch", c |-> IF swap THEN 8 ELSE 5, t |-> IF swap THEN 4 ELSE 3, e |-> IF swap THEN 3 ELSE 4]],
     [phis |-> <<>>, insts |-> <<B(6, extra, 4, 2, ty), B(7, upd, 4, 2, ty)>>, term |-> [k |-> "goto", to |-> 2]],
     [phis |-> <<>>, insts |-> <<[d |-> 9, ty |-> ty, k |-> "neg", v |-> 4], B(10, "sub", 3, 4, ty)>>, term |-> [k |-> "ret"]] >>]
\* parameters 1 and 2 under two tests, then a join
IfFn(ty, c1, c2, op) ==
  [params |-> [v \in {1, 2} |-> ty],
   blocks |-> <<
     [phis |-> <<>>, insts |-> <<C(3, 1, ty), Q(4, c1, 1, 3, ty)>>, term |-> [k |-> "branch", c |-> 4, t |-> 2, e |-> 5]],
     [phis |-> <<>>, insts |-> <<Q(5, c2, 2, 1, ty)>>, term |-> [k |-> "branch", c |-> 5, t |-> 3, e |-> 4]],
     [phis |-> <<>>, insts |-> <<B(6, op, 2, 1, ty)>>, term |-> [k |-> "goto", to |-> 6]],
     [phis |-> <<>>, insts |-> <<B(7, "sub", 1, 2, ty)>>, term |-> [k |-> "goto", to |-> 6]],
     [phis |-> <<>>, insts |-> <<B(8, "mod", 1, 3, ty)>>, term |-> [k |-> "goto", to |-> 6]],
     [phis |-> <<[d |-> 9, ty |-> ty, inc |-> {<<3, 6>>, <<4, 7>>, <<5, 8>>}]>>,
      insts |-> <<B(10, "add", 9, 3, ty)>>, term |-> [k |-> "ret"]] >>]
\* a length, its narrowing under a test, and an operation on the narrowed value
W4 == [bits |-> 4, signed |-> TRUE]
OpFn(op, c) ==
  [params |-> [v \in {1} |-> S3],
   blocks |-> <<
     [phis |-> <<>>, insts |-> <<[d |-> 2, ty |-> W4, k |-> "len"], C(3, 2, W4), Q(4, c, 2, 3, W4)>>,
      term |-> [k |-> "branch", c |-> 4, t |-> 2, e |-> 3]],
     [phis |-> <<>>, insts |-> <<[d |-> 5, ty |-> S3, k |-> "cast", v |-> 2], B(6, op, 1, 5, S3), B(7, "add", 6, 5, S3),
                                 B(8, op, 5, 5, S3), B(9, "add", 8, 8, S3)>>, term |-> [k |-> "ret"]],
     [phis |-> <<>>, insts |-> <<[d |-> 10, ty |-> W4, k |-> "copy", v |-> 2], B(11, "sub", 10, 3, W4)>>,
      term |-> [k |-> "ret"]] >>]
Cmps == {"lt", "le", "gt", "ge", "eq", "ne"}
MCFunctions ==
  {LoopFn(ty, s, 1, l, c, TRUE, u, "mul") :
      ty \in {S3, U3}, s \in {0, 2}, l \in {3, 9}, c \in {"lt", "le", "gt", "ne"}, u \in {"add", "sub"}}
    \cup {OpFn(op, c) : op \in {"div", "mod", "and", "or", "xor", "shr"}, c \in {"lt", "le", "gt"}}
    \cup {IfFn(ty, c1, c2, op) : ty \in {S3, U3}, c1 \in Cmps, c2 \in {"lt", "ge", "eq"}, op \in {"add", "sub"}}
-----------------------------------------------------------------------------
NoDeque ==
  /\ top = 0 /\ bottom = 0 /\ bufs = <<NewBuf(InitCap)>>
  /\ opc = "off" /\ ob = 0 /\ ot = 0 /\ oc = Null
  /\ spc = [w \in Thieves |-> "off"]
  /\ st = [w \in Thieves |-> 0] /\ sbuf = [w \in Thieves |-> 0] /\ sc = [w \in Thieves |-> Null]
  /\ hands = [c \in Item |-> 1]

NoScheduling == NoDeque /\ ScopeIdle /\ WaitingStart("none")
NoTasks == SupIdle /\ ActorIdle
NoData == LibIdle /\ MapStart(NoMap) /\ ArithIdle

Init ==
  \/ DequeInit /\ ScopeIdle /\ WaitingStart("none") /\ NoTasks /\ NoData
  \/ NoDeque /\ ScopeInit /\ WaitingStart("none") /\ NoTasks /\ NoData
  \/ NoDeque /\ ScopeIdle /\ (WaitingStart("gate") \/ WaitingStart("latch")) /\ NoTasks /\ NoData
  \/ NoScheduling /\ SupInit /\ ActorIdle /\ NoData
  \/ NoScheduling /\ SupIdle /\ ActorInit /\ NoData
  \/ NoScheduling /\ NoTasks /\ LibInit /\ MapStart(NoMap) /\ ArithIdle
  \/ NoScheduling /\ NoTasks /\ LibIdle /\ MapInit /\ ArithIdle
  \/ NoScheduling /\ NoTasks /\ LibIdle /\ MapStart(NoMap) /\ ArithInit

\* The values of the library are idle beside every other part.
Elsewhere == opc # "off" \/ tpc[Opener] # "off" \/ mpc # "off" \/ epc # "off" \/ calc # Idle \/ run # Idle
               \/ (\E c \in Clients : gpc[c] # "off") \/ jpc[Ender] # "off" \/ map # NoMap

Next ==
  \/ opc # "off" /\ DequeNext /\ UNCHANGED <<scope_vars, sup_vars, waiting_vars, lib_vars, map_vars, arith_vars, actor_vars>>
  \/ tpc[Opener] # "off" /\ ScopeNext /\ UNCHANGED <<deque_vars, sup_vars, waiting_vars, lib_vars, map_vars, arith_vars, actor_vars>>
  \/ SupNext /\ UNCHANGED <<deque_vars, scope_vars, waiting_vars, lib_vars, map_vars, arith_vars, actor_vars>>
  \/ WaitingNext /\ UNCHANGED <<deque_vars, scope_vars, sup_vars, lib_vars, map_vars, arith_vars, actor_vars>>
  \/ ~Elsewhere /\ LibNext /\ UNCHANGED <<deque_vars, scope_vars, sup_vars, waiting_vars, map_vars, arith_vars, actor_vars>>
  \/ MapNext /\ UNCHANGED <<deque_vars, scope_vars, sup_vars, waiting_vars, lib_vars, arith_vars, actor_vars>>
  \/ ArithNext /\ UNCHANGED <<deque_vars, scope_vars, sup_vars, waiting_vars, lib_vars, map_vars, actor_vars>>
  \/ ActorNext /\ UNCHANGED <<deque_vars, scope_vars, sup_vars, waiting_vars, lib_vars, map_vars, arith_vars>>

Spec == Init /\ [][Next]_<<deque_vars, scope_vars, sup_vars, waiting_vars, lib_vars, map_vars, arith_vars, actor_vars>>
=============================================================================
