------------------------------ MODULE Library ------------------------------
(* A program that uses the built-in values: variables (`slots`) that own     *)
(* what they hold, the heap behind them, and beside every variable what the  *)
(* program means it to contain (`want`).  Every action is one operation of   *)
(* the generated code; its result goes to an empty variable.  A second part  *)
(* is the laws of the text operations on chosen strings.                     *)
EXTENDS Values

-----------------------------------------------------------------------------
(* The program                                                             *)

CONSTANTS Slots,        \* the program's variables
          Texts,        \* byte sequences the program puts into strings
          Samples,      \* [h, vs]: values to start from and the heap they are built on
          MaxOps,       \* bound on the operations on values of one behaviour
          MaxLen,       \* bound on the length of a vector and of a string
          TextCases     \* triples of byte sequences for the laws

VARIABLES heap, slots, want,
          lost,         \* buffers of elements that set, clear or join let go
          ops,          \* operations on values so far
          text          \* a case of the text laws, or <<>>

value_vars == <<heap, slots, want, lost, ops>>
lib_vars   == <<heap, slots, want, lost, ops, text>>

Nothing == [k |-> "nothing"]
\* the variable a result goes to: the first empty one
Target  == {x \in Slots : slots[x] = Nothing /\ \A y \in Slots : slots[y] = Nothing => x <= y}
Vecs    == {x \in Slots : slots[x].k = "vec"}
\* vectors of strings, which the operations below work on
StrVecs == {x \in Vecs : \A i \in 1..slots[x].len : slots[x].data[i].k = "str"}
Strs    == {x \in Slots : slots[x].k = "str"}

Op == ops < MaxOps /\ ops' = ops + 1
Rest == UNCHANGED text

\* a result in an empty variable
Result(x, r, c) ==
  /\ slots[x] = Nothing
  /\ heap' = r.h
  /\ slots' = [slots EXCEPT ![x] = r.v]
  /\ want' = [want EXCEPT ![x] = c]
  /\ UNCHANGED lost /\ Op /\ Rest

\* a variable changed in place
Changed(x, h, v, c) ==
  /\ heap' = h
  /\ slots' = [slots EXCEPT ![x] = v]
  /\ want' = [want EXCEPT ![x] = c]
  /\ Op /\ Rest
-----------------------------------------------------------------------------
Clone(x, y) ==
  /\ slots[x] # Nothing /\ is_value_clonable(slots[x])
  /\ Result(y, clone_value(heap, slots[x]), want[x])

\* a variable that goes out of scope
Drop(x) ==
  /\ slots[x] # Nothing
  /\ heap' = drop_value(heap, slots[x])
  /\ slots' = [slots EXCEPT ![x] = Nothing]
  /\ want' = [want EXCEPT ![x] = <<>>]
  /\ UNCHANGED lost /\ Op /\ Rest

NewStr(x, s) == Result(x, Built(heap, s), s)
NewVec(x) == Result(x, vec_alloc_empty(heap), <<>>)

Push(x, s) ==
  LET e == Built(heap, s)
      r == vec_push_raw_with_floor(e.h, slots[x], e.v)
  IN  /\ x \in StrVecs /\ slots[x].len < MaxLen
      /\ Changed(x, r.h, r.v, Append(want[x], s)) /\ UNCHANGED lost

\* an element moves out into a variable
MoveOut(x, y, r, c) ==
  /\ slots[y] = Nothing
  /\ slots' = [slots EXCEPT ![x] = r.v, ![y] = r.e]
  /\ want' = [want EXCEPT ![x] = c.rest, ![y] = c.e]
  /\ UNCHANGED <<heap, lost>> /\ Op /\ Rest
Pop(x, y) ==
  /\ x \in StrVecs /\ slots[x].len > 0
  /\ MoveOut(x, y, vec_pop(slots[x]), [rest |-> Front(want[x]), e |-> Last(want[x])])
RemoveVal(x, y, i) ==
  /\ x \in StrVecs /\ InBounds(slots[x], i)
  /\ MoveOut(x, y, vec_remove_val(slots[x], i), [rest |-> RemoveAt(want[x], i + 1), e |-> want[x][i + 1]])

Get(x, y, i) ==
  /\ x \in StrVecs /\ InBounds(slots[x], i)
  /\ Result(y, vec_get_idx_borrow(heap, slots[x], i), want[x][i + 1])

Set(x, i, s) ==
  LET e == Built(heap, s)
  IN  /\ x \in StrVecs /\ InBounds(slots[x], i)
      /\ lost' = lost \cup OwnedBy(slots[x].data[i + 1])
      /\ Changed(x, e.h, vec_set_val(slots[x], i, e.v), [want[x] EXCEPT ![i + 1] = s])
Clear(x) ==
  /\ x \in StrVecs
  /\ lost' = lost \cup UNION {OwnedBy(slots[x].data[i]) : i \in 1..slots[x].len}
  /\ Changed(x, heap, vec_clear(slots[x]), <<>>)
-----------------------------------------------------------------------------
\* operations that answer a new vector of copies
Longs(v) == {e \in ToSet(Elems(v)) : Len(e.bytes) >= SsoLimit}
Transform(x, y, op) ==
  LET v == slots[x]
      w == want[x]
  IN  /\ x \in StrVecs
      /\ CASE op = "map"     -> Result(y, vec_map_dynamic(heap, v), w)
           [] op = "filter"  -> Result(y, vec_filter_dynamic(heap, v, Longs(v)), SelectSeq(w, LAMBDA s : Len(s) >= SsoLimit))
           [] op = "reverse" -> Result(y, vec_reverse(heap, v), Reverse(w))
           [] op = "take"    -> Result(y, vec_take_skip_v(heap, v, 1, TRUE), SubSeq(w, 1, IF w = <<>> THEN 0 ELSE 1))
           [] op = "skip"    -> Result(y, vec_take_skip_v(heap, v, 1, FALSE), SubSeq(w, 2, Len(w)))
           [] op = "slice"   -> Result(y, vec_slice_v(heap, v, 0, 2), SubSeq(w, 1, IF Len(w) < 2 THEN Len(w) ELSE 2))
           [] op = "enumerate" -> Result(y, vec_enumerate_v(heap, v), [i \in DOMAIN w |-> <<<<i - 1>>, w[i]>>])
           [] op = "find" -> Result(y, vec_find_dynamic(heap, v, Longs(v)),
                               LET long == SelectSeq(w, LAMBDA s : Len(s) >= SsoLimit)
                               IN  IF long = <<>> THEN <<>> ELSE long[1])
Transforms == {"map", "filter", "reverse", "take", "skip", "slice", "enumerate", "find"}

\* a vector of vectors of strings, and a vector of numbers
Flatten(x, y) ==
  /\ x \in Vecs /\ slots[x].len > 0 /\ \A i \in 1..slots[x].len : slots[x].data[i].k = "vec"
  /\ Result(y, vec_flatten_v(heap, Elems(slots[x])), FlattenSeq(want[x]))
SortVec(x, y) ==
  LET w == [i \in DOMAIN want[x] |-> want[x][i][1]]
  IN  /\ x \in Vecs /\ slots[x].len > 0 /\ \A i \in 1..slots[x].len : slots[x].data[i].k = "int"
      /\ LET s == SortSeq(w, <) IN Result(y, vec_sort(heap, slots[x]), [i \in DOMAIN s |-> <<s[i]>>])

Chain(x, z, y) ==
  /\ {x, z} \subseteq StrVecs /\ slots[x].len + slots[z].len <= MaxLen
  /\ Result(y, vec_chain_v(heap, slots[x], slots[z]), want[x] \o want[z])
ZipWith(x, z, y) ==
  LET n == IF Len(want[x]) < Len(want[z]) THEN Len(want[x]) ELSE Len(want[z])
  IN  /\ {x, z} \subseteq StrVecs
      /\ Result(y, vec_zip_v(heap, slots[x], slots[z]), [i \in 1..n |-> <<want[x][i], want[z][i]>>])

\* Join of two or more elements; with exactly one the code answers the
\* element itself, and two variables would own it.
RECURSIVE JoinOf(_, _)
JoinOf(ss, sep) ==
  IF ss = <<>> THEN <<>> ELSE IF Len(ss) = 1 THEN ss[1] ELSE ss[1] \o sep \o JoinOf(Tail(ss), sep)
Join(x, y) ==
  LET r == vec_join_v(heap, slots[x], Str(<<>>, Inline))
  IN  /\ x \in StrVecs /\ slots[x].len # 1
      /\ slots[y] = Nothing
      /\ heap' = r.h
      /\ slots' = [slots EXCEPT ![y] = r.v]
      /\ want' = [want EXCEPT ![y] = JoinOf(want[x], <<>>)]
      /\ lost' = lost \cup ((r.h.live \ heap.live) \ OwnedBy(r.v))
      /\ Op /\ Rest
-----------------------------------------------------------------------------
Concat(x, z, y) ==
  /\ {x, z} \subseteq Strs /\ Len(want[x]) + Len(want[z]) <= MaxLen
  /\ Result(y, string_concat(heap, slots[x], slots[z]), want[x] \o want[z])
Slice(x, y, si, ei) ==
  /\ x \in Strs /\ si >= 0 /\ SliceOk(slots[x], si, ei)
  /\ Result(y, string_slice(heap, slots[x], si, ei), SubSeq(want[x], si + 1, ei))
Upper(x, y) ==
  /\ x \in Strs
  /\ Result(y, string_case(heap, slots[x], TRUE), [i \in DOMAIN want[x] |-> CaseOf(want[x][i], TRUE)])
Repeat(x, y) ==
  /\ x \in Strs /\ 2 * Len(want[x]) <= MaxLen
  /\ Result(y, string_repeat(heap, slots[x], 2), want[x] \o want[x])
Split(x, z, y) ==
  /\ {x, z} \subseteq Strs /\ want[z] # <<>>
  /\ LET r == string_split(heap, slots[x], slots[z]) IN Result(y, r, Content(r.v))
-----------------------------------------------------------------------------
ValueStep ==
  /\ text = <<>>
  /\ \/ \E x \in Slots : Drop(x) \/ Clear(x) \/ (\E s \in Texts : Push(x, s))
     \/ \E y \in Target : NewVec(y) \/ (\E s \in Texts : NewStr(y, s))
     \/ \E x \in Slots, y \in Target : \/ Clone(x, y) \/ Pop(x, y) \/ Join(x, y) \/ Upper(x, y) \/ Repeat(x, y)
                            \/ Flatten(x, y) \/ SortVec(x, y)
                            \/ \E i \in 0..MaxLen : RemoveVal(x, y, i) \/ Get(x, y, i)
                            \/ \E op \in Transforms : Transform(x, y, op)
                            \/ \E si \in 0..1, ei \in 1..2 : Slice(x, y, si, ei)
     \/ \E x \in Slots, i \in 0..MaxLen, s \in Texts : Set(x, i, s)
     \/ \E x, z \in Slots, y \in Target : Chain(x, z, y) \/ ZipWith(x, z, y) \/ Concat(x, z, y) \/ Split(x, z, y)

NoValues == /\ heap = EmptyHeap /\ lost = {} /\ ops = 0
            /\ slots = [x \in Slots |-> Nothing] /\ want = [x \in Slots |-> <<>>]
LibIdle == NoValues /\ text = <<>>
\* A sample stands for the operations that have built it.
SampleOps == 2
LibInit ==
  \/ LibIdle
  \/ /\ text = <<>> /\ lost = {} /\ ops = SampleOps
     /\ \E s \in Samples :
          /\ heap = s.h
          /\ slots = [x \in Slots |-> IF x \in DOMAIN s.vs THEN s.vs[x] ELSE Nothing]
          /\ want = [x \in Slots |-> IF x \in DOMAIN s.vs THEN Content(s.vs[x]) ELSE <<>>]
  \/ NoValues /\ text \in TextCases

LibNext == ValueStep
-----------------------------------------------------------------------------
Owned == [x \in Slots |-> IF slots[x] = Nothing THEN {} ELSE OwnedBy(slots[x])]

SlotsKept ==
  \A x \in Slots : slots[x] # Nothing =>
    /\ Content(slots[x]) = want[x]
    /\ slots[x].k = "vec" => slots[x].len <= slots[x].cap
    /\ x \in StrVecs =>
         /\ \A s \in Texts : vec_contains_v(slots[x], compile_str_literal(s)) <=> s \in ToSet(want[x])
         /\ vec_any_all_dynamic(slots[x], Longs(slots[x]), TRUE)
              <=> ~vec_any_all_dynamic(slots[x], ToSet(Elems(slots[x])) \ Longs(slots[x]), FALSE)
         /\ vec_sum(slots[x], [e \in ToSet(Elems(slots[x])) |-> Len(e.bytes)]) = Len(FlattenSeq(want[x]))
         /\ vec_fold_dynamic(slots[x], <<>>) = FlattenSeq(want[x])

TextLaws ==
  text # <<>> =>
    LET s == Str(text[1], Static)
        p == Str(text[2], Static)
        r == Str(text[3], Static)
        h == EmptyHeap
        pieces == Content(string_split(h, s, p).v)
        t == string_trim(h, s, TRUE, TRUE).v
        n == string_find(s, p)
    IN  /\ p.bytes # <<>> =>
             /\ JoinOf(pieces, p.bytes) = s.bytes
             /\ \A i \in DOMAIN pieces : ~string_contains(Str(pieces[i], Static), p)
             /\ string_replace(h, s, p, r).v.bytes = JoinOf(pieces, r.bytes)
        /\ n # -1 => MatchAt(s.bytes, n, p.bytes)
        /\ \A i \in 0..(Len(s.bytes) - Len(p.bytes)) : MatchAt(s.bytes, i, p.bytes) => n # -1 /\ n <= i
        /\ string_scalar_count(s) + Cardinality({i \in DOMAIN s.bytes : s.bytes[i] \in 128..191}) = Len(s.bytes)
        /\ \A i \in -1..Len(s.bytes) : string_char_at(s, i).ok <=> i \in 0..(Len(s.bytes) - 1)
        /\ string_affix_match(s, p, FALSE) <=> n = 0
        /\ string_affix_match(s, p, TRUE) <=> (IsSuffix(p.bytes, s.bytes))
        /\ t.bytes # <<>> => ~is_whitespace(t.bytes[1]) /\ ~is_whitespace(Last(t.bytes))
        /\ \E i \in 0..Len(s.bytes) :
             /\ SubSeq(s.bytes, i + 1, i + Len(t.bytes)) = t.bytes
             /\ \A j \in DOMAIN s.bytes : (j <= i \/ j > i + Len(t.bytes)) => is_whitespace(s.bytes[j])

\* Every variable still contains what the program put there, whatever has been
\* done to the variables it was copied from or into: the growth of a vector,
\* the shift of a removal and the copies of the transformations included
\* (SlotsKept).  The loops of find, split, replace and trim agree with each
\* other: the pieces of a split contain no separator and joined give the string
\* back, replace is split and join, trim removes white space at the ends only
\* (TextLaws).
ContentKept == SlotsKept /\ TextLaws

\* No buffer is answered for twice or freed twice, what is owned is live, and
\* what is live is owned -- except the elements that set, clear and join let go.
OneOwner ==
  /\ ~heap.bad
  /\ \A x, y \in Slots : x # y => Owned[x] \cap Owned[y] = {}
  /\ UNION {Owned[x] : x \in Slots} \subseteq heap.live
  /\ heap.live \ UNION {Owned[x] : x \in Slots} \subseteq lost
  /\ heap.refs >= 0
=============================================================================
